----------------------------- MODULE Processing -----------------------------
(***************************************************************************)
(* Asynchronous processing of new tickets: create_ticket commits a ticket  *)
(* and publishes ticket.created to an SQS queue; workers (app/worker.py)   *)
(* receive batches of messages, run TicketProcessingService.process on     *)
(* each, and delete a message once its ticket is processed.  A message     *)
(* that is not deleted becomes visible again after the visibility timeout, *)
(* and goes to the dead-letter queue when it has been received often       *)
(* enough.                                                                 *)
(*                                                                         *)
(* A worker's transaction reads the result row, and its flush writes the   *)
(* columns that differ from what it read.  The row's lock is held from the *)
(* flush to the commit and nothing of it is visible before, so the flush   *)
(* and the commit are one step here; the read is another, and a second     *)
(* worker may commit in between.                                           *)
(***************************************************************************)
EXTENDS Naturals, FiniteSets, TicketEnums, Triage

CONSTANTS
    Tickets,     \* the tickets that clients create
    Messages,    \* the messages that can be sent, each at most once
    Content,     \* the text and category of each ticket, which never change
    Subject,     \* the ticket a message names, or one of the next three
    Unknown,     \* a ticket id that belongs to no ticket
    Garbage,     \* a body that is no JSON, or another event
    Malformed,   \* the right event with an id that is no UUID, or no object
    Workers,     \* the worker processes
    Errors,      \* the texts of exceptions
    None,        \* Python's None, SQL's NULL
    MaxReceives, \* maxReceiveCount of the queue's redrive policy
    BatchSize,   \* worker_max_messages
    MaxOutages   \* how often workers die or are asked to stop (a bound)

ASSUME ProcessingAssumption ==
    /\ Content \in [Tickets -> Text]
    /\ Subject \in [Messages -> Tickets \cup {Unknown, Garbage, Malformed}]
    /\ Tickets \cap {Unknown, Garbage, Malformed} = {}
    /\ Unknown # Garbage /\ Unknown # Malformed /\ Garbage # Malformed
    /\ None \notin Errors /\ None \notin Messages
    /\ \A t \in Tickets : Triaged(Content[t]) # None
    /\ MaxReceives \in Nat \ {0}
    /\ BatchSize \in Nat \ {0}
    /\ MaxOutages \in Nat

VARIABLES
    stored,     \* the tickets whose creation has committed
    publishing, \* those whose request is between its commit and its answer
    result,     \* the committed rows of ticket_processing_results
    processed,  \* per ticket, the number of committed PROCESSED events
    place,      \* where each message is
    receives,   \* how often the queue has handed each message out
    tries,      \* history: how often a worker began to handle each message
    pc,         \* where each worker is
    batch,      \* the messages a worker has received and not looked at yet
    current,    \* the message it is handling
    loaded,     \* the result row its session has read
    stopping,   \* the workers that have been asked to stop
    outages     \* how many deaths and requests to stop there were

database == <<stored, result, processed>>
queue == <<place, receives>>
worker == <<pc, batch, current, loaded>>
vars == <<database, publishing, queue, tries, worker, stopping, outages>>

-----------------------------------------------------------------------------
(* Types.                                                                  *)

(* What processing computes about each ticket.                             *)
Expected == [t \in Tickets |-> Triaged(Content[t])]

(* The columns of a result row.  computed stands for the five columns that *)
(* the processing computes, which are written together.                    *)
Row == [status : ProcessingStatus, error : Errors \cup {None},
        computed : {None} \cup {Expected[t] : t \in Tickets}]

Pending == [status |-> "PENDING", error |-> None, computed |-> None]

(* A receipt is what ReceiveMessage returns of a message: the queue issues *)
(* another handle each time, told apart here by the receive count.         *)
Receipt == [message : Messages, count : 1 .. MaxReceives]
NoReceipt == [message |-> None, count |-> 0]

Location == {"unsent", "visible", "inflight", "deleted", "dead", "lost"}

WorkerPlace == {"idle", "polling", "batch", "process", "write", "failed",
                "record", "delete", "stopped", "crashed"}

-----------------------------------------------------------------------------
(* Helpers.                                                                *)

SubjectOf(w) == Subject[current[w].message]

GoTo(w, there) == pc' = [pc EXCEPT ![w] = there]

(* The row after an UPDATE of the columns in which new differs from what   *)
(* the session has read.                                                   *)
Written(old, read, new) ==
    [c \in DOMAIN new |-> IF new[c] # read[c] THEN new[c] ELSE old[c]]

(* The messages of a ticket that are with the queue or in the dead-letter  *)
(* queue.                                                                  *)
Pursued(t) ==
    {m \in Messages : /\ Subject[m] = t
                      /\ place[m] \in {"visible", "inflight", "dead"}}

(* Those that the queue has forgotten after a worker had tried them.       *)
Forgotten(t) ==
    {m \in Messages : Subject[m] = t /\ place[m] = "lost" /\ tries[m] > 0}

-----------------------------------------------------------------------------
Init ==
    /\ stored = {}
    /\ publishing = {}
    /\ result = [t \in Tickets |-> Pending]
    /\ processed = [t \in Tickets |-> 0]
    /\ place = [m \in Messages |-> "unsent"]
    /\ receives = [m \in Messages |-> 0]
    /\ tries = [m \in Messages |-> 0]
    /\ pc = [w \in Workers |-> "idle"]
    /\ batch = [w \in Workers |-> {}]
    /\ current = [w \in Workers |-> NoReceipt]
    /\ loaded = [w \in Workers |-> Pending]
    /\ stopping = {}
    /\ outages = 0

-----------------------------------------------------------------------------
(* The API process and other senders.                                      *)

(* Wrong on purpose: the message may be sent before the commit.            *)
CommitTicket_AfterPublish(t) ==
    /\ t \notin stored
    /\ \/ /\ t \notin publishing
          /\ publishing' = publishing \cup {t}
          /\ UNCHANGED stored
       \/ /\ t \in publishing
          /\ stored' = stored \cup {t}
          /\ publishing' = publishing \ {t}
    /\ UNCHANGED <<result, processed, queue, tries, worker, stopping, outages>>

(* create_ticket up to its commit: the ticket, its CREATED event and its   *)
(* PENDING result row appear together, then the request goes on to publish.*)
CommitTicket(t) ==
    /\ t \notin stored
    /\ stored' = stored \cup {t}
    /\ result' = [result EXCEPT ![t] = Pending]
    /\ publishing' = publishing \cup {t}
    /\ UNCHANGED <<processed, queue, tries, worker, stopping, outages>>

(* publish_created: send_message reaches the queue.  The client library    *)
(* may send again when it sees no response, and an answer that is lost     *)
(* ends as an exception though the message is in the queue.                *)
Publish(m) ==
    /\ Subject[m] \in publishing
    /\ place[m] = "unsent"
    /\ place' = [place EXCEPT ![m] = "visible"]
    /\ UNCHANGED <<database, publishing, receives, tries, worker, stopping,
                   outages>>

(* The request goes on: the message was sent, or the exception is logged   *)
(* and the ticket is answered as if it had been, or the process has died.  *)
EndPublish(t) ==
    /\ t \in publishing
    /\ publishing' = publishing \ {t}
    /\ UNCHANGED <<database, queue, tries, worker, stopping, outages>>

(* Something else than this API puts a message in the queue.               *)
SendForeign(m) ==
    /\ Subject[m] \notin Tickets
    /\ place[m] = "unsent"
    /\ place' = [place EXCEPT ![m] = "visible"]
    /\ UNCHANGED <<database, publishing, receives, tries, worker, stopping,
                   outages>>

-----------------------------------------------------------------------------
(* The queue.                                                              *)

(* The visibility timeout of a message passes.  No worker extends it, and  *)
(* it runs for every message of a batch from the moment of the receive.    *)
Expire(m) ==
    /\ place[m] = "inflight"
    /\ place' = [place EXCEPT ![m] = "visible"]
    /\ UNCHANGED <<database, publishing, receives, tries, worker, stopping,
                   outages>>

(* The queue forgets a message: its retention period has passed, or        *)
(* LocalStack, which keeps nothing (PERSISTENCE=0), was started again.     *)
Vanish(m) ==
    /\ place[m] \in {"visible", "inflight", "dead"}
    /\ place' = [place EXCEPT ![m] = "lost"]
    /\ UNCHANGED <<database, publishing, receives, tries, worker, stopping,
                   outages>>

-----------------------------------------------------------------------------
(* The worker's loop.                                                      *)

(* The head of the loop, with no stop requested: receive_message is called.*)
Poll(w) ==
    /\ pc[w] = "idle"
    /\ w \notin stopping
    /\ GoTo(w, "polling")
    /\ UNCHANGED <<database, publishing, queue, tries, batch, current, loaded,
                   stopping, outages>>

(* Wrong on purpose: a message is handed out once more than the policy     *)
(* says.                                                                   *)
Spent_OffByOne(m) == receives[m] > MaxReceives

(* The redrive policy applies to a message received this often.            *)
Spent(m) == receives[m] >= MaxReceives

(* Wrong on purpose: receives are not counted.                             *)
Receive_Uncounted(w) ==
    /\ pc[w] = "polling"
    /\ \E S \in SUBSET {m \in Messages : place[m] = "visible"} :
          /\ Cardinality(S) <= BatchSize
          /\ place' = [m \in Messages |-> IF m \in S THEN "inflight"
                                                     ELSE place[m]]
          /\ batch' = [batch EXCEPT ![w] = {[message |-> m, count |-> 1] : m \in S}]
          /\ GoTo(w, IF S = {} THEN "idle" ELSE "batch")
    /\ UNCHANGED <<database, publishing, receives, tries, current, loaded,
                   stopping, outages>>

(* Of some messages, those that the policy lets through.                   *)
Due(S) == {m \in S : ~ Spent(m)}

(* What a ReceiveMessage does in the queue to some of the visible messages:*)
(* those that were received too often go to the dead-letter queue, and the *)
(* others, as many as the call asks for, are handed out.                   *)
HandOut(S) ==
    /\ Cardinality(Due(S)) <= BatchSize
    /\ place' = [m \in Messages |-> IF m \notin S THEN place[m]
                                    ELSE IF Spent(m) THEN "dead"
                                    ELSE "inflight"]
    /\ receives' = [m \in Messages |->
                       IF m \in Due(S) THEN receives[m] + 1 ELSE receives[m]]

(* The call returns with what the queue has handed out, if anything.       *)
Receive(w) ==
    /\ pc[w] = "polling"
    /\ \E S \in SUBSET {m \in Messages : place[m] = "visible"} :
          /\ HandOut(S)
          /\ batch' = [batch EXCEPT ![w] =
                {[message |-> m, count |-> receives[m] + 1] : m \in Due(S)}]
          /\ GoTo(w, IF Due(S) = {} THEN "idle" ELSE "batch")
    /\ UNCHANGED <<database, publishing, tries, current, loaded, stopping,
                   outages>>

(* receive_message raises, whatever it raises: log, sleep, and try again.  *)
(* If only the response was lost, what the queue has handed out is counted *)
(* and in flight, and nobody has it.                                       *)
ReceiveFails(w) ==
    /\ pc[w] = "polling"
    /\ \E S \in SUBSET {m \in Messages : place[m] = "visible"} : HandOut(S)
    /\ GoTo(w, "idle")
    /\ UNCHANGED <<database, publishing, tries, batch, current, loaded,
                   stopping, outages>>

(* Wrong on purpose: a stop abandons the rest of the batch.                *)
Take_UnlessStopping(w) ==
    /\ pc[w] = "batch"
    /\ \E r \in batch[w] :
          /\ Subject[r.message] # Malformed
          /\ batch' = [batch EXCEPT ![w] = @ \ {r}]
          /\ current' = [current EXCEPT ![w] = r]
          /\ tries' = [tries EXCEPT ![r.message] = @ + 1]
          /\ GoTo(w, IF w \in stopping THEN "stopped"
                     ELSE IF Subject[r.message] = Garbage THEN "delete"
                     ELSE "process")
    /\ UNCHANGED <<database, publishing, queue, loaded, stopping, outages>>

(* _handle_message begins with the next message of the batch, in whatever  *)
(* order the queue listed them.  Garbage is deleted unprocessed.           *)
Take(w) ==
    /\ pc[w] = "batch"
    /\ \E r \in batch[w] :
          /\ Subject[r.message] # Malformed
          /\ batch' = [batch EXCEPT ![w] = @ \ {r}]
          /\ current' = [current EXCEPT ![w] = r]
          /\ tries' = [tries EXCEPT ![r.message] = @ + 1]
          /\ GoTo(w, IF Subject[r.message] = Garbage THEN "delete"
                                                     ELSE "process")
    /\ UNCHANGED <<database, publishing, queue, loaded, stopping, outages>>

(* The process ends.  Nothing of the worker's memory outlives it, and its  *)
(* open transaction is rolled back; what it received stays in flight.      *)
End(w) ==
    /\ GoTo(w, "crashed")
    /\ batch' = [batch EXCEPT ![w] = {}]
    /\ current' = [current EXCEPT ![w] = NoReceipt]
    /\ loaded' = [loaded EXCEPT ![w] = Pending]
    /\ stopping' = stopping \ {w}

(* The next message is malformed: body.get or UUID raises outside of any   *)
(* try, and the exception leaves run() and ends the process.               *)
Choke(w) ==
    /\ pc[w] = "batch"
    /\ \E r \in batch[w] :
          /\ Subject[r.message] = Malformed
          /\ tries' = [tries EXCEPT ![r.message] = @ + 1]
    /\ End(w)
    /\ UNCHANGED <<database, publishing, queue, outages>>

(* The handler is done: on to the next message, or to the loop's head.     *)
Return(w) ==
    /\ GoTo(w, IF batch[w] = {} THEN "idle" ELSE "batch")
    /\ current' = [current EXCEPT ![w] = NoReceipt]
    /\ loaded' = [loaded EXCEPT ![w] = Pending]
    /\ UNCHANGED batch

-----------------------------------------------------------------------------
(* TicketProcessingService.process, in a session of its own.               *)

(* The ticket and its result row are read; no such ticket is an exception. *)
(* A stored ticket has a result row: they were inserted together.          *)
Load(w) ==
    /\ pc[w] = "process"
    /\ \/ /\ SubjectOf(w) \in stored
          /\ loaded' = [loaded EXCEPT ![w] = result[SubjectOf(w)]]
          /\ GoTo(w, "write")
       \/ /\ SubjectOf(w) \notin stored
          /\ GoTo(w, "failed")
          /\ UNCHANGED loaded
    /\ UNCHANGED <<database, publishing, queue, tries, batch, current, stopping,
                   outages>>

(* Wrong on purpose: the generator is seeded anew each time.               *)
Completed_Unseeded(w) ==
    [status |-> "COMPLETED", error |-> None,
     computed |-> [Expected[SubjectOf(w)] EXCEPT
                      !.spam_score = @ + processed[SubjectOf(w)]]]

(* The row as a worker that succeeds means it to be.                       *)
Completed(w) ==
    [status |-> "COMPLETED", error |-> None,
     computed |-> Expected[SubjectOf(w)]]

(* Wrong on purpose: the PROCESSED event is left to a second transaction.  *)
StoreCompleted_WithoutEvent(w) ==
    /\ result' = [result EXCEPT ![SubjectOf(w)] =
                     Written(@, loaded[w], Completed(w))]
    /\ UNCHANGED <<stored, processed>>

(* Wrong on purpose: error_message is not reset.                           *)
StoreCompleted_KeepsError(w) ==
    /\ result' = [result EXCEPT ![SubjectOf(w)] =
                     Written(@, loaded[w],
                             [Completed(w) EXCEPT !.error = loaded[w].error])]
    /\ processed' = [processed EXCEPT ![SubjectOf(w)] = @ + 1]
    /\ UNCHANGED stored

(* save_completed, the PROCESSED event, and the commit of both.            *)
StoreCompleted(w) ==
    /\ result' = [result EXCEPT ![SubjectOf(w)] =
                     Written(@, loaded[w], Completed(w))]
    /\ processed' = [processed EXCEPT ![SubjectOf(w)] = @ + 1]
    /\ UNCHANGED stored

SaveCompleted(w) ==
    /\ pc[w] = "write"
    /\ StoreCompleted(w)
    /\ GoTo(w, "delete")
    /\ UNCHANGED <<publishing, queue, tries, batch, current, loaded, stopping,
                   outages>>

(* The commit succeeds but its acknowledgement is lost: an exception.      *)
SaveUnacknowledged(w) ==
    /\ pc[w] = "write"
    /\ StoreCompleted(w)
    /\ GoTo(w, "failed")
    /\ UNCHANGED <<publishing, queue, tries, batch, current, loaded, stopping,
                   outages>>

(* Wrong on purpose: the exception is swallowed and the message deleted.   *)
ProcessFails_Swallowed(w) ==
    /\ pc[w] \in {"process", "write"}
    /\ GoTo(w, "delete")
    /\ UNCHANGED <<database, publishing, queue, tries, batch, current, loaded,
                   stopping, outages>>

(* A statement or the commit raises, and the session rolls back.           *)
ProcessFails(w) ==
    /\ pc[w] \in {"process", "write"}
    /\ GoTo(w, "failed")
    /\ UNCHANGED <<database, publishing, queue, tries, batch, current, loaded,
                   stopping, outages>>

-----------------------------------------------------------------------------
(* record_failure, in another session.  Whatever comes of it the message   *)
(* is left in flight.                                                      *)

LoadForFailure(w) ==
    /\ pc[w] = "failed"
    /\ SubjectOf(w) \in stored
    /\ loaded' = [loaded EXCEPT ![w] = result[SubjectOf(w)]]
    /\ GoTo(w, "record")
    /\ UNCHANGED <<database, publishing, queue, tries, batch, current, stopping,
                   outages>>

(* Wrong on purpose: the handler goes on to delete the message.            *)
SaveFailed_ThenDelete(w) ==
    /\ pc[w] = "record"
    /\ \E e \in Errors :
          result' = [result EXCEPT ![SubjectOf(w)] =
                        Written(@, loaded[w],
                                [loaded[w] EXCEPT !.status = "FAILED",
                                                  !.error = e])]
    /\ GoTo(w, "delete")
    /\ UNCHANGED <<stored, processed, publishing, queue, tries, batch, current,
                   loaded, stopping, outages>>

(* save_failed and its commit: status and error_message, nothing else.     *)
SaveFailed(w) ==
    /\ pc[w] = "record"
    /\ \E e \in Errors :
          result' = [result EXCEPT ![SubjectOf(w)] =
                        Written(@, loaded[w],
                                [loaded[w] EXCEPT !.status = "FAILED",
                                                  !.error = e])]
    /\ Return(w)
    /\ UNCHANGED <<stored, processed, publishing, queue, tries, stopping,
                   outages>>

(* record_failure raises: the database is away, or there is no ticket for  *)
(* the new row to refer to.  Logged.                                       *)
RecordFails(w) ==
    /\ pc[w] \in {"failed", "record"}
    /\ Return(w)
    /\ UNCHANGED <<database, publishing, queue, tries, stopping, outages>>

-----------------------------------------------------------------------------
(* delete_message.  With the receipt of the last receive the message goes; *)
(* with an older one it may go or stay.                                    *)

Remove(w) ==
    LET m == current[w].message IN
    \/ /\ place[m] \in {"visible", "inflight"}
       /\ place' = [place EXCEPT ![m] = "deleted"]
    \/ /\ \/ current[w].count # receives[m]
          \/ place[m] \notin {"visible", "inflight"}
       /\ UNCHANGED place

Delete(w) ==
    /\ pc[w] = "delete"
    /\ Remove(w)
    /\ Return(w)
    /\ UNCHANGED <<database, publishing, receives, tries, stopping, outages>>

-----------------------------------------------------------------------------
(* The end of a worker.                                                    *)

(* A death of the kind that MaxOutages bounds.                             *)
Die(w) ==
    /\ outages < MaxOutages
    /\ outages' = outages + 1
    /\ End(w)

(* delete_message raises and nothing catches it: the exception leaves      *)
(* run() and ends the process.  The call may have had its effect.          *)
DeleteFails(w) ==
    /\ pc[w] = "delete"
    /\ Remove(w) \/ UNCHANGED place
    /\ Die(w)
    /\ UNCHANGED <<database, publishing, receives, tries>>

(* The process is killed.                                                  *)
Crash(w) ==
    /\ pc[w] \notin {"stopped", "crashed"}
    /\ Die(w)
    /\ UNCHANGED <<database, publishing, queue, tries>>

(* SIGTERM or SIGINT: the signal handler sets the event.                   *)
RequestStop(w) ==
    /\ pc[w] \notin {"stopped", "crashed"}
    /\ w \notin stopping
    /\ outages < MaxOutages
    /\ outages' = outages + 1
    /\ stopping' = stopping \cup {w}
    /\ UNCHANGED <<database, publishing, queue, tries, worker>>

(* Wrong on purpose: the loop goes on all the same.                        *)
Stop_KeepsPolling(w) ==
    /\ pc[w] = "idle"
    /\ w \in stopping
    /\ GoTo(w, "polling")
    /\ UNCHANGED <<database, publishing, queue, tries, batch, current, loaded,
                   stopping, outages>>

(* The head of the loop, with a stop requested.                            *)
Stop(w) ==
    /\ pc[w] = "idle"
    /\ w \in stopping
    /\ GoTo(w, "stopped")
    /\ UNCHANGED <<database, publishing, queue, tries, batch, current, loaded,
                   stopping, outages>>

(* Wrong on purpose: the request to stop outlives the process.             *)
Restart_StillStopping(w) ==
    /\ pc[w] \in {"stopped", "crashed"}
    /\ GoTo(w, "idle")
    /\ UNCHANGED <<database, publishing, queue, tries, batch, current, loaded,
                   stopping, outages>>

(* Somebody starts the container again: compose has no restart policy.     *)
Restart(w) ==
    /\ pc[w] \in {"stopped", "crashed"}
    /\ GoTo(w, "idle")
    /\ stopping' = stopping \ {w}
    /\ UNCHANGED <<database, publishing, queue, tries, batch, current, loaded,
                   outages>>

-----------------------------------------------------------------------------
Create(t) == CommitTicket(t) \/ EndPublish(t)

(* What the worker does by itself.                                         *)
Work(w) ==
    \/ Poll(w) \/ Receive(w) \/ Take(w) \/ Choke(w)
    \/ Load(w) \/ SaveCompleted(w)
    \/ LoadForFailure(w) \/ SaveFailed(w) \/ RecordFails(w)
    \/ Delete(w) \/ Stop(w)

(* What can go wrong in the calls it makes.                                *)
Fault(w) ==
    ReceiveFails(w) \/ ProcessFails(w) \/ SaveUnacknowledged(w) \/ DeleteFails(w)

(* What is done to it from outside.                                        *)
Disturb(w) == Crash(w) \/ RequestStop(w) \/ Restart(w)

Undisturbed ==
    \/ \E t \in Tickets : Create(t)
    \/ \E m \in Messages : Publish(m) \/ SendForeign(m) \/ Expire(m) \/ Vanish(m)
    \/ \E w \in Workers : Work(w) \/ Fault(w)

Next == Undisturbed \/ \E w \in Workers : Disturb(w)

Spec == Init /\ [][Next]_vars

(* The worker's loop keeps running, a visibility timeout passes, and a     *)
(* long poll does not overlook a message for ever.  Nobody is obliged to   *)
(* create a ticket, and a failure need not happen.                         *)
Fairness ==
    /\ \A w \in Workers : WF_vars(Work(w))
    /\ \A m \in Messages : WF_vars(Expire(m))
    /\ \A m \in Messages : SF_vars(\E w \in Workers :
                              Receive(w) /\ place[m] = "visible"
                                         /\ place'[m] # "visible")

(* Somebody starts a worker again after it has ended.                      *)
AttendedSpec == Spec /\ Fairness /\ \A w \in Workers : WF_vars(Restart(w))

(* Nobody kills, stops or starts a worker: what happens to it is the doing *)
(* of its own code.                                                        *)
UndisturbedSpec == Init /\ [][Undisturbed]_vars /\ Fairness

-----------------------------------------------------------------------------
(* Properties that hold for any number of workers.                         *)

(* Every variable has its type: in particular no message is handed out     *)
(* more often than the redrive policy allows.                              *)
TypeOK ==
    /\ stored \in SUBSET Tickets
    /\ publishing \in SUBSET Tickets
    /\ result \in [Tickets -> Row]
    /\ processed \in [Tickets -> Nat]
    /\ place \in [Messages -> Location]
    /\ receives \in [Messages -> 0 .. MaxReceives]
    /\ tries \in [Messages -> Nat]
    /\ pc \in [Workers -> WorkerPlace]
    /\ batch \in [Workers -> SUBSET Receipt]
    /\ current \in [Workers -> Receipt \cup {NoReceipt}]
    /\ loaded \in [Workers -> Row]
    /\ stopping \in SUBSET Workers
    /\ outages \in 0 .. MaxOutages

(* README.md:79, publish after commit: a message that names a ticket of    *)
(* this API can be read only when the ticket is in the database, so that   *)
(* processing it never ends in not found.                                  *)
PublishedAfterCommit ==
    \A m \in Messages :
        place[m] # "unsent" /\ Subject[m] \in Tickets => Subject[m] \in stored

(* README.md:77: the computed columns and the PROCESSED event are written  *)
(* by one transaction.  Whatever fails or is done twice, a result is there *)
(* exactly when an event says so, and a COMPLETED row has its result.      *)
ResultMatchesEvents ==
    \A t \in Tickets :
        /\ result[t].computed # None <=> processed[t] > 0
        /\ result[t].status = "COMPLETED" => result[t].computed # None

(* A message leaves the queue only when its work is done: however workers  *)
(* fail, die or overlap, the ticket of a deleted message was processed.    *)
DeletedIsProcessed ==
    \A m \in Messages :
        place[m] = "deleted" /\ Subject[m] \in Tickets
        => processed[Subject[m]] > 0

(* At-least-once delivery is bounded: a message is handled at most as      *)
(* often as it was received, so a ticket has at most maxReceiveCount       *)
(* PROCESSED events for every copy of its message.                         *)
HandledAtMostAsReceived ==
    /\ \A m \in Messages : tries[m] <= receives[m]
    /\ \A t \in Tickets :
          processed[t] <= MaxReceives * Cardinality(
              {m \in Messages : Subject[m] = t /\ place[m] # "unsent"})

(* README.md:79 leaves tickets whose publication failed to a re-publisher  *)
(* that walks the PENDING rows.  It would find every unprocessed ticket    *)
(* that no message pursues, whether its message was never sent or was      *)
(* forgotten unread, with one exception: a ticket is FAILED, and nothing   *)
(* will come back to it, if the queue has forgotten a message of it that a *)
(* worker had tried in vain.                                               *)
AbandonedIsPending ==
    \A t \in stored \ publishing :
        processed[t] = 0 /\ Pursued(t) = {} =>
            \/ result[t].status = "PENDING"
            \/ result[t].status = "FAILED" /\ Forgotten(t) # {}

(* A requested stop is graceful: the worker first handles every message it *)
(* has received, so that none of them waits for its timeout.               *)
StopDrainsBatch ==
    \A w \in Workers :
        pc[w] = "stopped" => batch[w] = {} /\ current[w] = NoReceipt

(* With workers that are started again, every message that was sent ends   *)
(* up deleted or in the dead-letter queue, unless the queue forgets it.  A *)
(* malformed message, which ends the worker whenever it is read, does not  *)
(* keep the others from it for ever.                                       *)
EveryMessageDecided ==
    \A m \in Messages :
        place[m] = "visible" ~> place[m] \in {"deleted", "dead", "lost"}

(* A worker that was asked to stop stops, unless it dies first.            *)
StopIsHeeded ==
    \A w \in Workers : w \in stopping ~> pc[w] \in {"stopped", "crashed"}

(* Workers, the queue and the database together keep the promise of        *)
(* ProcessingPromise.                                                      *)
Fate(m) ==
    CASE place[m] = "deleted"          -> "done"
      [] place[m] \in {"dead", "lost"} -> "given_up"
      [] OTHER                         -> "open"

Promise == INSTANCE ProcessingPromise
    WITH accepted <- stored,
         runs     <- processed,
         outcome  <- [t \in Tickets |-> result[t].computed],
         fate     <- [m \in Messages |-> Fate(m)]

ImplementsPromise == Promise!Spec

(* The columns of a row fit together: a COMPLETED row has no error left    *)
(* from an earlier attempt, a FAILED one has a reason, and a PENDING one   *)
(* nothing at all.                                                         *)
Consistent(row) ==
    CASE row.status = "COMPLETED" -> row.error = None /\ row.computed # None
      [] row.status = "FAILED"    -> row.error # None
      [] row.status = "PENDING"   -> row = Pending

(* With several workers the UPDATEs of two of them can mix: a COMPLETED    *)
(* row can keep the error_message of a failure that came in between, or a  *)
(* FAILED row lack one.  Whatever a worker writes to a row that is still   *)
(* as its session has read it fits together; columns that do not are the   *)
(* work of one whose row another worker has changed since.                 *)
MixtureIsOverlap ==
    [][\A t \in Tickets :
          result'[t] # result[t] =>
              \/ Consistent(result'[t])
              \/ \E w \in Workers : /\ pc[w] \in {"write", "record"}
                                    /\ SubjectOf(w) = t
                                    /\ loaded[w] # result[t]]_vars

-----------------------------------------------------------------------------
(* Properties of the deployed system, which has one worker.                *)

(* What the console shows of a row makes sense: nobody else writes between *)
(* the read and the write of the only worker.                              *)
RowIsConsistent == \A t \in Tickets : Consistent(result[t])

(* README.md:69, worker.py:120: a failed message stays with the queue.  A  *)
(* ticket is FAILED only while a copy of its message is still in the queue *)
(* or in the dead-letter queue, or if the queue has forgotten one that was *)
(* tried.                                                                  *)
FailedIsPursued ==
    \A t \in Tickets :
        result[t].status = "FAILED" => Pursued(t) # {} \/ Forgotten(t) # {}

-----------------------------------------------------------------------------
(* Statements of the repository's documents that the code does not keep.   *)

(* README.md:69, worker.py:120: a message whose processing failed stays in *)
(* flight, is retried, and ends up deleted after a success or in the DLQ.  *)
FailuresAreRedriven ==
    \A m \in Messages :
        (/\ place[m] = "inflight"
         /\ Subject[m] \in Tickets
         /\ result[Subject[m]].status = "FAILED")
        ~> place[m] \in {"deleted", "dead", "lost"}

=============================================================================
