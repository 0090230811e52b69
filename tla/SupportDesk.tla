---------------------------- MODULE SupportDesk ----------------------------
(***************************************************************************)
(* The API process and the worker on one database: Tickets and Processing  *)
(* side by side.  They share the tickets table (stored), which both see    *)
(* grow in one step when create_ticket commits, and the audit log: the     *)
(* worker's transaction appends a PROCESSED event to the same log that     *)
(* PATCH requests append to, with the time at which it began as its        *)
(* created_at.  The worker reads a ticket and never writes one.            *)
(***************************************************************************)
EXTENDS Naturals, Sequences, SequencesExt, FiniteSets

CONSTANTS TicketIds, Tickets, SeedTickets, UserIds, Users, Agents, Requests,
          Calls, PoolSize,
          Messages, Content, Subject, Unknown, Garbage, Malformed, Workers,
          Errors, MaxReceives, BatchSize, MaxOutages,
          None

VARIABLES stored,
          \* of Tickets; api_pc is its pc
          status, agent_id, events, rowLock, clock, api_pc, call, txn, answer,
          \* of Processing; worker_pc is its pc
          publishing, result, processed, place, receives, tries, worker_pc,
          batch, current, loaded, stopping, outages,
          \* when the transaction of each worker has begun
          began

Api == INSTANCE Tickets WITH pc <- api_pc
Pipeline == INSTANCE Processing WITH pc <- worker_pc

(* Both start from one database: an empty one.                             *)
ASSUME DeskAssumption ==
    /\ Api!TicketsAssumption
    /\ Pipeline!ProcessingAssumption
    /\ SeedTickets = {}

session == <<status, agent_id, rowLock, api_pc, call, txn, answer>>
pipeline == <<publishing, result, processed, place, receives, tries,
              worker_pc, batch, current, loaded, stopping, outages>>
vars == <<stored, events, clock, session, pipeline, began>>

-----------------------------------------------------------------------------
Init ==
    /\ Api!Init
    /\ Pipeline!Init
    /\ began = [w \in Workers |-> 0]

(* create_ticket: the ticket, its CREATED event and its PENDING result are *)
(* committed together, and the request goes on to publish.                 *)
CreateTicket(t) ==
    /\ Api!CreateTicket(t)
    /\ Pipeline!CommitTicket(t)
    /\ UNCHANGED began

(* What the handlers of PATCH requests do.                                 *)
Serve(r) ==
    /\ Api!Accept(r) \/ Api!Proceed(r) \/ Api!LoseAnswer(r) \/ Api!Abort(r)
    /\ UNCHANGED <<pipeline, began>>

(* process begins its transaction.                                         *)
BeginProcess(w) ==
    /\ Pipeline!Load(w)
    /\ clock' = clock + 1
    /\ began' = [began EXCEPT ![w] = clock + 1]
    /\ UNCHANGED <<session, events>>

ProcessedEvent(w) ==
    [type |-> "PROCESSED", from |-> None, to |-> None,
     at |-> began[w], by |-> None, read |-> 0]

(* Wrong on purpose: the event is recorded after the commit, by a worker   *)
(* that knows of it.                                                       *)
EndProcess_RecordsAfter(w) ==
    /\ \/ /\ Pipeline!SaveCompleted(w)
          /\ events' = [events EXCEPT ![Pipeline!SubjectOf(w)] =
                           Append(@, ProcessedEvent(w))]
       \/ /\ Pipeline!SaveUnacknowledged(w)
          /\ UNCHANGED events
    /\ UNCHANGED <<session, clock, began>>

(* It commits the result and the PROCESSED event.                          *)
EndProcess(w) ==
    /\ Pipeline!SaveCompleted(w) \/ Pipeline!SaveUnacknowledged(w)
    /\ events' = [events EXCEPT ![Pipeline!SubjectOf(w)] =
                     Append(@, ProcessedEvent(w))]
    /\ UNCHANGED <<session, clock, began>>

(* Everything else a worker does or suffers.                               *)
Consume(w) ==
    /\ \/ Pipeline!Poll(w) \/ Pipeline!Receive(w) \/ Pipeline!ReceiveFails(w)
       \/ Pipeline!Take(w) \/ Pipeline!Choke(w) \/ Pipeline!ProcessFails(w)
       \/ Pipeline!LoadForFailure(w) \/ Pipeline!SaveFailed(w)
       \/ Pipeline!RecordFails(w)
       \/ Pipeline!Delete(w) \/ Pipeline!DeleteFails(w)
       \/ Pipeline!Stop(w) \/ Pipeline!Disturb(w)
    /\ UNCHANGED <<session, events, clock, began>>

(* Messages on their way.                                                  *)
Deliver ==
    /\ \/ \E t \in Tickets : Pipeline!EndPublish(t)
       \/ \E m \in Messages : Pipeline!Publish(m) \/ Pipeline!SendForeign(m)
                              \/ Pipeline!Expire(m) \/ Pipeline!Vanish(m)
    /\ UNCHANGED <<session, events, clock, began>>

Next ==
    \/ \E t \in Tickets : CreateTicket(t)
    \/ \E r \in Requests : Serve(r)
    \/ \E w \in Workers : BeginProcess(w) \/ EndProcess(w) \/ Consume(w)
    \/ Deliver

Spec == Init /\ [][Next]_vars

-----------------------------------------------------------------------------
(* The step adds one event about the ticket, of this type and naming this  *)
(* new value.                                                              *)
Recorded(t, type, to) ==
    /\ Len(events'[t]) = Len(events[t]) + 1
    /\ Last(events'[t]).type = type
    /\ Last(events'[t]).to = to

(* README.md:78: the log is append-only, and every change of a ticket is   *)
(* in it.  Whoever makes it, a new ticket, a new status, another agent or  *)
(* another computed result comes in one step with one more event, whose    *)
(* type and new value say which change it was, and no event is ever        *)
(* changed.  The status and the error text of a result are not in the log: *)
(* a failed attempt leaves no event.  Nor does every event stand for a     *)
(* change: a repeated assignment or run leaves one as well.                *)
EveryChangeIsRecorded ==
    [][\A t \in Tickets :
          /\ IsPrefix(events[t], events'[t])
          /\ t \in stored' \ stored => Recorded(t, "CREATED", status'[t])
          /\ t \in stored /\ status'[t] # status[t] =>
                Recorded(t, "STATUS_CHANGED", status'[t])
          /\ t \in stored /\ agent_id'[t] # agent_id[t] =>
                Recorded(t, IF agent_id'[t] = None THEN "UNASSIGNED"
                                                   ELSE "ASSIGNED",
                         agent_id'[t])
          /\ result'[t].computed # result[t].computed =>
                Recorded(t, "PROCESSED", None)]_vars

(* A result is there exactly when the log has a PROCESSED event, and every *)
(* such event is younger than the ticket: its CREATED event comes first in *)
(* the log, also when the log is read by created_at.                       *)
ResultIsLogged ==
    \A t \in Tickets :
        LET runs == {i \in DOMAIN events[t] : events[t][i].type = "PROCESSED"}
        IN  /\ result[t].computed # None <=> runs # {}
            /\ \A i \in DOMAIN events[t] \ {1} :
                  t \notin SeedTickets => events[t][i].at > events[t][1].at

(* With a worker beside it, the ticket service keeps the promise of        *)
(* TicketLog: an entry of the worker leaves status and agent alone.        *)
ImplementsLog == Api!ImplementsLog

=============================================================================
