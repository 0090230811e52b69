-------------------------- MODULE ProcessingProofs --------------------------
(***************************************************************************)
(* Theorems about Processing, for every set of tickets and messages, any   *)
(* number of workers, copies of a message, receives, batch size and deaths.*)
(***************************************************************************)
EXTENDS Processing, TLAPS

(* A worker that handles a message, and one that has none.                 *)
Handling == {"process", "write", "failed", "record", "delete"}

Resting == {"idle", "polling", "stopped", "crashed"}

(* What the place of a worker says about what it holds.                    *)
WorkerInv ==
    \A w \in Workers :
        /\ pc[w] \in Handling => current[w] \in Receipt
        /\ pc[w] \notin Handling => current[w] = NoReceipt
        /\ pc[w] \in Resting => batch[w] = {}
        /\ pc[w] \in Handling /\ pc[w] # "delete" =>
              SubjectOf(w) \notin {Garbage, Malformed}
        /\ pc[w] \in {"write", "record"} => SubjectOf(w) \in stored

TypeInv == TypeOK /\ WorkerInv

-----------------------------------------------------------------------------
(* Rows.                                                                   *)

LEMMA WrittenColumns ==
  ASSUME NEW old \in Row, NEW read \in Row, NEW new \in Row
  PROVE  LET row == Written(old, read, new) IN
         /\ row \in Row
         /\ row.status = IF new.status # read.status THEN new.status
                                                     ELSE old.status
         /\ row.error = IF new.error # read.error THEN new.error ELSE old.error
         /\ row.computed = IF new.computed # read.computed THEN new.computed
                                                           ELSE old.computed
  <1>1. DOMAIN new = {"status", "error", "computed"}
    BY DEF Row
  <1>2. Written(old, read, new) =
           [status |-> IF new.status # read.status THEN new.status
                       ELSE old.status,
            error |-> IF new.error # read.error THEN new.error ELSE old.error,
            computed |-> IF new.computed # read.computed THEN new.computed
                         ELSE old.computed]
    BY <1>1 DEF Written
  <1> QED
    BY <1>2 DEF Row

LEMMA PendingType == Pending \in Row
  BY DEF Row, Pending, ProcessingStatus

LEMMA FailedType ==
  ASSUME NEW e \in Errors, NEW row \in Row
  PROVE  [row EXCEPT !.status = "FAILED", !.error = e] \in Row
  BY DEF Row, ProcessingStatus

-----------------------------------------------------------------------------
(* Type correctness.                                                       *)

LEMMA InitTypeInv == Init => TypeInv
  <1> SUFFICES ASSUME Init PROVE TypeInv
    OBVIOUS
  <1> USE ProcessingAssumption
  <1>1. TypeOK
    BY DEF Init, TypeOK, Row, Pending, ProcessingStatus, Location, WorkerPlace
  <1>2. WorkerInv
    BY DEF Init, WorkerInv, Handling, Resting
  <1> QED
    BY <1>1, <1>2 DEF TypeInv

(* The receipts that a receive returns.                                    *)
LEMMA ReceivedType ==
  ASSUME TypeOK, NEW out \in SUBSET Messages, \A m \in out : ~ Spent(m)
  PROVE  /\ {[message |-> m, count |-> receives[m] + 1] : m \in out}
               \in SUBSET Receipt
         /\ [m \in Messages |-> IF m \in out THEN receives[m] + 1
                                ELSE receives[m]]
               \in [Messages -> 0 .. MaxReceives]
  <1>1. ASSUME NEW m \in out
        PROVE  receives[m] + 1 \in 1 .. MaxReceives
    BY <1>1, ProcessingAssumption DEF TypeOK, Spent
  <1> QED
    BY <1>1, ProcessingAssumption DEF Receipt, TypeOK

(* What a receive does in the queue, whether or not its response arrives.  *)
LEMMA HandedOut ==
  ASSUME TypeOK, NEW S \in SUBSET {m \in Messages : place[m] = "visible"},
         HandOut(S)
  PROVE  /\ Due(S) \in SUBSET {m \in Messages : place[m] = "visible"}
         /\ place' \in [Messages -> Location]
         /\ receives' \in [Messages -> 0 .. MaxReceives]
         /\ receives' = [m \in Messages |->
               IF m \in Due(S) THEN receives[m] + 1 ELSE receives[m]]
         /\ \A m \in Messages : receives[m] <= receives'[m]
         /\ {[message |-> m, count |-> receives[m] + 1] : m \in Due(S)}
               \in SUBSET Receipt
         /\ \A m \in Due(S) : place'[m] = "inflight" /\ ~ Spent(m)
         /\ \A m \in Messages \ Due(S) :
               \/ place'[m] = place[m]
               \/ place[m] = "visible" /\ place'[m] = "dead"
  <1>1. /\ Due(S) \in SUBSET {m \in Messages : place[m] = "visible"}
        /\ \A m \in Due(S) : m \in S /\ ~ Spent(m)
        /\ \A m \in S \ Due(S) : Spent(m) /\ place[m] = "visible"
    BY DEF Due
  <1>2. /\ place' = [m \in Messages |-> IF m \notin S THEN place[m]
                                        ELSE IF Spent(m) THEN "dead"
                                        ELSE "inflight"]
        /\ receives' = [m \in Messages |->
              IF m \in Due(S) THEN receives[m] + 1 ELSE receives[m]]
    BY DEF HandOut
  <1>3. /\ receives' \in [Messages -> 0 .. MaxReceives]
        /\ {[message |-> m, count |-> receives[m] + 1] : m \in Due(S)}
              \in SUBSET Receipt
    BY <1>1, <1>2, ReceivedType
  <1>4. place' \in [Messages -> Location]
    BY <1>2 DEF TypeOK, Location
  <1>5. \A m \in Messages : receives[m] <= receives'[m]
    BY <1>2, ProcessingAssumption DEF TypeOK
  <1>6. /\ \A m \in Due(S) : place'[m] = "inflight"
        /\ \A m \in Messages \ Due(S) :
              \/ place'[m] = place[m]
              \/ place[m] = "visible" /\ place'[m] = "dead"
    BY <1>1, <1>2
  <1> QED
    BY <1>1, <1>2, <1>3, <1>4, <1>5, <1>6

(* What a receive does, without the set it chooses.                        *)
LEMMA Handed ==
  ASSUME TypeInv, NEW w \in Workers, Receive(w)
  PROVE  \E out \in SUBSET {m \in Messages : place[m] = "visible"} :
            /\ batch' = [batch EXCEPT ![w] =
                  {[message |-> m, count |-> receives[m] + 1] : m \in out}]
            /\ receives' = [m \in Messages |->
                  IF m \in out THEN receives[m] + 1 ELSE receives[m]]
            /\ \A m \in out : place'[m] = "inflight" /\ ~ Spent(m)
            /\ \A m \in Messages \ out :
                  \/ place'[m] = place[m]
                  \/ place[m] = "visible" /\ place'[m] = "dead"
            /\ pc' = [pc EXCEPT ![w] = IF out = {} THEN "idle" ELSE "batch"]
  <1>1. PICK S \in SUBSET {m \in Messages : place[m] = "visible"} :
           /\ HandOut(S)
           /\ batch' = [batch EXCEPT ![w] =
                 {[message |-> m, count |-> receives[m] + 1] : m \in Due(S)}]
           /\ GoTo(w, IF Due(S) = {} THEN "idle" ELSE "batch")
    BY DEF Receive
  <1> QED
    BY <1>1, HandedOut DEF TypeInv, GoTo

(* A receive, answered or not, moves visible messages and counts what it   *)
(* hands out.                                                              *)
LEMMA Moved ==
  ASSUME TypeInv, NEW w \in Workers, Receive(w) \/ ReceiveFails(w)
  PROVE  /\ \A m \in Messages :
               /\ receives[m] <= receives'[m]
               /\ \/ place'[m] = place[m]
                  \/ place[m] = "visible" /\ place'[m] \in {"inflight", "dead"}
         /\ receives' \in [Messages -> 0 .. MaxReceives]
  <1>1. PICK S \in SUBSET {m \in Messages : place[m] = "visible"} : HandOut(S)
    BY DEF Receive, ReceiveFails
  <1> QED
    BY <1>1, HandedOut DEF TypeInv

LEMMA NextTypeOK == TypeInv /\ [Next]_vars => TypeOK'
  <1> SUFFICES ASSUME TypeInv, [Next]_vars PROVE TypeOK'
    OBVIOUS
  <1> USE ProcessingAssumption DEF TypeInv, database, queue, worker
  <1>1. ASSUME NEW t \in Tickets, CommitTicket(t) \/ EndPublish(t)
        PROVE  TypeOK'
    <2>1. CASE EndPublish(t)
      BY <2>1 DEF EndPublish, TypeOK
    <2>2. CASE CommitTicket(t)
      <3>1. result' \in [Tickets -> Row]
        BY <2>2, PendingType DEF CommitTicket, TypeOK
      <3> QED
        BY <2>2, <3>1 DEF CommitTicket, TypeOK
    <2> QED
      BY <1>1, <2>1, <2>2
  <1>2. ASSUME NEW m \in Messages,
               Publish(m) \/ SendForeign(m) \/ Expire(m) \/ Vanish(m)
        PROVE  TypeOK'
    BY <1>2 DEF Publish, SendForeign, Expire, Vanish, TypeOK, Location
  <1>3. ASSUME NEW w \in Workers, Poll(w) \/ Stop(w)
        PROVE  TypeOK'
    BY <1>3 DEF Poll, Stop, GoTo, TypeOK, WorkerPlace
  <1>4. ASSUME NEW w \in Workers, Receive(w) \/ ReceiveFails(w)
        PROVE  TypeOK'
    <2>1. PICK S \in SUBSET {m \in Messages : place[m] = "visible"} :
             /\ HandOut(S)
             /\ \/ /\ batch' = [batch EXCEPT ![w] =
                         {[message |-> m, count |-> receives[m] + 1] :
                             m \in Due(S)}]
                   /\ GoTo(w, IF Due(S) = {} THEN "idle" ELSE "batch")
                \/ UNCHANGED batch /\ GoTo(w, "idle")
      BY <1>4 DEF Receive, ReceiveFails
    <2>2. /\ place' \in [Messages -> Location]
          /\ receives' \in [Messages -> 0 .. MaxReceives]
          /\ {[message |-> m, count |-> receives[m] + 1] : m \in Due(S)}
                \in SUBSET Receipt
      BY <2>1, HandedOut
    <2>3. batch' \in [Workers -> SUBSET Receipt]
      BY <2>1, <2>2 DEF TypeOK
    <2>4. pc' \in [Workers -> WorkerPlace]
      BY <2>1 DEF TypeOK, GoTo, WorkerPlace
    <2>5. UNCHANGED <<stored, publishing, result, processed, tries, current,
                      loaded, stopping, outages>>
      BY <1>4 DEF Receive, ReceiveFails
    <2> QED
      BY <2>2, <2>3, <2>4, <2>5 DEF TypeOK
  <1>5. ASSUME NEW w \in Workers, Take(w)
        PROVE  TypeOK'
    BY <1>5 DEF Take, GoTo, TypeOK, WorkerPlace, Receipt
  <1>6. ASSUME NEW w \in Workers, Choke(w)
        PROVE  TypeOK'
    BY <1>6 DEF Choke, End, GoTo, TypeOK, WorkerPlace, Receipt, Row, Pending,
                ProcessingStatus
  <1>7. ASSUME NEW w \in Workers, Load(w) \/ LoadForFailure(w)
        PROVE  TypeOK'
    BY <1>7 DEF Load, LoadForFailure, GoTo, TypeOK, WorkerPlace
  <1>8. ASSUME NEW w \in Workers, SaveCompleted(w) \/ SaveUnacknowledged(w)
        PROVE  TypeOK'
    <2>1. SubjectOf(w) \in Tickets
      BY <1>8 DEF SaveCompleted, SaveUnacknowledged, WorkerInv, TypeOK
    <2>2. Completed(w) \in Row
      BY <2>1 DEF Completed, Row, ProcessingStatus
    <2>3. Written(result[SubjectOf(w)], loaded[w], Completed(w)) \in Row
      BY <2>1, <2>2, WrittenColumns DEF TypeOK
    <2> QED
      BY <1>8, <2>1, <2>3 DEF SaveCompleted, SaveUnacknowledged,
                              StoreCompleted, GoTo, TypeOK, WorkerPlace
  <1>9. ASSUME NEW w \in Workers, ProcessFails(w)
        PROVE  TypeOK'
    BY <1>9 DEF ProcessFails, GoTo, TypeOK, WorkerPlace
  <1>10. ASSUME NEW w \in Workers, Return(w)
         PROVE  /\ pc' \in [Workers -> WorkerPlace]
                /\ batch' = batch
                /\ current' \in [Workers -> Receipt \cup {NoReceipt}]
                /\ loaded' \in [Workers -> Row]
    BY <1>10 DEF Return, GoTo, TypeOK, WorkerPlace, Row, Pending,
                 ProcessingStatus
  <1>11. ASSUME NEW w \in Workers, SaveFailed(w)
         PROVE  TypeOK'
    <2>1. SubjectOf(w) \in Tickets
      BY <1>11 DEF SaveFailed, WorkerInv, TypeOK
    <2>2. PICK e \in Errors :
             result' = [result EXCEPT ![SubjectOf(w)] =
                           Written(@, loaded[w],
                                   [loaded[w] EXCEPT !.status = "FAILED",
                                                     !.error = e])]
      BY <1>11 DEF SaveFailed
    <2>3. [loaded[w] EXCEPT !.status = "FAILED", !.error = e] \in Row
      BY <2>1, FailedType DEF TypeOK
    <2>4. result' \in [Tickets -> Row]
      BY <2>1, <2>2, <2>3, WrittenColumns DEF TypeOK
    <2> QED
      BY <1>10, <1>11, <2>4 DEF SaveFailed, TypeOK
  <1>12. ASSUME NEW w \in Workers, RecordFails(w)
         PROVE  TypeOK'
    BY <1>10, <1>12 DEF RecordFails, TypeOK
  <1>13. ASSUME NEW w \in Workers, Remove(w) \/ UNCHANGED place
         PROVE  place' \in [Messages -> Location]
    BY <1>13 DEF Remove, TypeOK, Location
  <1>14. ASSUME NEW w \in Workers, Delete(w)
         PROVE  TypeOK'
    BY <1>10, <1>13, <1>14 DEF Delete, TypeOK
  <1>15. ASSUME NEW w \in Workers, Die(w)
         PROVE  /\ pc' \in [Workers -> WorkerPlace]
                /\ batch' \in [Workers -> SUBSET Receipt]
                /\ current' \in [Workers -> Receipt \cup {NoReceipt}]
                /\ loaded' \in [Workers -> Row]
                /\ stopping' \in SUBSET Workers
                /\ outages' \in 0 .. MaxOutages
    BY <1>15 DEF Die, End, GoTo, TypeOK, WorkerPlace, Row, Pending,
                 ProcessingStatus
  <1>16. ASSUME NEW w \in Workers, DeleteFails(w) \/ Crash(w)
         PROVE  TypeOK'
    BY <1>13, <1>15, <1>16 DEF DeleteFails, Crash, TypeOK
  <1>17. ASSUME NEW w \in Workers, RequestStop(w) \/ Restart(w)
         PROVE  TypeOK'
    BY <1>17 DEF RequestStop, Restart, GoTo, TypeOK, WorkerPlace
  <1>18. CASE UNCHANGED vars
    BY <1>18 DEF vars, TypeOK
  <1> QED
    BY <1>1, <1>2, <1>3, <1>4, <1>5, <1>6, <1>7, <1>8, <1>9, <1>11, <1>12,
       <1>14, <1>16, <1>17, <1>18
       DEF Next, Undisturbed, Create, Work, Fault, Disturb

(* The steps of one worker leave the others where they are.                *)
LEMMA NextWorkerInv == TypeInv /\ [Next]_vars => WorkerInv'
  <1> SUFFICES ASSUME TypeInv, [Next]_vars, NEW v \in Workers
               PROVE  (/\ pc[v] \in Handling => current[v] \in Receipt
                       /\ pc[v] \notin Handling => current[v] = NoReceipt
                       /\ pc[v] \in Resting => batch[v] = {}
                       /\ pc[v] \in Handling /\ pc[v] # "delete" =>
                             SubjectOf(v) \notin {Garbage, Malformed}
                       /\ pc[v] \in {"write", "record"} =>
                             SubjectOf(v) \in stored)'
    BY DEF WorkerInv
  <1> DEFINE Goal == (/\ pc[v] \in Handling => current[v] \in Receipt
                      /\ pc[v] \notin Handling => current[v] = NoReceipt
                      /\ pc[v] \in Resting => batch[v] = {}
                      /\ pc[v] \in Handling /\ pc[v] # "delete" =>
                            SubjectOf(v) \notin {Garbage, Malformed}
                      /\ pc[v] \in {"write", "record"} =>
                            SubjectOf(v) \in stored)'
  <1> SUFFICES Goal
    OBVIOUS
  <1>1. /\ pc[v] \in Handling => current[v] \in Receipt
        /\ pc[v] \notin Handling => current[v] = NoReceipt
        /\ pc[v] \in Resting => batch[v] = {}
        /\ pc[v] \in Handling /\ pc[v] # "delete" =>
              SubjectOf(v) \notin {Garbage, Malformed}
        /\ pc[v] \in {"write", "record"} => SubjectOf(v) \in stored
    BY DEF TypeInv, WorkerInv
  <1>2. /\ pc \in [Workers -> WorkerPlace]
        /\ batch \in [Workers -> SUBSET Receipt]
        /\ current \in [Workers -> Receipt \cup {NoReceipt}]
    BY DEF TypeInv, TypeOK
  <1> USE DEF database, queue, worker, Handling, Resting, SubjectOf, GoTo
  <1>3. CASE UNCHANGED <<pc, batch, current>> /\ stored \subseteq stored'
    BY <1>1, <1>3
  <1>4. ASSUME NEW w \in Workers, Poll(w) \/ ReceiveFails(w) \/ Stop(w)
                                    \/ Restart(w)
        PROVE  Goal
    BY <1>1, <1>2, <1>4 DEF Poll, ReceiveFails, Stop, Restart
  <1>5. ASSUME NEW w \in Workers, Receive(w)
        PROVE  Goal
    <2>1. PICK out \in SUBSET Messages :
             /\ batch' = [batch EXCEPT ![w] =
                   {[message |-> m, count |-> receives[m] + 1] : m \in out}]
             /\ pc' = [pc EXCEPT ![w] = IF out = {} THEN "idle" ELSE "batch"]
      BY <1>5, Handed
    <2>2. pc[w] = "polling" /\ UNCHANGED <<stored, current>>
      BY <1>5 DEF Receive
    <2> QED
      BY <1>1, <1>2, <2>1, <2>2
  <1>6. ASSUME NEW w \in Workers, Take(w)
        PROVE  Goal
    BY <1>1, <1>2, <1>6 DEF Take
  <1>7. ASSUME NEW w \in Workers, Choke(w) \/ Crash(w) \/ DeleteFails(w)
        PROVE  Goal
    <2>1. End(w) /\ UNCHANGED stored
      BY <1>7 DEF Choke, Crash, DeleteFails, Die
    <2> QED
      BY <1>1, <1>2, <2>1 DEF End
  <1>8. ASSUME NEW w \in Workers, Load(w) \/ LoadForFailure(w)
        PROVE  Goal
    BY <1>1, <1>2, <1>8 DEF Load, LoadForFailure
  <1>9. ASSUME NEW w \in Workers,
               SaveCompleted(w) \/ SaveUnacknowledged(w) \/ ProcessFails(w)
        PROVE  Goal
    BY <1>1, <1>2, <1>9
       DEF SaveCompleted, SaveUnacknowledged, ProcessFails, StoreCompleted
  <1>10. ASSUME NEW w \in Workers, SaveFailed(w) \/ RecordFails(w) \/ Delete(w)
         PROVE  Goal
    <2>1. Return(w) /\ UNCHANGED stored
      BY <1>10 DEF SaveFailed, RecordFails, Delete
    <2> QED
      BY <1>1, <1>2, <2>1 DEF Return
  <1>11. ASSUME \E t \in Tickets : Create(t)
         PROVE  UNCHANGED <<pc, batch, current>> /\ stored \subseteq stored'
    BY <1>11 DEF Create, CommitTicket, EndPublish
  <1>12. ASSUME \/ \E m \in Messages : Publish(m) \/ SendForeign(m)
                                         \/ Expire(m) \/ Vanish(m)
                \/ \E w \in Workers : RequestStop(w)
                \/ UNCHANGED vars
         PROVE  UNCHANGED <<pc, batch, current>> /\ stored \subseteq stored'
    BY <1>12 DEF Publish, SendForeign, Expire, Vanish, RequestStop, vars
  <1> QED
    BY <1>3, <1>4, <1>5, <1>6, <1>7, <1>8, <1>9, <1>10, <1>11, <1>12
       DEF Next, Undisturbed, Work, Fault, Disturb

LEMMA NextTypeInv == TypeInv /\ [Next]_vars => TypeInv'
  BY NextTypeOK, NextWorkerInv DEF TypeInv

LEMMA TypeInvCorrect == Spec => []TypeInv
  BY InitTypeInv, NextTypeInv, PTL DEF Spec

(* Every variable keeps its type; in particular the queue never hands a    *)
(* message out more often than its redrive policy says, however workers    *)
(* overlap, die and let it expire.                                         *)
THEOREM TypeCorrect == Spec => []TypeOK
  <1>1. TypeInv => TypeOK
    BY DEF TypeInv
  <1> QED
    BY TypeInvCorrect, <1>1, PTL

(* A worker that has stopped holds no message: a stop is heeded only at    *)
(* the head of the loop, after the last message of the batch.              *)
THEOREM StopIsGraceful == Spec => []StopDrainsBatch
  <1>1. TypeInv => StopDrainsBatch
    BY DEF TypeInv, WorkerInv, StopDrainsBatch, Handling, Resting
  <1> QED
    BY TypeInvCorrect, <1>1, PTL

-----------------------------------------------------------------------------
(* The queue and the tickets.                                              *)

(* A request publishes what it has committed, the queue hands out what was *)
(* sent to it, and a worker tries what it was handed.                      *)
HeldIsSent ==
    \A w \in Workers :
        /\ \A r \in batch[w] : place[r.message] # "unsent"
        /\ pc[w] \in Handling => tries[current[w].message] > 0

TriedIsSent == \A m \in Messages : tries[m] > 0 => place[m] # "unsent"

QueueInv ==
    /\ publishing \subseteq stored
    /\ PublishedAfterCommit
    /\ HeldIsSent
    /\ TriedIsSent

(* What the rows say of the work that was done.                            *)
UnstoredIsFresh ==
    \A t \in Tickets \ stored : result[t] = Pending /\ processed[t] = 0

ComputedIsExpected == \A t \in Tickets : result[t].computed \in {None, Expected[t]}

TouchedIsTried ==
    \A t \in Tickets : result[t].status # "PENDING" =>
        \E m \in Messages : Subject[m] = t /\ tries[m] > 0

(* A result that a session has read is still there when it writes: results *)
(* are not taken back.                                                     *)
LoadedIsKept ==
    \A w \in Workers : pc[w] \in {"write", "record"} =>
        loaded[w].computed \in {None, result[SubjectOf(w)].computed}

DeletingIsProcessed ==
    \A w \in Workers : pc[w] = "delete" =>
        \/ SubjectOf(w) = Garbage
        \/ SubjectOf(w) \in Tickets /\ processed[SubjectOf(w)] > 0

DataInv ==
    /\ UnstoredIsFresh
    /\ ComputedIsExpected
    /\ ResultMatchesEvents
    /\ TouchedIsTried
    /\ LoadedIsKept
    /\ DeletingIsProcessed
    /\ DeletedIsProcessed

(* Nothing that was sent, tried or stored is unsent, untried or unstored   *)
(* again.                                                                  *)
LEMMA Monotone ==
  ASSUME TypeInv, [Next]_vars
  PROVE  /\ stored \subseteq stored'
         /\ \A m \in Messages : place[m] # "unsent" => place'[m] # "unsent"
         /\ \A m \in Messages : tries[m] > 0 => tries'[m] > 0
         /\ \A m \in Messages : tries'[m] # tries[m] =>
               \E w \in Workers : \E r \in batch[w] : r.message = m
  <1> DEFINE Goal ==
               /\ stored \subseteq stored'
               /\ \A m \in Messages : place[m] # "unsent" => place'[m] # "unsent"
               /\ \A m \in Messages : tries[m] > 0 => tries'[m] > 0
               /\ \A m \in Messages : tries'[m] # tries[m] =>
                     \E w \in Workers : \E r \in batch[w] : r.message = m
  <1> SUFFICES Goal
    OBVIOUS
  <1> USE DEF database, queue, worker
  <1>1. place \in [Messages -> Location] /\ tries \in [Messages -> Nat]
        /\ batch \in [Workers -> SUBSET Receipt]
    BY DEF TypeInv, TypeOK
  <1>2. CASE /\ stored \subseteq stored' /\ UNCHANGED tries
             /\ \A m \in Messages : place'[m] = place[m] \/ place'[m] # "unsent"
    BY <1>2
  <1>3. ASSUME NEW w \in Workers, Take(w) \/ Choke(w)
        PROVE  Goal
    <2>1. /\ UNCHANGED <<stored, place>>
          /\ \E r \in batch[w] : tries' = [tries EXCEPT ![r.message] = @ + 1]
      BY <1>3 DEF Take, Choke
    <2> QED
      BY <1>1, <2>1 DEF Receipt
  <1>4. ASSUME NEW t \in Tickets, Create(t)
        PROVE  Goal
    BY <1>2, <1>4 DEF Create, CommitTicket, EndPublish
  <1>5. ASSUME NEW m \in Messages,
               Publish(m) \/ SendForeign(m) \/ Expire(m) \/ Vanish(m)
        PROVE  Goal
    BY <1>1, <1>2, <1>5 DEF Publish, SendForeign, Expire, Vanish
  <1>6. ASSUME NEW w \in Workers, Receive(w) \/ ReceiveFails(w)
        PROVE  Goal
    <2>1. UNCHANGED <<stored, tries>>
      BY <1>6 DEF Receive, ReceiveFails
    <2>2. \A m \in Messages : place'[m] = place[m] \/ place'[m] # "unsent"
      BY <1>6, Moved
    <2> QED
      BY <1>2, <2>1, <2>2
  <1>7. ASSUME NEW w \in Workers, Delete(w) \/ DeleteFails(w)
        PROVE  Goal
    <2>1. UNCHANGED <<stored, tries>>
      BY <1>7 DEF Delete, DeleteFails
    <2>2. \A m \in Messages : place'[m] = place[m] \/ place'[m] # "unsent"
      BY <1>1, <1>7 DEF Delete, DeleteFails, Remove
    <2> QED
      BY <1>2, <2>1, <2>2
  <1>8. ASSUME NEW w \in Workers,
               \/ Poll(w) \/ Load(w) \/ SaveCompleted(w) \/ LoadForFailure(w)
               \/ SaveFailed(w) \/ RecordFails(w) \/ Stop(w)
               \/ ProcessFails(w) \/ SaveUnacknowledged(w) \/ Disturb(w)
        PROVE  Goal
    <2>1. UNCHANGED <<stored, tries, place>>
      BY <1>8 DEF Poll, Load, SaveCompleted, LoadForFailure, SaveFailed,
                  RecordFails, Stop, ProcessFails,
                  SaveUnacknowledged, StoreCompleted, Disturb, Crash,
                  RequestStop, Restart
    <2> QED
      BY <1>2, <2>1
  <1>9. CASE UNCHANGED vars
    BY <1>2, <1>9 DEF vars
  <1> QED
    BY <1>3, <1>4, <1>5, <1>6, <1>7, <1>8, <1>9
       DEF Next, Undisturbed, Work, Fault

(* What a worker may come to hold: what it is handed, and of that what it  *)
(* takes.                                                                  *)
LEMMA HoldingSteps ==
  ASSUME TypeInv, [Next]_vars, NEW v \in Workers
  PROVE  \/ batch'[v] \subseteq batch[v] /\ current'[v] = current[v]
         \/ batch'[v] \subseteq batch[v] /\ current'[v] = NoReceipt
         \/ Take(v)
         \/ Receive(v)
  <1> DEFINE Goal == \/ batch'[v] \subseteq batch[v] /\ current'[v] = current[v]
                     \/ batch'[v] \subseteq batch[v] /\ current'[v] = NoReceipt
                     \/ Take(v)
                     \/ Receive(v)
  <1> SUFFICES Goal
    OBVIOUS
  <1> USE DEF database, queue, worker
  <1>1. /\ batch \in [Workers -> SUBSET Receipt]
        /\ current \in [Workers -> Receipt \cup {NoReceipt}]
    BY DEF TypeInv, TypeOK
  <1>2. CASE UNCHANGED <<batch, current>>
    BY <1>2
  <1>3. ASSUME NEW w \in Workers, Take(w) \/ Receive(w)
        PROVE  Goal
    BY <1>1, <1>3 DEF Take, Receive
  <1>4. ASSUME NEW w \in Workers, Choke(w) \/ Crash(w) \/ DeleteFails(w)
        PROVE  Goal
    BY <1>1, <1>4 DEF Choke, Crash, DeleteFails, Die, End
  <1>5. ASSUME NEW w \in Workers, SaveFailed(w) \/ RecordFails(w) \/ Delete(w)
        PROVE  Goal
    BY <1>1, <1>5 DEF SaveFailed, RecordFails, Delete, Return
  <1>6. ASSUME NEW w \in Workers,
               \/ Poll(w) \/ Load(w) \/ SaveCompleted(w) \/ LoadForFailure(w)
               \/ Stop(w) \/ ReceiveFails(w) \/ ProcessFails(w)
               \/ SaveUnacknowledged(w) \/ RequestStop(w) \/ Restart(w)
        PROVE  UNCHANGED <<batch, current>>
    BY <1>6 DEF Poll, Load, SaveCompleted, LoadForFailure, Stop, ReceiveFails,
                ProcessFails, SaveUnacknowledged, RequestStop, Restart
  <1>7. ASSUME \/ \E t \in Tickets : Create(t)
               \/ \E m \in Messages : Publish(m) \/ SendForeign(m)
                                        \/ Expire(m) \/ Vanish(m)
               \/ UNCHANGED vars
        PROVE  UNCHANGED <<batch, current>>
    BY <1>7 DEF Create, CommitTicket, EndPublish, Publish, SendForeign, Expire,
                Vanish, vars
  <1> QED
    BY <1>2, <1>3, <1>4, <1>5, <1>6, <1>7
       DEF Next, Undisturbed, Work, Fault, Disturb

(* A message is in the queue because somebody sent it.                     *)
LEMMA SentByPublish ==
  ASSUME TypeInv, [Next]_vars, NEW m \in Messages,
         place[m] = "unsent", place'[m] # "unsent"
  PROVE  Publish(m) \/ SendForeign(m)
  <1> USE DEF database, queue, worker
  <1>1. place \in [Messages -> Location]
    BY DEF TypeInv, TypeOK
  <1>2. place' # place
    OBVIOUS
  <1>3. ASSUME NEW n \in Messages,
               Publish(n) \/ SendForeign(n) \/ Expire(n) \/ Vanish(n)
        PROVE  Publish(m) \/ SendForeign(m)
    BY <1>1, <1>3 DEF Publish, SendForeign, Expire, Vanish
  <1>4. ASSUME NEW w \in Workers, Receive(w) \/ ReceiveFails(w)
        PROVE  FALSE
    BY <1>4, Moved
  <1>5. ASSUME NEW w \in Workers, Delete(w) \/ DeleteFails(w)
        PROVE  FALSE
    BY <1>1, <1>5 DEF Delete, DeleteFails, Remove
  <1>6. ASSUME NEW w \in Workers,
               \/ Poll(w) \/ Take(w) \/ Choke(w) \/ Load(w) \/ SaveCompleted(w)
               \/ LoadForFailure(w) \/ SaveFailed(w) \/ RecordFails(w)
               \/ Stop(w) \/ ProcessFails(w)
               \/ SaveUnacknowledged(w) \/ Disturb(w)
        PROVE  UNCHANGED place
    BY <1>6 DEF Poll, Take, Choke, Load, SaveCompleted, LoadForFailure,
                SaveFailed, RecordFails, Stop, ProcessFails,
                SaveUnacknowledged, Disturb, Crash, RequestStop, Restart
  <1>7. ASSUME (\E t \in Tickets : Create(t)) \/ UNCHANGED vars
        PROVE  UNCHANGED place
    BY <1>7 DEF Create, CommitTicket, EndPublish, vars
  <1> QED
    BY <1>2, <1>3, <1>4, <1>5, <1>6, <1>7 DEF Next, Undisturbed, Work, Fault

LEMMA NextPublished ==
  TypeInv /\ QueueInv /\ [Next]_vars =>
     (publishing \subseteq stored)' /\ PublishedAfterCommit'
  <1> SUFFICES ASSUME TypeInv, QueueInv, [Next]_vars
               PROVE  publishing' \subseteq stored' /\ PublishedAfterCommit'
    OBVIOUS
  <1>1. publishing' \subseteq stored'
    <2>1. CASE UNCHANGED publishing
      BY <2>1, Monotone DEF QueueInv
    <2>2. ASSUME NEW t \in Tickets, Create(t)
          PROVE  publishing' \subseteq stored'
      BY <2>2 DEF Create, CommitTicket, EndPublish, database, QueueInv
    <2>3. CASE ~ \E t \in Tickets : Create(t)
      <3>1. UNCHANGED publishing
        BY <2>3
           DEF Next, Undisturbed, Work, Fault, Disturb, Poll, Receive, Take,
               Choke, Load, SaveCompleted, LoadForFailure, SaveFailed,
               RecordFails, Delete, Stop, ReceiveFails, ProcessFails,
               SaveUnacknowledged, DeleteFails, Crash, RequestStop, Restart,
               Publish, SendForeign, Expire, Vanish, vars
      <3> QED
        BY <2>1, <3>1
    <2> QED
      BY <2>2, <2>3
  <1>2. ASSUME NEW m \in Messages, place'[m] # "unsent", Subject[m] \in Tickets
        PROVE  Subject[m] \in stored'
    <2>1. CASE place[m] # "unsent"
      BY <1>2, <2>1, Monotone DEF QueueInv, PublishedAfterCommit
    <2>2. CASE place[m] = "unsent"
      <3>1. Subject[m] \in publishing
        BY <1>2, <2>2, SentByPublish DEF Publish, SendForeign
      <3> QED
        BY <3>1, Monotone DEF QueueInv
    <2> QED
      BY <2>1, <2>2
  <1> QED
    BY <1>1, <1>2 DEF PublishedAfterCommit

LEMMA NextHeldIsSent ==
  TypeInv /\ QueueInv /\ [Next]_vars => HeldIsSent'
  <1> SUFFICES ASSUME TypeInv, QueueInv, [Next]_vars, NEW v \in Workers
               PROVE  /\ \A r \in batch'[v] : place'[r.message] # "unsent"
                      /\ pc'[v] \in Handling => tries'[current'[v].message] > 0
    BY DEF HeldIsSent, Handling
  <1>1. /\ batch[v] \in SUBSET Receipt
        /\ current[v] \in Receipt \cup {NoReceipt}
        /\ \A r \in Receipt : r.message \in Messages
        /\ tries \in [Messages -> Nat]
    BY DEF TypeInv, TypeOK, Receipt
  <1>2. NoReceipt \notin Receipt
    BY ProcessingAssumption DEF Receipt, NoReceipt
  <1>3. pc'[v] \in Handling => current'[v] \in Receipt
    BY NextTypeInv DEF TypeInv, WorkerInv, Handling, Receipt
  <1>4. /\ \A r \in batch[v] : place'[r.message] # "unsent"
        /\ pc[v] \in Handling => tries'[current[v].message] > 0
    <2>1. pc[v] \in Handling => current[v] \in Receipt
      BY DEF TypeInv, WorkerInv
    <2> QED
      BY <1>1, <2>1, Monotone DEF QueueInv, HeldIsSent
  <1>5. CASE batch'[v] \subseteq batch[v] /\ current'[v] = current[v]
    <2>1. pc'[v] \in Handling => pc[v] \in Handling
      BY <1>2, <1>3, <1>5 DEF TypeInv, WorkerInv
    <2> QED
      BY <1>4, <1>5, <2>1
  <1>6. CASE batch'[v] \subseteq batch[v] /\ current'[v] = NoReceipt
    BY <1>2, <1>3, <1>4, <1>6
  <1>7. CASE Take(v)
    <2>1. PICK r \in batch[v] :
             /\ batch' = [batch EXCEPT ![v] = @ \ {r}]
             /\ current' = [current EXCEPT ![v] = r]
             /\ tries' = [tries EXCEPT ![r.message] = @ + 1]
      BY <1>7 DEF Take
    <2>2. batch'[v] \subseteq batch[v] /\ current'[v] = r
      BY <2>1 DEF TypeInv, TypeOK
    <2>3. tries'[r.message] > 0
      BY <1>1, <2>1
    <2> QED
      BY <1>4, <2>2, <2>3
  <1>8. CASE Receive(v)
    <2>1. /\ pc[v] = "polling"
          /\ pc \in [Workers -> WorkerPlace]
          /\ batch \in [Workers -> SUBSET Receipt]
      BY <1>8 DEF Receive, TypeInv, TypeOK
    <2>2. PICK out \in SUBSET {m \in Messages : place[m] = "visible"} :
             /\ batch' = [batch EXCEPT ![v] =
                   {[message |-> m, count |-> receives[m] + 1] : m \in out}]
             /\ \A m \in out : place'[m] = "inflight"
             /\ pc' = [pc EXCEPT ![v] = IF out = {} THEN "idle" ELSE "batch"]
      BY <1>8, Handed
    <2>3. batch'[v] = {[message |-> m, count |-> receives[m] + 1] : m \in out}
      BY <2>1, <2>2
    <2>4. \A r \in batch'[v] : r.message \in out
      BY <2>3
    <2>5. pc'[v] \notin Handling
      BY <2>1, <2>2 DEF Handling
    <2> QED
      BY <2>2, <2>4, <2>5
  <1> QED
    BY <1>5, <1>6, <1>7, <1>8, HoldingSteps

LEMMA NextTriedIsSent ==
  TypeInv /\ QueueInv /\ [Next]_vars => TriedIsSent'
  <1> SUFFICES ASSUME TypeInv, QueueInv, [Next]_vars, NEW m \in Messages,
                      tries'[m] > 0
               PROVE  place'[m] # "unsent"
    BY DEF TriedIsSent
  <1>1. CASE tries'[m] = tries[m]
    BY <1>1, Monotone DEF QueueInv, TriedIsSent
  <1>2. CASE tries'[m] # tries[m]
    BY <1>2, Monotone DEF QueueInv, HeldIsSent
  <1> QED
    BY <1>1, <1>2

LEMMA InitQueueInv == Init => QueueInv
  BY DEF Init, QueueInv, PublishedAfterCommit, HeldIsSent, TriedIsSent, Handling

LEMMA NextQueueInv == TypeInv /\ QueueInv /\ [Next]_vars => QueueInv'
  BY NextPublished, NextHeldIsSent, NextTriedIsSent DEF QueueInv

-----------------------------------------------------------------------------
(* Rows and events.                                                        *)

(* Which steps change the row of a ticket or the number of its events.     *)
Untouched(t) == result'[t] = result[t] /\ processed'[t] = processed[t]

Created(t) ==
    /\ t \notin stored /\ t \in stored'
    /\ result'[t] = Pending /\ processed'[t] = processed[t]

CompletedBy(t, w) ==
    /\ pc[w] = "write" /\ SubjectOf(w) = t
    /\ pc'[w] \in {"delete", "failed"} /\ UNCHANGED <<current, place, tries>>
    /\ result'[t] = Written(result[t], loaded[w], Completed(w))
    /\ processed'[t] = processed[t] + 1

FailedBy(t, w) ==
    /\ pc[w] = "record" /\ SubjectOf(w) = t
    /\ pc'[w] \in {"idle", "batch"} /\ UNCHANGED <<place, tries>>
    /\ \E e \in Errors :
          result'[t] = Written(result[t], loaded[w],
                               [loaded[w] EXCEPT !.status = "FAILED",
                                                 !.error = e])
    /\ processed'[t] = processed[t]

LEMMA RowSteps ==
  ASSUME TypeInv, [Next]_vars, NEW t \in Tickets
  PROVE  \/ Untouched(t)
         \/ Created(t)
         \/ \E w \in Workers : CompletedBy(t, w) \/ FailedBy(t, w)
  <1> DEFINE Goal == \/ Untouched(t)
                     \/ Created(t)
                     \/ \E w \in Workers : CompletedBy(t, w) \/ FailedBy(t, w)
  <1> SUFFICES Goal
    OBVIOUS
  <1> USE DEF database, queue, worker
  <1>1. /\ result \in [Tickets -> Row] /\ processed \in [Tickets -> Nat]
        /\ pc \in [Workers -> WorkerPlace]
    BY DEF TypeInv, TypeOK
  <1>2. CASE UNCHANGED <<result, processed>>
    BY <1>2 DEF Untouched
  <1>3. ASSUME NEW u \in Tickets, Create(u)
        PROVE  Goal
    BY <1>1, <1>3 DEF Create, CommitTicket, EndPublish, Untouched, Created
  <1>4. ASSUME NEW w \in Workers, SaveCompleted(w) \/ SaveUnacknowledged(w)
        PROVE  Goal
    <2>1. StoreCompleted(w) /\ pc[w] = "write"
          /\ UNCHANGED <<current, place, tries>>
          /\ pc'[w] \in {"delete", "failed"}
      BY <1>1, <1>4 DEF SaveCompleted, SaveUnacknowledged, GoTo
    <2>2. CASE SubjectOf(w) = t
      BY <1>1, <2>1, <2>2 DEF StoreCompleted, CompletedBy
    <2>3. CASE SubjectOf(w) # t
      BY <1>1, <2>1, <2>3 DEF StoreCompleted, Untouched
    <2> QED
      BY <2>2, <2>3
  <1>5. ASSUME NEW w \in Workers, SaveFailed(w)
        PROVE  Goal
    <2>1. PICK e \in Errors :
             result' = [result EXCEPT ![SubjectOf(w)] =
                           Written(@, loaded[w],
                                   [loaded[w] EXCEPT !.status = "FAILED",
                                                     !.error = e])]
      BY <1>5 DEF SaveFailed
    <2>2. /\ pc[w] = "record" /\ pc'[w] \in {"idle", "batch"}
          /\ UNCHANGED <<processed, place, tries>>
      BY <1>1, <1>5 DEF SaveFailed, Return, GoTo
    <2>3. CASE SubjectOf(w) = t
      BY <1>1, <2>1, <2>2, <2>3 DEF FailedBy
    <2>4. CASE SubjectOf(w) # t
      BY <1>1, <2>1, <2>2, <2>4 DEF Untouched
    <2> QED
      BY <2>3, <2>4
  <1>6. ASSUME NEW m \in Messages,
               Publish(m) \/ SendForeign(m) \/ Expire(m) \/ Vanish(m)
        PROVE  UNCHANGED <<result, processed>>
    BY <1>6 DEF Publish, SendForeign, Expire, Vanish
  <1>7. ASSUME NEW w \in Workers,
               \/ Poll(w) \/ Receive(w) \/ Take(w) \/ Choke(w) \/ Load(w)
               \/ LoadForFailure(w) \/ RecordFails(w) \/ Delete(w) \/ Stop(w)
               \/ ReceiveFails(w) \/ ProcessFails(w) \/ DeleteFails(w)
               \/ Disturb(w)
        PROVE  UNCHANGED <<result, processed>>
    BY <1>7 DEF Poll, Receive, Take, Choke, Load, LoadForFailure, RecordFails,
                Delete, Stop, ReceiveFails, ProcessFails, DeleteFails, Disturb,
                Crash, RequestStop, Restart
  <1>8. CASE UNCHANGED vars
    BY <1>2, <1>8 DEF vars
  <1> QED
    BY <1>2, <1>3, <1>4, <1>5, <1>6, <1>7, <1>8
       DEF Next, Undisturbed, Work, Fault

(* What a completion makes of the row, whatever its session has read: the  *)
(* computed columns are those of the ticket, because a result that was     *)
(* there when the row was read is the same and still there.                *)
LEMMA CompletedRow ==
  ASSUME TypeInv, DataInv, NEW t \in Tickets, NEW w \in Workers,
         CompletedBy(t, w)
  PROVE  /\ result'[t] \in Row
         /\ result'[t].computed = Expected[t]
         /\ processed'[t] > 0
         /\ current[w].message \in Messages
         /\ Subject[current[w].message] = t
  <1>1. /\ result[t] \in Row /\ loaded[w] \in Row /\ processed[t] \in Nat
        /\ current[w] \in Receipt
    BY DEF TypeInv, TypeOK, WorkerInv, CompletedBy, Handling
  <1>2. /\ Completed(w) \in Row
        /\ Completed(w).computed = Expected[t]
    BY DEF CompletedBy, Completed, Row, ProcessingStatus
  <1>3. /\ result'[t] \in Row
        /\ result'[t].computed = IF Expected[t] # loaded[w].computed
                                 THEN Expected[t] ELSE result[t].computed
    BY <1>1, <1>2, WrittenColumns DEF CompletedBy
  <1>4. /\ loaded[w].computed \in {None, result[t].computed}
        /\ Expected[t] # None
    BY ProcessingAssumption DEF DataInv, LoadedIsKept, CompletedBy, Expected
  <1>5. result'[t].computed = Expected[t]
    BY <1>3, <1>4
  <1> QED
    BY <1>1, <1>3, <1>5 DEF CompletedBy, Receipt, SubjectOf

(* A recorded failure leaves the computed columns alone.                   *)
LEMMA FailedRow ==
  ASSUME TypeInv, NEW t \in Tickets, NEW w \in Workers, FailedBy(t, w)
  PROVE  /\ result'[t] \in Row
         /\ result'[t].computed = result[t].computed
         /\ result'[t].status \in {"FAILED", result[t].status}
         /\ current[w].message \in Messages
         /\ Subject[current[w].message] = t
  <1>1. /\ result[t] \in Row /\ loaded[w] \in Row
        /\ current[w] \in Receipt
    BY DEF TypeInv, TypeOK, WorkerInv, FailedBy, Handling
  <1>2. PICK e \in Errors :
           result'[t] = Written(result[t], loaded[w],
                                [loaded[w] EXCEPT !.status = "FAILED",
                                                  !.error = e])
    BY DEF FailedBy
  <1> DEFINE new == [loaded[w] EXCEPT !.status = "FAILED", !.error = e]
  <1>3. /\ new \in Row
        /\ new.status = "FAILED" /\ new.computed = loaded[w].computed
        /\ result'[t] = Written(result[t], loaded[w], new)
    BY <1>1, <1>2, FailedType DEF Row
  <1> HIDE DEF new
  <1>4. /\ result'[t] \in Row
        /\ result'[t].status = IF new.status # loaded[w].status THEN new.status
                               ELSE result[t].status
        /\ result'[t].computed = IF new.computed # loaded[w].computed
                                 THEN new.computed ELSE result[t].computed
    BY <1>1, <1>3, WrittenColumns
  <1> QED
    BY <1>1, <1>3, <1>4 DEF FailedBy, Receipt, SubjectOf

LEMMA NextRowInvs ==
  TypeInv /\ QueueInv /\ DataInv /\ [Next]_vars =>
     /\ UnstoredIsFresh'
     /\ ComputedIsExpected'
     /\ ResultMatchesEvents'
     /\ TouchedIsTried'
  <1> SUFFICES ASSUME TypeInv, QueueInv, DataInv, [Next]_vars,
                      NEW t \in Tickets
               PROVE  /\ t \notin stored' =>
                            result'[t] = Pending /\ processed'[t] = 0
                      /\ result'[t].computed \in {None, Expected[t]}
                      /\ result'[t].computed # None <=> processed'[t] > 0
                      /\ result'[t].status = "COMPLETED" =>
                            result'[t].computed # None
                      /\ result'[t].status # "PENDING" =>
                            \E m \in Messages : Subject[m] = t /\ tries'[m] > 0
    BY DEF UnstoredIsFresh, ComputedIsExpected, ResultMatchesEvents,
           TouchedIsTried
  <1> USE DEF DataInv
  <1>1. /\ t \notin stored => result[t] = Pending /\ processed[t] = 0
        /\ result[t].computed \in {None, Expected[t]}
        /\ result[t].computed # None <=> processed[t] > 0
        /\ result[t].status = "COMPLETED" => result[t].computed # None
        /\ result[t].status # "PENDING" =>
              \E m \in Messages : Subject[m] = t /\ tries'[m] > 0
    BY Monotone DEF UnstoredIsFresh, ComputedIsExpected, ResultMatchesEvents,
                    TouchedIsTried
  <1>2. Expected[t] # None
    BY ProcessingAssumption DEF Expected
  <1>3. CASE Untouched(t)
    BY <1>1, <1>3, Monotone DEF Untouched
  <1>4. CASE Created(t)
    BY <1>1, <1>4 DEF Created, Pending
  <1>5. ASSUME NEW w \in Workers, CompletedBy(t, w)
        PROVE  /\ t \in stored
               /\ result'[t].computed = Expected[t]
               /\ processed'[t] > 0
               /\ \E m \in Messages : Subject[m] = t /\ tries'[m] > 0
    <2>1. t \in stored
      BY <1>5 DEF CompletedBy, TypeInv, WorkerInv
    <2>2. tries[current[w].message] > 0
      BY <1>5 DEF CompletedBy, QueueInv, HeldIsSent, Handling
    <2> QED
      BY <1>5, <2>1, <2>2, CompletedRow, Monotone
  <1>6. ASSUME NEW w \in Workers, FailedBy(t, w)
        PROVE  /\ t \in stored
               /\ result'[t].computed = result[t].computed
               /\ result'[t].status \in {"FAILED", result[t].status}
               /\ processed'[t] = processed[t]
               /\ \E m \in Messages : Subject[m] = t /\ tries'[m] > 0
    <2>1. t \in stored
      BY <1>6 DEF FailedBy, TypeInv, WorkerInv
    <2>2. tries[current[w].message] > 0
      BY <1>6 DEF FailedBy, QueueInv, HeldIsSent, Handling
    <2>3. processed'[t] = processed[t]
      BY <1>6 DEF FailedBy
    <2> QED
      BY <1>6, <2>1, <2>2, <2>3, FailedRow, Monotone
  <1>7. stored \subseteq stored'
    BY Monotone
  <1> QED
    BY <1>1, <1>2, <1>3, <1>4, <1>5, <1>6, <1>7, RowSteps

(* The number of events only grows, and a result that is there stays.      *)
LEMMA ResultsStay ==
  ASSUME TypeInv, DataInv, [Next]_vars, NEW t \in Tickets, t \in stored
  PROVE  /\ processed[t] > 0 => processed'[t] > 0
         /\ result[t].computed \in {None, result'[t].computed}
  <1>1. processed[t] \in Nat
    BY DEF TypeInv, TypeOK
  <1>2. result[t].computed \in {None, Expected[t]}
    BY DEF DataInv, ComputedIsExpected
  <1>3. CASE Untouched(t)
    BY <1>1, <1>2, <1>3 DEF Untouched
  <1>4. ASSUME NEW w \in Workers, CompletedBy(t, w)
        PROVE  processed'[t] > 0 /\ result'[t].computed = Expected[t]
    BY <1>4, CompletedRow
  <1>5. ASSUME NEW w \in Workers, FailedBy(t, w)
        PROVE  /\ processed'[t] = processed[t]
               /\ result'[t].computed = result[t].computed
    BY <1>5, FailedRow DEF FailedBy
  <1>6. ~ Created(t)
    BY DEF Created
  <1> QED
    BY <1>1, <1>2, <1>3, <1>4, <1>5, <1>6, RowSteps

(* What a worker has read of a row, and whether its work is done.          *)
LEMMA ReadingSteps ==
  ASSUME TypeInv, [Next]_vars, NEW v \in Workers
  PROVE  /\ pc'[v] \in {"write", "record"} =>
               \/ /\ pc[v] = pc'[v] /\ loaded'[v] = loaded[v]
                  /\ current'[v] = current[v]
               \/ /\ loaded'[v] = result[SubjectOf(v)]
                  /\ UNCHANGED <<current, result>> /\ SubjectOf(v) \in stored
         /\ pc'[v] = "delete" =>
               \/ pc[v] = "delete" /\ current'[v] = current[v]
               \/ Subject[current'[v].message] = Garbage
               \/ SaveCompleted(v)
  <1> DEFINE Goal ==
         /\ pc'[v] \in {"write", "record"} =>
               \/ /\ pc[v] = pc'[v] /\ loaded'[v] = loaded[v]
                  /\ current'[v] = current[v]
               \/ /\ loaded'[v] = result[SubjectOf(v)]
                  /\ UNCHANGED <<current, result>> /\ SubjectOf(v) \in stored
         /\ pc'[v] = "delete" =>
               \/ pc[v] = "delete" /\ current'[v] = current[v]
               \/ Subject[current'[v].message] = Garbage
               \/ SaveCompleted(v)
  <1> SUFFICES Goal
    OBVIOUS
  <1> USE DEF database, queue, worker, GoTo
  <1>1. /\ pc \in [Workers -> WorkerPlace]
        /\ current \in [Workers -> Receipt \cup {NoReceipt}]
        /\ loaded \in [Workers -> Row]
    BY DEF TypeInv, TypeOK
  <1>2. CASE UNCHANGED <<pc, current, loaded>>
    BY <1>2
  <1>3. ASSUME NEW w \in Workers, Load(w) \/ LoadForFailure(w)
        PROVE  Goal
    BY <1>1, <1>3 DEF Load, LoadForFailure
  <1>4. ASSUME NEW w \in Workers, Take(w)
        PROVE  Goal
    BY <1>1, <1>4 DEF Take
  <1>5. ASSUME NEW w \in Workers, SaveCompleted(w)
        PROVE  Goal
    BY <1>1, <1>5 DEF SaveCompleted
  <1>6. ASSUME NEW w \in Workers,
               \/ SaveUnacknowledged(w) \/ ProcessFails(w) \/ Poll(w)
               \/ ReceiveFails(w) \/ Stop(w) \/ Restart(w)
        PROVE  Goal
    BY <1>1, <1>6 DEF SaveUnacknowledged, ProcessFails, Poll, ReceiveFails,
                      Stop, Restart
  <1>7. ASSUME NEW w \in Workers, SaveFailed(w) \/ RecordFails(w) \/ Delete(w)
        PROVE  Goal
    <2>1. Return(w)
      BY <1>7 DEF SaveFailed, RecordFails, Delete
    <2> QED
      BY <1>1, <2>1 DEF Return
  <1>8. ASSUME NEW w \in Workers, Choke(w) \/ Crash(w) \/ DeleteFails(w)
        PROVE  Goal
    <2>1. End(w)
      BY <1>8 DEF Choke, Crash, DeleteFails, Die
    <2> QED
      BY <1>1, <2>1 DEF End
  <1>9. ASSUME NEW w \in Workers, Receive(w)
        PROVE  Goal
    <2>1. /\ \E place1 \in {"idle", "batch"} : pc' = [pc EXCEPT ![w] = place1]
          /\ UNCHANGED <<current, loaded>>
      BY <1>9, Handed DEF Receive
    <2> QED
      BY <1>1, <2>1
  <1>10. ASSUME \/ \E t \in Tickets : Create(t)
                \/ \E m \in Messages : Publish(m) \/ SendForeign(m)
                                         \/ Expire(m) \/ Vanish(m)
                \/ \E w \in Workers : RequestStop(w)
                \/ UNCHANGED vars
         PROVE  UNCHANGED <<pc, current, loaded>>
    BY <1>10 DEF Create, CommitTicket, EndPublish, Publish, SendForeign,
                 Expire, Vanish, RequestStop, vars
  <1> QED
    BY <1>2, <1>3, <1>4, <1>5, <1>6, <1>7, <1>8, <1>9, <1>10
       DEF Next, Undisturbed, Work, Fault, Disturb

LEMMA NextLoadedIsKept ==
  TypeInv /\ DataInv /\ [Next]_vars => LoadedIsKept'
  <1> SUFFICES ASSUME TypeInv, DataInv, [Next]_vars, NEW v \in Workers,
                      pc'[v] \in {"write", "record"}
               PROVE  loaded'[v].computed \in
                         {None, result'[Subject[current'[v].message]].computed}
    BY DEF LoadedIsKept, SubjectOf
  <1>1. CASE /\ loaded'[v] = result[SubjectOf(v)]
             /\ UNCHANGED <<current, result>> /\ SubjectOf(v) \in stored
    BY <1>1 DEF SubjectOf
  <1>2. CASE /\ pc[v] = pc'[v] /\ loaded'[v] = loaded[v]
             /\ current'[v] = current[v]
    <2>1. SubjectOf(v) \in Tickets /\ SubjectOf(v) \in stored
      BY <1>2 DEF TypeInv, TypeOK, WorkerInv
    <2>2. loaded[v].computed \in {None, result[SubjectOf(v)].computed}
      BY <1>2 DEF DataInv, LoadedIsKept
    <2>3. result[SubjectOf(v)].computed \in
             {None, result'[SubjectOf(v)].computed}
      BY <2>1, ResultsStay
    <2> QED
      BY <1>2, <2>2, <2>3 DEF SubjectOf
  <1> QED
    BY <1>1, <1>2, ReadingSteps

LEMMA NextDeletingIsProcessed ==
  TypeInv /\ DataInv /\ [Next]_vars => DeletingIsProcessed'
  <1> DEFINE Done(t) == \/ t = Garbage
                        \/ t \in Tickets /\ processed'[t] > 0
  <1> SUFFICES ASSUME TypeInv, DataInv, [Next]_vars, NEW v \in Workers,
                      pc'[v] = "delete"
               PROVE  Done(Subject[current'[v].message])
    BY DEF DeletingIsProcessed, SubjectOf
  <1>1. CASE pc[v] = "delete" /\ current'[v] = current[v]
    <2>1. \/ SubjectOf(v) = Garbage
          \/ SubjectOf(v) \in Tickets /\ processed[SubjectOf(v)] > 0
      BY <1>1 DEF DataInv, DeletingIsProcessed
    <2>2. CASE SubjectOf(v) = Garbage
      BY <1>1, <2>2 DEF SubjectOf
    <2>3. CASE SubjectOf(v) \in Tickets /\ processed[SubjectOf(v)] > 0
      <3>1. SubjectOf(v) \in stored
        BY <2>3 DEF DataInv, UnstoredIsFresh
      <3>2. processed'[SubjectOf(v)] > 0
        BY <2>3, <3>1, ResultsStay
      <3> QED
        BY <1>1, <2>3, <3>2 DEF SubjectOf
    <2> QED
      BY <2>1, <2>2, <2>3
  <1>2. CASE Subject[current'[v].message] = Garbage
    BY <1>2
  <1>3. CASE SaveCompleted(v)
    <2>1. SubjectOf(v) \in Tickets
      BY <1>3 DEF SaveCompleted, TypeInv, TypeOK, WorkerInv
    <2>2. processed'[SubjectOf(v)] = processed[SubjectOf(v)] + 1
      BY <1>3, <2>1 DEF SaveCompleted, StoreCompleted, TypeInv, TypeOK
    <2>3. processed'[SubjectOf(v)] > 0
      BY <2>1, <2>2 DEF TypeInv, TypeOK
    <2> QED
      BY <1>3, <2>1, <2>3 DEF SaveCompleted, SubjectOf
  <1> QED
    BY <1>1, <1>2, <1>3, ReadingSteps

(* A message is deleted by the worker that handles it.                     *)
LEMMA DeletedByWorker ==
  ASSUME TypeInv, [Next]_vars, NEW m \in Messages,
         place[m] # "deleted", place'[m] = "deleted"
  PROVE  /\ \E w \in Workers : /\ pc[w] = "delete" /\ current[w].message = m
                               /\ pc'[w] \notin Handling
                               /\ place' = [place EXCEPT ![m] = "deleted"]
         /\ place[m] \in {"visible", "inflight"}
         /\ UNCHANGED <<stored, processed, result>>
  <1> DEFINE Goal ==
         /\ \E w \in Workers : /\ pc[w] = "delete" /\ current[w].message = m
                               /\ pc'[w] \notin Handling
                               /\ place' = [place EXCEPT ![m] = "deleted"]
         /\ place[m] \in {"visible", "inflight"}
         /\ UNCHANGED <<stored, processed, result>>
  <1> SUFFICES Goal
    OBVIOUS
  <1> USE DEF database, queue, worker
  <1>1. /\ place \in [Messages -> Location]
        /\ pc \in [Workers -> WorkerPlace]
    BY DEF TypeInv, TypeOK
  <1>2. ASSUME NEW w \in Workers, Delete(w) \/ DeleteFails(w)
        PROVE  Goal
    <2>1. /\ pc[w] = "delete" /\ pc'[w] \notin Handling
          /\ Remove(w) \/ UNCHANGED place
          /\ UNCHANGED <<stored, processed, result>>
      BY <1>1, <1>2 DEF Delete, DeleteFails, Return, Die, End, GoTo, Handling
    <2> QED
      BY <1>1, <2>1 DEF Remove
  <1>3. ASSUME NEW n \in Messages,
               Publish(n) \/ SendForeign(n) \/ Expire(n) \/ Vanish(n)
        PROVE  FALSE
    BY <1>1, <1>3 DEF Publish, SendForeign, Expire, Vanish
  <1>4. ASSUME NEW w \in Workers, Receive(w) \/ ReceiveFails(w)
        PROVE  FALSE
    BY <1>4, Moved
  <1>5. ASSUME NEW w \in Workers,
               \/ Poll(w) \/ Take(w) \/ Choke(w) \/ Load(w) \/ SaveCompleted(w)
               \/ LoadForFailure(w) \/ SaveFailed(w) \/ RecordFails(w)
               \/ Stop(w) \/ ProcessFails(w)
               \/ SaveUnacknowledged(w) \/ Disturb(w)
        PROVE  UNCHANGED place
    BY <1>5 DEF Poll, Take, Choke, Load, SaveCompleted, LoadForFailure,
                SaveFailed, RecordFails, Stop, ProcessFails,
                SaveUnacknowledged, Disturb, Crash, RequestStop, Restart
  <1>6. ASSUME (\E t \in Tickets : Create(t)) \/ UNCHANGED vars
        PROVE  UNCHANGED place
    BY <1>6 DEF Create, CommitTicket, EndPublish, vars
  <1> QED
    BY <1>2, <1>3, <1>4, <1>5, <1>6 DEF Next, Undisturbed, Work, Fault

LEMMA NextDeletedIsProcessed ==
  TypeInv /\ DataInv /\ [Next]_vars => DeletedIsProcessed'
  <1> SUFFICES ASSUME TypeInv, DataInv, [Next]_vars, NEW m \in Messages,
                      place'[m] = "deleted", Subject[m] \in Tickets
               PROVE  processed'[Subject[m]] > 0
    BY DEF DeletedIsProcessed
  <1>1. processed[Subject[m]] > 0
    <2>1. CASE place[m] = "deleted"
      BY <2>1 DEF DataInv, DeletedIsProcessed
    <2>2. CASE place[m] # "deleted"
      BY <2>2, DeletedByWorker, ProcessingAssumption
         DEF DataInv, DeletingIsProcessed, SubjectOf
    <2> QED
      BY <2>1, <2>2
  <1>2. Subject[m] \in stored
    BY <1>1 DEF DataInv, UnstoredIsFresh
  <1> QED
    BY <1>1, <1>2, ResultsStay

LEMMA InitDataInv == Init => DataInv
  BY DEF Init, DataInv, UnstoredIsFresh, ComputedIsExpected,
         ResultMatchesEvents, TouchedIsTried, LoadedIsKept,
         DeletingIsProcessed, DeletedIsProcessed, Pending

LEMMA NextDataInv == TypeInv /\ QueueInv /\ DataInv /\ [Next]_vars => DataInv'
  BY NextRowInvs, NextLoadedIsKept, NextDeletingIsProcessed,
     NextDeletedIsProcessed DEF DataInv

LEMMA DataInvCorrect == Spec => [](TypeInv /\ QueueInv /\ DataInv)
  <1>1. Init => TypeInv /\ QueueInv /\ DataInv
    BY InitTypeInv, InitQueueInv, InitDataInv
  <1>2. TypeInv /\ QueueInv /\ DataInv /\ [Next]_vars
        => (TypeInv /\ QueueInv /\ DataInv)'
    BY NextTypeInv, NextQueueInv, NextDataInv
  <1> QED
    BY <1>1, <1>2, PTL DEF Spec

(* A message about a ticket can be read only when the ticket is committed: *)
(* create_ticket publishes after its commit, and nothing else sends it.    *)
THEOREM PublicationFollowsCommit == Spec => []PublishedAfterCommit
  <1>1. QueueInv => PublishedAfterCommit
    BY DEF QueueInv
  <1> QED
    BY DataInvCorrect, <1>1, PTL

(* The result and its PROCESSED event are there together, however often a  *)
(* ticket is processed, by however many workers at once, and whichever of  *)
(* them fails, loses its acknowledgement or dies.                          *)
THEOREM ResultAndEventAgree == Spec => []ResultMatchesEvents
  <1>1. DataInv => ResultMatchesEvents
    BY DEF DataInv
  <1> QED
    BY DataInvCorrect, <1>1, PTL

(* No message is deleted before its ticket was processed: every failure of *)
(* a handler returns, or ends the process, without delete_message.         *)
THEOREM DeletionFollowsProcessing == Spec => []DeletedIsProcessed
  <1>1. DataInv => DeletedIsProcessed
    BY DEF DataInv
  <1> QED
    BY DataInvCorrect, <1>1, PTL

(* A re-publisher that walks the PENDING rows finds every unprocessed      *)
(* ticket that no message pursues, except a FAILED one of which the queue  *)
(* has forgotten a message that was tried: a row leaves PENDING only after *)
(* a worker tried a message, and that message is then with the queue,      *)
(* dead, forgotten, or deleted after the processing; and a row without a   *)
(* result is not COMPLETED.                                                *)
THEOREM AbandonedTicketsArePending == Spec => []AbandonedIsPending
  <1>1. ASSUME TypeInv, QueueInv, DataInv, NEW t \in Tickets,
               processed[t] = 0, Pursued(t) = {}, result[t].status # "PENDING"
        PROVE  result[t].status = "FAILED" /\ Forgotten(t) # {}
    <2>1. PICK m \in Messages : Subject[m] = t /\ tries[m] > 0
      BY <1>1 DEF DataInv, TouchedIsTried
    <2>2. place[m] \in Location \ {"unsent", "deleted"}
      BY <1>1, <2>1 DEF TypeInv, TypeOK, QueueInv, TriedIsSent, DataInv,
                        DeletedIsProcessed
    <2>3. m \in Forgotten(t)
      BY <1>1, <2>1, <2>2 DEF Pursued, Forgotten, Location
    <2>4. result[t].status # "COMPLETED"
      BY <1>1 DEF DataInv, ResultMatchesEvents
    <2>5. result[t].status \in ProcessingStatus
      BY <1>1 DEF TypeInv, TypeOK, Row
    <2> QED
      BY <1>1, <2>3, <2>4, <2>5 DEF ProcessingStatus
  <1>2. TypeInv /\ QueueInv /\ DataInv => AbandonedIsPending
    BY <1>1 DEF AbandonedIsPending, TypeInv, TypeOK
  <1> QED
    BY DataInvCorrect, <1>2, PTL

-----------------------------------------------------------------------------
(* The refinement of ProcessingPromise.                                    *)

Outcomes == [t \in Tickets |-> result[t].computed]

Fates == [m \in Messages |-> Fate(m)]

promised == <<stored, processed, Outcomes, Fates>>

LEMMA InitPromise == Init => Promise!Init
  BY DEF Init, Promise!Init, Fate, Pending

(* Of a message only its end matters.                                      *)
LEMMA SameFates ==
  ASSUME \A m \in Messages :
            \/ place'[m] = place[m]
            \/ {place[m], place'[m]} \subseteq {"unsent", "visible", "inflight"}
            \/ {place[m], place'[m]} \subseteq {"dead", "lost"}
  PROVE  UNCHANGED Fates
  <1>1. ASSUME NEW m \in Messages
        PROVE  Fate(m)' = Fate(m)
    BY <1>1 DEF Fate
  <1> QED
    BY <1>1 DEF Fates

(* A receive and a loss give messages up.                                  *)
LEMMA GivenUp ==
  ASSUME UNCHANGED <<stored, processed, result>>,
         \A m \in Messages :
            \/ place'[m] = place[m]
            \/ {place[m], place'[m]} \subseteq {"unsent", "visible", "inflight"}
            \/ place[m] # "deleted" /\ place'[m] \in {"dead", "lost"}
  PROVE  Promise!GiveUp
  <1>1. Fates' \in [Messages -> {"open", "done", "given_up"}]
    BY DEF Fates, Fate
  <1>2. ASSUME NEW m \in Messages
        PROVE  \/ Fates'[m] = Fates[m]
               \/ Fates[m] = "open" /\ Fates'[m] = "given_up"
    BY <1>2 DEF Fates, Fate
  <1> QED
    BY <1>1, <1>2 DEF Promise!GiveUp, Fates

LEMMA NextPromise ==
  TypeInv /\ DataInv /\ [Next]_vars => [Promise!Next]_(Promise!vars)
  <1> SUFFICES ASSUME TypeInv, DataInv, [Next]_vars
               PROVE  Promise!Next \/ UNCHANGED promised
    BY DEF Promise!vars, promised, Outcomes, Fates
  <1> USE DEF database, queue, worker
  <1>1. /\ result \in [Tickets -> Row] /\ processed \in [Tickets -> Nat]
        /\ place \in [Messages -> Location] /\ stored \subseteq Tickets
    BY DEF TypeInv, TypeOK
  <1>2. CASE UNCHANGED <<stored, processed, result, place>>
    <2>1. UNCHANGED Fates
      BY <1>2, SameFates
    <2> QED
      BY <1>2, <2>1 DEF promised, Outcomes
  <1>3. ASSUME NEW t \in Tickets, CommitTicket(t)
        PROVE  Promise!Next
    <2>1. UNCHANGED <<result, processed, place>>
      BY <1>1, <1>3 DEF CommitTicket, DataInv, UnstoredIsFresh
    <2>2. UNCHANGED Fates
      BY <2>1, SameFates
    <2>3. Promise!Accept(t)
      BY <1>3, <2>1, <2>2 DEF CommitTicket, Promise!Accept, Fates
    <2> QED
      BY <2>3 DEF Promise!Next
  <1>4. ASSUME NEW w \in Workers, SaveCompleted(w) \/ SaveUnacknowledged(w)
        PROVE  Promise!Next
    <2>1. PICK t \in Tickets : SubjectOf(w) = t
      BY <1>1, <1>4 DEF SaveCompleted, SaveUnacknowledged, TypeInv, WorkerInv
    <2>2. /\ pc[w] = "write" /\ pc'[w] \in {"delete", "failed"}
          /\ StoreCompleted(w)
          /\ UNCHANGED <<stored, current, place, tries>>
      BY <1>4 DEF SaveCompleted, SaveUnacknowledged, StoreCompleted, GoTo,
                  TypeInv, TypeOK
    <2>3. t \in stored
      BY <2>1, <2>2 DEF TypeInv, WorkerInv
    <2>4. CompletedBy(t, w)
      BY <1>1, <2>1, <2>2, <2>3 DEF StoreCompleted, CompletedBy
    <2>5. result'[t].computed = Expected[t]
      BY <1>1, <2>3, <2>4, CompletedRow
    <2>6. Outcomes' = [Outcomes EXCEPT ![t] = Expected[t]]
      BY <1>1, <2>1, <2>2, <2>5 DEF StoreCompleted, Outcomes
    <2>7. UNCHANGED Fates
      BY <2>2, SameFates
    <2>8. Promise!Run(t)
      BY <2>1, <2>2, <2>3, <2>6, <2>7
         DEF StoreCompleted, Promise!Run, Outcomes, Fates
    <2> QED
      BY <2>8 DEF Promise!Next
  <1>5. ASSUME NEW w \in Workers, SaveFailed(w)
        PROVE  UNCHANGED promised
    <2>1. UNCHANGED <<stored, processed, place>>
      BY <1>5 DEF SaveFailed
    <2>2. ASSUME NEW t \in Tickets
          PROVE  result'[t].computed = result[t].computed
      <3>1. processed'[t] # processed[t] + 1
        BY <1>1, <2>1
      <3> QED
        BY <2>1, <3>1, RowSteps, FailedRow DEF Untouched, Created, CompletedBy
    <2>3. UNCHANGED Outcomes
      BY <2>2 DEF Outcomes
    <2>4. UNCHANGED Fates
      BY <2>1, SameFates
    <2> QED
      BY <2>1, <2>3, <2>4 DEF promised
  <1>6. ASSUME NEW w \in Workers, Delete(w) \/ DeleteFails(w)
        PROVE  Promise!Next \/ UNCHANGED promised
    <2> DEFINE m == current[w].message
    <2>1. UNCHANGED <<stored, processed, result>>
      BY <1>6 DEF Delete, DeleteFails
    <2>2. CASE UNCHANGED place
      BY <1>2, <2>1, <2>2
    <2>3. CASE /\ place[m] \in {"visible", "inflight"}
               /\ place' = [place EXCEPT ![m] = "deleted"]
      <3>1. m \in Messages /\ pc[w] = "delete"
        BY <1>6 DEF Delete, DeleteFails, TypeInv, WorkerInv, Handling, Receipt
      <3>2. Subject[m] \in Tickets => processed[Subject[m]] > 0
        BY <3>1, ProcessingAssumption DEF DataInv, DeletingIsProcessed, SubjectOf
      <3>3. Fates[m] = "open"
        BY <2>3, <3>1 DEF Fates, Fate
      <3>4. Fates' = [Fates EXCEPT ![m] = "done"]
        <4>1. ASSUME NEW n \in Messages
              PROVE  Fate(n)' = IF n = m THEN "done" ELSE Fate(n)
          BY <1>1, <2>3 DEF Fate
        <4> QED
          BY <4>1 DEF Fates
      <3>5. Promise!Finish(m)
        BY <2>1, <3>2, <3>3, <3>4 DEF Promise!Finish, Fates
      <3> QED
        BY <3>1, <3>5 DEF Promise!Next
    <2> QED
      BY <1>6, <2>2, <2>3 DEF Delete, DeleteFails, Remove
  <1>7. ASSUME NEW w \in Workers, Receive(w) \/ ReceiveFails(w)
        PROVE  Promise!Next
    <2>1. UNCHANGED <<stored, processed, result>>
      BY <1>7 DEF Receive, ReceiveFails
    <2>2. \A m \in Messages :
             \/ place'[m] = place[m]
             \/ place[m] = "visible" /\ place'[m] \in {"inflight", "dead"}
      BY <1>7, Moved
    <2>3. Promise!GiveUp
      BY <2>1, <2>2, GivenUp
    <2> QED
      BY <2>3 DEF Promise!Next
  <1>8. ASSUME NEW n \in Messages, Vanish(n)
        PROVE  Promise!Next
    <2>1. Promise!GiveUp
      BY <1>1, <1>8, GivenUp DEF Vanish
    <2> QED
      BY <2>1 DEF Promise!Next
  <1>9. ASSUME NEW n \in Messages, Publish(n) \/ SendForeign(n) \/ Expire(n)
        PROVE  UNCHANGED promised
    <2>1. UNCHANGED Fates
      BY <1>1, <1>9, SameFates DEF Publish, SendForeign, Expire
    <2> QED
      BY <1>9, <2>1 DEF Publish, SendForeign, Expire, promised, Outcomes
  <1>10. ASSUME NEW w \in Workers,
                \/ Poll(w) \/ Take(w) \/ Choke(w) \/ Load(w) \/ LoadForFailure(w)
                \/ RecordFails(w) \/ Stop(w) \/ ProcessFails(w) \/ Disturb(w)
         PROVE  UNCHANGED <<stored, processed, result, place>>
    BY <1>10 DEF Poll, Take, Choke, Load, LoadForFailure, RecordFails, Stop,
                 ProcessFails, Disturb, Crash, RequestStop, Restart
  <1>11. ASSUME (\E t \in Tickets : EndPublish(t)) \/ UNCHANGED vars
         PROVE  UNCHANGED <<stored, processed, result, place>>
    BY <1>11 DEF EndPublish, vars
  <1> QED
    BY <1>2, <1>3, <1>4, <1>5, <1>6, <1>7, <1>8, <1>9, <1>10, <1>11
       DEF Next, Undisturbed, Create, Work, Fault

(* However workers fail, die, overlap and repeat each other, and whatever  *)
(* the queue forgets, the system does no other than ProcessingPromise: a   *)
(* result is stored together with its count and is the same each time, and *)
(* a message is done only after a run and given up otherwise.              *)
THEOREM PipelineImplementsPromise == Spec => ImplementsPromise
  <1>1. Init => Promise!Init
    BY InitPromise
  <1>2. TypeInv /\ QueueInv /\ DataInv /\ [Next]_vars
        => [Promise!Next]_(Promise!vars)
    BY NextPromise
  <1> QED
    BY <1>1, <1>2, DataInvCorrect, PTL DEF Spec, ImplementsPromise, Promise!Spec

=============================================================================
