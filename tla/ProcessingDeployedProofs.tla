---------------------- MODULE ProcessingDeployedProofs ----------------------
(***************************************************************************)
(* What the result rows look like.  However many workers there are, only   *)
(* a write to a row that has changed since it was read can leave columns   *)
(* that do not fit together.  The only worker of docker-compose.yaml is    *)
(* alone, so nobody writes to a row between its read and its write; with   *)
(* two workers TLC refutes the two theorems about the deployed system.     *)
(***************************************************************************)
EXTENDS ProcessingProofs

OneWorker == \A v, w \in Workers : v = w

(* What the worker has read of a row is what the row says when it writes.  *)
LoadedIsCurrent ==
    \A w \in Workers : pc[w] \in {"write", "record"} =>
        loaded[w] = result[SubjectOf(w)]

(* A batch names each message once, and none of its messages is deleted    *)
(* while the worker has it: only the worker deletes, and only what it has  *)
(* just processed.                                                         *)
HeldOnce ==
    \A w \in Workers : \A r \in batch[w] :
        /\ \A q \in batch[w] : q.message = r.message => q = r
        /\ pc[w] \in Handling => current[w].message # r.message

HeldIsKept ==
    \A w \in Workers :
        /\ \A r \in batch[w] : place[r.message] # "deleted"
        /\ pc[w] \in Handling => place[current[w].message] # "deleted"

DeletingIsCompleted ==
    \A w \in Workers : pc[w] = "delete" =>
        SubjectOf(w) = Garbage \/ result[SubjectOf(w)].status = "COMPLETED"

(* The message whose handling failed was tried and is not deleted, so that *)
(* it still pursues its ticket or was forgotten after the try.             *)
FailedIsTried ==
    \A t \in Tickets : result[t].status = "FAILED" =>
        \E m \in Messages : Subject[m] = t /\ tries[m] > 0 /\ place[m] # "deleted"

DeployedInv ==
    /\ LoadedIsCurrent
    /\ RowIsConsistent
    /\ HeldOnce
    /\ HeldIsKept
    /\ DeletingIsCompleted
    /\ FailedIsTried

-----------------------------------------------------------------------------
(* Rows.                                                                   *)

(* What a worker leaves of a row that is still as it has read it.          *)
LEMMA CurrentCompleted ==
  ASSUME TypeInv, NEW t \in Tickets, NEW w \in Workers,
         CompletedBy(t, w), loaded[w] = result[t]
  PROVE  /\ result'[t].status = "COMPLETED"
         /\ result'[t].error = None
         /\ result'[t].computed = Expected[t]
  <1>1. /\ result[t] \in Row
        /\ result'[t] = Written(result[t], result[t], Completed(w))
    BY DEF CompletedBy, TypeInv, TypeOK
  <1>2. /\ Completed(w) \in Row
        /\ Completed(w).status = "COMPLETED" /\ Completed(w).error = None
        /\ Completed(w).computed = Expected[t]
    BY DEF CompletedBy, Completed, Row, ProcessingStatus
  <1> QED
    BY <1>1, <1>2, WrittenColumns

LEMMA CurrentFailed ==
  ASSUME TypeInv, NEW t \in Tickets, NEW w \in Workers,
         FailedBy(t, w), loaded[w] = result[t]
  PROVE  result'[t].status = "FAILED" /\ result'[t].error \in Errors
  <1>1. result[t] \in Row
    BY DEF TypeInv, TypeOK
  <1>2. PICK e \in Errors :
           result'[t] = Written(result[t], result[t],
                                [result[t] EXCEPT !.status = "FAILED",
                                                  !.error = e])
    BY DEF FailedBy
  <1> DEFINE new == [result[t] EXCEPT !.status = "FAILED", !.error = e]
  <1>3. /\ new \in Row /\ new.status = "FAILED" /\ new.error = e
        /\ result'[t] = Written(result[t], result[t], new)
    BY <1>1, <1>2, FailedType DEF Row
  <1> HIDE DEF new
  <1> QED
    BY <1>1, <1>3, WrittenColumns

LEMMA ResultsAreNotNone ==
  (\A t \in Tickets : Expected[t] # None) /\ None \notin Errors
  BY ProcessingAssumption DEF Expected

(* However many workers there are: a step that leaves a row whose columns  *)
(* do not fit together is the write of a worker whose row another has      *)
(* changed since it was read.                                              *)
LEMMA MixtureStep ==
  ASSUME TypeInv, [Next]_vars, NEW t \in Tickets, result'[t] # result[t]
  PROVE  \/ Consistent(result'[t])
         \/ \E w \in Workers : /\ pc[w] \in {"write", "record"}
                               /\ SubjectOf(w) = t
                               /\ loaded[w] # result[t]
  <1>1. ~ Untouched(t)
    BY DEF Untouched
  <1>2. CASE Created(t)
    BY <1>2 DEF Created, Consistent, Pending
  <1>3. ASSUME NEW w \in Workers, CompletedBy(t, w), loaded[w] = result[t]
        PROVE  Consistent(result'[t])
    BY <1>3, CurrentCompleted, ResultsAreNotNone DEF Consistent
  <1>4. ASSUME NEW w \in Workers, FailedBy(t, w), loaded[w] = result[t]
        PROVE  Consistent(result'[t])
    BY <1>4, CurrentFailed, ResultsAreNotNone DEF Consistent
  <1>5. \A w \in Workers : CompletedBy(t, w) \/ FailedBy(t, w) =>
           pc[w] \in {"write", "record"} /\ SubjectOf(w) = t
    BY DEF CompletedBy, FailedBy
  <1> QED
    BY <1>1, <1>2, <1>3, <1>4, <1>5, RowSteps

(* A row whose columns do not fit together, a COMPLETED one with the       *)
(* error_message of a failure say, is only ever left by a worker whose row *)
(* another has changed since it was read, whatever fails in between.       *)
THEOREM MixturesAreOverlaps == Spec => MixtureIsOverlap
  <1>1. TypeInv /\ [Next]_vars =>
           \A t \in Tickets :
              result'[t] # result[t] =>
                 \/ Consistent(result'[t])
                 \/ \E w \in Workers : /\ pc[w] \in {"write", "record"}
                                       /\ SubjectOf(w) = t
                                       /\ loaded[w] # result[t]
    BY MixtureStep
  <1> QED
    BY <1>1, DataInvCorrect, PTL DEF Spec, MixtureIsOverlap

-----------------------------------------------------------------------------
(* With one worker the row is written by the one that has read it.         *)
LEMMA OnlyWriter ==
  ASSUME OneWorker, TypeInv, DeployedInv, [Next]_vars, NEW t \in Tickets
  PROVE  \/ Untouched(t)
         \/ Created(t)
         \/ \E w \in Workers :
               /\ CompletedBy(t, w)
               /\ result'[t].status = "COMPLETED"
               /\ result'[t].error = None
               /\ result'[t].computed = Expected[t]
         \/ \E w \in Workers :
               /\ FailedBy(t, w)
               /\ result'[t].status = "FAILED"
               /\ result'[t].error \in Errors
  <1>1. \A w \in Workers : CompletedBy(t, w) \/ FailedBy(t, w) =>
           loaded[w] = result[t]
    BY DEF CompletedBy, FailedBy, DeployedInv, LoadedIsCurrent
  <1> QED
    BY <1>1, CurrentCompleted, CurrentFailed, RowSteps

LEMMA NextRowIsConsistent ==
  OneWorker /\ TypeInv /\ DeployedInv /\ [Next]_vars => RowIsConsistent'
  <1> SUFFICES ASSUME OneWorker, TypeInv, DeployedInv, [Next]_vars
               PROVE  RowIsConsistent'
    OBVIOUS
  <1>1. ASSUME NEW t \in Tickets
        PROVE  /\ result'[t].status = "COMPLETED" =>
                     result'[t].error = None /\ result'[t].computed # None
               /\ result'[t].status = "FAILED" => result'[t].error # None
               /\ result'[t].status = "PENDING" => result'[t] = Pending
    <2>1. /\ result[t].status = "COMPLETED" =>
                result[t].error = None /\ result[t].computed # None
          /\ result[t].status = "FAILED" => result[t].error # None
          /\ result[t].status = "PENDING" => result[t] = Pending
      BY DEF DeployedInv, RowIsConsistent, Consistent
    <2> QED
      BY <2>1, ResultsAreNotNone, OnlyWriter DEF Untouched, Created, Pending
  <1>2. \A t \in Tickets : result'[t].status \in ProcessingStatus
    BY NextTypeOK DEF TypeOK, Row
  <1> QED
    BY <1>1, <1>2 DEF RowIsConsistent, Consistent, ProcessingStatus

(* A row changes while the worker is at the write, and the write is over   *)
(* then.                                                                   *)
LEMMA NextLoadedIsCurrent ==
  OneWorker /\ TypeInv /\ DeployedInv /\ [Next]_vars => LoadedIsCurrent'
  <1> SUFFICES ASSUME OneWorker, TypeInv, DeployedInv, [Next]_vars,
                      NEW v \in Workers, pc'[v] \in {"write", "record"}
               PROVE  loaded'[v] = result'[Subject[current'[v].message]]
    BY DEF LoadedIsCurrent, SubjectOf
  <1>1. CASE /\ loaded'[v] = result[SubjectOf(v)]
             /\ UNCHANGED <<current, result>> /\ SubjectOf(v) \in stored
    BY <1>1 DEF SubjectOf
  <1>2. CASE /\ pc[v] = pc'[v] /\ loaded'[v] = loaded[v]
             /\ current'[v] = current[v]
    <2>1. PICK t \in Tickets : t = SubjectOf(v) /\ t \in stored
      BY <1>2 DEF TypeInv, TypeOK, WorkerInv
    <2>2. loaded[v] = result[t]
      BY <1>2, <2>1 DEF DeployedInv, LoadedIsCurrent
    <2>3. \A w \in Workers : ~ CompletedBy(t, w)
      BY <1>2 DEF CompletedBy, OneWorker
    <2>4. \A w \in Workers : ~ FailedBy(t, w)
      BY <1>2 DEF FailedBy, OneWorker
    <2>5. Untouched(t)
      BY <2>1, <2>3, <2>4, RowSteps DEF Created
    <2> QED
      BY <1>2, <2>1, <2>2, <2>5 DEF Untouched, SubjectOf
  <1> QED
    BY <1>1, <1>2, ReadingSteps

LEMMA NextDeletingIsCompleted ==
  OneWorker /\ TypeInv /\ DataInv /\ DeployedInv /\ [Next]_vars
  => DeletingIsCompleted'
  <1> DEFINE Done(t) == t = Garbage \/ result'[t].status = "COMPLETED"
  <1> SUFFICES ASSUME OneWorker, TypeInv, DataInv, DeployedInv, [Next]_vars,
                      NEW v \in Workers, pc'[v] = "delete"
               PROVE  Done(Subject[current'[v].message])
    BY DEF DeletingIsCompleted, SubjectOf
  <1>1. CASE pc[v] = "delete" /\ current'[v] = current[v]
    <2>1. /\ SubjectOf(v) = Garbage \/ SubjectOf(v) \in Tickets
          /\ SubjectOf(v) \in Tickets => processed[SubjectOf(v)] > 0
      BY <1>1, ProcessingAssumption DEF DataInv, DeletingIsProcessed
    <2>2. CASE SubjectOf(v) = Garbage
      BY <1>1, <2>2 DEF SubjectOf
    <2>3. ASSUME NEW t \in Tickets, SubjectOf(v) = t
          PROVE  result'[t].status = "COMPLETED"
      <3>1. t \in stored
        BY <2>1, <2>3 DEF DataInv, UnstoredIsFresh
      <3>2. result[t].status = "COMPLETED"
        BY <1>1, <2>3, ProcessingAssumption DEF DeployedInv, DeletingIsCompleted
      <3>3. \A w \in Workers : ~ CompletedBy(t, w) /\ ~ FailedBy(t, w)
        BY <1>1 DEF CompletedBy, FailedBy, OneWorker
      <3>4. Untouched(t)
        BY <3>1, <3>3, RowSteps DEF Created
      <3> QED
        BY <3>2, <3>4 DEF Untouched
    <2> QED
      BY <1>1, <2>1, <2>2, <2>3 DEF SubjectOf
  <1>2. CASE Subject[current'[v].message] = Garbage
    BY <1>2
  <1>3. CASE SaveCompleted(v)
    <2>1. PICK t \in Tickets : SubjectOf(v) = t /\ t \in stored
      BY <1>3 DEF SaveCompleted, TypeInv, TypeOK, WorkerInv
    <2>2. processed'[t] = processed[t] + 1 /\ processed[t] \in Nat
      BY <1>3, <2>1 DEF SaveCompleted, StoreCompleted, TypeInv, TypeOK
    <2>3. \A w \in Workers : ~ FailedBy(t, w)
      BY <1>3 DEF SaveCompleted, FailedBy, OneWorker
    <2>4. result'[t].status = "COMPLETED"
      BY <2>1, <2>2, <2>3, OnlyWriter DEF Untouched, Created
    <2> QED
      BY <1>3, <2>1, <2>4 DEF SaveCompleted, SubjectOf
  <1> QED
    BY <1>1, <1>2, <1>3, ReadingSteps

-----------------------------------------------------------------------------
(* What the worker holds.                                                  *)

(* Whatever the worker handles after a step it took then or had before.    *)
LEMMA HandlingSteps ==
  ASSUME TypeInv, [Next]_vars, NEW v \in Workers
  PROVE  \/ /\ batch'[v] \subseteq batch[v]
            /\ pc'[v] \in Handling =>
                  pc[v] \in Handling /\ current'[v] = current[v]
         \/ Take(v)
         \/ Receive(v) /\ pc'[v] \notin Handling
  <1>1. NoReceipt \notin Receipt
    BY ProcessingAssumption DEF Receipt, NoReceipt
  <1>2. pc'[v] \in Handling => current'[v] \in Receipt
    BY NextTypeInv DEF TypeInv, WorkerInv, Handling, Receipt
  <1>3. pc[v] \notin Handling => current[v] = NoReceipt
    BY DEF TypeInv, WorkerInv
  <1>4. CASE batch'[v] \subseteq batch[v] /\ current'[v] = current[v]
    BY <1>1, <1>2, <1>3, <1>4
  <1>5. CASE batch'[v] \subseteq batch[v] /\ current'[v] = NoReceipt
    BY <1>1, <1>2, <1>5
  <1>6. CASE Receive(v)
    <2>1. pc \in [Workers -> WorkerPlace]
      BY DEF TypeInv, TypeOK
    <2>2. \E there \in {"idle", "batch"} : pc' = [pc EXCEPT ![v] = there]
      BY <1>6, Handed
    <2> QED
      BY <1>6, <2>1, <2>2 DEF Handling
  <1> QED
    BY <1>4, <1>5, <1>6, HoldingSteps

LEMMA NextHeldOnce ==
  TypeInv /\ DeployedInv /\ [Next]_vars => HeldOnce'
  <1> SUFFICES ASSUME TypeInv, DeployedInv, [Next]_vars,
                      NEW v \in Workers, NEW r \in batch'[v]
               PROVE  /\ \A q \in batch'[v] : q.message = r.message => q = r
                      /\ pc'[v] \in Handling => current'[v].message # r.message
    BY DEF HeldOnce, Handling
  <1>1. \A b \in batch[v] :
           /\ \A q \in batch[v] : q.message = b.message => q = b
           /\ pc[v] \in Handling => current[v].message # b.message
    BY DEF DeployedInv, HeldOnce
  <1>2. CASE /\ batch'[v] \subseteq batch[v]
             /\ pc'[v] \in Handling =>
                   pc[v] \in Handling /\ current'[v] = current[v]
    BY <1>1, <1>2
  <1>3. CASE Take(v)
    <2>1. PICK b \in batch[v] : /\ batch'[v] = batch[v] \ {b}
                                /\ current'[v] = b
      BY <1>3 DEF Take, TypeInv, TypeOK
    <2> QED
      BY <1>1, <2>1
  <1>4. CASE Receive(v) /\ pc'[v] \notin Handling
    <2>1. batch \in [Workers -> SUBSET Receipt]
      BY DEF TypeInv, TypeOK
    <2>2. PICK out \in SUBSET Messages :
             batch' = [batch EXCEPT ![v] =
                {[message |-> m, count |-> receives[m] + 1] : m \in out}]
      BY <1>4, Handed
    <2>3. batch'[v] = {[message |-> m, count |-> receives[m] + 1] : m \in out}
      BY <2>1, <2>2
    <2>4. \A q \in batch'[v] :
             q = [message |-> q.message, count |-> receives[q.message] + 1]
      BY <2>3
    <2> QED
      BY <1>4, <2>4
  <1> QED
    BY <1>2, <1>3, <1>4, HandlingSteps

LEMMA NextHeldIsKept ==
  OneWorker /\ TypeInv /\ DeployedInv /\ [Next]_vars => HeldIsKept'
  <1> SUFFICES ASSUME OneWorker, TypeInv, DeployedInv, [Next]_vars,
                      NEW v \in Workers
               PROVE  /\ \A r \in batch'[v] : place'[r.message] # "deleted"
                      /\ pc'[v] \in Handling =>
                            place'[current'[v].message] # "deleted"
    BY DEF HeldIsKept, Handling
  <1>1. /\ \A r \in batch[v] : /\ r.message \in Messages
                               /\ place[r.message] # "deleted"
                               /\ pc[v] \in Handling =>
                                     current[v].message # r.message
        /\ pc[v] \in Handling => /\ current[v].message \in Messages
                                 /\ place[current[v].message] # "deleted"
    <2>1. /\ batch[v] \subseteq Receipt
          /\ pc[v] \in Handling => current[v] \in Receipt
      BY DEF TypeInv, TypeOK, WorkerInv
    <2> QED
      BY <2>1 DEF Receipt, DeployedInv, HeldIsKept, HeldOnce
  <1>2. ASSUME NEW m \in Messages, place[m] # "deleted", place'[m] = "deleted"
        PROVE  /\ pc[v] = "delete" /\ current[v].message = m
               /\ pc'[v] \notin Handling
    BY <1>2, DeletedByWorker DEF OneWorker
  <1>3. \A r \in batch[v] : pc[v] # "batch" => place'[r.message] # "deleted"
    BY <1>1, <1>2 DEF Handling
  <1>4. \A r \in batch[v] : place'[r.message] # "deleted"
    BY <1>1, <1>2, <1>3
  <1>5. CASE /\ batch'[v] \subseteq batch[v]
             /\ pc'[v] \in Handling =>
                   pc[v] \in Handling /\ current'[v] = current[v]
    BY <1>1, <1>2, <1>4, <1>5
  <1>6. CASE Take(v)
    <2>1. PICK b \in batch[v] : batch'[v] = batch[v] \ {b} /\ current'[v] = b
      BY <1>6 DEF Take, TypeInv, TypeOK
    <2> QED
      BY <1>4, <2>1
  <1>7. CASE Receive(v) /\ pc'[v] \notin Handling
    <2>1. batch \in [Workers -> SUBSET Receipt]
      BY DEF TypeInv, TypeOK
    <2>2. PICK out \in SUBSET Messages :
             /\ batch' = [batch EXCEPT ![v] =
                   {[message |-> m, count |-> receives[m] + 1] : m \in out}]
             /\ \A m \in out : place'[m] = "inflight"
      BY <1>7, Handed
    <2>3. batch'[v] = {[message |-> m, count |-> receives[m] + 1] : m \in out}
      BY <2>1, <2>2
    <2>4. \A r \in batch'[v] : r.message \in out
      BY <2>3
    <2> QED
      BY <1>7, <2>2, <2>4
  <1> QED
    BY <1>5, <1>6, <1>7, HandlingSteps

(* The message whose handling failed stays, and is deleted only when its   *)
(* ticket is COMPLETED.                                                    *)
LEMMA NextFailedIsTried ==
  OneWorker /\ TypeInv /\ QueueInv /\ DeployedInv /\ [Next]_vars
  => FailedIsTried'
  <1> SUFFICES ASSUME OneWorker, TypeInv, QueueInv, DeployedInv, [Next]_vars,
                      NEW t \in Tickets, result'[t].status = "FAILED"
               PROVE  \E m \in Messages :
                         Subject[m] = t /\ tries'[m] > 0 /\ place'[m] # "deleted"
    BY DEF FailedIsTried
  <1>1. CASE Untouched(t)
    <2>1. result[t].status = "FAILED"
      BY <1>1 DEF Untouched
    <2>2. PICK m \in Messages :
             Subject[m] = t /\ tries[m] > 0 /\ place[m] # "deleted"
      BY <2>1 DEF DeployedInv, FailedIsTried
    <2>3. place'[m] # "deleted"
      <3> SUFFICES ASSUME place'[m] = "deleted" PROVE FALSE
        OBVIOUS
      <3>1. PICK w \in Workers : pc[w] = "delete" /\ current[w].message = m
        BY <2>2, DeletedByWorker
      <3>2. t = Garbage \/ result[t].status = "COMPLETED"
        BY <2>2, <3>1 DEF DeployedInv, DeletingIsCompleted, SubjectOf
      <3> QED
        BY <2>1, <3>2, ProcessingAssumption
    <2> QED
      BY <2>2, <2>3, Monotone
  <1>2. ASSUME NEW w \in Workers, FailedBy(t, w)
        PROVE  \E m \in Messages :
                  Subject[m] = t /\ tries'[m] > 0 /\ place'[m] # "deleted"
    <2>1. pc[w] \in Handling /\ UNCHANGED <<place, tries>>
      BY <1>2 DEF FailedBy, Handling
    <2>2. tries[current[w].message] > 0
      BY <2>1 DEF QueueInv, HeldIsSent
    <2>3. place[current[w].message] # "deleted"
      BY <2>1 DEF DeployedInv, HeldIsKept
    <2> QED
      BY <1>2, <2>1, <2>2, <2>3, FailedRow
  <1>3. ~ Created(t)
    BY DEF Created, Pending
  <1> QED
    BY <1>1, <1>2, <1>3, OnlyWriter

-----------------------------------------------------------------------------
LEMMA DeployedInvCorrect ==
  ASSUME OneWorker
  PROVE  Spec => [](TypeInv /\ QueueInv /\ DeployedInv)
  <1> DEFINE Inv == TypeInv /\ QueueInv /\ DataInv /\ DeployedInv
  <1>1. Init => Inv
    <2>1. Init => DeployedInv
      BY DEF Init, DeployedInv, LoadedIsCurrent, RowIsConsistent, Consistent,
             HeldOnce, HeldIsKept, DeletingIsCompleted, FailedIsTried, Pending, Handling
    <2> QED
      BY <2>1, InitTypeInv, InitQueueInv, InitDataInv
  <1>2. Inv /\ [Next]_vars => Inv'
    <2>1. Inv /\ [Next]_vars => DeployedInv'
      BY NextLoadedIsCurrent, NextRowIsConsistent, NextHeldOnce,
         NextHeldIsKept, NextDeletingIsCompleted, NextFailedIsTried
         DEF DeployedInv
    <2> QED
      BY <2>1, NextTypeInv, NextQueueInv, NextDataInv
  <1>3. Inv => TypeInv /\ QueueInv /\ DeployedInv
    OBVIOUS
  <1> HIDE DEF Inv
  <1> QED
    BY <1>1, <1>2, <1>3, PTL DEF Spec

(* With one worker a row always makes sense to its reader: a COMPLETED row *)
(* has its result and no error of an earlier attempt, a FAILED row has a   *)
(* reason, a PENDING row has nothing.  Each write of save_completed and    *)
(* save_failed is made of what the row says at that moment.                *)
THEOREM RowsMakeSense ==
  ASSUME OneWorker
  PROVE  Spec => []RowIsConsistent
  <1>1. DeployedInv => RowIsConsistent
    BY DEF DeployedInv
  <1> QED
    BY DeployedInvCorrect, <1>1, PTL

(* With one worker a FAILED ticket still has a message in the queue or in  *)
(* the dead-letter queue, or had one that a worker tried and the queue     *)
(* forgot: the failure handler never deletes, and a later success of the   *)
(* same ticket is what deletes.                                            *)
THEOREM FailuresArePursued ==
  ASSUME OneWorker
  PROVE  Spec => []FailedIsPursued
  <1>1. ASSUME TypeInv, QueueInv, DeployedInv, NEW t \in Tickets,
               result[t].status = "FAILED"
        PROVE  Pursued(t) # {} \/ Forgotten(t) # {}
    <2>1. PICK m \in Messages :
             Subject[m] = t /\ tries[m] > 0 /\ place[m] # "deleted"
      BY <1>1 DEF DeployedInv, FailedIsTried
    <2>2. place[m] \in Location \ {"unsent", "deleted"}
      BY <1>1, <2>1 DEF TypeInv, TypeOK, QueueInv, TriedIsSent
    <2>3. m \in Pursued(t) \/ m \in Forgotten(t)
      BY <2>1, <2>2 DEF Pursued, Forgotten, Location
    <2> QED
      BY <2>3
  <1>2. TypeInv /\ QueueInv /\ DeployedInv => FailedIsPursued
    BY <1>1 DEF FailedIsPursued
  <1> QED
    BY DeployedInvCorrect, <1>2, PTL

=============================================================================
