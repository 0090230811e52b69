---------------------- MODULE ProcessingDeliveryProofs ----------------------
(***************************************************************************)
(* How often a message and its ticket are handled, whatever the number of  *)
(* workers, copies and deaths: delivery is at least once, and bounded.     *)
(***************************************************************************)
EXTENDS ProcessingProofs, FiniteSetTheorems

(* A receipt is outstanding as long as it can still begin, or end in, a    *)
(* PROCESSED event.                                                        *)
ReceiptOf(m, c) == [message |-> m, count |-> c]

Waiting(r) == \E w \in Workers : r \in batch[w]

Working(r) == \E w \in Workers : current[w] = r /\ pc[w] \in {"process", "write"}

(* The receipts of a message that a worker has begun with or lost, and     *)
(* those of the messages of a ticket that can cause no further event.      *)
Begun(m) == {c \in 1 .. receives[m] : ~ Waiting(ReceiptOf(m, c))}

SentAll == {m \in Messages : place[m] # "unsent"}

Sent(t) == {m \in Messages : Subject[m] = t /\ place[m] # "unsent"}

Spending(t) ==
    {p \in Sent(t) \X (1 .. MaxReceives) :
        /\ p[2] <= receives[p[1]]
        /\ ~ Waiting(ReceiptOf(p[1], p[2]))
        /\ ~ Working(ReceiptOf(p[1], p[2]))}

(* No receipt is in two places.                                            *)
ReceiptsUnique ==
    \A w \in Workers :
        /\ \A r \in batch[w] : r.count <= receives[r.message] /\ r # current[w]
        /\ current[w] \in Receipt =>
              current[w].count <= receives[current[w].message]
        /\ \A v \in Workers \ {w} :
              /\ batch[v] \cap batch[w] = {}
              /\ current[v] \notin batch[w]
              /\ current[v] = current[w] => current[v] = NoReceipt

DeliveryInv ==
    /\ IsFiniteSet(SentAll)
    /\ ReceiptsUnique
    /\ \A m \in Messages : tries[m] <= Cardinality(Begun(m))
    /\ \A t \in Tickets : processed[t] <= Cardinality(Spending(t))

-----------------------------------------------------------------------------
(* Finite sets and receipts.                                               *)

LEMMA GrowsByOne ==
  ASSUME NEW B, IsFiniteSet(B), NEW A \in SUBSET B, NEW x \in B \ A
  PROVE  Cardinality(A) + 1 <= Cardinality(B)
  <1>1. IsFiniteSet(A)
    BY FS_Subset
  <1>2. Cardinality(A \cup {x}) = Cardinality(A) + 1
    BY <1>1, FS_AddElement
  <1>3. A \cup {x} \in SUBSET B
    OBVIOUS
  <1>4. Cardinality(A \cup {x}) <= Cardinality(B)
    BY <1>3, FS_Subset
  <1> QED
    BY <1>2, <1>4

LEMMA ReceiptFacts ==
  /\ \A r \in Receipt : /\ r.message \in Messages
                        /\ r.count \in 1 .. MaxReceives
                        /\ r = ReceiptOf(r.message, r.count)
                        /\ r # NoReceipt
  /\ \A m \in Messages : \A c \in 1 .. MaxReceives :
        /\ ReceiptOf(m, c) \in Receipt
        /\ ReceiptOf(m, c).message = m /\ ReceiptOf(m, c).count = c
  BY ProcessingAssumption DEF Receipt, ReceiptOf, NoReceipt

LEMMA BegunFinite ==
  ASSUME TypeInv, NEW m \in Messages
  PROVE  /\ IsFiniteSet(Begun(m))
         /\ Cardinality(Begun(m)) <= receives[m]
         /\ Cardinality(Begun(m)) \in Nat
  <1>1. receives[m] \in Nat
    BY ProcessingAssumption DEF TypeInv, TypeOK
  <1>2. IsFiniteSet(1 .. receives[m]) /\ Cardinality(1 .. receives[m]) = receives[m]
    BY <1>1, FS_Interval
  <1>3. Begun(m) \in SUBSET (1 .. receives[m])
    BY DEF Begun
  <1> QED
    BY <1>2, <1>3, FS_Subset, FS_CardinalityType

LEMMA SpendingFinite ==
  ASSUME TypeInv, IsFiniteSet(SentAll), NEW t \in Tickets
  PROVE  /\ IsFiniteSet(Spending(t))
         /\ Cardinality(Spending(t)) \in Nat
         /\ Cardinality(Spending(t)) <= MaxReceives * Cardinality(Sent(t))
  <1>1. /\ IsFiniteSet(1 .. MaxReceives)
        /\ Cardinality(1 .. MaxReceives) = MaxReceives
    BY ProcessingAssumption, FS_Interval
  <1>2. Sent(t) \in SUBSET SentAll
    BY DEF Sent, SentAll
  <1>3. IsFiniteSet(Sent(t))
    BY <1>2, FS_Subset
  <1>4. Cardinality(Sent(t)) \in Nat
    BY <1>3, FS_CardinalityType
  <1>5. /\ IsFiniteSet(Sent(t) \X (1 .. MaxReceives))
        /\ Cardinality(Sent(t) \X (1 .. MaxReceives))
              = Cardinality(Sent(t)) * Cardinality(1 .. MaxReceives)
    BY <1>1, <1>3, FS_Product
  <1>6. Spending(t) \in SUBSET (Sent(t) \X (1 .. MaxReceives))
    BY DEF Spending
  <1>7. /\ IsFiniteSet(Spending(t))
        /\ Cardinality(Spending(t)) <= Cardinality(Sent(t) \X (1 .. MaxReceives))
    BY <1>5, <1>6, FS_Subset
  <1>8. Cardinality(Sent(t)) * MaxReceives = MaxReceives * Cardinality(Sent(t))
    BY <1>4, ProcessingAssumption
  <1>9. Cardinality(Spending(t)) \in Nat
    BY <1>7, FS_CardinalityType
  <1> QED
    BY <1>1, <1>5, <1>7, <1>8, <1>9

-----------------------------------------------------------------------------
(* Steps.                                                                  *)

LEMMA ReceivesSteps ==
  ASSUME TypeInv, [Next]_vars
  PROVE  /\ \/ receives' = receives
            \/ \E w \in Workers : Receive(w) \/ ReceiveFails(w)
         /\ \A m \in Messages : receives[m] <= receives'[m]
  <1> USE DEF database, queue, worker
  <1>1. ASSUME NEW w \in Workers,
               \/ Poll(w) \/ Take(w) \/ Choke(w) \/ Load(w) \/ SaveCompleted(w)
               \/ LoadForFailure(w) \/ SaveFailed(w) \/ RecordFails(w)
               \/ Stop(w) \/ ProcessFails(w)
               \/ SaveUnacknowledged(w) \/ Delete(w) \/ DeleteFails(w)
               \/ Disturb(w)
        PROVE  UNCHANGED receives
    BY <1>1 DEF Poll, Take, Choke, Load, SaveCompleted, LoadForFailure,
                SaveFailed, RecordFails, Stop, ProcessFails,
                SaveUnacknowledged, Delete, DeleteFails, Disturb, Crash,
                RequestStop, Restart
  <1>2. ASSUME \/ \E t \in Tickets : Create(t)
               \/ \E m \in Messages : Publish(m) \/ SendForeign(m)
                                        \/ Expire(m) \/ Vanish(m)
               \/ UNCHANGED vars
        PROVE  UNCHANGED receives
    BY <1>2 DEF Create, CommitTicket, EndPublish, Publish, SendForeign, Expire,
                Vanish, vars
  <1>3. \/ receives' = receives
        \/ \E w \in Workers : Receive(w) \/ ReceiveFails(w)
    BY <1>1, <1>2 DEF Next, Undisturbed, Work, Fault
  <1>4. \A m \in Messages : receives[m] \in Nat
    BY ProcessingAssumption DEF TypeInv, TypeOK
  <1>5. ASSUME NEW w \in Workers, Receive(w) \/ ReceiveFails(w)
        PROVE  \A m \in Messages : receives[m] <= receives'[m]
    BY <1>5, Moved
  <1> QED
    BY <1>3, <1>4, <1>5

(* A worker begins with a message by taking it off its batch.              *)
LEMMA TriesSteps ==
  ASSUME TypeInv, [Next]_vars, NEW m \in Messages
  PROVE  \/ tries'[m] = tries[m]
         \/ \E w \in Workers : \E r \in batch[w] :
               r.message = m /\ tries'[m] = tries[m] + 1 /\ r \notin batch'[w]
  <1> USE DEF database, queue, worker
  <1>1. /\ tries \in [Messages -> Nat]
        /\ batch \in [Workers -> SUBSET Receipt]
    BY DEF TypeInv, TypeOK
  <1>2. ASSUME NEW w \in Workers, Take(w) \/ Choke(w)
        PROVE  \/ tries'[m] = tries[m]
               \/ \E r \in batch[w] : /\ r.message = m
                                      /\ tries'[m] = tries[m] + 1
                                      /\ r \notin batch'[w]
    <2>1. PICK r \in batch[w] : /\ tries' = [tries EXCEPT ![r.message] = @ + 1]
                                /\ r \notin batch'[w]
      BY <1>1, <1>2 DEF Take, Choke, End
    <2> QED
      BY <1>1, <2>1
  <1>3. ASSUME NEW w \in Workers,
               \/ Poll(w) \/ Receive(w) \/ Load(w) \/ SaveCompleted(w)
               \/ LoadForFailure(w) \/ SaveFailed(w) \/ RecordFails(w)
               \/ Stop(w) \/ ReceiveFails(w) \/ ProcessFails(w)
               \/ SaveUnacknowledged(w) \/ Delete(w) \/ DeleteFails(w)
               \/ Disturb(w)
        PROVE  UNCHANGED tries
    BY <1>3 DEF Poll, Receive, Load, SaveCompleted, LoadForFailure, SaveFailed,
                RecordFails, Stop, ReceiveFails, ProcessFails,
                SaveUnacknowledged, Delete, DeleteFails, Disturb, Crash,
                RequestStop, Restart
  <1>4. ASSUME \/ \E t \in Tickets : Create(t)
               \/ \E n \in Messages : Publish(n) \/ SendForeign(n)
                                        \/ Expire(n) \/ Vanish(n)
               \/ UNCHANGED vars
        PROVE  UNCHANGED tries
    BY <1>4 DEF Create, CommitTicket, EndPublish, Publish, SendForeign, Expire,
                Vanish, vars
  <1> QED
    BY <1>2, <1>3, <1>4 DEF Next, Undisturbed, Work, Fault

(* A worker comes to process a message only by taking it.                  *)
LEMMA WorkingSteps ==
  ASSUME TypeInv, [Next]_vars, NEW v \in Workers,
         pc'[v] \in {"process", "write"}
  PROVE  \/ Take(v)
         \/ pc[v] \in {"process", "write"} /\ current'[v] = current[v]
  <1> DEFINE Goal ==
         \/ Take(v)
         \/ pc[v] \in {"process", "write"} /\ current'[v] = current[v]
  <1> SUFFICES Goal
    OBVIOUS
  <1> USE DEF database, queue, worker, GoTo
  <1>1. /\ pc \in [Workers -> WorkerPlace]
        /\ current \in [Workers -> Receipt \cup {NoReceipt}]
    BY DEF TypeInv, TypeOK
  <1>2. CASE UNCHANGED <<pc, current>>
    BY <1>2
  <1>3. ASSUME NEW w \in Workers, Take(w)
        PROVE  Goal
    BY <1>1, <1>3 DEF Take
  <1>4. ASSUME NEW w \in Workers,
               \/ Load(w) \/ LoadForFailure(w) \/ SaveCompleted(w) \/ Poll(w)
               \/ SaveUnacknowledged(w) \/ ProcessFails(w) \/ Stop(w)
               \/ ReceiveFails(w) \/ Restart(w)
        PROVE  Goal
    BY <1>1, <1>4 DEF Load, LoadForFailure, SaveCompleted, Poll,
                      SaveUnacknowledged, ProcessFails, Stop, ReceiveFails,
                      Restart
  <1>5. ASSUME NEW w \in Workers, SaveFailed(w) \/ RecordFails(w) \/ Delete(w)
        PROVE  Goal
    <2>1. Return(w)
      BY <1>5 DEF SaveFailed, RecordFails, Delete
    <2> QED
      BY <1>1, <2>1 DEF Return
  <1>6. ASSUME NEW w \in Workers, Choke(w) \/ Crash(w) \/ DeleteFails(w)
        PROVE  Goal
    <2>1. End(w)
      BY <1>6 DEF Choke, Crash, DeleteFails, Die
    <2> QED
      BY <1>1, <2>1 DEF End
  <1>7. ASSUME NEW w \in Workers, Receive(w)
        PROVE  Goal
    <2>1. /\ \E there \in {"idle", "batch"} : pc' = [pc EXCEPT ![w] = there]
          /\ UNCHANGED current
      BY <1>7, Handed DEF Receive
    <2> QED
      BY <1>1, <2>1
  <1>8. ASSUME \/ \E t \in Tickets : Create(t)
               \/ \E m \in Messages : Publish(m) \/ SendForeign(m)
                                        \/ Expire(m) \/ Vanish(m)
               \/ \E w \in Workers : RequestStop(w)
               \/ UNCHANGED vars
        PROVE  UNCHANGED <<pc, current>>
    BY <1>8 DEF Create, CommitTicket, EndPublish, Publish, SendForeign, Expire,
                Vanish, RequestStop, vars
  <1> QED
    BY <1>2, <1>3, <1>4, <1>5, <1>6, <1>7, <1>8
       DEF Next, Undisturbed, Work, Fault, Disturb

(* An issued receipt does not come back to a batch, and is not taken up    *)
(* again.                                                                  *)
LEMMA ReceiptSteps ==
  ASSUME TypeInv, [Next]_vars, NEW v \in Workers, NEW r \in Receipt,
         r.count <= receives[r.message]
  PROVE  /\ r \in batch'[v] => r \in batch[v]
         /\ current'[v] = r /\ pc'[v] \in {"process", "write"} =>
               \/ r \in batch[v]
               \/ current[v] = r /\ pc[v] \in {"process", "write"}
  <1>1. /\ batch \in [Workers -> SUBSET Receipt]
        /\ current \in [Workers -> Receipt \cup {NoReceipt}]
        /\ receives \in [Messages -> Nat]
    BY ProcessingAssumption DEF TypeInv, TypeOK
  <1>2. r \in batch'[v] => r \in batch[v]
    <2>1. CASE Take(v)
      BY <1>1, <2>1 DEF Take
    <2>2. CASE Receive(v)
      <3>1. \A q \in batch'[v] : /\ q.count = receives[q.message] + 1
                                 /\ q.message \in Messages
        BY <1>1, <2>2, Handed
      <3> QED
        BY <1>1, <3>1, ReceiptFacts
    <2> QED
      BY <2>1, <2>2, HoldingSteps
  <1>3. ASSUME current'[v] = r, pc'[v] \in {"process", "write"}
        PROVE  r \in batch[v] \/ (current[v] = r /\ pc[v] \in {"process", "write"})
    <2>1. CASE Take(v)
      BY <1>1, <1>3, <2>1 DEF Take
    <2> QED
      BY <1>3, <2>1, WorkingSteps
  <1> QED
    BY <1>2, <1>3

-----------------------------------------------------------------------------
(* The invariant.                                                          *)

LEMMA NextReceiptsUnique ==
  TypeInv /\ ReceiptsUnique /\ [Next]_vars => ReceiptsUnique'
  <1> SUFFICES ASSUME TypeInv, ReceiptsUnique, [Next]_vars PROVE ReceiptsUnique'
    OBVIOUS
  <1>1. /\ batch \in [Workers -> SUBSET Receipt]
        /\ current \in [Workers -> Receipt \cup {NoReceipt}]
        /\ receives \in [Messages -> Nat]
        /\ pc \in [Workers -> WorkerPlace]
    BY ProcessingAssumption DEF TypeInv, TypeOK
  <1>2. \A r \in Receipt : r.message \in Messages /\ r # NoReceipt
    BY ReceiptFacts
  <1>3. ASSUME NEW u \in Workers, Take(u)
        PROVE  ReceiptsUnique'
    <2>1. PICK r \in batch[u] :
             /\ batch' = [batch EXCEPT ![u] = @ \ {r}]
             /\ current' = [current EXCEPT ![u] = r]
      BY <1>3 DEF Take
    <2>2. receives' = receives
      BY <1>3 DEF Take, queue
    <2> QED
      BY <1>1, <1>2, <2>1, <2>2 DEF ReceiptsUnique
  <1>4. ASSUME NEW u \in Workers, Receive(u)
        PROVE  ReceiptsUnique'
    <2>1. current' = current /\ current[u] = NoReceipt
      BY <1>4 DEF Receive, TypeInv, WorkerInv, Handling
    <2>2. PICK out \in SUBSET Messages :
             /\ batch' = [batch EXCEPT ![u] =
                   {[message |-> m, count |-> receives[m] + 1] : m \in out}]
             /\ receives' = [m \in Messages |->
                   IF m \in out THEN receives[m] + 1 ELSE receives[m]]
      BY <1>4, Handed
    <2>3. \A r \in batch'[u] :
             /\ r.message \in Messages
             /\ r.count = receives[r.message] + 1
             /\ r.count = receives'[r.message]
             /\ r # NoReceipt
      BY <1>1, <2>2, ProcessingAssumption DEF NoReceipt
    <2>4. \A w \in Workers \ {u} : batch'[w] = batch[w]
      BY <1>1, <2>2
    <2>5. \A m \in Messages : receives[m] <= receives'[m]
      BY <1>1, <2>2
    <2>6. \A r \in Receipt : r.count \in Nat
      BY ReceiptFacts, ProcessingAssumption
    <2>7. ASSUME NEW r \in Receipt, r.count <= receives[r.message]
          PROVE  r \notin batch'[u] /\ r.count <= receives'[r.message]
      <3>1. /\ r.count \in Nat /\ r.message \in Messages
            /\ receives[r.message] \in Nat
            /\ receives'[r.message] \in Nat
        BY <1>1, <1>2, <2>2, <2>6
      <3>2. r \notin batch'[u]
        BY <2>3, <2>7, <3>1
      <3>3. r.count <= receives'[r.message]
        BY <2>5, <2>7, <3>1
      <3> QED
        BY <3>2, <3>3
    <2>8. ASSUME NEW w \in Workers
          PROVE  /\ \A r \in batch'[w] :
                       r.count <= receives'[r.message] /\ r # current'[w]
                 /\ current'[w] \in Receipt =>
                       current'[w].count <= receives'[current'[w].message]
      BY <1>1, <1>2, <2>1, <2>3, <2>4, <2>7 DEF ReceiptsUnique
    <2>9. ASSUME NEW w \in Workers, NEW v \in Workers \ {w}
          PROVE  /\ batch'[v] \cap batch'[w] = {}
                 /\ current'[v] \notin batch'[w]
                 /\ current'[v] = current'[w] => current'[v] = NoReceipt
      <3>1. \A x \in Workers : \A r \in batch[x] :
               r \in Receipt /\ r.count <= receives[r.message]
        BY <1>1 DEF ReceiptsUnique
      <3>2. \A x \in Workers : current[x] \in Receipt =>
               current[x].count <= receives[current[x].message]
        BY DEF ReceiptsUnique
      <3>3. \A x \in Workers \ {u} : batch'[x] \cap batch'[u] = {}
        BY <2>4, <2>7, <3>1
      <3>4. \A x \in Workers : current'[x] \notin batch'[u]
        BY <1>1, <2>1, <2>3, <2>7, <3>2
      <3> QED
        BY <2>1, <2>4, <3>3, <3>4 DEF ReceiptsUnique
    <2> QED
      BY <2>8, <2>9 DEF ReceiptsUnique
  <1>5. ASSUME \A w \in Workers : ~ Take(w) /\ ~ Receive(w)
        PROVE  ReceiptsUnique'
    <2>1. \A m \in Messages : /\ receives[m] <= receives'[m]
                              /\ receives'[m] \in Nat
      BY <1>5, ReceivesSteps, NextTypeInv, ProcessingAssumption
         DEF TypeInv, TypeOK
    <2>2. \A w \in Workers : /\ batch'[w] \subseteq batch[w]
                            /\ current'[w] \in {current[w], NoReceipt}
      BY <1>5, HoldingSteps
    <2>3. \A r \in Receipt :
             r.count <= receives[r.message] => r.count <= receives'[r.message]
      BY <1>1, <1>2, <2>1, ReceiptFacts, ProcessingAssumption
    <2>4. ASSUME NEW w \in Workers
          PROVE  /\ \A r \in batch'[w] :
                       r.count <= receives'[r.message] /\ r # current'[w]
                 /\ current'[w] \in Receipt =>
                       current'[w].count <= receives'[current'[w].message]
      BY <1>1, <1>2, <2>2, <2>3 DEF ReceiptsUnique
    <2>5. ASSUME NEW w \in Workers, NEW v \in Workers \ {w}
          PROVE  /\ batch'[v] \cap batch'[w] = {}
                 /\ current'[v] \notin batch'[w]
                 /\ current'[v] = current'[w] => current'[v] = NoReceipt
      BY <1>1, <1>2, <2>2 DEF ReceiptsUnique
    <2> QED
      BY <2>4, <2>5 DEF ReceiptsUnique
  <1> QED
    BY <1>3, <1>4, <1>5

(* A receipt that was begun stays so, and another one joins it whenever a  *)
(* worker begins with the message.                                         *)
LEMMA NextTries ==
  ASSUME TypeInv, DeliveryInv, [Next]_vars, NEW m \in Messages
  PROVE  tries'[m] <= Cardinality(Begun(m)')
  <1>1. /\ tries[m] \in Nat /\ tries'[m] \in Nat
        /\ receives[m] \in 0 .. MaxReceives
        /\ receives'[m] \in 0 .. MaxReceives
        /\ receives[m] <= receives'[m]
    BY NextTypeInv, ReceivesSteps DEF TypeInv, TypeOK
  <1>2. IsFiniteSet(Begun(m)') /\ Cardinality(Begun(m)') \in Nat
    <2>1. TypeInv'
      BY NextTypeInv
    <2>2. receives'[m] \in Nat
      BY <1>1, ProcessingAssumption
    <2>3. IsFiniteSet(1 .. receives'[m])
      BY <2>2, FS_Interval
    <2>4. Begun(m)' \in SUBSET (1 .. receives'[m])
      BY DEF Begun
    <2> QED
      BY <2>3, <2>4, FS_Subset, FS_CardinalityType
  <1>3. Cardinality(Begun(m)) \in Nat /\ tries[m] <= Cardinality(Begun(m))
    BY BegunFinite DEF DeliveryInv
  <1>4. ASSUME NEW c \in 1 .. receives[m], NEW v \in Workers,
               ReceiptOf(m, c) \in batch'[v]
        PROVE  ReceiptOf(m, c) \in batch[v]
    <2>1. c \in 1 .. MaxReceives
      BY <1>1, ProcessingAssumption
    <2> QED
      BY <1>4, <2>1, ReceiptFacts, ReceiptSteps
  <1>5. Begun(m) \in SUBSET Begun(m)'
    <2>1. ASSUME NEW c \in Begun(m)
          PROVE  c \in 1 .. receives'[m] /\ ~ Waiting(ReceiptOf(m, c))'
      BY <1>1, <1>4 DEF Begun, Waiting
    <2> QED
      BY <2>1 DEF Begun
  <1>6. CASE tries'[m] = tries[m]
    <2>1. Cardinality(Begun(m)) <= Cardinality(Begun(m)')
      BY <1>2, <1>5, FS_Subset
    <2> QED
      BY <1>1, <1>2, <1>3, <1>6, <2>1
  <1>7. CASE tries'[m] # tries[m]
    <2>1. PICK w \in Workers : \E r \in batch[w] :
             r.message = m /\ tries'[m] = tries[m] + 1 /\ r \notin batch'[w]
      BY <1>7, TriesSteps
    <2>2. PICK r \in batch[w] :
             r.message = m /\ tries'[m] = tries[m] + 1 /\ r \notin batch'[w]
      BY <2>1
    <2>3. /\ r = ReceiptOf(m, r.count)
          /\ r.count \in 1 .. receives[m]
          /\ r.count \in 1 .. receives'[m]
      BY <1>1, <2>2, ReceiptFacts, ProcessingAssumption
         DEF TypeInv, TypeOK, DeliveryInv, ReceiptsUnique
    <2>4. r.count \notin Begun(m)
      BY <2>2, <2>3 DEF Begun, Waiting
    <2>5. \A v \in Workers : r \notin batch'[v]
      BY <1>4, <2>2, <2>3 DEF DeliveryInv, ReceiptsUnique
    <2>6. r.count \in Begun(m)'
      BY <2>3, <2>5 DEF Begun, Waiting
    <2>7. Cardinality(Begun(m)) + 1 <= Cardinality(Begun(m)')
      BY <1>2, <1>5, <2>4, <2>6, GrowsByOne
    <2> QED
      BY <1>1, <1>2, <1>3, <2>2, <2>7
  <1> QED
    BY <1>6, <1>7

LEMMA NextSentFinite ==
  ASSUME TypeInv, IsFiniteSet(SentAll), [Next]_vars
  PROVE  IsFiniteSet(SentAll')
  <1>1. CASE SentAll' \subseteq SentAll
    BY <1>1, FS_Subset
  <1>2. ASSUME NEW m \in SentAll', m \notin SentAll
        PROVE  IsFiniteSet(SentAll')
    <2>1. m \in Messages /\ (Publish(m) \/ SendForeign(m))
      BY <1>2, SentByPublish DEF SentAll
    <2>2. SentAll' \in SUBSET (SentAll \cup {m})
      BY <2>1 DEF Publish, SendForeign, SentAll, TypeInv, TypeOK
    <2>3. IsFiniteSet(SentAll \cup {m})
      BY FS_AddElement
    <2> QED
      BY <2>2, <2>3, FS_Subset
  <1> QED
    BY <1>1, <1>2

(* A receipt that can cause no further event stays so, and the one whose   *)
(* handling stores a result joins it.                                      *)
LEMMA NextRuns ==
  ASSUME TypeInv, QueueInv, DataInv, DeliveryInv, [Next]_vars, NEW t \in Tickets
  PROVE  processed'[t] <= Cardinality(Spending(t)')
  <1>1. /\ processed[t] \in Nat /\ processed'[t] \in Nat
        /\ receives \in [Messages -> 0 .. MaxReceives]
        /\ receives' \in [Messages -> 0 .. MaxReceives]
        /\ \A m \in Messages : receives[m] <= receives'[m]
    BY NextTypeInv, ReceivesSteps DEF TypeInv, TypeOK
  <1>2. IsFiniteSet(Spending(t)') /\ Cardinality(Spending(t)') \in Nat
    <2>1. IsFiniteSet(SentAll')
      BY NextSentFinite DEF DeliveryInv
    <2>2. Sent(t)' \in SUBSET SentAll'
      BY DEF Sent, SentAll
    <2>3. IsFiniteSet(Sent(t)')
      BY <2>1, <2>2, FS_Subset
    <2>4. IsFiniteSet(1 .. MaxReceives)
      BY ProcessingAssumption, FS_Interval
    <2>5. IsFiniteSet(Sent(t)' \X (1 .. MaxReceives))
      BY <2>3, <2>4, FS_Product
    <2>6. Spending(t)' \in SUBSET (Sent(t)' \X (1 .. MaxReceives))
      BY DEF Spending
    <2> QED
      BY <2>5, <2>6, FS_Subset, FS_CardinalityType
  <1>3. /\ Cardinality(Spending(t)) \in Nat
        /\ processed[t] <= Cardinality(Spending(t))
    BY SpendingFinite DEF DeliveryInv
  <1>4. Spending(t) \in SUBSET Spending(t)'
    <2> SUFFICES ASSUME NEW p \in Spending(t) PROVE p \in Spending(t)'
      OBVIOUS
    <2> DEFINE r == ReceiptOf(p[1], p[2])
    <2>1. /\ p \in Sent(t) \X (1 .. MaxReceives)
          /\ p[1] \in Messages /\ p[2] \in 1 .. MaxReceives
          /\ p[2] <= receives[p[1]]
          /\ ~ Waiting(r) /\ ~ Working(r)
      BY DEF Spending, Sent
    <2>2. r \in Receipt /\ r.count <= receives[r.message]
      BY <2>1, ReceiptFacts
    <2>3. ~ Waiting(r)'
      BY <2>1, <2>2, ReceiptSteps DEF Waiting
    <2>4. ~ Working(r)'
      BY <2>1, <2>2, ReceiptSteps DEF Waiting, Working
    <2>5. p[2] <= receives'[p[1]]
      BY <1>1, <2>1, ProcessingAssumption
    <2>6. p \in Sent(t)' \X (1 .. MaxReceives)
      BY <2>1, Monotone DEF Sent
    <2> QED
      BY <2>3, <2>4, <2>5, <2>6 DEF Spending
  <1>5. CASE processed'[t] = processed[t]
    <2>1. Cardinality(Spending(t)) <= Cardinality(Spending(t)')
      BY <1>2, <1>4, FS_Subset
    <2> QED
      BY <1>1, <1>2, <1>3, <1>5, <2>1
  <1>6. ASSUME NEW w \in Workers, CompletedBy(t, w)
        PROVE  processed'[t] <= Cardinality(Spending(t)')
    <2>1. PICK r \in Receipt : current[w] = r
      BY <1>6 DEF CompletedBy, TypeInv, WorkerInv, Handling
    <2> DEFINE p == <<r.message, r.count>>
    <2>2. /\ pc[w] = "write" /\ pc'[w] \in {"delete", "failed"}
          /\ processed'[t] = processed[t] + 1
          /\ current' = current /\ current[w] = r
      BY <1>6, <2>1 DEF CompletedBy
    <2>3. /\ r.message \in Messages /\ r.count \in 1 .. MaxReceives
          /\ r = ReceiptOf(r.message, r.count)
          /\ r # NoReceipt
          /\ r.count <= receives[r.message]
      BY <2>2, ReceiptFacts DEF DeliveryInv, ReceiptsUnique
    <2>4. p \notin Spending(t)
      BY <2>2, <2>3 DEF Spending, Working
    <2>5. \A v \in Workers : r \notin batch'[v]
      <3>1. \A v \in Workers : r \notin batch[v]
        BY <2>2 DEF DeliveryInv, ReceiptsUnique
      <3> QED
        BY <2>3, <3>1, ReceiptSteps
    <2>6. ASSUME NEW v \in Workers, current'[v] = r
          PROVE  pc'[v] \notin {"process", "write"}
      <3>1. v = w
        BY <2>2, <2>3, <2>6 DEF DeliveryInv, ReceiptsUnique
      <3> QED
        BY <2>2, <3>1
    <2>7. ~ Waiting(r)' /\ ~ Working(r)'
      BY <2>2, <2>5, <2>6 DEF Waiting, Working
    <2>8. r.message \in Sent(t)'
      <3>1. tries[r.message] > 0
        BY <2>2 DEF QueueInv, HeldIsSent, Handling
      <3>2. place'[r.message] # "unsent"
        BY <2>3, <3>1, Monotone DEF QueueInv, TriedIsSent
      <3> QED
        BY <1>6, <2>2, <2>3, <3>2 DEF CompletedBy, SubjectOf, Sent
    <2>9. r.count <= receives'[r.message]
      BY <1>1, <2>3, ProcessingAssumption
    <2>10. p \in Spending(t)'
      <3>1. p \in Sent(t)' \X (1 .. MaxReceives)
        BY <2>3, <2>8
      <3>2. /\ p[2] <= receives'[p[1]]
            /\ ~ Waiting(ReceiptOf(p[1], p[2]))'
            /\ ~ Working(ReceiptOf(p[1], p[2]))'
        BY <2>3, <2>7, <2>9
      <3> QED
        BY <3>1, <3>2 DEF Spending
    <2>11. Cardinality(Spending(t)) + 1 <= Cardinality(Spending(t)')
      BY <1>2, <1>4, <2>4, <2>10, GrowsByOne
    <2> QED
      BY <1>1, <1>2, <1>3, <2>2, <2>11
  <1> QED
    BY <1>5, <1>6, RowSteps DEF Untouched, Created, FailedBy

LEMMA InitDeliveryInv == Init => DeliveryInv
  <1> SUFFICES ASSUME Init PROVE DeliveryInv
    OBVIOUS
  <1>1. SentAll = {}
    BY DEF Init, SentAll
  <1>2. IsFiniteSet(SentAll)
    BY <1>1, FS_EmptySet
  <1>3. ReceiptsUnique
    BY ReceiptFacts DEF Init, ReceiptsUnique
  <1>4. ASSUME NEW m \in Messages
        PROVE  tries[m] <= Cardinality(Begun(m))
    BY BegunFinite, InitTypeInv DEF Init
  <1>5. ASSUME NEW t \in Tickets
        PROVE  processed[t] <= Cardinality(Spending(t))
    BY <1>2, SpendingFinite, InitTypeInv DEF Init
  <1> QED
    BY <1>2, <1>3, <1>4, <1>5 DEF DeliveryInv

LEMMA NextDeliveryInv ==
  TypeInv /\ QueueInv /\ DataInv /\ DeliveryInv /\ [Next]_vars => DeliveryInv'
  <1> SUFFICES ASSUME TypeInv, QueueInv, DataInv, DeliveryInv, [Next]_vars
               PROVE  DeliveryInv'
    OBVIOUS
  <1>1. IsFiniteSet(SentAll') /\ ReceiptsUnique'
    BY NextSentFinite, NextReceiptsUnique DEF DeliveryInv
  <1>2. \A m \in Messages : tries'[m] <= Cardinality(Begun(m)')
    BY NextTries
  <1>3. \A t \in Tickets : processed'[t] <= Cardinality(Spending(t)')
    BY NextRuns
  <1> QED
    BY <1>1, <1>2, <1>3 DEF DeliveryInv

(* At-least-once delivery is bounded.  Every receipt the queue issues is   *)
(* handled at most once, by one worker, so a message is handled at most as *)
(* often as it was received, and a ticket has at most maxReceiveCount      *)
(* PROCESSED events for every copy of its message, although a result that  *)
(* was stored without acknowledgement is stored again.                     *)
THEOREM DeliveryIsBounded == Spec => []HandledAtMostAsReceived
  <1>1. Init => TypeInv /\ QueueInv /\ DataInv /\ DeliveryInv
    BY InitTypeInv, InitQueueInv, InitDataInv, InitDeliveryInv
  <1>2. TypeInv /\ QueueInv /\ DataInv /\ DeliveryInv /\ [Next]_vars
        => (TypeInv /\ QueueInv /\ DataInv /\ DeliveryInv)'
    BY NextTypeInv, NextQueueInv, NextDataInv, NextDeliveryInv
  <1>3. ASSUME TypeInv, DeliveryInv
        PROVE  HandledAtMostAsReceived
    <2>1. ASSUME NEW m \in Messages
          PROVE  tries[m] <= receives[m]
      <3>1. tries[m] \in Nat /\ receives[m] \in Nat
        BY <1>3, ProcessingAssumption DEF TypeInv, TypeOK
      <3> QED
        BY <1>3, <3>1, BegunFinite DEF DeliveryInv
    <2>2. ASSUME NEW t \in Tickets
          PROVE  processed[t] <= MaxReceives * Cardinality(Sent(t))
      <3>1. /\ IsFiniteSet(SentAll)
            /\ processed[t] <= Cardinality(Spending(t))
            /\ processed[t] \in Nat
        BY <1>3 DEF DeliveryInv, TypeInv, TypeOK
      <3>2. Cardinality(Sent(t)) \in Nat
        <4>1. Sent(t) \in SUBSET SentAll
          BY DEF Sent, SentAll
        <4> QED
          BY <3>1, <4>1, FS_Subset, FS_CardinalityType
      <3>3. MaxReceives * Cardinality(Sent(t)) \in Nat
        BY <3>2, ProcessingAssumption
      <3> QED
        BY <1>3, <3>1, <3>3, SpendingFinite
    <2> QED
      BY <2>1, <2>2 DEF HandledAtMostAsReceived, Sent
  <1> QED
    BY <1>1, <1>2, <1>3, PTL DEF Spec

=============================================================================
