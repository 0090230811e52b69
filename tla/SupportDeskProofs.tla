------------------------- MODULE SupportDeskProofs -------------------------
(***************************************************************************)
(* Theorems about the API process and the worker on one database, for any  *)
(* number of tickets, requests, messages and workers.  What is known of    *)
(* each of the two alone is used here: every step of the whole is a step   *)
(* of the pipeline, and a step of the ticket service or one that its       *)
(* invariants bear (the Foreign steps of TicketsLogProofs).                *)
(***************************************************************************)
EXTENDS SupportDesk, TLAPS

AP == INSTANCE TicketsLogProofs WITH pc <- api_pc
PP == INSTANCE ProcessingProofs WITH pc <- worker_pc

-----------------------------------------------------------------------------
(* The instances in which the theorems are stated are those of SupportDesk.*)

LEMMA Assumptions == AP!TicketsAssumption /\ PP!ProcessingAssumption
  BY DeskAssumption
     DEF Api!TicketsAssumption, AP!TicketsAssumption, Api!CallType,
           AP!CallType, Api!TicketStatus, AP!TicketStatus,
         Pipeline!ProcessingAssumption, PP!ProcessingAssumption,
         Pipeline!Text, PP!Text, Pipeline!Keywords, PP!Keywords,
         Pipeline!TicketCategory, PP!TicketCategory, Pipeline!Triaged,
         PP!Triaged, Pipeline!SummaryLength, PP!SummaryLength,
         Pipeline!SummaryLimit, PP!SummaryLimit, Pipeline!HeuristicPriority,
         PP!HeuristicPriority, Pipeline!Department, PP!Department,
         Pipeline!UrgentWords, PP!UrgentWords, Pipeline!HighWords,
         PP!HighWords, Pipeline!LowWords, PP!LowWords

LEMMA SameInit ==
  /\ Api!Init => AP!Init
  /\ Pipeline!Init => PP!Init
  BY DEF Api!Init, AP!Init, Api!NoCall, AP!NoCall, Api!NoSession,
         AP!NoSession, Pipeline!Init, PP!Init, Pipeline!Pending, PP!Pending,
         Pipeline!NoReceipt, PP!NoReceipt

LEMMA SameCreate ==
  ASSUME NEW t \in Tickets
  PROVE  /\ Api!CreateTicket(t) => AP!CreateTicket(t)
         /\ Pipeline!CommitTicket(t) => PP!CommitTicket(t)
         /\ Pipeline!EndPublish(t) => PP!EndPublish(t)
  BY DEF Api!CreateTicket, AP!CreateTicket,
         Pipeline!CommitTicket, PP!CommitTicket, Pipeline!EndPublish,
         PP!EndPublish, Pipeline!Pending, PP!Pending, Pipeline!database,
         PP!database, Pipeline!queue, PP!queue, Pipeline!worker, PP!worker

LEMMA SameRequest ==
  ASSUME NEW r \in Requests
  PROVE  /\ Api!Accept(r) => AP!Accept(r)
         /\ Api!Proceed(r) => AP!Proceed(r)
         /\ Api!LoseAnswer(r) => AP!LoseAnswer(r)
         /\ Api!Abort(r) => AP!Abort(r)
  <1>1. Api!EnsureActor(r) => AP!EnsureActor(r)
    BY DEF Api!EnsureActor, AP!EnsureActor, Api!GoTo, AP!GoTo, Api!Finish,
           AP!Finish, Api!NoSession, AP!NoSession, Api!Tick, AP!Tick,
           Api!BeginTime, AP!BeginTime, Api!FreeConnection, AP!FreeConnection,
           Api!Connected, AP!Connected, Api!InTransaction, AP!InTransaction,
           Api!Cardinality, AP!Cardinality
  <1>2. Api!LoadForStatus(r) => AP!LoadForStatus(r)
    BY DEF Api!LoadForStatus, AP!LoadForStatus, Api!GoTo, AP!GoTo, Api!Finish,
           AP!Finish, Api!NoSession, AP!NoSession, Api!Tick, AP!Tick,
           Api!BeginTime, AP!BeginTime, Api!FreeConnection, AP!FreeConnection,
           Api!Connected, AP!Connected, Api!InTransaction, AP!InTransaction,
           Api!Allowed, AP!Allowed, Api!AllowedStatusTransitions,
           AP!AllowedStatusTransitions, Api!Cardinality, AP!Cardinality
  <1>3. Api!LoadForAssignment(r) => AP!LoadForAssignment(r)
    BY DEF Api!LoadForAssignment, AP!LoadForAssignment, Api!GoTo, AP!GoTo,
           Api!Finish, AP!Finish, Api!NoSession, AP!NoSession, Api!Tick,
           AP!Tick, Api!BeginTime, AP!BeginTime, Api!FreeConnection,
           AP!FreeConnection, Api!Connected, AP!Connected, Api!InTransaction,
           AP!InTransaction, Api!Cardinality, AP!Cardinality
  <1>4. Api!LookupAgent(r) => AP!LookupAgent(r)
    BY DEF Api!LookupAgent, AP!LookupAgent, Api!GoTo, AP!GoTo, Api!Finish,
           AP!Finish, Api!NoSession, AP!NoSession
  <1>5. Api!Flush(r) => AP!Flush(r)
    BY DEF Api!Flush, AP!Flush, Api!GoTo, AP!GoTo, Api!Dirty, AP!Dirty
  <1>6. Api!Commit(r) => AP!Commit(r)
    BY DEF Api!Commit, AP!Commit, Api!GoTo, AP!GoTo, Api!Dirty, AP!Dirty,
           Api!EventOf, AP!EventOf, Api!EventType, AP!EventType, Api!Unlocked,
           AP!Unlocked, Api!NoSession, AP!NoSession
  <1>7. Api!Refresh(r) => AP!Refresh(r)
    BY DEF Api!Refresh, AP!Refresh, Api!Finish, AP!Finish, Api!NoSession,
           AP!NoSession, Api!FreeConnection, AP!FreeConnection, Api!Connected,
           AP!Connected, Api!InTransaction, AP!InTransaction, Api!Cardinality,
           AP!Cardinality
  <1>8. Api!Proceed(r) => AP!Proceed(r)
    BY <1>1, <1>2, <1>3, <1>4, <1>5, <1>6, <1>7
       DEF Api!Proceed, AP!Proceed
  <1>9. /\ Api!Accept(r) => AP!Accept(r)
        /\ Api!LoseAnswer(r) => AP!LoseAnswer(r)
        /\ Api!Abort(r) => AP!Abort(r)
    BY DEF Api!Accept, AP!Accept, Api!LoseAnswer, AP!LoseAnswer, Api!Abort,
           AP!Abort, Api!GoTo, AP!GoTo, Api!Finish, AP!Finish, Api!NoSession,
           AP!NoSession, Api!InTransaction, AP!InTransaction, Api!Unlocked,
           AP!Unlocked
  <1> QED
    BY <1>8, <1>9

LEMMA SameMessage ==
  ASSUME NEW m \in Messages
  PROVE  /\ Pipeline!Publish(m) => PP!Publish(m)
         /\ Pipeline!SendForeign(m) => PP!SendForeign(m)
         /\ Pipeline!Expire(m) => PP!Expire(m)
         /\ Pipeline!Vanish(m) => PP!Vanish(m)
  BY DEF Pipeline!Publish, PP!Publish, Pipeline!SendForeign, PP!SendForeign,
         Pipeline!Expire, PP!Expire, Pipeline!Vanish, PP!Vanish,
         Pipeline!database, PP!database, Pipeline!worker, PP!worker

LEMMA SameWork ==
  ASSUME NEW w \in Workers
  PROVE  /\ Pipeline!Load(w) => PP!Load(w)
         /\ Pipeline!SaveCompleted(w) => PP!SaveCompleted(w)
         /\ Pipeline!SaveUnacknowledged(w) => PP!SaveUnacknowledged(w)
         /\ Pipeline!Poll(w) => PP!Poll(w)
         /\ Pipeline!ReceiveFails(w) => PP!ReceiveFails(w)
         /\ Pipeline!Stop(w) => PP!Stop(w)
         /\ Pipeline!Take(w) => PP!Take(w)
         /\ Pipeline!ProcessFails(w) => PP!ProcessFails(w)
         /\ Pipeline!Choke(w) => PP!Choke(w)
         /\ Pipeline!Disturb(w) => PP!Disturb(w)
         /\ Pipeline!LoadForFailure(w) => PP!LoadForFailure(w)
         /\ Pipeline!SaveFailed(w) => PP!SaveFailed(w)
         /\ Pipeline!RecordFails(w) => PP!RecordFails(w)
         /\ Pipeline!Delete(w) => PP!Delete(w)
         /\ Pipeline!DeleteFails(w) => PP!DeleteFails(w)
         /\ Pipeline!Receive(w) => PP!Receive(w)
  <1>1. /\ Pipeline!Load(w) => PP!Load(w)
    BY DEF Pipeline!Load, PP!Load, Pipeline!database, PP!database,
           Pipeline!queue, PP!queue, Pipeline!worker, PP!worker,
           Pipeline!GoTo, PP!GoTo, Pipeline!SubjectOf, PP!SubjectOf
  <1>2. /\ Pipeline!SaveCompleted(w) => PP!SaveCompleted(w)
        /\ Pipeline!SaveUnacknowledged(w) => PP!SaveUnacknowledged(w)
    BY DEF Pipeline!SaveCompleted, PP!SaveCompleted,
           Pipeline!SaveUnacknowledged, PP!SaveUnacknowledged,
           Pipeline!database, PP!database, Pipeline!queue, PP!queue,
           Pipeline!worker, PP!worker, Pipeline!GoTo, PP!GoTo,
           Pipeline!StoreCompleted, PP!StoreCompleted, Pipeline!Completed,
           PP!Completed, Pipeline!Expected, PP!Expected, Pipeline!Triaged,
           PP!Triaged, Pipeline!SummaryLength, PP!SummaryLength,
           Pipeline!SummaryLimit, PP!SummaryLimit, Pipeline!HeuristicPriority,
           PP!HeuristicPriority, Pipeline!Department, PP!Department,
           Pipeline!UrgentWords, PP!UrgentWords, Pipeline!HighWords,
           PP!HighWords, Pipeline!LowWords, PP!LowWords, Pipeline!Written,
           PP!Written, Pipeline!SubjectOf, PP!SubjectOf
  <1>3. /\ Pipeline!Poll(w) => PP!Poll(w)
        /\ Pipeline!Stop(w) => PP!Stop(w)
        /\ Pipeline!Take(w) => PP!Take(w)
        /\ Pipeline!ProcessFails(w) => PP!ProcessFails(w)
    BY DEF Pipeline!Poll, PP!Poll, Pipeline!Stop, PP!Stop, Pipeline!Take, PP!Take,
           Pipeline!ProcessFails, PP!ProcessFails, Pipeline!database,
           PP!database, Pipeline!queue, PP!queue, Pipeline!worker, PP!worker,
           Pipeline!GoTo, PP!GoTo
  <1>4. /\ Pipeline!Choke(w) => PP!Choke(w)
        /\ Pipeline!Disturb(w) => PP!Disturb(w)
    BY DEF Pipeline!Choke, PP!Choke, Pipeline!Disturb, PP!Disturb,
           Pipeline!database, PP!database, Pipeline!queue, PP!queue,
           Pipeline!worker, PP!worker, Pipeline!GoTo, PP!GoTo, Pipeline!End,
           PP!End, Pipeline!NoReceipt, PP!NoReceipt, Pipeline!Pending,
           PP!Pending, Pipeline!Crash, PP!Crash, Pipeline!RequestStop,
           PP!RequestStop, Pipeline!Restart, PP!Restart, Pipeline!Die, PP!Die
  <1>5. /\ Pipeline!LoadForFailure(w) => PP!LoadForFailure(w)
        /\ Pipeline!SaveFailed(w) => PP!SaveFailed(w)
        /\ Pipeline!RecordFails(w) => PP!RecordFails(w)
    BY DEF Pipeline!LoadForFailure, PP!LoadForFailure, Pipeline!SaveFailed,
           PP!SaveFailed, Pipeline!RecordFails, PP!RecordFails,
           Pipeline!database, PP!database, Pipeline!queue, PP!queue,
           Pipeline!worker, PP!worker, Pipeline!GoTo, PP!GoTo,
           Pipeline!SubjectOf, PP!SubjectOf, Pipeline!Return, PP!Return,
           Pipeline!Written, PP!Written, Pipeline!NoReceipt, PP!NoReceipt,
           Pipeline!Pending, PP!Pending
  <1>6. /\ Pipeline!Delete(w) => PP!Delete(w)
        /\ Pipeline!DeleteFails(w) => PP!DeleteFails(w)
    BY DEF Pipeline!Delete, PP!Delete, Pipeline!DeleteFails, PP!DeleteFails,
           Pipeline!database, PP!database, Pipeline!queue, PP!queue,
           Pipeline!worker, PP!worker, Pipeline!GoTo, PP!GoTo,
           Pipeline!Remove, PP!Remove, Pipeline!Return, PP!Return,
           Pipeline!NoReceipt, PP!NoReceipt, Pipeline!Pending, PP!Pending,
           Pipeline!Die, PP!Die, Pipeline!End, PP!End
  <1>7. ASSUME NEW S
        PROVE  /\ Pipeline!HandOut(S) => PP!HandOut(S)
               /\ Pipeline!Due(S) = PP!Due(S)
    BY DEF Pipeline!HandOut, PP!HandOut, Pipeline!Due, PP!Due,
           Pipeline!Spent, PP!Spent, Pipeline!Cardinality, PP!Cardinality
  <1>8. ASSUME Pipeline!Receive(w) PROVE PP!Receive(w)
    BY <1>7, <1>8 DEF Pipeline!Receive, PP!Receive, Pipeline!database,
           PP!database, Pipeline!GoTo, PP!GoTo
  <1>9. ASSUME Pipeline!ReceiveFails(w) PROVE PP!ReceiveFails(w)
    BY <1>7, <1>9 DEF Pipeline!ReceiveFails, PP!ReceiveFails,
           Pipeline!database, PP!database, Pipeline!GoTo, PP!GoTo
  <1> QED
    BY <1>1, <1>2, <1>3, <1>4, <1>5, <1>6, <1>8, <1>9

-----------------------------------------------------------------------------
(* The inductive invariant.                                                *)

Runs(t) == {i \in DOMAIN events[t] : events[t][i].type = "PROCESSED"}

(* A worker that is about to commit a result does so for a stored ticket,  *)
(* in a transaction that began after the ticket's CREATED event.           *)
Writing(w) ==
    /\ PP!SubjectOf(w) \in stored
    /\ began[w] > AP!First(PP!SubjectOf(w))

DeskInv ==
    /\ began \in [Workers -> Nat]
    /\ \A w \in Workers : worker_pc[w] = "write" => Writing(w)
    /\ \A t \in Tickets : processed[t] > 0 <=> Runs(t) # {}

ApiInv == AP!TypeInv /\ AP!LogInv /\ AP!AgentInv /\ AP!TimeInv

PipelineInv == PP!TypeInv /\ PP!QueueInv /\ PP!DataInv

Inv == ApiInv /\ PipelineInv /\ DeskInv

LEMMA InitInv == Init => Inv
  <1> SUFFICES ASSUME Init PROVE Inv
    OBVIOUS
  <1>1. AP!Init /\ PP!Init
    BY SameInit DEF Init
  <1>2. ApiInv
    BY <1>1, Assumptions, AP!InitTypeInv, AP!InitLogInv, AP!InitAgentInv,
       AP!InitTimeInv DEF ApiInv
  <1>3. PipelineInv
    BY <1>1, Assumptions, PP!InitTypeInv, PP!InitQueueInv, PP!InitDataInv
       DEF PipelineInv
  <1>4. DeskInv
    BY <1>1 DEF Init, DeskInv, PP!Init, AP!Init, Runs
  <1> QED
    BY <1>2, <1>3, <1>4 DEF Inv

(* Every step is one of the pipeline, or leaves it alone.                  *)
LEMMA PipelineStep == [Next]_vars => [PP!Next]_(PP!vars)
  <1> SUFFICES ASSUME [Next]_vars PROVE [PP!Next]_(PP!vars)
    OBVIOUS
  <1> USE DEF PP!Next, PP!Undisturbed
  <1>1. ASSUME NEW t \in Tickets, CreateTicket(t)
        PROVE  PP!Next
    BY <1>1, SameCreate DEF CreateTicket, PP!Create
  <1>2. ASSUME NEW r \in Requests, Serve(r)
        PROVE  UNCHANGED PP!vars
    <2>1. AP!Accept(r) \/ AP!Proceed(r) \/ AP!LoseAnswer(r) \/ AP!Abort(r)
      BY <1>2, SameRequest DEF Serve
    <2>2. UNCHANGED stored
      BY <2>1 DEF AP!Accept, AP!Proceed, AP!LoseAnswer, AP!Abort,
                  AP!EnsureActor, AP!LoadForStatus, AP!LoadForAssignment,
                  AP!LookupAgent, AP!Flush, AP!Commit, AP!Refresh
    <2> QED
      BY <1>2, <2>2 DEF Serve, pipeline, PP!vars, PP!database, PP!queue,
                        PP!worker
  <1>3. ASSUME NEW w \in Workers, BeginProcess(w)
        PROVE  PP!Next
    BY <1>3, SameWork DEF BeginProcess, PP!Work
  <1>4. ASSUME NEW w \in Workers, EndProcess(w)
        PROVE  PP!Next
    BY <1>4, SameWork DEF EndProcess, PP!Work, PP!Fault
  <1>5. ASSUME NEW w \in Workers, Consume(w)
        PROVE  PP!Next
    BY <1>5, SameWork DEF Consume, PP!Work, PP!Fault
  <1>6. ASSUME Deliver
        PROVE  PP!Next
    BY <1>6, SameMessage, SameCreate DEF Deliver, PP!Create
  <1>7. ASSUME UNCHANGED vars
        PROVE  UNCHANGED PP!vars
    BY <1>7 DEF vars, pipeline, PP!vars, PP!database, PP!queue, PP!worker
  <1> QED
    BY <1>1, <1>2, <1>3, <1>4, <1>5, <1>6, <1>7 DEF Next

LEMMA NextPipelineInv == Inv /\ [Next]_vars => PipelineInv'
  <1> SUFFICES ASSUME Inv, [Next]_vars PROVE PipelineInv'
    OBVIOUS
  <1>1. PP!TypeInv /\ PP!QueueInv /\ PP!DataInv /\ [PP!Next]_(PP!vars)
    BY PipelineStep DEF Inv, PipelineInv
  <1> QED
    BY <1>1, Assumptions, PP!NextTypeInv, PP!NextQueueInv, PP!NextDataInv
       DEF PipelineInv

(* For the ticket service, the worker's events and transactions are those  *)
(* of a process beside it.                                                 *)
ServiceStep == [AP!Next]_(AP!vars)

WorkerBegins(w) == BeginProcess(w) /\ AP!ForeignBegin

WorkerEnds(w, t) ==
    /\ worker_pc[w] = "write" /\ t = PP!SubjectOf(w)
    /\ t \in Tickets /\ ProcessedEvent(w) \in AP!Event
    /\ AP!Foreign(t, ProcessedEvent(w))
    /\ ProcessedEvent(w).at > AP!First(t)
    /\ PP!SaveCompleted(w) \/ PP!SaveUnacknowledged(w)
    /\ UNCHANGED began

LEMMA EndingStep ==
  ASSUME Inv, NEW w \in Workers, EndProcess(w)
  PROVE  \E t \in Tickets : WorkerEnds(w, t)
  <1>1. /\ PP!SaveCompleted(w) \/ PP!SaveUnacknowledged(w)
        /\ worker_pc[w] = "write"
        /\ UNCHANGED <<stored, session, clock, began>>
    BY SameWork DEF EndProcess, PP!SaveCompleted, PP!SaveUnacknowledged,
                    PP!StoreCompleted
  <1>2. PICK t : t = PP!SubjectOf(w)
    OBVIOUS
  <1>3. /\ t \in stored /\ t \in Tickets /\ began[w] > AP!First(t)
        /\ began[w] \in Nat
    BY <1>1, <1>2 DEF Inv, ApiInv, AP!TypeInv, AP!TypeOK, DeskInv, Writing
  <1>4. events' = [events EXCEPT ![t] = Append(@, ProcessedEvent(w))]
    BY <1>2 DEF EndProcess, PP!SubjectOf, Pipeline!SubjectOf
  <1>5. ProcessedEvent(w) \in AP!Event
    BY <1>3 DEF ProcessedEvent, AP!Event, AP!Value, AP!TicketEventType
  <1>6. AP!Foreign(t, ProcessedEvent(w)) /\ ProcessedEvent(w).at > AP!First(t)
    BY <1>1, <1>3, <1>4 DEF AP!Foreign, ProcessedEvent, session
  <1> QED
    BY <1>1, <1>2, <1>3, <1>5, <1>6 DEF WorkerEnds

(* What a worker does besides beginning and ending a transaction of        *)
(* process leaves tickets and logs alone, and those that write.            *)
StaysWriting(v) ==
    worker_pc'[v] = "write" => worker_pc[v] = "write" /\ current'[v] = current[v]

LEMMA ConsumeSteps ==
  ASSUME PP!TypeInv, NEW w \in Workers, Consume(w)
  PROVE  /\ UNCHANGED <<stored, processed, session, events, clock, began>>
         /\ \A v \in Workers : StaysWriting(v)
  <1> DEFINE Goal == /\ UNCHANGED <<stored, processed>>
                     /\ \A v \in Workers : StaysWriting(v)
  <1>0. /\ worker_pc \in [Workers -> PP!WorkerPlace]
        /\ current \in [Workers -> PP!Receipt \cup {PP!NoReceipt}]
    BY DEF PP!TypeInv, PP!TypeOK
  <1> USE DEF PP!database, PP!queue, PP!worker, PP!GoTo, StaysWriting
  <1>1. ASSUME \/ PP!Poll(w) \/ PP!ReceiveFails(w) \/ PP!ProcessFails(w)
               \/ PP!LoadForFailure(w) \/ PP!Stop(w)
        PROVE  Goal
    BY <1>0, <1>1 DEF PP!Poll, PP!ReceiveFails, PP!ProcessFails,
                      PP!LoadForFailure, PP!Stop
  <1>2. ASSUME PP!Receive(w)
        PROVE  Goal
    <2>1. /\ \E there \in {"idle", "batch"} :
                worker_pc' = [worker_pc EXCEPT ![w] = there]
          /\ UNCHANGED <<stored, processed, current>>
      BY <1>2 DEF PP!Receive
    <2> QED
      BY <1>0, <2>1
  <1>3. ASSUME PP!Take(w)
        PROVE  Goal
    BY <1>0, <1>3 DEF PP!Take
  <1>4. ASSUME \/ PP!Choke(w) \/ PP!DeleteFails(w) \/ PP!Crash(w)
        PROVE  Goal
    <2>1. PP!End(w) /\ UNCHANGED <<stored, processed>>
      BY <1>4 DEF PP!Choke, PP!DeleteFails, PP!Crash, PP!Die
    <2> QED
      BY <1>0, <2>1 DEF PP!End
  <1>5. ASSUME PP!SaveFailed(w) \/ PP!RecordFails(w) \/ PP!Delete(w)
        PROVE  Goal
    <2>1. PP!Return(w) /\ UNCHANGED <<stored, processed>>
      BY <1>5 DEF PP!SaveFailed, PP!RecordFails, PP!Delete
    <2> QED
      BY <1>0, <2>1 DEF PP!Return
  <1>6. ASSUME PP!RequestStop(w) \/ PP!Restart(w)
        PROVE  Goal
    BY <1>0, <1>6 DEF PP!RequestStop, PP!Restart
  <1>7. Goal
    BY <1>1, <1>2, <1>3, <1>4, <1>5, <1>6, SameWork DEF Consume, PP!Disturb
  <1> QED
    BY <1>7 DEF Consume

LEMMA DeliverSteps ==
  ASSUME Deliver
  PROVE  UNCHANGED <<stored, processed, worker_pc, current, session, events,
                     clock, began>>
  <1>1. UNCHANGED <<stored, processed, worker_pc, current>>
    BY SameMessage, SameCreate
       DEF Deliver, PP!EndPublish, PP!Publish, PP!SendForeign, PP!Expire,
           PP!Vanish, PP!database, PP!queue, PP!worker
  <1> QED
    BY <1>1 DEF Deliver

LEMMA ServiceSteps ==
  ASSUME Inv, [Next]_vars
  PROVE  \/ ServiceStep
         \/ \E w \in Workers : WorkerBegins(w)
         \/ \E w \in Workers : \E t \in Tickets : WorkerEnds(w, t)
  <1>1. ASSUME NEW t \in Tickets, CreateTicket(t)
        PROVE  ServiceStep
    BY <1>1, SameCreate DEF CreateTicket, ServiceStep, AP!Next
  <1>2. ASSUME NEW r \in Requests, Serve(r)
        PROVE  ServiceStep
    BY <1>2, SameRequest DEF Serve, ServiceStep, AP!Next
  <1>3. ASSUME NEW w \in Workers, BeginProcess(w)
        PROVE  WorkerBegins(w)
    <2>1. UNCHANGED stored
      BY <1>3, SameWork DEF BeginProcess, PP!Load, PP!database
    <2> QED
      BY <1>3, <2>1 DEF BeginProcess, WorkerBegins, AP!ForeignBegin, session
  <1>4. ASSUME NEW w \in Workers, EndProcess(w)
        PROVE  \E t \in Tickets : WorkerEnds(w, t)
    BY <1>4, EndingStep
  <1>5. ASSUME UNCHANGED <<stored, session, events, clock>>
        PROVE  ServiceStep
    BY <1>5 DEF ServiceStep, AP!vars, session
  <1>6. ASSUME NEW w \in Workers, Consume(w)
        PROVE  UNCHANGED <<stored, session, events, clock>>
    BY <1>6, ConsumeSteps DEF Inv, PipelineInv
  <1>7. ASSUME Deliver
        PROVE  UNCHANGED <<stored, session, events, clock>>
    BY <1>7, DeliverSteps
  <1> QED
    BY <1>1, <1>2, <1>3, <1>4, <1>5, <1>6, <1>7 DEF Next, vars

LEMMA NextApiInv == Inv /\ [Next]_vars => ApiInv'
  <1> SUFFICES ASSUME Inv, [Next]_vars PROVE ApiInv'
    OBVIOUS
  <1>0. AP!TypeInv /\ AP!LogInv /\ AP!AgentInv /\ AP!TimeInv
    BY DEF Inv, ApiInv
  <1>1. ASSUME ServiceStep
        PROVE  ApiInv'
    BY <1>0, <1>1, Assumptions, AP!NextTypeInv, AP!NextLogInv,
       AP!NextAgentInv, AP!NextTimeInv DEF ServiceStep, ApiInv
  <1>2. ASSUME NEW w \in Workers, WorkerBegins(w)
        PROVE  ApiInv'
    BY <1>0, <1>2, Assumptions, AP!ForeignBeginInv DEF WorkerBegins, ApiInv
  <1>3. ASSUME NEW w \in Workers, NEW t \in Tickets, WorkerEnds(w, t)
        PROVE  ApiInv'
    <2>1. PICK e \in AP!Event : e = ProcessedEvent(w)
      BY <1>3 DEF WorkerEnds
    <2>2. AP!Foreign(t, e) /\ e.at > AP!First(t)
      BY <1>3, <2>1 DEF WorkerEnds
    <2> QED
      BY <1>0, <2>2, Assumptions, AP!ForeignTypeInv, AP!ForeignLogInv,
         AP!ForeignAgentInv, AP!ForeignTimeInv DEF ApiInv
  <1> QED
    BY <1>1, <1>2, <1>3, ServiceSteps

-----------------------------------------------------------------------------
(* Logs only grow, and only a worker that commits a result adds a PROCESSED*)
(* event.                                                                  *)

LEMMA ServiceLogs ==
  ASSUME Inv, ServiceStep, NEW t \in Tickets
  PROVE  Runs(t)' = Runs(t)
  <1>0. AP!TypeInv /\ AP!LogInv /\ events \in [Tickets -> Seq(AP!Event)]
    BY DEF Inv, ApiInv, AP!TypeInv, AP!TypeOK
  <1>1. ASSUME NEW e \in AP!Event, events'[t] = Append(events[t], e),
               e.type # "PROCESSED"
        PROVE  Runs(t)' = Runs(t)
    <2> DEFINE n == Len(events[t])
    <2>1. /\ n \in Nat /\ DOMAIN events[t] = 1 .. n
          /\ DOMAIN events'[t] = 1 .. (n + 1)
          /\ \A i \in 1 .. n : events'[t][i] = events[t][i]
          /\ events'[t][n + 1] = e
      BY <1>0, <1>1, Assumptions, AP!Grown
    <2>2. \A i \in 1 .. (n + 1) : i \in 1 .. n \/ i = n + 1
      BY <2>1
    <2>3. 1 .. n \subseteq 1 .. (n + 1)
      BY <2>1
    <2> HIDE DEF n
    <2> QED
      BY <1>1, <2>1, <2>2, <2>3 DEF Runs
  <1>2. ASSUME events'[t] = events[t]
        PROVE  Runs(t)' = Runs(t)
    BY <1>2 DEF Runs
  <1>3. ASSUME NEW u \in Tickets, AP!CreateTicket(u)
        PROVE  Runs(t)' = Runs(t)
    <2>1. PICK e \in AP!Event : e = AP!Created
      BY <1>0, <1>3, Assumptions, AP!CreateAppends DEF AP!LogInv
    <2>2. events' = [events EXCEPT ![u] = Append(@, e)] /\ e.type # "PROCESSED"
      BY <1>0, <1>3, <2>1, Assumptions, AP!CreateAppends
         DEF AP!LogInv, AP!Created
    <2> QED
      BY <1>0, <1>1, <1>2, <2>2
  <1>4. ASSUME NEW r \in Requests, AP!Commit(r)
        PROVE  Runs(t)' = Runs(t)
    <2>1. PICK e \in AP!Event : e = AP!EventOf(r)
      BY <1>0, <1>4, Assumptions, AP!CommitAppends
    <2>2. PICK u \in Tickets : u = call[r].ticket
      BY <1>0, <1>4, Assumptions, AP!CommitAppends
    <2>3. events' = [events EXCEPT ![u] = Append(@, e)]
      BY <1>0, <1>4, <2>1, <2>2, Assumptions, AP!CommitAppends
    <2>4. e.type # "PROCESSED"
      BY <2>1 DEF AP!EventOf, AP!EventType
    <2> QED
      BY <1>0, <1>1, <1>2, <2>3, <2>4
  <1>5. (/\ \A u \in Tickets : ~ AP!CreateTicket(u)
         /\ \A r \in Requests : ~ AP!Commit(r)) => UNCHANGED events
    BY Assumptions, AP!OthersLeaveTables DEF ServiceStep
  <1> QED
    BY <1>2, <1>3, <1>4, <1>5

LEMMA FirstStays ==
  ASSUME Inv, [Next]_vars, NEW t \in stored
  PROVE  /\ t \in Tickets /\ t \in stored'
         /\ AP!First(t) \in Nat /\ AP!First(t) <= clock
         /\ AP!First(t)' = AP!First(t)
  <1>0. /\ AP!TypeInv /\ AP!LogInv /\ AP!TimeInv
        /\ t \in Tickets /\ clock \in Nat /\ events[t] \in Seq(AP!Event)
        /\ Len(events[t]) > 0 /\ AP!First(t) <= clock
    BY DeskAssumption DEF Inv, ApiInv, AP!TypeInv, AP!TypeOK, AP!TimeInv
  <1>1. AP!First(t) \in Nat
    <2>1. events[t][1] \in AP!Event
      BY <1>0
    <2> QED
      BY <2>1 DEF AP!First, AP!Event
  <1>2. t \in stored'
    <2>1. PP!TypeInv /\ [PP!Next]_(PP!vars)
      BY PipelineStep DEF Inv, PipelineInv
    <2> QED
      BY <2>1, Assumptions, PP!Monotone
  <1>3. events'[t][1] = events[t][1]
    <2>1. Len(events[t]) \in Nat /\ DOMAIN events[t] = 1 .. Len(events[t])
          /\ 1 \in 1 .. Len(events[t])
      BY <1>0
    <2>2. CASE ServiceStep
      BY <1>0, <2>1, <2>2, Assumptions, AP!LogPrefix DEF AP!LogInv, ServiceStep
    <2>3. ASSUME NEW w \in Workers, WorkerBegins(w)
          PROVE  events'[t][1] = events[t][1]
      BY <2>3 DEF WorkerBegins, AP!ForeignBegin
    <2>4. ASSUME NEW w \in Workers, NEW u \in Tickets, WorkerEnds(w, u)
          PROVE  events'[t][1] = events[t][1]
      <3>1. PICK e \in AP!Event : AP!Foreign(u, e)
        BY <2>4 DEF WorkerEnds
      <3> QED
        BY <1>0, <2>1, <3>1, Assumptions, AP!ForeignKeeps
    <2> QED
      BY <2>2, <2>3, <2>4, ServiceSteps
  <1> QED
    BY <1>0, <1>1, <1>2, <1>3 DEF AP!First

LEMMA NextDeskInv == Inv /\ [Next]_vars => DeskInv'
  <1> SUFFICES ASSUME Inv, [Next]_vars PROVE DeskInv'
    OBVIOUS
  <1>0. /\ began \in [Workers -> Nat] /\ clock \in Nat
        /\ PP!TypeInv /\ processed \in [Tickets -> Nat]
        /\ worker_pc \in [Workers -> PP!WorkerPlace]
        /\ current \in [Workers -> PP!Receipt \cup {PP!NoReceipt}]
        /\ events \in [Tickets -> Seq(AP!Event)]
    BY DEF Inv, ApiInv, PipelineInv, DeskInv, AP!TypeInv, AP!TypeOK,
           PP!TypeInv, PP!TypeOK
  <1>1. ASSUME NEW t \in Tickets, CreateTicket(t)
        PROVE  /\ UNCHANGED <<processed, worker_pc, current, began>>
               /\ ServiceStep
    <2>1. AP!CreateTicket(t) /\ PP!CommitTicket(t)
      BY <1>1, SameCreate DEF CreateTicket
    <2> QED
      BY <1>1, <2>1 DEF CreateTicket, PP!CommitTicket, PP!worker, ServiceStep,
                        AP!Next
  <1>2. ASSUME NEW r \in Requests, Serve(r)
        PROVE  /\ UNCHANGED <<processed, worker_pc, current, began>>
               /\ ServiceStep
    BY <1>2, SameRequest DEF Serve, pipeline, ServiceStep, AP!Next
  <1>3. ASSUME NEW w \in Workers, BeginProcess(w)
        PROVE  /\ UNCHANGED <<processed, current, events>>
               /\ clock' = clock + 1
               /\ began' = [began EXCEPT ![w] = clock + 1]
               /\ worker_pc'[w] = "write" => PP!SubjectOf(w) \in stored
               /\ \A v \in Workers \ {w} : worker_pc'[v] = worker_pc[v]
    <2>1. PP!Load(w)
      BY <1>3, SameWork DEF BeginProcess
    <2> QED
      BY <1>0, <1>3, <2>1 DEF BeginProcess, PP!Load, PP!database, PP!GoTo
  <1>4. ASSUME NEW w \in Workers, NEW t \in Tickets, WorkerEnds(w, t)
        PROVE  /\ UNCHANGED <<current, began>>
               /\ \A v \in Workers : StaysWriting(v)
               /\ processed'[t] = processed[t] + 1
               /\ \A u \in Tickets \ {t} : processed'[u] = processed[u]
    BY <1>0, <1>4 DEF WorkerEnds, PP!SaveCompleted, PP!SaveUnacknowledged,
                      PP!StoreCompleted, PP!GoTo, StaysWriting
  <1>5. ASSUME UNCHANGED vars
        PROVE  UNCHANGED <<processed, worker_pc, current, events, began>>
    BY <1>5 DEF vars, pipeline
  <1>6. began' \in [Workers -> Nat]
    BY <1>0, <1>1, <1>2, <1>3, <1>4, <1>5, EndingStep, ConsumeSteps,
       DeliverSteps DEF Next
  <1>7. ASSUME NEW v \in Workers, worker_pc'[v] = "write"
        PROVE  Writing(v)'
    <2>1. ASSUME worker_pc[v] = "write", current'[v] = current[v],
                 began'[v] = began[v]
          PROVE  Writing(v)'
      <3>1. PICK t : t = PP!SubjectOf(v)
        OBVIOUS
      <3>2. PP!SubjectOf(v)' = t
        BY <2>1, <3>1 DEF PP!SubjectOf
      <3>3. t \in stored /\ began[v] > AP!First(t)
        BY <2>1, <3>1 DEF Inv, DeskInv, Writing
      <3>4. t \in stored' /\ AP!First(t)' = AP!First(t)
        BY <3>3, FirstStays
      <3> QED
        BY <2>1, <3>2, <3>3, <3>4 DEF Writing, AP!First
    <2>2. ASSUME NEW w \in Workers, BeginProcess(w)
          PROVE  Writing(v)'
      <3>1. CASE v # w
        <4>1. worker_pc[v] = "write" /\ current' = current
              /\ began'[v] = began[v]
          BY <1>0, <1>3, <1>7, <2>2, <3>1
        <4> QED
          BY <2>1, <4>1
      <3>2. CASE v = w
        <4>1. PICK t : t = PP!SubjectOf(v)
          OBVIOUS
        <4>2. PP!SubjectOf(v)' = t
          BY <1>3, <2>2, <4>1 DEF PP!SubjectOf
        <4>3. t \in stored /\ began'[v] = clock + 1
          BY <1>0, <1>3, <1>7, <2>2, <3>2, <4>1
        <4>4. /\ t \in stored' /\ AP!First(t) <= clock /\ AP!First(t) \in Nat
              /\ AP!First(t)' = AP!First(t)
          BY <4>3, FirstStays
        <4>5. clock + 1 > AP!First(t)
          BY <1>0, <4>4
        <4> QED
          BY <4>2, <4>3, <4>4, <4>5 DEF Writing, AP!First
      <3> QED
        BY <3>1, <3>2
    <2>3. ASSUME StaysWriting(v), UNCHANGED began
          PROVE  Writing(v)'
      BY <1>7, <2>1, <2>3 DEF StaysWriting
    <2> QED
      BY <1>0, <1>1, <1>2, <1>4, <1>5, <2>2, <2>3, EndingStep, ConsumeSteps,
         DeliverSteps DEF Next, StaysWriting
  <1>8. ASSUME NEW t \in Tickets
        PROVE  processed'[t] > 0 <=> Runs(t)' # {}
    <2>1. processed[t] > 0 <=> Runs(t) # {}
      BY DEF Inv, DeskInv
    <2>2. ASSUME processed'[t] = processed[t], Runs(t)' = Runs(t)
          PROVE  processed'[t] > 0 <=> Runs(t)' # {}
      BY <2>1, <2>2
    <2>3. ASSUME NEW w \in Workers, NEW u \in Tickets, WorkerEnds(w, u)
          PROVE  processed'[t] > 0 <=> Runs(t)' # {}
      <3>1. events' = [events EXCEPT ![u] = Append(@, ProcessedEvent(w))]
        BY <2>3 DEF WorkerEnds, AP!Foreign
      <3>2. CASE t # u
        <4>1. events'[t] = events[t] /\ processed'[t] = processed[t]
          BY <1>0, <1>4, <2>3, <3>1, <3>2
        <4> QED
          BY <2>2, <4>1 DEF Runs
      <3>3. CASE t = u
        <4>1. events'[t] = Append(events[t], ProcessedEvent(w))
              /\ processed'[t] > 0
          BY <1>0, <1>4, <2>3, <3>1, <3>3
        <4>2. PICK e \in AP!Event : e = ProcessedEvent(w)
          BY <2>3 DEF WorkerEnds
        <4>3. /\ Len(events[t]) + 1 \in DOMAIN events'[t]
              /\ events'[t][Len(events[t]) + 1] = e
          BY <1>0, <4>1, <4>2
        <4>4. e.type = "PROCESSED"
          BY <4>2 DEF ProcessedEvent
        <4> QED
          BY <4>1, <4>3, <4>4 DEF Runs
      <3> QED
        BY <3>2, <3>3
    <2>4. ASSUME UNCHANGED <<processed, events>>
          PROVE  processed'[t] > 0 <=> Runs(t)' # {}
      BY <2>2, <2>4 DEF Runs
    <2>5. ASSUME ServiceStep, UNCHANGED processed
          PROVE  processed'[t] > 0 <=> Runs(t)' # {}
      BY <2>2, <2>5, ServiceLogs
    <2> QED
      BY <1>0, <1>1, <1>2, <1>3, <1>5, <2>3, <2>4, <2>5, EndingStep,
         ConsumeSteps, DeliverSteps DEF Next
  <1> QED
    BY <1>6, <1>7, <1>8 DEF DeskInv, Writing, Runs

LEMMA InvCorrect == Spec => []Inv
  <1>1. Inv /\ [Next]_vars => Inv'
    BY NextApiInv, NextPipelineInv, NextDeskInv DEF Inv
  <1> QED
    BY InitInv, <1>1, PTL DEF Spec

-----------------------------------------------------------------------------
(* Whatever workers do, crash or repeat beside the API, a result is there  *)
(* exactly when the audit log has a PROCESSED event, and the log read by   *)
(* created_at begins with the CREATED event.                               *)
THEOREM ResultsAreLogged == Spec => []ResultIsLogged
  <1>1. ASSUME Inv, NEW t \in Tickets
        PROVE  /\ result[t].computed # None <=> Runs(t) # {}
               /\ \A i \in DOMAIN events[t] \ {1} :
                     t \notin SeedTickets => events[t][i].at > events[t][1].at
    <2>1. result[t].computed # None <=> Runs(t) # {}
      BY <1>1 DEF Inv, DeskInv, PipelineInv, PP!DataInv, PP!ResultMatchesEvents
    <2>2. CASE t \in stored
      BY <1>1, <2>1, <2>2 DEF Inv, ApiInv, AP!TimeInv, AP!First
    <2>3. CASE t \notin stored
      <3>1. events[t] = << >>
        BY <1>1, <2>3 DEF Inv, ApiInv, AP!LogInv, AP!LogsAreOfTickets
      <3> QED
        BY <2>1, <3>1
    <2> QED
      BY <2>2, <2>3
  <1>2. Inv => ResultIsLogged
    BY <1>1 DEF ResultIsLogged, Runs
  <1> QED
    BY InvCorrect, <1>2, PTL

-----------------------------------------------------------------------------
(* With a worker beside it the service keeps the promise of TicketLog.     *)

LEMMA SameLog ==
  /\ AP!Log!Init => Api!Log!Init
  /\ [AP!Log!Next]_(AP!Log!vars) => [Api!Log!Next]_(Api!Log!vars)
  <1>1. AP!Log!Init => Api!Log!Init
    BY DEF AP!Log!Init, Api!Log!Init, AP!Entry, Api!Entry,
           AP!Log!TicketStatus, Api!Log!TicketStatus
  <1>2. AP!Log!Next => Api!Log!Next
    BY DEF AP!Log!Next, Api!Log!Next, AP!Log!Create, Api!Log!Create,
           AP!Log!ChangeStatus, Api!Log!ChangeStatus, AP!Log!Assign,
           Api!Log!Assign, AP!Log!Process, Api!Log!Process, AP!Entry,
           Api!Entry, AP!Log!Record, Api!Log!Record, AP!Log!NamesStatus,
           Api!Log!NamesStatus, AP!Log!MovesAgent, Api!Log!MovesAgent,
           AP!Log!StatusNamed, Api!Log!StatusNamed, AP!Log!AgentNamed,
           Api!Log!AgentNamed, AP!Log!TicketStatus, Api!Log!TicketStatus,
           AP!Log!AllowedStatusTransitions, Api!Log!AllowedStatusTransitions
  <1>3. UNCHANGED AP!Log!vars => UNCHANGED Api!Log!vars
    BY DEF AP!Log!vars, Api!Log!vars, AP!Entry, Api!Entry
  <1> QED
    BY <1>1, <1>2, <1>3

(* Every step of the whole is a step of TicketLog or a stutter: the        *)
(* worker's commit is its Process, and everything else a worker does       *)
(* leaves tickets and log as they are.                                     *)
THEOREM DeskImplementsLog == Spec => ImplementsLog
  <1>1. Init => Api!Log!Init
    BY Assumptions, SameInit, SameLog, AP!InitImplements DEF Init
  <1>2. ASSUME Inv, [Next]_vars
        PROVE  [AP!Log!Next]_(AP!Log!vars)
    <2>0. AP!TypeInv /\ AP!LogInv /\ AP!AgentInv
      BY <1>2 DEF Inv, ApiInv
    <2>1. CASE ServiceStep
      <3>1. CASE \E t \in Tickets : AP!CreateTicket(t)
        BY <2>0, <3>1, Assumptions, AP!CreateImplements
      <3>2. CASE \E r \in Requests : AP!Commit(r)
        BY <2>0, <3>2, Assumptions, AP!CommitImplements
      <3>3. CASE UNCHANGED <<stored, status, agent_id, events>>
        BY <3>3 DEF AP!Log!vars, AP!Entry
      <3> QED
        BY <2>1, <3>1, <3>2, <3>3, Assumptions, AP!OthersLeaveTables
           DEF ServiceStep
    <2>2. ASSUME NEW w \in Workers, WorkerBegins(w)
          PROVE  UNCHANGED AP!Log!vars
      BY <2>2 DEF WorkerBegins, AP!ForeignBegin, AP!Log!vars, AP!Entry
    <2>3. ASSUME NEW w \in Workers, NEW t \in Tickets, WorkerEnds(w, t)
          PROVE  AP!Log!Next
      <3>1. PICK e \in AP!Event : e = ProcessedEvent(w)
        BY <2>3 DEF WorkerEnds
      <3>2. /\ AP!Foreign(t, e)
            /\ e.from = None /\ e.to = None /\ e.read = 0
        BY <2>3, <3>1 DEF WorkerEnds, ProcessedEvent
      <3> QED
        BY <2>0, <3>2, Assumptions, AP!ForeignImplements
    <2> QED
      BY <1>2, <2>1, <2>2, <2>3, ServiceSteps
  <1>3. Inv /\ [Next]_vars => [Api!Log!Next]_(Api!Log!vars)
    BY <1>2, SameLog
  <1> QED
    BY InvCorrect, <1>1, <1>3, PTL
       DEF Spec, ImplementsLog, Api!ImplementsLog, Api!Log!Spec

-----------------------------------------------------------------------------
(* The log is append-only and complete.                                    *)

LEMMA PrefixOfAppend ==
  ASSUME NEW S, NEW s \in Seq(S), NEW e \in S
  PROVE  IsPrefix(s, s) /\ IsPrefix(s, Append(s, e))
  <1>1. /\ Append(s, e) \in Seq(S) /\ Len(s) \in Nat
        /\ Len(Append(s, e)) = Len(s) + 1
        /\ \A i \in 1 .. Len(s) : Append(s, e)[i] = s[i]
    OBVIOUS
  <1>2. SubSeq(s, 1, Len(s)) = SubSeq(Append(s, e), 1, Len(s))
    BY <1>1
  <1> QED
    BY <1>1, <1>2 DEF IsPrefix

(* A result changes with the number of runs or not at all.                 *)
LEMMA ComputedStays ==
  ASSUME Inv, [Next]_vars, NEW t \in Tickets,
         t \in stored' => t \in stored, processed'[t] = processed[t]
  PROVE  result'[t].computed = result[t].computed
  <1>0. /\ PP!TypeInv /\ [PP!Next]_(PP!vars) /\ processed[t] \in Nat
    BY PipelineStep DEF Inv, PipelineInv, PP!TypeInv, PP!TypeOK
  <1>1. CASE PP!Untouched(t)
    BY <1>1 DEF PP!Untouched
  <1>2. ASSUME NEW w \in Workers, PP!FailedBy(t, w)
        PROVE  result'[t].computed = result[t].computed
    BY <1>0, <1>2, Assumptions, PP!FailedRow
  <1>3. ~ PP!Created(t) /\ \A w \in Workers : ~ PP!CompletedBy(t, w)
    BY <1>0 DEF PP!Created, PP!CompletedBy
  <1> QED
    BY <1>0, <1>1, <1>2, <1>3, Assumptions, PP!RowSteps

Quiet(t) ==
    /\ events'[t] = events[t] /\ (t \in stored' => t \in stored)
    /\ status'[t] = status[t] /\ agent_id'[t] = agent_id[t]
    /\ processed'[t] = processed[t]

(* What an event says of the change that came with it.                     *)
SaysTicket(t, e) ==
    /\ t \notin stored /\ t \in stored' =>
          e.type = "CREATED" /\ e.to = status'[t]
    /\ t \in stored /\ status'[t] # status[t] =>
          e.type = "STATUS_CHANGED" /\ e.to = status'[t]
    /\ t \in stored /\ agent_id'[t] # agent_id[t] =>
          /\ e.type = IF agent_id'[t] = None THEN "UNASSIGNED" ELSE "ASSIGNED"
          /\ e.to = agent_id'[t]

SaysResult(t, e) ==
    result'[t].computed # result[t].computed =>
       e.type = "PROCESSED" /\ e.to = None

Logged(t) ==
    \E e \in AP!Event :
        /\ events'[t] = Append(events[t], e)
        /\ SaysTicket(t, e) /\ SaysResult(t, e)

LEMMA QuietOrLogged ==
  ASSUME Inv, [Next]_vars, NEW t \in Tickets
  PROVE  Quiet(t) \/ Logged(t)
  <1>0. /\ AP!TypeInv /\ AP!LogInv
        /\ events \in [Tickets -> Seq(AP!Event)]
        /\ status \in [Tickets -> AP!TicketStatus]
        /\ agent_id \in [Tickets -> Users \cup {None}]
        /\ processed \in [Tickets -> Nat] /\ PP!TypeInv
    BY DEF Inv, ApiInv, PipelineInv, AP!TypeInv, AP!TypeOK, PP!TypeInv,
           PP!TypeOK
  <1>1. ASSUME NEW u \in Tickets, CreateTicket(u)
        PROVE  Quiet(t) \/ Logged(t)
    <2>1. AP!CreateTicket(u) /\ UNCHANGED processed
      BY <1>1, SameCreate DEF CreateTicket, PP!CommitTicket
    <2>2. PICK e \in AP!Event : e = AP!Created
      BY <1>0, <2>1, Assumptions, AP!CreateAppends DEF AP!LogInv
    <2>3. events' = [events EXCEPT ![u] = Append(@, e)]
      BY <1>0, <2>1, <2>2, Assumptions, AP!CreateAppends DEF AP!LogInv
    <2>4. CASE t = u
      <3>1. events'[t] = Append(events[t], e)
        BY <1>0, <2>3, <2>4
      <3>2. t \notin stored /\ status'[t] = "OPEN"
        BY <1>0, <2>1, <2>4 DEF AP!CreateTicket
      <3>3. SaysTicket(t, e)
        BY <2>2, <3>2 DEF SaysTicket, AP!Created
      <3>4. result[t] = PP!Pending /\ result'[t] = PP!Pending
        <4>1. PP!CommitTicket(t) /\ PP!UnstoredIsFresh
          BY <1>1, <2>4, SameCreate
             DEF CreateTicket, Inv, PipelineInv, PP!DataInv
        <4>2. result \in [Tickets -> PP!Row]
          BY <1>0 DEF PP!TypeInv, PP!TypeOK
        <4> QED
          BY <3>2, <4>1, <4>2 DEF PP!CommitTicket, PP!UnstoredIsFresh
      <3>5. SaysResult(t, e)
        BY <3>4 DEF SaysResult
      <3> QED
        BY <3>1, <3>3, <3>5 DEF Logged
    <2>5. CASE t # u
      BY <1>0, <2>1, <2>3, <2>5 DEF AP!CreateTicket, Quiet
    <2> QED
      BY <2>4, <2>5
  <1>2. ASSUME NEW r \in Requests, Serve(r)
        PROVE  Quiet(t) \/ Logged(t)
    <2>1. [AP!Next]_(AP!vars) /\ UNCHANGED processed
      BY <1>2, SameRequest DEF Serve, pipeline, AP!Next
    <2>2. ASSUME NEW q \in Requests, AP!Commit(q)
          PROVE  Quiet(t) \/ Logged(t)
      <3>1. PICK e \in AP!Event : e = AP!EventOf(q)
        BY <1>0, <2>2, Assumptions, AP!CommitAppends
      <3>2. PICK u \in Tickets : u = call[q].ticket
        BY <1>0, <2>2, Assumptions, AP!CommitAppends
      <3>3. /\ events' = [events EXCEPT ![u] = Append(@, e)]
            /\ UNCHANGED stored
        BY <1>0, <2>2, <3>1, <3>2, Assumptions, AP!CommitAppends
      <3>4. CASE t = u
        <4>1. events'[t] = Append(events[t], e)
          BY <1>0, <3>3, <3>4
        <4>2. status'[t] # status[t] =>
                 e.type = "STATUS_CHANGED" /\ e.to = status'[t]
          BY <1>0, <2>2, <3>1, <3>2, <3>4
             DEF AP!Commit, AP!EventOf, AP!EventType
        <4>3. agent_id'[t] # agent_id[t] =>
                 /\ e.type = IF agent_id'[t] = None THEN "UNASSIGNED"
                                                    ELSE "ASSIGNED"
                 /\ e.to = agent_id'[t]
          BY <1>0, <2>2, <3>1, <3>2, <3>4
             DEF AP!Commit, AP!EventOf, AP!EventType
        <4>4. SaysTicket(t, e)
          BY <3>3, <4>2, <4>3 DEF SaysTicket
        <4>5. SaysResult(t, e)
          BY <1>2 DEF Serve, pipeline, SaysResult
        <4> QED
          BY <4>1, <4>4, <4>5 DEF Logged
      <3>5. CASE t # u
        <4>1. status'[t] = status[t] /\ agent_id'[t] = agent_id[t]
          BY <1>0, <2>2, <3>2, <3>5 DEF AP!Commit
        <4> QED
          BY <1>0, <2>1, <3>3, <3>5, <4>1 DEF Quiet
      <3> QED
        BY <3>4, <3>5
    <2>3. CASE UNCHANGED <<stored, status, agent_id, events>>
      BY <2>1, <2>3 DEF Quiet
    <2>4. \A u \in Tickets : ~ AP!CreateTicket(u)
      <3>1. UNCHANGED stored
        BY <1>2, SameRequest
           DEF Serve, AP!Accept, AP!Proceed, AP!LoseAnswer, AP!Abort,
               AP!EnsureActor, AP!LoadForStatus, AP!LoadForAssignment,
               AP!LookupAgent, AP!Flush, AP!Commit, AP!Refresh
      <3> QED
        BY <3>1 DEF AP!CreateTicket
    <2> QED
      BY <2>1, <2>2, <2>3, <2>4, Assumptions, AP!OthersLeaveTables
  <1>3. ASSUME NEW w \in Workers, BeginProcess(w)
        PROVE  Quiet(t)
    BY <1>3, SameWork DEF BeginProcess, PP!Load, PP!database, session, Quiet
  <1>4. ASSUME NEW w \in Workers, NEW u \in Tickets, WorkerEnds(w, u)
        PROVE  Quiet(t) \/ Logged(t)
    <2>1. PICK e \in AP!Event : e = ProcessedEvent(w)
      BY <1>4 DEF WorkerEnds
    <2>2. /\ events' = [events EXCEPT ![u] = Append(@, e)]
          /\ UNCHANGED <<stored, status, agent_id>>
      BY <1>4, <2>1 DEF WorkerEnds, AP!Foreign
    <2>3. CASE t = u
      <3>1. events'[t] = Append(events[t], e)
        BY <1>0, <2>2, <2>3
      <3>2. SaysTicket(t, e)
        BY <2>2 DEF SaysTicket
      <3>3. SaysResult(t, e)
        BY <2>1 DEF SaysResult, ProcessedEvent
      <3> QED
        BY <3>1, <3>2, <3>3 DEF Logged
    <2>4. CASE t # u
      <3>1. processed'[t] = processed[t]
        BY <1>0, <1>4, <2>4 DEF WorkerEnds, PP!SaveCompleted,
                                PP!SaveUnacknowledged, PP!StoreCompleted
      <3> QED
        BY <1>0, <2>2, <2>4, <3>1 DEF Quiet
    <2> QED
      BY <2>3, <2>4
  <1>5. ASSUME NEW w \in Workers, Consume(w)
        PROVE  Quiet(t)
    BY <1>0, <1>5, ConsumeSteps DEF session, Quiet
  <1>6. ASSUME Deliver
        PROVE  Quiet(t)
    BY <1>6, DeliverSteps DEF session, Quiet
  <1>7. ASSUME UNCHANGED vars
        PROVE  Quiet(t)
    BY <1>7 DEF vars, session, pipeline, Quiet
  <1> QED
    BY <1>1, <1>2, <1>3, <1>4, <1>5, <1>6, <1>7, EndingStep DEF Next

(* Whoever makes it, a new ticket, a new status, another agent or another  *)
(* computed result comes in one step with exactly one more event at the    *)
(* end of the log of that ticket, of the type and with the new value that  *)
(* say which change it was, and nothing ever leaves or changes in a log.   *)
THEOREM EveryChangeRecorded == Spec => EveryChangeIsRecorded
  <1> DEFINE Told(t) ==
        /\ IsPrefix(events[t], events'[t])
        /\ t \in stored' \ stored => Recorded(t, "CREATED", status'[t])
        /\ t \in stored /\ status'[t] # status[t] =>
              Recorded(t, "STATUS_CHANGED", status'[t])
        /\ t \in stored /\ agent_id'[t] # agent_id[t] =>
              Recorded(t, IF agent_id'[t] = None THEN "UNASSIGNED"
                                                 ELSE "ASSIGNED",
                       agent_id'[t])
        /\ result'[t].computed # result[t].computed =>
              Recorded(t, "PROCESSED", None)
  <1>1. ASSUME Inv, [Next]_vars, NEW t \in Tickets
        PROVE  Told(t)
    <2>0. AP!TypeInv /\ events[t] \in Seq(AP!Event)
      BY <1>1 DEF Inv, ApiInv, AP!TypeInv, AP!TypeOK
    <2>1. CASE Quiet(t)
      <3>1. result'[t].computed = result[t].computed
        BY <1>1, <2>1, ComputedStays DEF Quiet
      <3>2. IsPrefix(events[t], events'[t])
        BY <2>0, <2>1 DEF Quiet, IsPrefix
      <3> QED
        BY <2>1, <3>1, <3>2 DEF Quiet
    <2>2. CASE Logged(t)
      <3>1. PICK e \in AP!Event :
              /\ events'[t] = Append(events[t], e)
              /\ SaysTicket(t, e) /\ SaysResult(t, e)
        BY <2>2 DEF Logged
      <3>2. IsPrefix(events[t], events'[t])
        BY <2>0, <3>1, PrefixOfAppend
      <3>3. /\ Len(events'[t]) = Len(events[t]) + 1
            /\ Last(events'[t]) = e
        BY <2>0, <3>1 DEF Last
      <3>4. ASSUME NEW type, NEW to, e.type = type, e.to = to
            PROVE  Recorded(t, type, to)
        BY <3>3, <3>4 DEF Recorded
      <3>5. t \in stored' \ stored => Recorded(t, "CREATED", status'[t])
        BY <3>1, <3>4 DEF SaysTicket
      <3>6. t \in stored /\ status'[t] # status[t] =>
              Recorded(t, "STATUS_CHANGED", status'[t])
        BY <3>1, <3>4 DEF SaysTicket
      <3>7. t \in stored /\ agent_id'[t] # agent_id[t] =>
              Recorded(t, IF agent_id'[t] = None THEN "UNASSIGNED"
                                                 ELSE "ASSIGNED",
                       agent_id'[t])
        BY <3>1, <3>4 DEF SaysTicket
      <3>8. result'[t].computed # result[t].computed =>
              Recorded(t, "PROCESSED", None)
        BY <3>1, <3>4 DEF SaysResult
      <3> QED
        BY <3>2, <3>5, <3>6, <3>7, <3>8
    <2> QED
      BY <1>1, <2>1, <2>2, QuietOrLogged
  <1>2. Inv /\ [Next]_vars => [\A t \in Tickets : Told(t)]_vars
    BY <1>1
  <1> QED
    BY InvCorrect, <1>2, PTL DEF Spec, EveryChangeIsRecorded

=============================================================================
