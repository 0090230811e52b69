--------------------------- MODULE TicketsProofs ---------------------------
(***************************************************************************)
(* Theorems about Tickets, for every set of tickets, users, requests and   *)
(* calls.                                                                  *)
(***************************************************************************)
EXTENDS Tickets, TLAPS

(* A request that has been accepted has a well-formed call.                *)
Called == \A r \in Requests : pc[r] # "idle" => call[r] \in CallType

(* What a request has checked still holds of its own data when it writes:  *)
(* rows are never deleted, roles and calls never change, and the status it *)
(* compared with is the one in its session.                                *)
Checked ==
    \A r \in Requests : pc[r] \in {"agent", "flush", "commit"} =>
        /\ call[r].ticket \in stored
        /\ call[r].op = "status" =>
              /\ pc[r] # "agent"
              /\ call[r].value # txn[r].status
              /\ Allowed(txn[r].status, call[r].value)
        /\ call[r].op = "assign" /\ pc[r] # "agent" =>
              call[r].value \in Users \cup {None}

TypeInv == TypeOK /\ Called /\ Checked

-----------------------------------------------------------------------------
(* Type correctness.                                                       *)

LEMMA InitTypeInv == Init => TypeInv
  <1> SUFFICES ASSUME Init PROVE TypeInv
    OBVIOUS
  <1> USE TicketsAssumption
  <1>1. TypeOK
    BY DEF Init, TypeOK, TicketStatus, Event, Session, NoSession, NoCall,
           Place, Answer
  <1>2. Called /\ Checked
    BY DEF Init, Called, Checked
  <1> QED
    BY <1>1, <1>2 DEF TypeInv

(* Helpers that several actions share.                                     *)
LEMMA GoToType ==
  ASSUME TypeOK, NEW r \in Requests, NEW place \in Place, GoTo(r, place)
  PROVE  pc' \in [Requests -> Place]
  BY DEF TypeOK, GoTo

LEMMA FinishType ==
  ASSUME TypeOK, NEW r \in Requests, NEW a \in Answer, Finish(r, a)
  PROVE  /\ pc' \in [Requests -> Place]
         /\ txn' \in [Requests -> Session]
         /\ answer' \in [Requests -> Answer]
  <1>1. NoSession \in Session
    BY DEF NoSession, Session, TicketStatus
  <1>2. "done" \in Place
    BY DEF Place
  <1> QED
    BY <1>1, <1>2 DEF TypeOK, Finish

LEMMA BeginTimeType ==
  ASSUME TypeOK, NEW r \in Requests
  PROVE  BeginTime(r) \in Nat /\ (Tick(r) => clock' \in Nat)
  BY DEF TypeOK, Session, BeginTime, Tick

(* The session after a ticket that is stored has been loaded.              *)
LEMMA LoadedType ==
  ASSUME TypeOK, NEW r \in Requests, NEW t \in Tickets
  PROVE  [began |-> BeginTime(r), status |-> status[t],
          agent_id |-> agent_id[t], log |-> Len(events[t])] \in Session
  <1>1. Len(events[t]) \in Nat
    BY DEF TypeOK
  <1> QED
    BY <1>1, BeginTimeType DEF TypeOK, Session

(* What the event of a request is made of.                                 *)
LEMMA EventOfType ==
  ASSUME TypeInv, NEW r \in Requests, pc[r] = "commit"
  PROVE  EventOf(r) \in Event
  BY TicketsAssumption
     DEF TypeInv, TypeOK, Called, Checked, CallType, Session, Event, EventOf,
         EventType, Value, TicketEventType

LEMMA NextTypeInv == TypeInv /\ [Next]_vars => TypeInv'
  <1> SUFFICES ASSUME TypeInv, [Next]_vars PROVE TypeInv'
    OBVIOUS
  <1> USE TicketsAssumption DEF TypeInv
  <1>1. ASSUME NEW t \in Tickets, CreateTicket(t)
        PROVE  TypeInv'
    <2>1. [type |-> "CREATED", from |-> None, to |-> "OPEN", at |-> clock + 1,
           by |-> None, read |-> 0] \in Event
      BY DEF TypeOK, Event, Value, TicketEventType, TicketStatus
    <2>2. TypeOK'
      BY <1>1, <2>1 DEF CreateTicket, TypeOK, TicketStatus
    <2>3. Called' /\ Checked'
      BY <1>1 DEF CreateTicket, Called, Checked, Allowed
    <2> QED
      BY <2>2, <2>3
  <1>2. ASSUME NEW r \in Requests, Accept(r)
        PROVE  TypeInv'
    <2>1. TypeOK'
      BY <1>2 DEF Accept, TypeOK, GoTo, Place
    <2>2. Called' /\ Checked'
      BY <1>2 DEF Accept, TypeOK, GoTo, Called, Checked, Allowed
    <2> QED
      BY <2>1, <2>2
  <1>3. ASSUME NEW r \in Requests, EnsureActor(r)
        PROVE  TypeInv'
    <2>1. TypeOK'
      <3>1. clock' \in Nat
        BY <1>3, BeginTimeType DEF EnsureActor
      <3>2. CASE call[r].actor \in Users
        <4>1. pc' \in [Requests -> Place]
          BY <1>3, <3>2, GoToType DEF EnsureActor, Place
        <4>2. [txn[r] EXCEPT !.began = BeginTime(r)] \in Session
          <5>1. txn[r] \in Session /\ BeginTime(r) \in Nat
            BY BeginTimeType DEF TypeOK
          <5> QED
            BY <5>1 DEF Session
        <4>3. txn' = [txn EXCEPT ![r] = [txn[r] EXCEPT !.began = BeginTime(r)]]
          BY <1>3, <3>2 DEF EnsureActor
        <4>4. txn' \in [Requests -> Session]
          BY <4>2, <4>3 DEF TypeOK
        <4> QED
          BY <1>3, <3>1, <3>2, <4>1, <4>4 DEF EnsureActor, TypeOK
      <3>3. CASE call[r].actor \notin Users
        <4>1. Finish(r, "not_found") /\ "not_found" \in Answer
          BY <1>3, <3>3 DEF EnsureActor, Answer
        <4> QED
          BY <1>3, <3>1, <4>1, FinishType DEF EnsureActor, TypeOK
      <3> QED
        BY <3>2, <3>3
    <2>2. Called' /\ Checked'
      BY <1>3 DEF EnsureActor, TypeOK, GoTo, Finish, Called, Checked, Allowed
    <2> QED
      BY <2>1, <2>2
  <1>4. ASSUME NEW r \in Requests, LoadForStatus(r)
        PROVE  TypeInv'
    <2>1. TypeOK'
      <3>1. clock' \in Nat
        BY <1>4, BeginTimeType DEF LoadForStatus
      <3>2. CASE \E a \in Answer : Finish(r, a)
        BY <1>4, <3>1, <3>2, FinishType DEF LoadForStatus, TypeOK
      <3>3. CASE ~ \E a \in Answer : Finish(r, a)
        <4>1. /\ call[r].ticket \in stored
              /\ txn' = [txn EXCEPT ![r] =
                    [began |-> BeginTime(r), status |-> status[call[r].ticket],
                     agent_id |-> agent_id[call[r].ticket],
                     log |-> Len(events[call[r].ticket])]]
              /\ GoTo(r, "flush")
              /\ UNCHANGED answer
          BY <1>4, <3>3 DEF LoadForStatus, Answer
        <4>2. pc' \in [Requests -> Place]
          BY <4>1, GoToType DEF Place
        <4>3. txn' \in [Requests -> Session]
          BY <4>1, LoadedType DEF TypeOK
        <4> QED
          BY <1>4, <3>1, <4>1, <4>2, <4>3 DEF LoadForStatus, TypeOK
      <3> QED
        BY <3>2, <3>3
    <2>2. Called' /\ Checked'
      BY <1>4 DEF LoadForStatus, TypeOK, GoTo, Finish, Called, Checked, Allowed
    <2> QED
      BY <2>1, <2>2
  <1>5. ASSUME NEW r \in Requests, LoadForAssignment(r)
        PROVE  TypeInv'
    <2>1. TypeOK'
      <3>1. clock' \in Nat
        BY <1>5, BeginTimeType DEF LoadForAssignment
      <3>2. CASE call[r].ticket \notin stored
        <4>1. Finish(r, "not_found") /\ "not_found" \in Answer
          BY <1>5, <3>2 DEF LoadForAssignment, Answer
        <4> QED
          BY <1>5, <3>1, <4>1, FinishType DEF LoadForAssignment, TypeOK
      <3>3. CASE call[r].ticket \in stored
        <4>1. /\ txn' = [txn EXCEPT ![r] =
                    [began |-> BeginTime(r), status |-> status[call[r].ticket],
                     agent_id |-> agent_id[call[r].ticket],
                     log |-> Len(events[call[r].ticket])]]
              /\ GoTo(r, IF call[r].value = None THEN "flush" ELSE "agent")
              /\ UNCHANGED answer
          BY <1>5, <3>3 DEF LoadForAssignment
        <4>2. pc' \in [Requests -> Place]
          BY <4>1, GoToType DEF Place
        <4>3. txn' \in [Requests -> Session]
          BY <3>3, <4>1, LoadedType DEF TypeOK
        <4> QED
          BY <1>5, <3>1, <4>1, <4>2, <4>3 DEF LoadForAssignment, TypeOK
      <3> QED
        BY <3>2, <3>3
    <2>2. Called' /\ Checked'
      BY <1>5 DEF LoadForAssignment, TypeOK, GoTo, Finish, Called, Checked,
                  Allowed
    <2> QED
      BY <2>1, <2>2
  <1>6. ASSUME NEW r \in Requests, LookupAgent(r)
        PROVE  TypeInv'
    <2>1. TypeOK'
      <3>1. CASE call[r].value \in Users
        <4>1. pc' \in [Requests -> Place]
          BY <1>6, <3>1, GoToType DEF LookupAgent, Place
        <4> QED
          BY <1>6, <3>1, <4>1 DEF LookupAgent, TypeOK
      <3>2. CASE call[r].value \notin Users
        <4>1. Finish(r, "not_found") /\ "not_found" \in Answer
          BY <1>6, <3>2 DEF LookupAgent, Answer
        <4> QED
          BY <1>6, <4>1, FinishType DEF LookupAgent, TypeOK
      <3> QED
        BY <3>1, <3>2
    <2>2. Called' /\ Checked'
      BY <1>6 DEF LookupAgent, TypeOK, GoTo, Finish, Called, Checked, Allowed
    <2> QED
      BY <2>1, <2>2
  <1>7. ASSUME NEW r \in Requests, Flush(r)
        PROVE  TypeInv'
    <2>1. TypeOK'
      <3>1. pc' \in [Requests -> Place]
        BY <1>7, GoToType DEF Flush, Place
      <3>2. rowLock' \in [Tickets -> Requests \cup {None}]
        BY <1>7 DEF Flush, TypeOK
      <3> QED
        BY <1>7, <3>1, <3>2 DEF Flush, TypeOK
    <2>2. Called' /\ Checked'
      BY <1>7 DEF Flush, TypeOK, GoTo, Called, Checked, Allowed
    <2> QED
      BY <2>1, <2>2
  <1>8. ASSUME NEW r \in Requests, Commit(r)
        PROVE  TypeInv'
    <2>1. EventOf(r) \in Event
      BY <1>8, EventOfType DEF Commit
    <2>2. /\ call[r].ticket \in Tickets
          /\ call[r] \in CallType
          /\ call[r].op = "assign" => call[r].value \in Users \cup {None}
          /\ call[r].op = "status" => call[r].value \in TicketStatus
      BY <1>8 DEF Commit, TypeOK, Called, Checked, CallType
    <2>3. TypeOK'
      BY <1>8, <2>1, <2>2
         DEF Commit, TypeOK, GoTo, Place, Unlocked, Session, NoSession,
             TicketStatus
    <2>4. Called' /\ Checked'
      BY <1>8 DEF Commit, TypeOK, GoTo, Called, Checked, Allowed
    <2> QED
      BY <2>3, <2>4
  <1>9. ASSUME NEW r \in Requests, Refresh(r) \/ LoseAnswer(r)
        PROVE  TypeInv'
    <2>1. TypeOK'
      <3>1. "ok" \in Answer /\ "error" \in Answer
        BY DEF Answer
      <3> QED
        BY <1>9, <3>1, FinishType DEF Refresh, LoseAnswer, TypeOK
    <2>2. Called' /\ Checked'
      BY <1>9 DEF Refresh, LoseAnswer, TypeOK, Finish, Called, Checked, Allowed
    <2> QED
      BY <2>1, <2>2
  <1>10. ASSUME NEW r \in Requests, Abort(r)
         PROVE  TypeInv'
    <2>1. TypeOK'
      <3>1. Finish(r, "error") /\ "error" \in Answer
        BY <1>10 DEF Abort, Answer
      <3> QED
        BY <1>10, <3>1, FinishType DEF Abort, Unlocked, TypeOK
    <2>2. Called' /\ Checked'
      BY <1>10 DEF Abort, InTransaction, TypeOK, Finish, Called, Checked,
                   Allowed
    <2> QED
      BY <2>1, <2>2
  <1>11. CASE UNCHANGED vars
    BY <1>11 DEF vars, TypeOK, Called, Checked, Allowed
  <1> QED
    BY <1>1, <1>2, <1>3, <1>4, <1>5, <1>6, <1>7, <1>8, <1>9, <1>10, <1>11
       DEF Next, Proceed, Quiet

(* Every variable keeps its type; in particular whatever is stored as a    *)
(* ticket's agent is a user that exists, because assign_agent looks the id *)
(* up before it writes it and users are never deleted.                     *)
THEOREM TypeCorrect == Spec => []TypeOK
  <1>1. TypeInv => TypeOK
    BY DEF TypeInv
  <1> QED
    BY InitTypeInv, NextTypeInv, <1>1, PTL DEF Spec

-----------------------------------------------------------------------------
(* The row lock.                                                           *)

LEMMA NextLock ==
  TypeInv /\ LockEndsWithTransaction /\ [Next]_vars => LockEndsWithTransaction'
  <1> SUFFICES ASSUME TypeInv, LockEndsWithTransaction, [Next]_vars,
                      NEW t \in Tickets, NEW q \in Requests
               PROVE  (rowLock[t] = q <=>
                          (pc[q] = "commit" /\ call[q].ticket = t /\ Dirty(q)))'
    BY DEF LockEndsWithTransaction
  <1> USE TicketsAssumption
  <1>1. rowLock[t] = q <=>
           (pc[q] = "commit" /\ call[q].ticket = t /\ Dirty(q))
    BY DEF LockEndsWithTransaction
  <1>2. /\ pc \in [Requests -> Place] /\ call \in [Requests -> CallType \cup {NoCall}]
        /\ txn \in [Requests -> Session]
        /\ rowLock \in [Tickets -> Requests \cup {None}]
    BY DEF TypeInv, TypeOK
  <1>3. CASE UNCHANGED <<rowLock, pc, call, txn>>
    BY <1>1, <1>3 DEF Dirty
  <1>4. ASSUME NEW r \in Requests, Accept(r)
        PROVE  (rowLock[t] = q <=>
                   (pc[q] = "commit" /\ call[q].ticket = t /\ Dirty(q)))'
    BY <1>1, <1>2, <1>4 DEF Accept, GoTo, Dirty
  <1>5. ASSUME NEW r \in Requests,
               EnsureActor(r) \/ LoadForStatus(r) \/ LoadForAssignment(r)
                 \/ LookupAgent(r) \/ Refresh(r) \/ LoseAnswer(r)
        PROVE  (rowLock[t] = q <=>
                   (pc[q] = "commit" /\ call[q].ticket = t /\ Dirty(q)))'
    <2>1. UNCHANGED <<rowLock, call>>
      BY <1>5 DEF EnsureActor, LoadForStatus, LoadForAssignment, LookupAgent,
                  Refresh, LoseAnswer
    <2>2. pc[r] # "commit" /\ pc'[r] # "commit"
      BY <1>2, <1>5
         DEF EnsureActor, LoadForStatus, LoadForAssignment, LookupAgent,
             Refresh, LoseAnswer, GoTo, Finish
    <2>3. q # r => pc'[q] = pc[q] /\ txn'[q] = txn[q]
      BY <1>2, <1>5
         DEF EnsureActor, LoadForStatus, LoadForAssignment, LookupAgent,
             Refresh, LoseAnswer, GoTo, Finish
    <2> QED
      BY <1>1, <2>1, <2>2, <2>3 DEF Dirty
  <1>6. ASSUME NEW r \in Requests, Flush(r)
        PROVE  (rowLock[t] = q <=>
                   (pc[q] = "commit" /\ call[q].ticket = t /\ Dirty(q)))'
    <2>1. /\ pc[r] = "flush" /\ pc'[r] = "commit"
          /\ UNCHANGED <<call, txn>>
          /\ q # r => pc'[q] = pc[q]
      BY <1>2, <1>6 DEF Flush, GoTo
    <2>2. CASE Dirty(r)
      <3>1. /\ rowLock[call[r].ticket] = None
            /\ rowLock'[t] = IF t = call[r].ticket THEN r ELSE rowLock[t]
        BY <1>2, <1>6, <2>2 DEF Flush
      <3> QED
        BY <1>1, <2>1, <2>2, <3>1 DEF Dirty
    <2>3. CASE ~ Dirty(r)
      BY <1>1, <1>6, <2>1, <2>3 DEF Flush, Dirty
    <2> QED
      BY <2>2, <2>3
  <1>7. ASSUME NEW r \in Requests, Commit(r) \/ Abort(r)
        PROVE  (rowLock[t] = q <=>
                   (pc[q] = "commit" /\ call[q].ticket = t /\ Dirty(q)))'
    <2>1. /\ rowLock'[t] = IF rowLock[t] = r THEN None ELSE rowLock[t]
          /\ UNCHANGED call
          /\ pc'[r] # "commit"
          /\ q # r => pc'[q] = pc[q] /\ txn'[q] = txn[q]
      BY <1>2, <1>7 DEF Commit, Abort, Unlocked, GoTo, Finish
    <2> QED
      BY <1>1, <2>1 DEF Dirty
  <1> QED
    BY <1>3, <1>4, <1>5, <1>6, <1>7
       DEF Next, Proceed, Quiet, vars, CreateTicket

(* However a transaction ends, by its commit, an exception or a lost       *)
(* connection, its row lock ends with it, and no other transaction takes   *)
(* the lock away before.                                                   *)
THEOREM LockCorrect == Spec => []LockEndsWithTransaction
  <1>1. Init => LockEndsWithTransaction
    BY TicketsAssumption DEF Init, LockEndsWithTransaction
  <1> QED
    BY InitTypeInv, NextTypeInv, NextLock, <1>1, PTL DEF Spec

-----------------------------------------------------------------------------
(* The status and the audit log.                                           *)

(* A ticket without a row has no events.                                   *)
LogsAreOfTickets == \A t \in Tickets \ stored : events[t] = << >>

(* Status events go along the map of allowed transitions.                  *)
EventsAllowed ==
    \A t \in Tickets : \A i \in DOMAIN events[t] :
        StatusEvent(events[t][i]) =>
            \/ events[t][i].type = "CREATED" /\ events[t][i].from = None
            \/ Allowed(events[t][i].from, events[t][i].to)

(* The status in a session is the one the log named when it was loaded.    *)
StatusSeen ==
    \A r \in Requests : pc[r] \in {"agent", "flush", "commit"} =>
        LET log == events[call[r].ticket] IN
        /\ txn[r].log \in 0 .. Len(log)
        /\ \A i \in 1 .. txn[r].log :
              (/\ StatusEvent(log[i])
               /\ \A j \in (i + 1) .. txn[r].log : ~ StatusEvent(log[j]))
              => log[i].to = txn[r].status

LogInv ==
    /\ LogsAreOfTickets
    /\ EventsAllowed
    /\ StatusMatchesLog
    /\ StatusSeen
    /\ StatusLinkedOrOverlapped

(* How a log grows.                                                        *)
LEMMA AppendProperties ==
  ASSUME NEW S, NEW s \in Seq(S), NEW e \in S
  PROVE  /\ Append(s, e) \in Seq(S)
         /\ Len(Append(s, e)) = Len(s) + 1
         /\ \A i \in 1 .. Len(s) : Append(s, e)[i] = s[i]
         /\ Append(s, e)[Len(s) + 1] = e
         /\ DOMAIN s = 1 .. Len(s)
         /\ DOMAIN Append(s, e) = 1 .. (Len(s) + 1)
         /\ Len(s) \in Nat
  OBVIOUS

LEMMA Grown ==
  ASSUME TypeInv, NEW t \in Tickets, NEW e \in Event,
         events'[t] = Append(events[t], e)
  PROVE  /\ Len(events[t]) \in Nat
         /\ Len(events'[t]) = Len(events[t]) + 1
         /\ DOMAIN events[t] = 1 .. Len(events[t])
         /\ DOMAIN events'[t] = 1 .. (Len(events[t]) + 1)
         /\ \A i \in 1 .. Len(events[t]) : events'[t][i] = events[t][i]
         /\ events'[t][Len(events[t]) + 1] = e
  <1>1. events[t] \in Seq(Event)
    BY DEF TypeInv, TypeOK
  <1> QED
    BY <1>1, AppendProperties

(* The event that a committing request appends.                            *)
LEMMA CommitAppends ==
  ASSUME TypeInv, NEW r \in Requests, Commit(r)
  PROVE  LET t == call[r].ticket IN
         /\ t \in Tickets /\ t \in stored
         /\ EventOf(r) \in Event
         /\ events' = [events EXCEPT ![t] = Append(@, EventOf(r))]
         /\ UNCHANGED stored
         /\ StatusEvent(EventOf(r)) <=> call[r].op = "status"
         /\ call[r].op = "status" =>
               /\ EventOf(r).from = txn[r].status
               /\ EventOf(r).to = call[r].value
               /\ EventOf(r).read = txn[r].log
               /\ Allowed(txn[r].status, call[r].value)
               /\ status' = [status EXCEPT ![t] = call[r].value]
         /\ call[r].op # "status" => UNCHANGED status
  <1> USE TicketsAssumption
  <1>1. pc[r] = "commit"
    BY DEF Commit
  <1>2. call[r].ticket \in stored /\ call[r].ticket \in Tickets
    BY <1>1 DEF TypeInv, Checked, TypeOK
  <1>3. EventOf(r) \in Event
    BY <1>1, EventOfType
  <1>4. call[r] \in CallType
    BY <1>1 DEF TypeInv, Called
  <1>5. call[r].op \in {"status", "assign"}
    BY <1>4 DEF CallType
  <1>6. StatusEvent(EventOf(r)) <=> call[r].op = "status"
    BY <1>5 DEF StatusEvent, EventOf, EventType
  <1>7. ASSUME call[r].op = "status"
        PROVE  /\ EventOf(r).from = txn[r].status
               /\ EventOf(r).to = call[r].value
               /\ EventOf(r).read = txn[r].log
               /\ Allowed(txn[r].status, call[r].value)
               /\ Dirty(r)
    BY <1>1, <1>7 DEF TypeInv, Checked, EventOf, Dirty
  <1> QED
    BY <1>1, <1>2, <1>3, <1>6, <1>7 DEF Commit

(* The event of a new ticket.                                              *)
Created == [type |-> "CREATED", from |-> None, to |-> "OPEN", at |-> clock + 1,
            by |-> None, read |-> 0]

LEMMA CreateAppends ==
  ASSUME TypeInv, LogsAreOfTickets, NEW t \in Tickets, CreateTicket(t)
  PROVE  /\ Created \in Event
         /\ t \notin stored
         /\ events[t] = << >>
         /\ events' = [events EXCEPT ![t] = Append(@, Created)]
         /\ stored' = stored \cup {t}
         /\ status' = [status EXCEPT ![t] = "OPEN"]
         /\ UNCHANGED <<pc, call, txn>>
  BY DEF TypeInv, TypeOK, LogsAreOfTickets, CreateTicket, Created, Event,
         Value, TicketStatus, TicketEventType

(* No other step touches the tables.                                       *)
LEMMA OthersLeaveTables ==
  ASSUME [Next]_vars, \A t \in Tickets : ~ CreateTicket(t),
         \A r \in Requests : ~ Commit(r)
  PROVE  UNCHANGED <<stored, status, agent_id, events>>
  BY DEF Next, Proceed, Quiet, vars, Accept, EnsureActor, LoadForStatus,
         LoadForAssignment, LookupAgent, Flush, Refresh, LoseAnswer, Abort

LEMMA NextLogsAreOfTickets ==
  TypeInv /\ LogsAreOfTickets /\ [Next]_vars => LogsAreOfTickets'
  <1> SUFFICES ASSUME TypeInv, LogsAreOfTickets, [Next]_vars
               PROVE  LogsAreOfTickets'
    OBVIOUS
  <1>1. CASE \E t \in Tickets : CreateTicket(t)
    BY <1>1, CreateAppends DEF LogsAreOfTickets, TypeInv, TypeOK
  <1>2. CASE \E r \in Requests : Commit(r)
    BY <1>2, CommitAppends DEF LogsAreOfTickets, TypeInv, TypeOK
  <1> QED
    BY <1>1, <1>2, OthersLeaveTables DEF LogsAreOfTickets

LEMMA NextEventsAllowed ==
  TypeInv /\ LogInv /\ [Next]_vars => EventsAllowed'
  <1> SUFFICES ASSUME TypeInv, LogInv, [Next]_vars,
                      NEW t \in Tickets, NEW i \in DOMAIN events'[t],
                      StatusEvent(events'[t][i])
               PROVE  \/ /\ events'[t][i].type = "CREATED"
                         /\ events'[t][i].from = None
                      \/ Allowed(events'[t][i].from, events'[t][i].to)
    BY DEF EventsAllowed, Allowed, StatusEvent
  <1>1. events \in [Tickets -> Seq(Event)]
    BY DEF TypeInv, TypeOK
  <1>2. CASE events'[t] = events[t]
    BY <1>2 DEF LogInv, EventsAllowed
  <1>3. ASSUME NEW u \in Tickets, CreateTicket(u), events'[t] # events[t]
        PROVE  events'[t][i].type = "CREATED" /\ events'[t][i].from = None
    BY <1>1, <1>3, CreateAppends, AppendProperties DEF LogInv, Created
  <1>4. ASSUME NEW r \in Requests, Commit(r), events'[t] # events[t]
        PROVE  \/ /\ events'[t][i].type = "CREATED"
                  /\ events'[t][i].from = None
               \/ Allowed(events'[t][i].from, events'[t][i].to)
    <2>1. /\ t = call[r].ticket
          /\ EventOf(r) \in Event
          /\ events'[t] = Append(events[t], EventOf(r))
      BY <1>1, <1>4, CommitAppends
    <2>2. CASE i \in DOMAIN events[t]
      BY <2>1, <2>2, Grown DEF LogInv, EventsAllowed
    <2>3. CASE i \notin DOMAIN events[t]
      <3>1. events'[t][i] = EventOf(r)
        BY <2>1, <2>3, Grown
      <3> QED
        BY <1>4, <3>1, CommitAppends
    <2> QED
      BY <2>2, <2>3
  <1> QED
    BY <1>2, <1>3, <1>4, OthersLeaveTables

LEMMA NextStatusMatchesLog ==
  TypeInv /\ LogInv /\ [Next]_vars => StatusMatchesLog'
  <1> SUFFICES ASSUME TypeInv, LogInv, [Next]_vars,
                      NEW t \in Tickets, NEW i \in DOMAIN events'[t],
                      StatusEvent(events'[t][i]),
                      \A j \in DOMAIN events'[t] :
                         i < j => ~ StatusEvent(events'[t][j])
               PROVE  status'[t] = events'[t][i].to
    BY DEF StatusMatchesLog, After, StatusEvent
  <1>1. /\ events \in [Tickets -> Seq(Event)]
        /\ status \in [Tickets -> TicketStatus]
    BY DEF TypeInv, TypeOK
  <1>2. CASE events'[t] = events[t] /\ status'[t] = status[t]
    BY <1>2 DEF LogInv, StatusMatchesLog, After
  <1>3. ASSUME NEW u \in Tickets, CreateTicket(u)
        PROVE  status'[t] = events'[t][i].to
    <2>1. CASE t = u
      BY <1>1, <1>3, <2>1, CreateAppends, AppendProperties DEF LogInv, Created
    <2>2. CASE t # u
      BY <1>1, <1>2, <1>3, <2>2, CreateAppends DEF LogInv
    <2> QED
      BY <2>1, <2>2
  <1>4. ASSUME NEW r \in Requests, Commit(r)
        PROVE  status'[t] = events'[t][i].to
    <2>1. CASE t # call[r].ticket
      BY <1>1, <1>2, <1>4, <2>1, CommitAppends
    <2>2. CASE t = call[r].ticket
      <3>1. /\ EventOf(r) \in Event
            /\ events'[t] = Append(events[t], EventOf(r))
        BY <1>1, <1>4, <2>2, CommitAppends
      <3>2. CASE call[r].op = "status"
        <4>1. StatusEvent(EventOf(r))
          BY <1>4, <3>2, CommitAppends
        <4>2. i = Len(events[t]) + 1
          BY <3>1, <4>1, Grown
        <4>3. events'[t][i].to = call[r].value
          BY <1>4, <3>1, <3>2, <4>2, CommitAppends, Grown
        <4>4. status'[t] = call[r].value
          BY <1>1, <1>4, <2>2, <3>2, CommitAppends
        <4> QED
          BY <4>3, <4>4
      <3>3. CASE call[r].op # "status"
        <4>1. ~ StatusEvent(EventOf(r))
          BY <1>4, <3>3, CommitAppends
        <4>2. i \in DOMAIN events[t]
          BY <3>1, <4>1, Grown
        <4>3. \A j \in DOMAIN events[t] :
                 i < j => ~ StatusEvent(events[t][j])
          BY <3>1, Grown
        <4>4. events'[t][i] = events[t][i]
          BY <3>1, <4>2, Grown
        <4>5. status[t] = events[t][i].to
          BY <4>2, <4>3, <4>4 DEF LogInv, StatusMatchesLog, After
        <4> QED
          BY <1>4, <3>3, <4>4, <4>5, CommitAppends
      <3> QED
        BY <3>2, <3>3
    <2> QED
      BY <2>1, <2>2
  <1> QED
    BY <1>2, <1>3, <1>4, OthersLeaveTables

(* A request that holds a ticket has just loaded it or keeps what it had.  *)
Holding == {"agent", "flush", "commit"}

JustLoaded(r) ==
    LET t == call[r].ticket IN
    /\ t \in Tickets
    /\ txn'[r].status = status[t]
    /\ txn'[r].agent_id = agent_id[t]
    /\ txn'[r].log = Len(events[t])
    /\ UNCHANGED <<call, stored, status, agent_id, events>>

LEMMA SessionKept ==
  ASSUME TypeInv, [Next]_vars, NEW q \in Requests, pc'[q] \in Holding
  PROVE  \/ pc[q] \in Holding /\ txn'[q] = txn[q] /\ call'[q] = call[q]
         \/ JustLoaded(q)
  <1> DEFINE Kept == pc[q] \in Holding /\ txn'[q] = txn[q] /\ call'[q] = call[q]
  <1> SUFFICES Kept \/ JustLoaded(q)
    OBVIOUS
  <1>1. /\ pc \in [Requests -> Place] /\ txn \in [Requests -> Session]
        /\ call \in [Requests -> CallType \cup {NoCall}]
        /\ stored \in SUBSET Tickets
    BY DEF TypeInv, TypeOK
  <1>2. CASE UNCHANGED <<pc, txn, call>>
    BY <1>2 DEF Holding
  <1>3. ASSUME NEW r \in Requests, LoadForStatus(r) \/ LoadForAssignment(r)
        PROVE  Kept \/ JustLoaded(q)
    <2>1. CASE q # r
      BY <1>1, <1>3, <2>1
         DEF LoadForStatus, LoadForAssignment, Finish, GoTo, Holding
    <2>2. CASE q = r /\ LoadForStatus(r)
      BY <1>1, <2>2 DEF LoadForStatus, Finish, GoTo, Holding, JustLoaded
    <2>3. CASE q = r /\ LoadForAssignment(r)
      BY <1>1, <2>3 DEF LoadForAssignment, Finish, GoTo, Holding, JustLoaded
    <2> QED
      BY <1>3, <2>1, <2>2, <2>3
  <1>4. ASSUME NEW r \in Requests,
               LookupAgent(r) \/ Flush(r) \/ Commit(r) \/ Refresh(r)
                 \/ LoseAnswer(r) \/ Abort(r)
        PROVE  Kept
    BY <1>1, <1>4 DEF LookupAgent, Flush, Commit, Refresh, LoseAnswer, Abort,
                      Finish, GoTo, Holding
  <1>5. ASSUME NEW r \in Requests, EnsureActor(r) \/ Accept(r)
        PROVE  Kept
    BY <1>1, <1>5 DEF EnsureActor, Accept, Finish, GoTo, Holding
  <1> QED
    BY <1>2, <1>3, <1>4, <1>5
       DEF Next, Proceed, Quiet, vars, CreateTicket

(* Logs only grow at their end.                                            *)
LEMMA LogsGrow ==
  ASSUME TypeInv, LogsAreOfTickets, [Next]_vars, NEW t \in Tickets
  PROVE  \/ events'[t] = events[t]
         \/ \E e \in Event : events'[t] = Append(events[t], e)
  <1>1. events \in [Tickets -> Seq(Event)]
    BY DEF TypeInv, TypeOK
  <1>2. CASE \E u \in Tickets : CreateTicket(u)
    BY <1>1, <1>2, CreateAppends
  <1>3. CASE \E r \in Requests : Commit(r)
    BY <1>1, <1>3, CommitAppends
  <1> QED
    BY <1>2, <1>3, OthersLeaveTables

(* So what was recorded stays where it was recorded.                       *)
LEMMA LogPrefix ==
  ASSUME TypeInv, LogsAreOfTickets, [Next]_vars, NEW t \in Tickets
  PROVE  /\ Len(events[t]) <= Len(events'[t])
         /\ Len(events[t]) \in Nat /\ Len(events'[t]) \in Nat
         /\ \A i \in 1 .. Len(events[t]) : events'[t][i] = events[t][i]
  <1>1. events[t] \in Seq(Event)
    BY DEF TypeInv, TypeOK
  <1>2. Len(events[t]) \in Nat
    BY <1>1
  <1>3. CASE events'[t] = events[t]
    BY <1>2, <1>3
  <1>4. ASSUME NEW e \in Event, events'[t] = Append(events[t], e)
        PROVE  /\ Len(events'[t]) = Len(events[t]) + 1
               /\ \A i \in 1 .. Len(events[t]) : events'[t][i] = events[t][i]
    BY <1>4, Grown
  <1> QED
    BY <1>2, <1>3, <1>4, LogsGrow

LEMMA NextStatusSeen ==
  TypeInv /\ LogInv /\ [Next]_vars => StatusSeen'
  <1> SUFFICES ASSUME TypeInv, LogInv, [Next]_vars,
                      NEW q \in Requests, pc'[q] \in Holding
               PROVE  LET log == events'[call'[q].ticket] IN
                      /\ txn'[q].log \in 0 .. Len(log)
                      /\ \A i \in 1 .. txn'[q].log :
                            (/\ StatusEvent(log[i])
                             /\ \A j \in (i + 1) .. txn'[q].log :
                                   ~ StatusEvent(log[j]))
                            => log[i].to = txn'[q].status
    BY DEF StatusSeen, StatusEvent, Holding
  <1>1. events \in [Tickets -> Seq(Event)]
    BY DEF TypeInv, TypeOK
  <1>2. CASE JustLoaded(q)
    <2> DEFINE t == call[q].ticket
    <2>1. /\ t \in Tickets
          /\ txn'[q].log = Len(events[t])
          /\ txn'[q].status = status[t]
          /\ call'[q].ticket = t
          /\ events'[t] = events[t]
      BY <1>2 DEF JustLoaded
    <2>2. /\ Len(events[t]) \in Nat
          /\ DOMAIN events[t] = 1 .. Len(events[t])
      BY <1>1, <2>1
    <2>3. ASSUME NEW i \in 1 .. Len(events[t]), StatusEvent(events[t][i]),
                 \A j \in (i + 1) .. Len(events[t]) : ~ StatusEvent(events[t][j])
          PROVE  events[t][i].to = status[t]
      <3>1. i \in DOMAIN events[t]
        BY <2>2
      <3>2. \A j \in After(t, i) : ~ StatusEvent(events[t][j])
        BY <2>2, <2>3 DEF After
      <3> QED
        BY <2>1, <2>3, <3>1, <3>2 DEF LogInv, StatusMatchesLog
    <2> QED
      BY <2>1, <2>2, <2>3
  <1>3. CASE pc[q] \in Holding /\ txn'[q] = txn[q] /\ call'[q] = call[q]
    <2> DEFINE t == call[q].ticket
               seen == txn[q].log
    <2>1. t \in Tickets
      BY <1>3 DEF TypeInv, TypeOK, Checked, Holding
    <2>2. /\ seen \in 0 .. Len(events[t])
          /\ \A i \in 1 .. seen :
                (/\ StatusEvent(events[t][i])
                 /\ \A j \in (i + 1) .. seen : ~ StatusEvent(events[t][j]))
                => events[t][i].to = txn[q].status
      BY <1>3 DEF LogInv, StatusSeen, Holding
    <2>3. /\ Len(events[t]) <= Len(events'[t])
          /\ Len(events[t]) \in Nat /\ Len(events'[t]) \in Nat
          /\ \A i \in 1 .. Len(events[t]) : events'[t][i] = events[t][i]
      BY <2>1, LogPrefix DEF LogInv
    <2>4. \A i \in 1 .. seen : events'[t][i] = events[t][i]
      BY <2>2, <2>3
    <2>5. seen \in 0 .. Len(events'[t])
      BY <2>2, <2>3
    <2>6. \A i \in 1 .. seen : \A j \in (i + 1) .. seen :
             events'[t][j] = events[t][j]
      BY <2>2, <2>3
    <2> HIDE DEF t, seen
    <2>7. \A i \in 1 .. seen :
             (/\ StatusEvent(events'[t][i])
              /\ \A j \in (i + 1) .. seen : ~ StatusEvent(events'[t][j]))
             => events'[t][i].to = txn[q].status
      BY <2>2, <2>4, <2>6
    <2> USE DEF t, seen
    <2> QED
      BY <1>3, <2>5, <2>7
  <1> QED
    BY <1>2, <1>3, SessionKept

LEMMA NextStatusLinked ==
  TypeInv /\ LogInv /\ [Next]_vars => StatusLinkedOrOverlapped'
  <1> SUFFICES ASSUME TypeInv, LogInv, [Next]_vars, NEW t \in Tickets,
                      NEW i \in DOMAIN events'[t], NEW j \in DOMAIN events'[t],
                      i < j,
                      StatusEvent(events'[t][i]), StatusEvent(events'[t][j]),
                      \A k \in DOMAIN events'[t] :
                         i < k /\ k < j => ~ StatusEvent(events'[t][k])
               PROVE  \/ events'[t][j].from = events'[t][i].to
                      \/ events'[t][j].read < i
    BY DEF StatusLinkedOrOverlapped, Between, StatusEvent
  <1>1. events \in [Tickets -> Seq(Event)]
    BY DEF TypeInv, TypeOK
  <1>2. ASSUME j \in DOMAIN events[t],
               \/ events'[t] = events[t]
               \/ \E e \in Event : events'[t] = Append(events[t], e)
        PROVE  \/ events'[t][j].from = events'[t][i].to
               \/ events'[t][j].read < i
    <2>1. /\ DOMAIN events[t] \subseteq DOMAIN events'[t]
          /\ \A k \in DOMAIN events[t] : events'[t][k] = events[t][k]
          /\ \A k \in DOMAIN events'[t] : k < j => k \in DOMAIN events[t]
      <3>1. DOMAIN events[t] = 1 .. Len(events[t]) /\ Len(events[t]) \in Nat
        BY <1>1
      <3>2. CASE events'[t] = events[t]
        BY <3>2
      <3>3. ASSUME NEW e \in Event, events'[t] = Append(events[t], e)
            PROVE  /\ DOMAIN events'[t] = 1 .. (Len(events[t]) + 1)
                   /\ \A k \in DOMAIN events[t] : events'[t][k] = events[t][k]
        BY <3>3, Grown
      <3> QED
        BY <1>2, <3>1, <3>2, <3>3
    <2>2. \A k \in Between(t, i, j) : ~ StatusEvent(events[t][k])
      BY <2>1 DEF Between
    <2>3. /\ events'[t][i] = events[t][i]
          /\ events'[t][j] = events[t][j]
      BY <1>2, <2>1
    <2>4. StatusEvent(events[t][i]) /\ StatusEvent(events[t][j])
      BY <2>3
    <2> QED
      BY <1>2, <2>1, <2>2, <2>3, <2>4 DEF LogInv, StatusLinkedOrOverlapped
  <1>3. ASSUME NEW u \in Tickets, CreateTicket(u), j \notin DOMAIN events[t]
        PROVE  FALSE
    BY <1>1, <1>3, CreateAppends, AppendProperties DEF LogInv
  <1>4. ASSUME NEW r \in Requests, Commit(r), j \notin DOMAIN events[t]
        PROVE  \/ events'[t][j].from = events'[t][i].to
               \/ events'[t][j].read < i
    <2>1. /\ t = call[r].ticket
          /\ EventOf(r) \in Event
          /\ events'[t] = Append(events[t], EventOf(r))
      BY <1>1, <1>4, CommitAppends
    <2>2. /\ Len(events[t]) \in Nat
          /\ j = Len(events[t]) + 1
          /\ events'[t][j] = EventOf(r)
          /\ i \in 1 .. Len(events[t])
          /\ \A k \in 1 .. Len(events[t]) : events'[t][k] = events[t][k]
          /\ DOMAIN events'[t] = 1 .. (Len(events[t]) + 1)
      <3>1. /\ Len(events[t]) \in Nat
            /\ DOMAIN events[t] = 1 .. Len(events[t])
            /\ DOMAIN events'[t] = 1 .. (Len(events[t]) + 1)
            /\ \A k \in 1 .. Len(events[t]) : events'[t][k] = events[t][k]
            /\ events'[t][Len(events[t]) + 1] = EventOf(r)
        BY <2>1, Grown
      <3>2. j = Len(events[t]) + 1
        BY <1>4, <3>1
      <3> QED
        BY <3>1, <3>2
    <2>3. call[r].op = "status"
      BY <1>4, <2>2, CommitAppends
    <2>4. EventOf(r).from = txn[r].status /\ EventOf(r).read = txn[r].log
      BY <1>4, <2>3, CommitAppends
    <2>5. /\ txn[r].log \in 0 .. Len(events[t])
          /\ \A n \in 1 .. txn[r].log :
                (/\ StatusEvent(events[t][n])
                 /\ \A k \in (n + 1) .. txn[r].log : ~ StatusEvent(events[t][k]))
                => events[t][n].to = txn[r].status
      BY <1>4, <2>1 DEF LogInv, StatusSeen, Commit
    <2>6. CASE txn[r].log < i
      BY <2>2, <2>4, <2>6
    <2>7. CASE ~ (txn[r].log < i)
      <3>1. i \in 1 .. txn[r].log
        BY <2>2, <2>5, <2>7
      <3>2. \A k \in (i + 1) .. txn[r].log : ~ StatusEvent(events[t][k])
        <4> SUFFICES ASSUME NEW k \in (i + 1) .. txn[r].log
                     PROVE  ~ StatusEvent(events[t][k])
          OBVIOUS
        <4>1. k \in 1 .. Len(events[t]) /\ i < k /\ k < j
          BY <2>2, <2>5, <3>1
        <4>2. k \in DOMAIN events'[t] /\ events'[t][k] = events[t][k]
          BY <2>2, <4>1
        <4> QED
          BY <4>1, <4>2
      <3>3. StatusEvent(events[t][i])
        BY <2>2
      <3>4. events[t][i].to = txn[r].status
        BY <2>5, <3>1, <3>2, <3>3
      <3> QED
        BY <2>2, <2>4, <3>4
    <2> QED
      BY <2>6, <2>7
  <1> QED
    <2>1. \/ events'[t] = events[t]
          \/ \E e \in Event : events'[t] = Append(events[t], e)
      BY LogsGrow DEF LogInv
    <2>2. CASE j \in DOMAIN events[t]
      BY <1>2, <2>1, <2>2
    <2>3. CASE j \notin DOMAIN events[t]
      <3>1. events' # events
        BY <2>3
      <3> QED
        BY <1>3, <1>4, <2>3, <3>1, OthersLeaveTables
    <2> QED
      BY <2>2, <2>3

LEMMA InitLogInv == Init => LogInv
  BY TicketsAssumption
     DEF Init, LogInv, LogsAreOfTickets, EventsAllowed, StatusMatchesLog,
         StatusSeen, StatusLinkedOrOverlapped

LEMMA NextLogInv == TypeInv /\ LogInv /\ [Next]_vars => LogInv'
  BY NextLogsAreOfTickets, NextEventsAllowed, NextStatusMatchesLog,
     NextStatusSeen, NextStatusLinked DEF LogInv

LEMMA LogCorrect == Spec => [](TypeInv /\ LogInv)
  BY InitTypeInv, NextTypeInv, InitLogInv, NextLogInv, PTL DEF Spec

(* However requests interleave, fail or lose their answer, the status of a *)
(* ticket is the one its last committed status event names: update_status  *)
(* commits the new status and the event together.                          *)
THEOREM StatusAgreesWithLog == Spec => []StatusMatchesLog
  <1>1. LogInv => StatusMatchesLog
    BY DEF LogInv
  <1> QED
    BY LogCorrect, <1>1, PTL

(* A gap in the chain of status events is always the work of a request     *)
(* that had loaded the ticket before the previous change was committed.    *)
THEOREM StatusChain == Spec => []StatusLinkedOrOverlapped
  <1>1. LogInv => StatusLinkedOrOverlapped
    BY DEF LogInv
  <1> QED
    BY LogCorrect, <1>1, PTL

(* A closed ticket is given another status only by such a request, because *)
(* the map of transitions leads nowhere from CLOSED.                       *)
THEOREM ReopenedByOverlapOnly == Spec => []ReopenIsOverlap
  <1>1. TypeInv /\ LogInv => ReopenIsOverlap
    <2> SUFFICES ASSUME TypeInv, LogInv, NEW t \in Tickets,
                        NEW i \in DOMAIN events[t], NEW j \in DOMAIN events[t],
                        i < j,
                        StatusEvent(events[t][i]), StatusEvent(events[t][j]),
                        \A k \in Between(t, i, j) : ~ StatusEvent(events[t][k]),
                        events[t][i].to = "CLOSED"
                 PROVE  events[t][j].read < i
      BY DEF ReopenIsOverlap
    <2>1. \/ events[t][j].from = "CLOSED"
          \/ events[t][j].read < i
      BY DEF LogInv, StatusLinkedOrOverlapped
    <2>2. \/ events[t][j].from = None
          \/ Allowed(events[t][j].from, events[t][j].to)
      BY DEF LogInv, EventsAllowed
    <2>3. None # "CLOSED"
      BY TicketsAssumption DEF TicketStatus
    <2>4. ~ Allowed("CLOSED", events[t][j].to)
      BY DEF Allowed, AllowedStatusTransitions
    <2> QED
      BY <2>1, <2>2, <2>3, <2>4
  <1> QED
    BY LogCorrect, <1>1, PTL

=============================================================================
