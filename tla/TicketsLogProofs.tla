-------------------------- MODULE TicketsLogProofs --------------------------
(***************************************************************************)
(* More theorems about Tickets, for every set of tickets, users, requests  *)
(* and calls: whom the audit log says a ticket is assigned to, what an     *)
(* answer says about the log, and that the service implements TicketLog.   *)
(* The inductive invariant of TicketsProofs is used as it stands there.    *)
(***************************************************************************)
EXTENDS TicketsProofs

-----------------------------------------------------------------------------
(* Assignments.                                                            *)

(* a is whom the first k events of h leave the ticket to: whoever the last *)
(* reassignment names and, before the first one, nobody if the log goes    *)
(* back to the ticket's creation.                                          *)
LeavesTo(h, k, a) ==
    /\ \A i \in 1 .. k :
          (/\ Reassignment(h[i])
           /\ \A j \in (i + 1) .. k : ~ Reassignment(h[j])) => h[i].to = a
    /\ (/\ k > 0 /\ h[1].type = "CREATED"
        /\ \A i \in 1 .. k : ~ Reassignment(h[i])) => a = None

(* It is so of the agent in the table and the whole log, and of the agent  *)
(* in a session and the log as it was when the session loaded the ticket.  *)
TableLeavesTo ==
    \A t \in Tickets : LeavesTo(events[t], Len(events[t]), agent_id[t])

SessionLeavesTo ==
    \A r \in Requests : pc[r] \in Holding =>
        LeavesTo(events[call[r].ticket], txn[r].log, txn[r].agent_id)

AgentInv == TableLeavesTo /\ SessionLeavesTo /\ AgentLinkedOrOverlapped

(* Who has left an event in a log, and how far it has got.                 *)
TracesOfRequest ==
    \A r \in Requests : \A t \in Tickets : \A i \in Traces(t, r) :
        /\ pc[r] \in {"refresh", "done"}
        /\ pc[r] = "done" => answer[r] \in {"ok", "error"}
        /\ t = call[r].ticket
        /\ events[t][i].to = call[r].value
        /\ \A j \in Traces(t, r) : i = j

(* Whoever has committed and got no error has left an event.               *)
CommittedHasTrace ==
    \A r \in Requests :
        /\ pc[r] = "refresh" \/ answer[r] = "ok" =>
              \E t \in Tickets : Traces(t, r) # {}
        /\ answer[r] # "none" => pc[r] = "done"

AnswerInv == TracesOfRequest /\ CommittedHasTrace

-----------------------------------------------------------------------------
(* LeavesTo when a log grows.                                              *)
LEMMA LeavesToPrefix ==
  ASSUME NEW h, NEW g, NEW k \in Nat, NEW a, LeavesTo(h, k, a),
         \A i \in 1 .. k : g[i] = h[i]
  PROVE  LeavesTo(g, k, a)
  <1>1. \A i \in 1 .. k : Reassignment(g[i]) <=> Reassignment(h[i])
    BY DEF Reassignment, AssignmentEvent
  <1>2. \A i \in 1 .. k : \A j \in (i + 1) .. k : j \in 1 .. k
    OBVIOUS
  <1>3. \A i \in 1 .. k :
           (/\ Reassignment(g[i])
            /\ \A j \in (i + 1) .. k : ~ Reassignment(g[j])) => g[i].to = a
    BY <1>1, <1>2 DEF LeavesTo
  <1>4. (/\ k > 0 /\ g[1].type = "CREATED"
         /\ \A i \in 1 .. k : ~ Reassignment(g[i])) => a = None
    BY <1>1 DEF LeavesTo
  <1> QED
    BY <1>3, <1>4 DEF LeavesTo

LEMMA LeavesToAfterMove ==
  ASSUME NEW h, NEW n \in Nat, Reassignment(h[n + 1])
  PROVE  LeavesTo(h, n + 1, h[n + 1].to)
  <1>1. \A i \in 1 .. n : n + 1 \in (i + 1) .. (n + 1)
    OBVIOUS
  <1>2. \A i \in 1 .. (n + 1) : i \in 1 .. n \/ i = n + 1
    OBVIOUS
  <1>3. n + 1 \in 1 .. (n + 1)
    OBVIOUS
  <1> QED
    BY <1>1, <1>2, <1>3 DEF LeavesTo

LEMMA LeavesToAfterOther ==
  ASSUME NEW h, NEW n \in Nat, NEW a, LeavesTo(h, n, a),
         ~ Reassignment(h[n + 1]),
         n = 0 /\ h[1].type = "CREATED" => a = None
  PROVE  LeavesTo(h, n + 1, a)
  <1>1. ASSUME NEW i \in 1 .. (n + 1), Reassignment(h[i]),
               \A j \in (i + 1) .. (n + 1) : ~ Reassignment(h[j])
        PROVE  h[i].to = a
    <2>1. i \in 1 .. n
      BY <1>1
    <2>2. \A j \in (i + 1) .. n : j \in (i + 1) .. (n + 1)
      OBVIOUS
    <2> QED
      BY <1>1, <2>1, <2>2 DEF LeavesTo
  <1>2. ASSUME h[1].type = "CREATED",
               \A i \in 1 .. (n + 1) : ~ Reassignment(h[i])
        PROVE  a = None
    <2>1. \A i \in 1 .. n : i \in 1 .. (n + 1)
      OBVIOUS
    <2> QED
      BY <1>2, <2>1 DEF LeavesTo
  <1> QED
    BY <1>1, <1>2 DEF LeavesTo

(* The last reassignment, if it is among the first k events, is the one    *)
(* that tells where they leave the ticket.                                 *)
LEMMA LastMoveCounts ==
  ASSUME NEW h, NEW n \in Nat, NEW k \in 0 .. n, NEW a, LeavesTo(h, k, a),
         NEW i \in 1 .. n, Reassignment(h[i]),
         \A j \in (i + 1) .. n : ~ Reassignment(h[j])
  PROVE  a = h[i].to \/ k < i
  <1> SUFFICES ASSUME ~ (k < i) PROVE a = h[i].to
    OBVIOUS
  <1>1. i \in 1 .. k /\ \A j \in (i + 1) .. k : j \in (i + 1) .. n
    OBVIOUS
  <1> QED
    BY <1>1 DEF LeavesTo

(* What a commit does to the agent and what its event says of it.          *)
LEMMA CommitAssigns ==
  ASSUME TypeInv, NEW r \in Requests, Commit(r)
  PROVE  LET t == call[r].ticket
             e == EventOf(r)
         IN  /\ pc[r] = "commit"
             /\ e.to = call[r].value /\ e.by = r /\ e.type # "CREATED"
             /\ AssignmentEvent(e) <=> call[r].op = "assign"
             /\ Reassignment(e) =>
                   agent_id' = [agent_id EXCEPT ![t] = call[r].value]
             /\ ~ Reassignment(e) => UNCHANGED agent_id
             /\ call[r].op = "assign" =>
                   e.from = txn[r].agent_id /\ e.read = txn[r].log
             /\ pc' = [pc EXCEPT ![r] = "refresh"]
             /\ UNCHANGED <<call, answer>>
  <1>1. pc[r] = "commit"
    BY DEF Commit
  <1>2. call[r].op \in {"status", "assign"}
    BY <1>1 DEF TypeInv, Called, CallType
  <1>3. /\ EventOf(r).to = call[r].value
        /\ EventOf(r).by = r
        /\ EventOf(r).type # "CREATED"
        /\ AssignmentEvent(EventOf(r)) <=> call[r].op = "assign"
        /\ call[r].op = "assign" =>
              EventOf(r).from = txn[r].agent_id /\ EventOf(r).read = txn[r].log
    BY <1>2 DEF EventOf, EventType, AssignmentEvent
  <1>4. Reassignment(EventOf(r)) <=> call[r].op = "assign" /\ Dirty(r)
    BY <1>2, <1>3 DEF Reassignment, Dirty
  <1> QED
    BY <1>1, <1>3, <1>4 DEF Commit, GoTo

LEMMA NextTableLeavesTo ==
  TypeInv /\ LogInv /\ AgentInv /\ [Next]_vars => TableLeavesTo'
  <1> SUFFICES ASSUME TypeInv, LogInv, AgentInv, [Next]_vars, NEW t \in Tickets
               PROVE  LeavesTo(events'[t], Len(events'[t]), agent_id'[t])
    BY DEF TableLeavesTo, LeavesTo, Reassignment, AssignmentEvent
  <1>1. /\ events \in [Tickets -> Seq(Event)]
        /\ agent_id \in [Tickets -> Users \cup {None}]
    BY DEF TypeInv, TypeOK
  <1>2. LeavesTo(events[t], Len(events[t]), agent_id[t])
    BY DEF AgentInv, TableLeavesTo
  <1>3. CASE events'[t] = events[t] /\ agent_id'[t] = agent_id[t]
    BY <1>2, <1>3
  <1>4. ASSUME NEW u \in Tickets, CreateTicket(u)
        PROVE  LeavesTo(events'[t], Len(events'[t]), agent_id'[t])
    <2>1. CASE t = u
      <3>1. /\ events'[t] = Append(events[t], Created) /\ Created \in Event
            /\ events[t] = << >> /\ agent_id'[t] = None
        BY <1>1, <1>4, <2>1, CreateAppends DEF LogInv, CreateTicket
      <3>2. /\ Len(events[t]) = 0 /\ Len(events'[t]) = 0 + 1
            /\ events'[t][0 + 1] = Created
        BY <3>1, Grown
      <3>3. ~ Reassignment(events'[t][0 + 1])
        BY <3>2 DEF Created, Reassignment, AssignmentEvent
      <3>4. LeavesTo(events'[t], 0, None)
        BY DEF LeavesTo
      <3> QED
        BY <3>1, <3>2, <3>3, <3>4, LeavesToAfterOther
    <2>2. CASE t # u
      BY <1>1, <1>3, <1>4, <2>2, CreateAppends DEF LogInv, CreateTicket
    <2> QED
      BY <2>1, <2>2
  <1>5. ASSUME NEW r \in Requests, Commit(r)
        PROVE  LeavesTo(events'[t], Len(events'[t]), agent_id'[t])
    <2>1. CASE t # call[r].ticket
      BY <1>1, <1>3, <1>5, <2>1, CommitAppends, CommitAssigns
    <2>2. CASE t = call[r].ticket
      <3> DEFINE n == Len(events[t])
      <3>1. /\ EventOf(r) \in Event
            /\ events'[t] = Append(events[t], EventOf(r))
        BY <1>1, <1>5, <2>2, CommitAppends
      <3>2. /\ n \in Nat /\ Len(events'[t]) = n + 1
            /\ events'[t][n + 1] = EventOf(r)
            /\ \A i \in 1 .. n : events'[t][i] = events[t][i]
        BY <3>1, Grown
      <3>3. CASE Reassignment(EventOf(r))
        <4>1. agent_id'[t] = events'[t][n + 1].to
          BY <1>1, <1>5, <2>2, <3>2, <3>3, CommitAssigns
        <4> HIDE DEF n
        <4> QED
          BY <3>2, <3>3, <4>1, LeavesToAfterMove
      <3>4. CASE ~ Reassignment(EventOf(r))
        <4>1. agent_id'[t] = agent_id[t]
          BY <1>5, <3>4, CommitAssigns
        <4>2. n = 0 => events'[t][1].type # "CREATED"
          BY <1>5, <3>2, CommitAssigns
        <4>3. LeavesTo(events'[t], n, agent_id[t])
          BY <1>2, <3>2, LeavesToPrefix
        <4> HIDE DEF n
        <4> QED
          BY <3>2, <3>4, <4>1, <4>2, <4>3, LeavesToAfterOther
      <3> QED
        BY <3>3, <3>4
    <2> QED
      BY <2>1, <2>2
  <1> QED
    BY <1>3, <1>4, <1>5, OthersLeaveTables

LEMMA NextSessionLeavesTo ==
  TypeInv /\ LogInv /\ AgentInv /\ [Next]_vars => SessionLeavesTo'
  <1> SUFFICES ASSUME TypeInv, LogInv, AgentInv, [Next]_vars,
                      NEW r \in Requests, pc'[r] \in Holding
               PROVE  LeavesTo(events'[call'[r].ticket], txn'[r].log,
                               txn'[r].agent_id)
    BY DEF SessionLeavesTo, Holding, LeavesTo, Reassignment, AssignmentEvent
  <1>1. CASE JustLoaded(r)
    BY <1>1 DEF JustLoaded, AgentInv, TableLeavesTo
  <1>2. CASE pc[r] \in Holding /\ txn'[r] = txn[r] /\ call'[r] = call[r]
    <2> DEFINE t == call[r].ticket
    <2>1. t \in Tickets
      BY <1>2 DEF TypeInv, TypeOK, Checked, Holding
    <2>2. txn[r].log \in 0 .. Len(events[t])
      BY <1>2 DEF LogInv, StatusSeen, Holding
    <2>3. /\ Len(events[t]) \in Nat
          /\ \A i \in 1 .. Len(events[t]) : events'[t][i] = events[t][i]
      BY <2>1, LogPrefix DEF LogInv
    <2>4. txn[r].log \in Nat
          /\ \A i \in 1 .. txn[r].log : events'[t][i] = events[t][i]
      BY <2>2, <2>3
    <2>5. LeavesTo(events[t], txn[r].log, txn[r].agent_id)
      BY <1>2 DEF AgentInv, SessionLeavesTo
    <2> HIDE DEF t
    <2>6. LeavesTo(events'[t], txn[r].log, txn[r].agent_id)
      BY <2>4, <2>5, LeavesToPrefix
    <2> USE DEF t
    <2> QED
      BY <1>2, <2>6
  <1> QED
    BY <1>1, <1>2, SessionKept

LEMMA NextAgentLinked ==
  TypeInv /\ LogInv /\ AgentInv /\ [Next]_vars => AgentLinkedOrOverlapped'
  <1> SUFFICES ASSUME TypeInv, LogInv, AgentInv, [Next]_vars,
                      NEW t \in Tickets,
                      NEW i \in DOMAIN events'[t], NEW j \in DOMAIN events'[t],
                      i < j,
                      Reassignment(events'[t][i]), Reassignment(events'[t][j]),
                      \A k \in DOMAIN events'[t] :
                         i < k /\ k < j => ~ Reassignment(events'[t][k])
               PROVE  \/ events'[t][j].from = events'[t][i].to
                      \/ events'[t][j].read < i
    BY DEF AgentLinkedOrOverlapped, Between, Reassignment, AssignmentEvent
  <1> DEFINE n == Len(events[t])
  <1>1. n \in Nat /\ DOMAIN events[t] = 1 .. n
    BY DEF TypeInv, TypeOK
  <1>2. CASE events'[t] = events[t]
    BY <1>2 DEF AgentInv, AgentLinkedOrOverlapped, Between
  <1>3. ASSUME NEW e \in Event, events'[t] = Append(events[t], e)
        PROVE  /\ DOMAIN events'[t] = 1 .. (n + 1)
               /\ events'[t][n + 1] = e
               /\ \A k \in 1 .. n : events'[t][k] = events[t][k]
    BY <1>3, Grown
  <1>4. ASSUME NEW e \in Event, events'[t] = Append(events[t], e), j \in 1 .. n
        PROVE  \/ events'[t][j].from = events'[t][i].to
               \/ events'[t][j].read < i
    <2>1. i \in 1 .. n /\ \A k \in 1 .. n : k \in 1 .. (n + 1)
      BY <1>1, <1>3, <1>4
    <2>2. \A k \in Between(t, i, j) : ~ Reassignment(events[t][k])
      BY <1>1, <1>3, <1>4, <2>1 DEF Between
    <2>3. events'[t][i] = events[t][i] /\ events'[t][j] = events[t][j]
      BY <1>3, <1>4, <2>1
    <2> HIDE DEF n
    <2> QED
      BY <1>1, <1>4, <2>1, <2>2, <2>3 DEF AgentInv, AgentLinkedOrOverlapped
  <1>5. ASSUME NEW u \in Tickets, CreateTicket(u), events'[t] # events[t]
        PROVE  FALSE
    <2>1. /\ Created \in Event /\ events[t] = << >>
          /\ events'[t] = Append(events[t], Created)
      BY <1>5, CreateAppends DEF LogInv, TypeInv, TypeOK
    <2> QED
      BY <1>3, <2>1
  <1>6. ASSUME NEW r \in Requests, Commit(r), events'[t] # events[t]
        PROVE  \/ events'[t][j].from = events'[t][i].to
               \/ events'[t][j].read < i
    <2>1. /\ t = call[r].ticket
          /\ EventOf(r) \in Event
          /\ events'[t] = Append(events[t], EventOf(r))
      BY <1>6, CommitAppends DEF TypeInv, TypeOK
    <2>2. CASE j \in 1 .. n
      BY <1>4, <2>1, <2>2
    <2>3. CASE j \notin 1 .. n
      <3>1. /\ j = n + 1 /\ i \in 1 .. n
            /\ events'[t][j] = EventOf(r)
            /\ events'[t][i] = events[t][i]
        BY <1>1, <1>3, <2>1, <2>3
      <3>2. \A k \in (i + 1) .. n : ~ Reassignment(events[t][k])
        <4> SUFFICES ASSUME NEW k \in (i + 1) .. n
                     PROVE  ~ Reassignment(events[t][k])
          OBVIOUS
        <4>1. k \in 1 .. n /\ k \in 1 .. (n + 1) /\ i < k /\ k < j
          BY <1>1, <3>1
        <4>2. ~ Reassignment(events'[t][k]) /\ events'[t][k] = events[t][k]
          BY <1>3, <2>1, <4>1
        <4> QED
          BY <4>2
      <3>3. EventOf(r).from = txn[r].agent_id /\ EventOf(r).read = txn[r].log
        BY <1>6, <3>1, CommitAssigns DEF Reassignment
      <3>4. /\ txn[r].log \in 0 .. n
            /\ LeavesTo(events[t], txn[r].log, txn[r].agent_id)
        BY <1>6, <2>1, CommitAssigns
           DEF LogInv, StatusSeen, AgentInv, SessionLeavesTo, Holding
      <3>5. Reassignment(events[t][i])
        BY <3>1
      <3> HIDE DEF n
      <3>6. txn[r].agent_id = events[t][i].to \/ txn[r].log < i
        BY <1>1, <3>1, <3>2, <3>4, <3>5, LastMoveCounts
      <3> QED
        BY <3>1, <3>3, <3>6
    <2> QED
      BY <2>2, <2>3
  <1> QED
    BY <1>2, <1>5, <1>6, OthersLeaveTables

LEMMA InitAgentInv == Init => AgentInv
  <1> SUFFICES ASSUME Init PROVE AgentInv
    OBVIOUS
  <1>1. \A t \in Tickets : events[t] = << >> /\ Len(events[t]) = 0
    BY DEF Init
  <1>2. \A r \in Requests : pc[r] \notin Holding
    BY DEF Init, Holding
  <1> QED
    BY <1>1, <1>2 DEF AgentInv, TableLeavesTo, SessionLeavesTo, LeavesTo,
                      AgentLinkedOrOverlapped

LEMMA NextAgentInv ==
  TypeInv /\ LogInv /\ AgentInv /\ [Next]_vars => AgentInv'
  BY NextTableLeavesTo, NextSessionLeavesTo, NextAgentLinked DEF AgentInv

LEMMA AgentInvCorrect == Spec => [](TypeInv /\ LogInv /\ AgentInv)
  BY InitTypeInv, NextTypeInv, InitLogInv, NextLogInv, InitAgentInv,
     NextAgentInv, PTL DEF Spec

(* Whoever a ticket is assigned to is whom its last committed reassignment *)
(* names, however requests interleave: assign_agent commits the new agent  *)
(* and the event together, and writes the agent only if it records one     *)
(* whose two agents differ.                                                *)
THEOREM AgentAgreesWithLog == Spec => []AgentMatchesLog
  <1>1. TypeInv /\ AgentInv => AgentMatchesLog
    <2> SUFFICES ASSUME TypeInv, AgentInv, NEW t \in Tickets,
                        NEW i \in DOMAIN events[t], Reassignment(events[t][i]),
                        \A j \in After(t, i) : ~ Reassignment(events[t][j])
                 PROVE  agent_id[t] = events[t][i].to
      BY DEF AgentMatchesLog
    <2>1. /\ Len(events[t]) \in Nat
          /\ DOMAIN events[t] = 1 .. Len(events[t])
      BY DEF TypeInv, TypeOK
    <2>2. \A j \in (i + 1) .. Len(events[t]) : ~ Reassignment(events[t][j])
      BY <2>1 DEF After
    <2> QED
      BY <2>1, <2>2 DEF AgentInv, TableLeavesTo, LeavesTo
  <1> QED
    BY AgentInvCorrect, <1>1, PTL

(* A reassignment that does not start from whom the one before it ended at *)
(* is the work of a request that had loaded the ticket before that one was *)
(* committed.                                                              *)
THEOREM AgentChain == Spec => []AgentLinkedOrOverlapped
  <1>1. AgentInv => AgentLinkedOrOverlapped
    BY DEF AgentInv
  <1> QED
    BY AgentInvCorrect, <1>1, PTL

-----------------------------------------------------------------------------
(* Answers.                                                                *)

(* What a step may do to the place and the answer of a request.            *)
Waits(q) == pc'[q] = pc[q] /\ answer'[q] = answer[q] /\ call'[q] = call[q]

Advances(q) ==
    /\ pc[q] \notin {"refresh", "done"} /\ pc'[q] \notin {"refresh", "done"}
    /\ answer'[q] = answer[q]

GivesUp(q) ==
    /\ pc[q] \notin {"refresh", "done"} /\ pc'[q] = "done"
    /\ answer'[q] \in {"not_found", "invalid", "unchanged", "error"}

Answers(q) ==
    /\ pc[q] = "refresh" /\ pc'[q] = "done" /\ call'[q] = call[q]
    /\ answer'[q] \in {"ok", "error"}

LEMMA RequestMoves ==
  ASSUME TypeInv, [Next]_vars, NEW q \in Requests
  PROVE  Waits(q) \/ Advances(q) \/ GivesUp(q) \/ Answers(q) \/ Commit(q)
  <1> DEFINE Goal == Waits(q) \/ Advances(q) \/ GivesUp(q) \/ Answers(q)
                       \/ Commit(q)
  <1> SUFFICES Goal
    OBVIOUS
  <1>1. /\ pc \in [Requests -> Place] /\ answer \in [Requests -> Answer]
        /\ call \in [Requests -> CallType \cup {NoCall}]
    BY DEF TypeInv, TypeOK
  <1>2. CASE UNCHANGED <<pc, call, answer>>
    BY <1>2 DEF Waits
  <1>3. ASSUME NEW r \in Requests, Accept(r)
        PROVE  Goal
    BY <1>1, <1>3 DEF Accept, GoTo, Waits, Advances
  <1>4. ASSUME NEW r \in Requests, EnsureActor(r)
        PROVE  Goal
    BY <1>1, <1>4 DEF EnsureActor, GoTo, Finish, Waits, Advances, GivesUp
  <1>5. ASSUME NEW r \in Requests, LoadForStatus(r)
        PROVE  Goal
    BY <1>1, <1>5 DEF LoadForStatus, GoTo, Finish, Waits, Advances, GivesUp
  <1>6. ASSUME NEW r \in Requests, LoadForAssignment(r)
        PROVE  Goal
    BY <1>1, <1>6 DEF LoadForAssignment, GoTo, Finish, Waits, Advances, GivesUp
  <1>7. ASSUME NEW r \in Requests, LookupAgent(r)
        PROVE  Goal
    BY <1>1, <1>7 DEF LookupAgent, GoTo, Finish, Waits, Advances, GivesUp
  <1>8. ASSUME NEW r \in Requests, Flush(r)
        PROVE  Goal
    BY <1>1, <1>8 DEF Flush, GoTo, Waits, Advances
  <1>9. ASSUME NEW r \in Requests, Commit(r)
        PROVE  Goal
    BY <1>1, <1>9 DEF Commit, GoTo, Waits
  <1>10. ASSUME NEW r \in Requests, Refresh(r) \/ LoseAnswer(r)
         PROVE  Goal
    BY <1>1, <1>10 DEF Refresh, LoseAnswer, Finish, Waits, Answers
  <1>11. ASSUME NEW r \in Requests, Abort(r)
         PROVE  Goal
    BY <1>1, <1>11 DEF Abort, InTransaction, Finish, Waits, GivesUp
  <1> QED
    BY <1>2, <1>3, <1>4, <1>5, <1>6, <1>7, <1>8, <1>9, <1>10, <1>11
       DEF Next, Proceed, Quiet, vars, CreateTicket

(* A request leaves an event with its commit and with no other step.       *)
LEMMA TracesKept ==
  ASSUME TypeInv, LogsAreOfTickets, [Next]_vars, NEW q \in Requests,
         ~ Commit(q), NEW t \in Tickets
  PROVE  /\ Traces(t, q)' = Traces(t, q)
         /\ \A i \in Traces(t, q) : events'[t][i] = events[t][i]
  <1>1. CASE events'[t] = events[t]
    BY <1>1 DEF Traces
  <1>2. ASSUME NEW e \in Event, events'[t] = Append(events[t], e), e.by # q
        PROVE  /\ Traces(t, q)' = Traces(t, q)
               /\ \A i \in Traces(t, q) : events'[t][i] = events[t][i]
    <2> DEFINE n == Len(events[t])
    <2>1. /\ n \in Nat /\ DOMAIN events[t] = 1 .. n
          /\ DOMAIN events'[t] = 1 .. (n + 1)
          /\ \A i \in 1 .. n : events'[t][i] = events[t][i]
          /\ events'[t][n + 1] = e
      BY <1>2, Grown
    <2> HIDE DEF n
    <2>2. 1 .. (n + 1) = (1 .. n) \cup {n + 1}
      BY <2>1
    <2> QED
      BY <1>2, <2>1, <2>2 DEF Traces
  <1>3. ASSUME NEW u \in Tickets, CreateTicket(u), events'[t] # events[t]
        PROVE  \E e \in Event : events'[t] = Append(events[t], e) /\ e.by # q
    <2>1. Created \in Event /\ events'[t] = Append(events[t], Created)
      BY <1>3, CreateAppends DEF TypeInv, TypeOK
    <2>2. Created.by # q
      BY TicketsAssumption DEF Created
    <2> QED
      BY <2>1, <2>2
  <1>4. ASSUME NEW r \in Requests, Commit(r), events'[t] # events[t]
        PROVE  \E e \in Event : events'[t] = Append(events[t], e) /\ e.by # q
    <2>1. EventOf(r) \in Event /\ events'[t] = Append(events[t], EventOf(r))
      BY <1>4, CommitAppends DEF TypeInv, TypeOK
    <2>2. EventOf(r).by # q
      BY <1>4, CommitAssigns
    <2> QED
      BY <2>1, <2>2
  <1> QED
    BY <1>1, <1>2, <1>3, <1>4, OthersLeaveTables

(* The commit leaves exactly one.                                          *)
LEMMA CommitTraces ==
  ASSUME TypeInv, AnswerInv, NEW q \in Requests, Commit(q), NEW t \in Tickets
  PROVE  /\ t # call[q].ticket => Traces(t, q)' = {}
         /\ t = call[q].ticket =>
               \E n \in DOMAIN events'[t] :
                  /\ Traces(t, q)' = {n}
                  /\ events'[t][n].to = call[q].value
  <1>1. Traces(t, q) = {}
    BY CommitAssigns DEF AnswerInv, TracesOfRequest
  <1>2. CASE t # call[q].ticket
    <2>1. events'[t] = events[t]
      BY <1>2, CommitAppends DEF TypeInv, TypeOK
    <2> QED
      BY <1>1, <1>2, <2>1 DEF Traces
  <1>3. CASE t = call[q].ticket
    <2> DEFINE n == Len(events[t])
    <2>1. EventOf(q) \in Event /\ events'[t] = Append(events[t], EventOf(q))
      BY <1>3, CommitAppends DEF TypeInv, TypeOK
    <2>2. /\ n \in Nat /\ DOMAIN events[t] = 1 .. n
          /\ DOMAIN events'[t] = 1 .. (n + 1)
          /\ \A i \in 1 .. n : events'[t][i] = events[t][i]
          /\ events'[t][n + 1] = EventOf(q)
      BY <2>1, Grown
    <2> HIDE DEF n
    <2>3. /\ n + 1 \in 1 .. (n + 1)
          /\ \A i \in 1 .. (n + 1) : i \in 1 .. n \/ i = n + 1
      BY <2>2
    <2>4. \A i \in 1 .. n : events'[t][i].by # q
      BY <1>1, <2>2 DEF Traces
    <2>5. events'[t][n + 1].by = q /\ events'[t][n + 1].to = call[q].value
      BY <2>2, CommitAssigns
    <2>6. Traces(t, q)' = {n + 1}
      BY <2>2, <2>3, <2>4, <2>5 DEF Traces
    <2> QED
      BY <1>3, <2>2, <2>3, <2>5, <2>6
  <1> QED
    BY <1>2, <1>3

LEMMA NextAnswerInv == TypeInv /\ LogInv /\ AnswerInv /\ [Next]_vars => AnswerInv'
  <1> SUFFICES ASSUME TypeInv, LogInv, AnswerInv, [Next]_vars,
                      NEW q \in Requests
               PROVE  /\ \A t \in Tickets : \A i \in Traces(t, q)' :
                            /\ pc'[q] \in {"refresh", "done"}
                            /\ pc'[q] = "done" => answer'[q] \in {"ok", "error"}
                            /\ t = call'[q].ticket
                            /\ events'[t][i].to = call'[q].value
                            /\ \A j \in Traces(t, q)' : i = j
                      /\ pc'[q] = "refresh" \/ answer'[q] = "ok" =>
                            \E t \in Tickets : Traces(t, q)' # {}
                      /\ answer'[q] # "none" => pc'[q] = "done"
    BY DEF AnswerInv, TracesOfRequest, CommittedHasTrace, Traces
  <1>1. CASE Commit(q)
    <2>1. call[q].ticket \in Tickets /\ pc[q] = "commit"
      BY <1>1, CommitAppends, CommitAssigns
    <2>2. pc'[q] = "refresh" /\ call'[q] = call[q] /\ answer'[q] = "none"
      BY <1>1, <2>1, CommitAssigns
         DEF AnswerInv, CommittedHasTrace, TypeInv, TypeOK
    <2> QED
      BY <1>1, <2>1, <2>2, CommitTraces
  <1>2. CASE ~ Commit(q)
    <2>1. \A t \in Tickets :
             /\ Traces(t, q)' = Traces(t, q)
             /\ \A i \in Traces(t, q) : events'[t][i] = events[t][i]
      BY <1>2, TracesKept DEF LogInv
    <2>2. CASE Waits(q)
      BY <2>1, <2>2 DEF Waits, AnswerInv, TracesOfRequest, CommittedHasTrace
    <2>3. CASE Advances(q)
      BY <2>1, <2>3 DEF Advances, AnswerInv, TracesOfRequest, CommittedHasTrace
    <2>4. CASE GivesUp(q)
      BY <2>1, <2>4 DEF GivesUp, AnswerInv, TracesOfRequest
    <2>5. CASE Answers(q)
      BY <2>1, <2>5 DEF Answers, AnswerInv, TracesOfRequest, CommittedHasTrace
    <2> QED
      BY <1>2, <2>2, <2>3, <2>4, <2>5, RequestMoves
  <1> QED
    BY <1>1, <1>2

(* The answer tells a client what became of its request: a 404, a 422 or   *)
(* the 200 of an update that changes nothing mean that no log has an event *)
(* of it, any other 200 means that the log of its ticket has exactly one,  *)
(* with what it asked for; only after an error may there be one or none.   *)
THEOREM AnswerAgreesWithLog == Spec => []AnswerMatchesLog
  <1>1. Init => AnswerInv
    BY DEF Init, AnswerInv, TracesOfRequest, CommittedHasTrace, Traces
  <1>2. AnswerInv => AnswerMatchesLog
    <2> SUFFICES ASSUME AnswerInv, NEW r \in Requests
                 PROVE  /\ \A t \in Tickets : \A i, j \in Traces(t, r) :
                              /\ i = j /\ t = call[r].ticket
                              /\ events[t][i].to = call[r].value
                        /\ answer[r] \in {"not_found", "invalid", "unchanged"}
                              => \A t \in Tickets : Traces(t, r) = {}
                        /\ answer[r] = "ok" =>
                              \E t \in Tickets : Traces(t, r) # {}
      BY DEF AnswerMatchesLog
    <2>1. answer[r] \in {"not_found", "invalid", "unchanged"} =>
             pc[r] = "done"
      BY DEF AnswerInv, CommittedHasTrace
    <2> QED
      BY <2>1 DEF AnswerInv, TracesOfRequest, CommittedHasTrace
  <1> QED
    BY InitTypeInv, NextTypeInv, InitLogInv, NextLogInv, NextAnswerInv, <1>1,
       <1>2, PTL DEF Spec

-----------------------------------------------------------------------------
(* The service implements TicketLog.                                       *)

(* The log of TicketLog as the refinement mapping makes it.                *)
Mapped(s) == [i \in DOMAIN s |-> Entry(s[i])]

MappedLog == [t \in Tickets |-> Mapped(events[t])]

EntryType == {Entry(e) : e \in Event}

LEMMA MappedSeq ==
  ASSUME NEW s \in Seq(Event)
  PROVE  /\ Mapped(s) \in Seq(EntryType)
         /\ Len(Mapped(s)) = Len(s) /\ Len(s) \in Nat
         /\ DOMAIN s = 1 .. Len(s) /\ DOMAIN Mapped(s) = 1 .. Len(s)
         /\ \A i \in 1 .. Len(s) : Mapped(s)[i] = Entry(s[i])
  <1>1. Len(s) \in Nat /\ DOMAIN s = 1 .. Len(s)
    OBVIOUS
  <1>2. \A i \in 1 .. Len(s) : Entry(s[i]) \in EntryType
    BY <1>1 DEF EntryType
  <1>3. Mapped(s) = [i \in 1 .. Len(s) |-> Entry(s[i])]
    BY <1>1 DEF Mapped
  <1>4. Mapped(s) \in Seq(EntryType)
    BY <1>1, <1>2, <1>3
  <1> QED
    BY <1>1, <1>3, <1>4

LEMMA SameSequence ==
  ASSUME NEW S, NEW s \in Seq(S), NEW u \in Seq(S), Len(s) = Len(u),
         \A i \in 1 .. Len(s) : s[i] = u[i]
  PROVE  s = u
  OBVIOUS

LEMMA MappedAppend ==
  ASSUME NEW s \in Seq(Event), NEW e \in Event
  PROVE  Mapped(Append(s, e)) = Append(Mapped(s), Entry(e))
  <1> DEFINE n == Len(s)
             g == Append(s, e)
             m == Append(Mapped(s), Entry(e))
  <1>1. Entry(e) \in EntryType
    BY DEF EntryType
  <1>2. /\ g \in Seq(Event) /\ Len(g) = n + 1 /\ n \in Nat
        /\ \A i \in 1 .. n : g[i] = s[i]
        /\ g[n + 1] = e
    BY AppendProperties
  <1>3. /\ Mapped(g) \in Seq(EntryType) /\ Len(Mapped(g)) = n + 1
        /\ \A i \in 1 .. (n + 1) : Mapped(g)[i] = Entry(g[i])
    BY <1>2, MappedSeq
  <1>4. /\ Mapped(s) \in Seq(EntryType) /\ Len(Mapped(s)) = n
        /\ \A i \in 1 .. n : Mapped(s)[i] = Entry(s[i])
    BY MappedSeq
  <1>5. /\ m \in Seq(EntryType) /\ Len(m) = n + 1
        /\ \A i \in 1 .. n : m[i] = Entry(s[i])
        /\ m[n + 1] = Entry(e)
    BY <1>1, <1>4, AppendProperties
  <1>6. \A i \in 1 .. (n + 1) : i \in 1 .. n \/ i = n + 1
    BY <1>2
  <1>7. \A i \in 1 .. (n + 1) : Mapped(g)[i] = m[i]
    BY <1>2, <1>3, <1>5, <1>6
  <1> HIDE DEF n, g, m
  <1>8. Mapped(g) = m
    BY <1>3, <1>5, <1>7, SameSequence
  <1> QED
    BY <1>8 DEF g, m

(* A step that appends an event to one log appends its entry to the mapped *)
(* log, and the log grows.                                                 *)
LEMMA MappedRecord ==
  ASSUME TypeInv, NEW t \in Tickets, NEW e \in Event,
         events' = [events EXCEPT ![t] = Append(@, e)]
  PROVE  /\ MappedLog' = [MappedLog EXCEPT ![t] = Append(@, Entry(e))]
         /\ Len(MappedLog'[t]) > Len(MappedLog[t])
  <1>1. events \in [Tickets -> Seq(Event)]
    BY DEF TypeInv, TypeOK
  <1>2. events'[t] = Append(events[t], e)
        /\ \A u \in Tickets \ {t} : events'[u] = events[u]
    BY <1>1
  <1>3. MappedLog' = [u \in Tickets |-> Mapped(events'[u])]
    BY DEF MappedLog, Mapped, Entry
  <1>4. Mapped(events'[t]) = Append(Mapped(events[t]), Entry(e))
    BY <1>1, <1>2, MappedAppend
  <1>5. /\ \A u \in Tickets : MappedLog[u] = Mapped(events[u])
        /\ \A u \in Tickets : MappedLog'[u] = Mapped(events'[u])
        /\ MappedLog = [u \in Tickets |-> MappedLog[u]]
        /\ MappedLog' = [u \in Tickets |-> MappedLog'[u]]
    BY <1>3 DEF MappedLog
  <1>6. \A u \in Tickets :
           MappedLog'[u] = IF u = t THEN Append(MappedLog[t], Entry(e))
                                    ELSE MappedLog[u]
    BY <1>2, <1>4, <1>5
  <1>7. MappedLog' = [MappedLog EXCEPT ![t] = Append(@, Entry(e))]
    BY <1>5, <1>6
  <1>8. events[t] \in Seq(Event) /\ events'[t] \in Seq(Event)
        /\ Len(events'[t]) = Len(events[t]) + 1 /\ Len(events[t]) \in Nat
    BY <1>1, <1>2, AppendProperties
  <1>9. /\ Len(Mapped(events'[t])) = Len(events'[t])
        /\ Len(Mapped(events[t])) = Len(events[t])
    BY <1>8, MappedSeq
  <1> QED
    BY <1>5, <1>7, <1>8, <1>9

(* What a session has seen is what the mapped log named.                   *)
LEMMA SeenIsNamed ==
  ASSUME TypeInv, LogInv, AgentInv, NEW r \in Requests, pc[r] = "commit"
  PROVE  LET h == MappedLog[call[r].ticket] IN
         /\ txn[r].log \in 0 .. Len(h)
         /\ Log!StatusNamed(h, txn[r].log, txn[r].status)
         /\ Log!AgentNamed(h, txn[r].log, txn[r].agent_id)
  <1> DEFINE t == call[r].ticket
             h == MappedLog[t]
             s == events[t]
             k == txn[r].log
  <1>1. t \in Tickets /\ s \in Seq(Event)
    BY DEF TypeInv, TypeOK, Checked
  <1>2. /\ k \in 0 .. Len(s)
        /\ \A i \in 1 .. k :
              (/\ StatusEvent(s[i])
               /\ \A j \in (i + 1) .. k : ~ StatusEvent(s[j]))
              => s[i].to = txn[r].status
    BY DEF LogInv, StatusSeen
  <1>3. LeavesTo(s, k, txn[r].agent_id)
    BY DEF AgentInv, SessionLeavesTo, Holding
  <1>4. /\ Len(h) = Len(s) /\ Len(s) \in Nat
        /\ \A i \in 1 .. Len(s) : h[i] = Entry(s[i])
    BY <1>1, MappedSeq DEF MappedLog
  <1> HIDE DEF t, h, s, k
  <1>5. /\ \A i \in 1 .. k : i \in 1 .. Len(s)
        /\ \A i \in 1 .. k : \A j \in (i + 1) .. k : j \in 1 .. k
        /\ k > 0 => 1 \in 1 .. k
    BY <1>2, <1>4
  <1>6. \A i \in 1 .. k :
           /\ Log!NamesStatus(h[i]) <=> StatusEvent(s[i])
           /\ Log!MovesAgent(h[i]) <=> Reassignment(s[i])
           /\ h[i].to = s[i].to /\ h[i].type = s[i].type
    <2> SUFFICES ASSUME NEW i \in 1 .. k
                 PROVE  /\ Log!NamesStatus(h[i]) <=> StatusEvent(s[i])
                        /\ Log!MovesAgent(h[i]) <=> Reassignment(s[i])
                        /\ h[i].to = s[i].to /\ h[i].type = s[i].type
      OBVIOUS
    <2>1. h[i] = Entry(s[i])
      BY <1>4, <1>5
    <2>2. /\ h[i].to = s[i].to /\ h[i].type = s[i].type
          /\ h[i].from = s[i].from
      BY <2>1 DEF Entry
    <2> QED
      BY <2>2 DEF Log!NamesStatus, Log!MovesAgent, StatusEvent, Reassignment,
                  AssignmentEvent
  <1>7. Log!StatusNamed(h, k, txn[r].status)
    BY <1>2, <1>5, <1>6 DEF Log!StatusNamed
  <1>8. Log!AgentNamed(h, k, txn[r].agent_id)
    BY <1>3, <1>5, <1>6 DEF Log!AgentNamed, LeavesTo
  <1> QED
    BY <1>2, <1>4, <1>7, <1>8 DEF t, h, s, k

LEMMA InitImplements == Init => Log!Init
  <1> SUFFICES ASSUME Init PROVE Log!Init
    OBVIOUS
  <1>1. TypeOK
    BY InitTypeInv DEF TypeInv
  <1>2. \A t \in Tickets :
           [i \in DOMAIN events[t] |-> Entry(events[t][i])] = << >>
    BY DEF Init
  <1> QED
    BY <1>1, <1>2 DEF Log!Init, TypeOK, Log!TicketStatus, TicketStatus

LEMMA CommitImplements ==
  ASSUME TypeInv, LogInv, AgentInv, NEW r \in Requests, Commit(r)
  PROVE  Log!Next
  <1> DEFINE t == call[r].ticket
             k == txn[r].log
  <1>1. /\ t \in Tickets /\ t \in stored /\ pc[r] = "commit"
        /\ events' = [events EXCEPT ![t] = Append(@, EventOf(r))]
        /\ EventOf(r) \in Event
        /\ UNCHANGED stored
    BY CommitAppends, CommitAssigns
  <1>2. /\ MappedLog' = [MappedLog EXCEPT ![t] = Append(@, Entry(EventOf(r)))]
        /\ Len(MappedLog'[t]) > Len(MappedLog[t])
    BY <1>1, MappedRecord
  <1>3. /\ k \in 0 .. Len(MappedLog[t])
        /\ Log!StatusNamed(MappedLog[t], k, txn[r].status)
        /\ Log!AgentNamed(MappedLog[t], k, txn[r].agent_id)
    BY <1>1, SeenIsNamed
  <1>4. /\ call[r] \in CallType /\ txn[r] \in Session
        /\ call[r].op = "assign" => call[r].value \in Users \cup {None}
    BY <1>1 DEF TypeInv, TypeOK, Called, Checked
  <1>5. CASE call[r].op = "status"
    <2>1. Entry(EventOf(r)) =
             [type |-> "STATUS_CHANGED", from |-> txn[r].status,
              to |-> call[r].value, read |-> k]
      BY <1>5 DEF Entry, EventOf, EventType
    <2>2. /\ status' = [status EXCEPT ![t] = call[r].value]
          /\ call[r].value \in AllowedStatusTransitions[txn[r].status]
      BY <1>5, CommitAppends DEF Allowed
    <2>3. txn[r].status \in TicketStatus /\ call[r].value \in TicketStatus
      BY <1>4, <1>5 DEF CallType, Session
    <2>4. UNCHANGED agent_id
      BY <1>5, CommitAssigns DEF Reassignment
    <2> HIDE DEF t, k
    <2>6. \E read \in 0 .. Len(MappedLog[t]), old, new \in TicketStatus :
             /\ status' = [status EXCEPT ![t] = new]
             /\ new \in AllowedStatusTransitions[old]
             /\ Log!StatusNamed(MappedLog[t], read, old)
             /\ MappedLog' = [MappedLog EXCEPT ![t] = Append(@,
                   [type |-> "STATUS_CHANGED", from |-> old, to |-> new,
                    read |-> read])]
      <3> USE <1>3, <2>3
      <3> WITNESS k \in 0 .. Len(MappedLog[t]),
                  txn[r].status \in TicketStatus,
                  call[r].value \in TicketStatus
      <3> QED
        BY <1>2, <2>1, <2>2
    <2>7. Log!ChangeStatus(t)
      BY <1>1, <2>4, <2>6
         DEF Log!ChangeStatus, Log!Record, Log!TicketStatus, TicketStatus, MappedLog,
             Mapped, Log!AllowedStatusTransitions, AllowedStatusTransitions
    <2> QED
      BY <1>1, <1>2, <2>7 DEF Log!Next, MappedLog, Mapped
  <1>6. CASE call[r].op = "assign"
    <2>1. Entry(EventOf(r)) =
             [type |-> IF call[r].value = None THEN "UNASSIGNED"
                       ELSE "ASSIGNED",
              from |-> txn[r].agent_id, to |-> call[r].value, read |-> k]
      BY <1>6 DEF Entry, EventOf, EventType
    <2>2. /\ txn[r].agent_id \in Users \cup {None}
          /\ call[r].value \in Users \cup {None}
      BY <1>4, <1>6 DEF Session
    <2>3. UNCHANGED status
      BY <1>6, CommitAppends
    <2>4. Reassignment(EventOf(r)) <=> call[r].value # txn[r].agent_id
      BY <1>6, CommitAssigns DEF Reassignment
    <2>5. agent_id' = IF call[r].value = txn[r].agent_id THEN agent_id
                      ELSE [agent_id EXCEPT ![t] = call[r].value]
      BY <2>4, CommitAssigns
    <2> HIDE DEF t, k
    <2>7. \E read \in 0 .. Len(MappedLog[t]), old, new \in Users \cup {None} :
             /\ Log!AgentNamed(MappedLog[t], read, old)
             /\ agent_id' = IF new = old THEN agent_id
                            ELSE [agent_id EXCEPT ![t] = new]
             /\ MappedLog' = [MappedLog EXCEPT ![t] = Append(@,
                   [type |-> IF new = None THEN "UNASSIGNED" ELSE "ASSIGNED",
                    from |-> old, to |-> new, read |-> read])]
      <3> USE <1>3, <2>2
      <3> WITNESS k \in 0 .. Len(MappedLog[t]),
                  txn[r].agent_id \in Users \cup {None},
                  call[r].value \in Users \cup {None}
      <3> QED
        BY <1>2, <2>1, <2>5
    <2>8. Log!Assign(t)
      BY <1>1, <2>3, <2>7 DEF Log!Assign, Log!Record, MappedLog, Mapped
    <2> QED
      BY <1>1, <1>2, <2>8 DEF Log!Next, MappedLog, Mapped
  <1> QED
    BY <1>4, <1>5, <1>6 DEF CallType

LEMMA CreateImplements ==
  ASSUME TypeInv, LogInv, NEW t \in Tickets, CreateTicket(t)
  PROVE  Log!Next
  <1>1. /\ Created \in Event /\ t \notin stored
        /\ events' = [events EXCEPT ![t] = Append(@, Created)]
        /\ stored' = stored \cup {t}
        /\ status' = [status EXCEPT ![t] = "OPEN"]
        /\ agent_id' = [agent_id EXCEPT ![t] = None]
    BY CreateAppends DEF LogInv, CreateTicket
  <1>2. /\ MappedLog' = [MappedLog EXCEPT ![t] = Append(@, Entry(Created))]
        /\ Len(MappedLog'[t]) > Len(MappedLog[t])
    BY <1>1, MappedRecord
  <1>3. Entry(Created) = [type |-> "CREATED", from |-> None, to |-> "OPEN",
                          read |-> 0]
    BY DEF Entry, Created
  <1>4. Log!Create(t)
    BY <1>1, <1>2, <1>3 DEF Log!Create, Log!Record, MappedLog, Mapped
  <1> QED
    BY <1>2, <1>4 DEF Log!Next, MappedLog, Mapped

(* Every interleaving of requests, with all their failures, is for the     *)
(* tables and the log a sequence of whole changes, each committed together *)
(* with the entry that describes it: no request leaves half of its work,   *)
(* and every change starts from values the log had once given the ticket.  *)
THEOREM ServiceImplementsLog == Spec => ImplementsLog
  <1>1. TypeInv /\ LogInv /\ AgentInv /\ [Next]_vars => [Log!Next]_(Log!vars)
    <2> SUFFICES ASSUME TypeInv, LogInv, AgentInv, [Next]_vars
                 PROVE  [Log!Next]_(Log!vars)
      OBVIOUS
    <2>1. CASE \E t \in Tickets : CreateTicket(t)
      BY <2>1, CreateImplements
    <2>2. CASE \E r \in Requests : Commit(r)
      BY <2>2, CommitImplements
    <2>3. CASE UNCHANGED <<stored, status, agent_id, events>>
      BY <2>3 DEF Log!vars
    <2> QED
      BY <2>1, <2>2, <2>3, OthersLeaveTables
  <1> QED
    BY InitImplements, AgentInvCorrect, <1>1, PTL
       DEF Spec, ImplementsLog, Log!Spec

-----------------------------------------------------------------------------
(* Times.  The CREATED event of a ticket that is created in the run is the *)
(* first of its log and older than all others, since a request that names  *)
(* the ticket was sent, and began its transaction, after that committed.   *)

Open == {"actor", "ticket"} \cup Holding

First(t) == events[t][1].at

TimeInv ==
    /\ \A t \in stored \ SeedTickets :
          /\ Len(events[t]) > 0 /\ First(t) <= clock
          /\ \A i \in DOMAIN events[t] \ {1} : events[t][i].at > First(t)
    /\ \A r \in Requests :
          /\ pc[r] = "idle" => txn[r].began = 0
          /\ pc[r] \in Open =>
                /\ call[r].ticket \in stored \cup (TicketIds \ Tickets)
                /\ (/\ call[r].ticket \in stored \ SeedTickets
                    /\ pc[r] \in Holding \/ txn[r].began # 0)
                   => txn[r].began > First(call[r].ticket)

(* When the transaction of a request has begun.                            *)
SameTime(q) ==
    /\ pc[q] \in Open /\ call'[q] = call[q] /\ txn'[q].began = txn[q].began
    /\ pc'[q] \in Holding => pc[q] \in Holding \/ txn[q].began # 0

Begins(q) ==
    /\ pc[q] \in Open /\ call'[q] = call[q]
    /\ txn'[q].began = clock + 1 /\ UNCHANGED <<stored, events>>

Arrives(q) ==
    /\ txn'[q].began = 0 /\ pc'[q] \notin Holding
    /\ call'[q].ticket \in stored \cup (TicketIds \ Tickets)

LEMMA RequestTimes ==
  ASSUME TypeInv, TimeInv, [Next]_vars, NEW q \in Requests, pc'[q] \in Open
  PROVE  SameTime(q) \/ Begins(q) \/ Arrives(q)
  <1> DEFINE Goal == SameTime(q) \/ Begins(q) \/ Arrives(q)
  <1> SUFFICES Goal
    OBVIOUS
  <1> USE DEF Open, Holding
  <1>1. /\ pc \in [Requests -> Place] /\ txn \in [Requests -> Session]
        /\ call \in [Requests -> CallType \cup {NoCall}]
        /\ "done" \notin Open
    BY DEF TypeInv, TypeOK
  <1>2. CASE UNCHANGED <<pc, call, txn>>
    BY <1>2 DEF SameTime
  <1>3. ASSUME NEW r \in Requests, Accept(r)
        PROVE  Goal
    <2>1. CASE r = q
      <3>1. txn'[q].began = 0
        BY <1>3, <2>1 DEF Accept, TimeInv
      <3>2. pc'[q] \notin Holding
        BY <1>1, <1>3, <2>1 DEF Accept, GoTo
      <3> QED
        BY <1>1, <1>3, <2>1, <3>1, <3>2 DEF Accept, Arrives
    <2> QED
      BY <1>1, <1>3, <2>1 DEF Accept, GoTo, SameTime
  <1>4. ASSUME NEW r \in Requests,
               EnsureActor(r) \/ LoadForStatus(r) \/ LoadForAssignment(r)
        PROVE  Goal
    <2>1. CASE r = q
      <3>1. pc[q] \in {"actor", "ticket"} /\ ~ (\E a \in Answer : Finish(q, a))
        BY <1>1, <1>4, <2>1
           DEF EnsureActor, LoadForStatus, LoadForAssignment, Finish
      <3>2. txn'[q].began = BeginTime(q) /\ UNCHANGED <<call, stored, events>>
        BY <1>1, <1>4, <2>1, <3>1
           DEF EnsureActor, LoadForStatus, LoadForAssignment, Session, Answer
      <3>3. CASE txn[q].began = 0
        BY <3>1, <3>2, <3>3 DEF BeginTime, Begins
      <3>4. CASE txn[q].began # 0
        BY <3>1, <3>2, <3>4 DEF BeginTime, SameTime
      <3> QED
        BY <3>3, <3>4
    <2>2. CASE r # q
      <3>1. pc'[q] = pc[q] /\ txn'[q] = txn[q] /\ call'[q] = call[q]
        BY <1>1, <1>4, <2>2 DEF EnsureActor, LoadForStatus, LoadForAssignment,
                                Finish, GoTo
      <3> QED
        BY <3>1 DEF SameTime
    <2> QED
      BY <2>1, <2>2
  <1>5. ASSUME NEW r \in Requests, LookupAgent(r) \/ Flush(r)
        PROVE  Goal
    <2>1. pc[r] \in Holding /\ UNCHANGED call
      BY <1>5 DEF LookupAgent, Flush
    <2>2. CASE r = q
      <3>1. ~ Finish(q, "not_found")
        BY <1>1 DEF Finish
      <3>2. UNCHANGED txn
        BY <1>5, <2>2, <3>1 DEF LookupAgent, Flush
      <3> QED
        BY <2>1, <2>2, <3>2 DEF SameTime
    <2>3. CASE r # q
      <3>1. pc'[q] = pc[q] /\ txn'[q] = txn[q]
        BY <1>1, <1>5, <2>3 DEF LookupAgent, Flush, Finish, GoTo
      <3> QED
        BY <2>1, <3>1 DEF SameTime
    <2> QED
      BY <2>2, <2>3
  <1>6. ASSUME NEW r \in Requests,
               Commit(r) \/ Refresh(r) \/ LoseAnswer(r) \/ Abort(r)
        PROVE  Goal
    <2>1. /\ pc' = [pc EXCEPT ![r] = "refresh"] \/ pc' = [pc EXCEPT ![r] = "done"]
          /\ txn' = [txn EXCEPT ![r] = NoSession] /\ UNCHANGED call
      BY <1>6 DEF Commit, Refresh, LoseAnswer, Abort, Finish, GoTo
    <2>2. r # q
      BY <1>1, <2>1
    <2> QED
      BY <1>1, <2>1, <2>2 DEF SameTime
  <1>7. (\E t \in Tickets : CreateTicket(t)) \/ UNCHANGED vars
        => UNCHANGED <<pc, call, txn>>
    BY DEF CreateTicket, vars
  <1> QED
    BY <1>2, <1>3, <1>4, <1>5, <1>6, <1>7 DEF Next, Proceed, Quiet

LEMMA ClockGrows ==
  ASSUME TypeInv, [Next]_vars
  PROVE  clock \in Nat /\ clock' \in Nat /\ clock <= clock'
  <1>1. clock \in Nat
    BY DEF TypeInv, TypeOK
  <1>2. clock' \in {clock, clock + 1}
    BY DEF Next, Proceed, Quiet, vars, CreateTicket, Accept, EnsureActor,
           LoadForStatus, LoadForAssignment, LookupAgent, Flush, Commit,
           Refresh, LoseAnswer, Abort, Tick
  <1> QED
    BY <1>1, <1>2

LEMMA InitTimeInv == Init => TimeInv
  BY TicketsAssumption DEF Init, TimeInv, Open, Holding, NoSession

LEMMA NextTimeInv == TypeInv /\ LogInv /\ TimeInv /\ [Next]_vars => TimeInv'
  <1> SUFFICES ASSUME TypeInv, LogInv, TimeInv, [Next]_vars PROVE TimeInv'
    OBVIOUS
  <1>0. /\ stored \in SUBSET Tickets /\ clock \in Nat /\ clock' \in Nat
        /\ clock <= clock' /\ stored \subseteq stored'
    <2>1. stored \subseteq stored'
      BY CreateAppends, CommitAppends, OthersLeaveTables DEF LogInv
    <2> QED
      BY <2>1, ClockGrows DEF TypeInv, TypeOK
  <1>1. ASSUME NEW t \in Tickets, Len(events[t]) > 0
        PROVE  First(t)' = First(t) /\ Len(events'[t]) > 0
    <2>1. 1 \in 1 .. Len(events[t])
      BY <1>1, LogPrefix DEF LogInv
    <2> QED
      BY <1>1, <2>1, LogPrefix DEF First, LogInv
  <1>2. ASSUME NEW t \in stored' \ SeedTickets
        PROVE  /\ Len(events'[t]) > 0 /\ First(t)' <= clock'
               /\ \A i \in DOMAIN events'[t] \ {1} : events'[t][i].at > First(t)'
    <2> DEFINE Goal == /\ Len(events'[t]) > 0 /\ First(t)' <= clock'
                       /\ \A i \in DOMAIN events'[t] \ {1} :
                             events'[t][i].at > First(t)'
    <2> SUFFICES Goal
      OBVIOUS
    <2>0. t \in Tickets
      BY NextTypeInv DEF TypeInv, TypeOK
    <2>1. CASE t \in stored /\ events'[t] = events[t]
      <3>1. First(t) \in Nat
        <4>1. events[t] \in Seq(Event) /\ Len(events[t]) > 0
          BY <2>0, <2>1 DEF TypeInv, TypeOK, TimeInv
        <4>2. events[t][1] \in Event
          BY <4>1
        <4> QED
          BY <4>2 DEF Event, First
      <3> QED
        BY <1>0, <2>1, <3>1 DEF TimeInv, First
    <2>2. ASSUME NEW u \in Tickets, CreateTicket(u)
          PROVE  Goal
      <3>1. CASE u = t
        <4>1. /\ Created \in Event /\ events[t] = << >>
              /\ events'[t] = Append(events[t], Created)
          BY <2>2, <3>1, CreateAppends DEF LogInv, TypeInv, TypeOK
        <4>2. Len(events'[t]) = 1 /\ DOMAIN events'[t] = {1}
              /\ events'[t][1] = Created
          BY <4>1
        <4>3. clock' = clock + 1
          BY <2>2 DEF CreateTicket
        <4> QED
          BY <1>0, <4>2, <4>3 DEF First, Created
      <3>2. CASE u # t
        <4>1. t \in stored /\ events'[t] = events[t]
          BY <2>0, <2>2, <3>2, CreateAppends DEF LogInv, TypeInv, TypeOK
        <4> QED
          BY <2>1, <4>1
      <3> QED
        BY <3>1, <3>2
    <2>3. ASSUME NEW r \in Requests, Commit(r)
          PROVE  Goal
      <3>1. /\ call[r].ticket \in stored /\ UNCHANGED stored
            /\ EventOf(r) \in Event
            /\ events' = [events EXCEPT ![call[r].ticket] = Append(@, EventOf(r))]
            /\ pc[r] = "commit"
        BY <2>3, CommitAppends, CommitAssigns
      <3>2. CASE t # call[r].ticket
        <4>1. t \in stored /\ events'[t] = events[t]
          BY <2>0, <3>1, <3>2 DEF TypeInv, TypeOK
        <4> QED
          BY <2>1, <4>1
      <3>3. CASE t = call[r].ticket
        <4> DEFINE n == Len(events[t])
        <4>1. events'[t] = Append(events[t], EventOf(r))
          BY <2>0, <3>1, <3>3 DEF TypeInv, TypeOK
        <4>2. /\ n \in Nat /\ DOMAIN events[t] = 1 .. n
              /\ DOMAIN events'[t] = 1 .. (n + 1) /\ Len(events'[t]) = n + 1
              /\ \A i \in 1 .. n : events'[t][i] = events[t][i]
              /\ events'[t][n + 1] = EventOf(r)
          BY <2>0, <3>1, <4>1, Grown
        <4>3. /\ n > 0 /\ First(t) <= clock
              /\ \A i \in DOMAIN events[t] \ {1} : events[t][i].at > First(t)
          BY <3>1, <3>3 DEF TimeInv
        <4>4. EventOf(r).at > First(t)
          BY <3>1, <3>3 DEF TimeInv, Open, Holding, EventOf
        <4>5. First(t)' = First(t)
          BY <1>1, <2>0, <4>3
        <4>6. UNCHANGED clock
          BY <2>3 DEF Commit
        <4>7. \A i \in 1 .. (n + 1) : i \in 1 .. n \/ i = n + 1
          BY <4>2
        <4>8. \A i \in DOMAIN events'[t] \ {1} : events'[t][i].at > First(t)
          BY <4>2, <4>3, <4>4, <4>7
        <4> QED
          BY <4>2, <4>3, <4>5, <4>6, <4>8
      <3> QED
        BY <3>2, <3>3
    <2> QED
      BY <2>1, <2>2, <2>3, OthersLeaveTables
  <1>3. ASSUME NEW r \in Requests
        PROVE  /\ pc'[r] = "idle" => txn'[r].began = 0
               /\ pc'[r] \in Open =>
                     /\ call'[r].ticket \in stored' \cup (TicketIds \ Tickets)
                     /\ (/\ call'[r].ticket \in stored' \ SeedTickets
                         /\ pc'[r] \in Holding \/ txn'[r].began # 0)
                        => txn'[r].began > events'[call'[r].ticket][1].at
    <2>1. pc'[r] = "idle" => txn'[r].began = 0
      <3> SUFFICES ASSUME pc'[r] = "idle" PROVE pc[r] = "idle" /\ txn'[r] = txn[r]
        BY DEF TimeInv
      <3>1. pc \in [Requests -> Place] /\ txn \in [Requests -> Session]
        BY DEF TypeInv, TypeOK
      <3>2. ASSUME NEW q \in Requests, Accept(q)
            PROVE  pc[r] = "idle" /\ txn'[r] = txn[r]
        BY <3>1, <3>2 DEF Accept, GoTo
      <3>3. ASSUME NEW q \in Requests, Proceed(q) \/ LoseAnswer(q) \/ Abort(q)
            PROVE  pc[r] = "idle" /\ txn'[r] = txn[r]
        <4>1. /\ \E place \in Place \ {"idle"} : pc' = [pc EXCEPT ![q] = place]
              /\ \E x : txn' = [txn EXCEPT ![q] = x]
          <5>1. CASE EnsureActor(q)
            BY <3>1, <5>1 DEF EnsureActor, Finish, GoTo, Place
          <5>2. CASE LoadForStatus(q)
            BY <3>1, <5>2 DEF LoadForStatus, Finish, GoTo, Place
          <5>3. CASE LoadForAssignment(q)
            BY <3>1, <5>3 DEF LoadForAssignment, Finish, GoTo, Place
          <5>4. CASE LookupAgent(q) \/ Flush(q)
            <6>1. txn = [txn EXCEPT ![q] = txn[q]]
              BY <3>1
            <6> QED
              BY <3>1, <5>4, <6>1 DEF LookupAgent, Flush, Finish, GoTo, Place
          <5>5. CASE Commit(q) \/ Refresh(q) \/ LoseAnswer(q) \/ Abort(q)
            BY <3>1, <5>5 DEF Commit, Refresh, LoseAnswer, Abort, Finish, GoTo,
                              Place
          <5> QED
            BY <3>3, <5>1, <5>2, <5>3, <5>4, <5>5 DEF Proceed
        <4> QED
          BY <3>1, <4>1
      <3>4. (\E t \in Tickets : CreateTicket(t)) \/ UNCHANGED vars
            => UNCHANGED <<pc, txn>>
        BY DEF CreateTicket, vars
      <3> QED
        BY <3>2, <3>3, <3>4 DEF Next, Quiet
    <2>2. CASE pc'[r] \in Open
      <3>1. CASE SameTime(r)
        <4>1. PICK t : t = call[r].ticket
          OBVIOUS
        <4>2. /\ t \in stored \cup (TicketIds \ Tickets)
              /\ (/\ t \in stored \ SeedTickets
                  /\ pc[r] \in Holding \/ txn[r].began # 0)
                 => txn[r].began > First(t)
          BY <3>1, <4>1 DEF SameTime, TimeInv
        <4>3. /\ call'[r].ticket = t /\ txn'[r].began = txn[r].began
              /\ pc'[r] \in Holding => pc[r] \in Holding \/ txn[r].began # 0
          BY <3>1, <4>1 DEF SameTime
        <4>4. t \in stored \ SeedTickets => First(t)' = First(t)
          BY <1>0, <1>1 DEF TimeInv
        <4>5. t \in stored' => t \in stored
          BY <1>0, <4>2, NextTypeInv DEF TypeInv, TypeOK
        <4> QED
          BY <1>0, <2>1, <4>2, <4>3, <4>4, <4>5 DEF First
      <3>2. CASE Begins(r)
        <4>1. PICK t : t = call[r].ticket
          OBVIOUS
        <4>2. /\ t \in stored \cup (TicketIds \ Tickets)
              /\ call'[r].ticket = t /\ txn'[r].began = clock + 1
              /\ UNCHANGED <<stored, events>>
          BY <3>2, <4>1 DEF Begins, TimeInv
        <4>3. t \in stored \ SeedTickets => First(t) \in Nat /\ First(t) <= clock
          <5> SUFFICES ASSUME t \in stored \ SeedTickets
                       PROVE  First(t) \in Nat
            BY DEF TimeInv
          <5>1. events[t] \in Seq(Event) /\ Len(events[t]) > 0
            BY DEF TypeInv, TypeOK, TimeInv
          <5>2. events[t][1] \in Event
            BY <5>1
          <5> QED
            BY <5>2 DEF Event, First
        <4> QED
          BY <1>0, <2>1, <4>2, <4>3 DEF First
      <3>3. CASE Arrives(r)
        BY <1>0, <2>1, <3>3 DEF Arrives
      <3> QED
        BY <2>2, <3>1, <3>2, <3>3, RequestTimes
    <2> QED
      BY <2>1, <2>2
  <1> QED
    BY <1>2, <1>3 DEF TimeInv, First, Open, Holding

-----------------------------------------------------------------------------
(* A process beside the service, as the worker is one: it may append an    *)
(* event of its own kind to the log of a stored ticket, or begin a         *)
(* transaction.  Neither disturbs what the service relies on.              *)

Foreign(t, e) ==
    /\ t \in stored /\ e.type = "PROCESSED"
    /\ events' = [events EXCEPT ![t] = Append(@, e)]
    /\ UNCHANGED <<stored, status, agent_id, rowLock, clock, pc, call, txn,
                   answer>>

ForeignBegin ==
    /\ clock' = clock + 1
    /\ UNCHANGED <<stored, status, agent_id, events, rowLock, pc, call, txn,
                   answer>>

LEMMA ForeignTypeInv ==
  ASSUME TypeInv, NEW t \in Tickets, NEW e \in Event, Foreign(t, e)
  PROVE  TypeInv'
  <1>1. TypeOK'
    BY DEF TypeInv, TypeOK, Foreign
  <1>2. Called' /\ Checked'
    BY DEF TypeInv, Foreign, Called, Checked, Allowed
  <1> QED
    BY <1>1, <1>2 DEF TypeInv

(* The events that name a status or an agent are those of before.          *)
LEMMA ForeignKeeps ==
  ASSUME TypeInv, NEW t \in Tickets, NEW e \in Event, Foreign(t, e),
         NEW u \in Tickets
  PROVE  /\ Len(events[u]) \in Nat /\ Len(events'[u]) \in Nat
         /\ DOMAIN events[u] = 1 .. Len(events[u])
         /\ DOMAIN events'[u] = 1 .. Len(events'[u])
         /\ Len(events[u]) <= Len(events'[u])
         /\ Len(events'[u]) <= Len(events[u]) + 1
         /\ \A i \in DOMAIN events[u] : events'[u][i] = events[u][i]
         /\ \A i \in DOMAIN events'[u] :
               \/ i \in DOMAIN events[u]
               \/ /\ ~ StatusEvent(events'[u][i])
                  /\ ~ Reassignment(events'[u][i])
                  /\ events'[u][i].type = "PROCESSED"
  <1>1. events \in [Tickets -> Seq(Event)]
    BY DEF TypeInv, TypeOK
  <1>2. CASE u # t
    BY <1>1, <1>2 DEF Foreign
  <1>3. CASE u = t
    <2>1. events'[u] = Append(events[u], e)
      BY <1>1, <1>3 DEF Foreign
    <2>2. ~ StatusEvent(e) /\ ~ Reassignment(e) /\ e.type = "PROCESSED"
      BY DEF Foreign, StatusEvent, Reassignment, AssignmentEvent
    <2> QED
      BY <2>1, <2>2, Grown
  <1> QED
    BY <1>2, <1>3

LEMMA ForeignLogInv ==
  ASSUME TypeInv, LogInv, NEW t \in Tickets, NEW e \in Event, Foreign(t, e)
  PROVE  LogInv'
  <1>1. LogsAreOfTickets'
    BY DEF LogInv, LogsAreOfTickets, Foreign, TypeInv, TypeOK
  <1>2. EventsAllowed'
    <2> SUFFICES ASSUME NEW u \in Tickets, NEW i \in DOMAIN events'[u],
                        StatusEvent(events'[u][i])
                 PROVE  \/ /\ events'[u][i].type = "CREATED"
                           /\ events'[u][i].from = None
                        \/ Allowed(events'[u][i].from, events'[u][i].to)
      BY DEF EventsAllowed, StatusEvent, Allowed
    <2>1. i \in DOMAIN events[u] /\ events'[u][i] = events[u][i]
      BY ForeignKeeps
    <2> QED
      BY <2>1 DEF LogInv, EventsAllowed
  <1>3. StatusMatchesLog'
    <2> SUFFICES ASSUME NEW u \in Tickets, NEW i \in DOMAIN events'[u],
                        StatusEvent(events'[u][i]),
                        \A j \in DOMAIN events'[u] :
                           i < j => ~ StatusEvent(events'[u][j])
                 PROVE  status'[u] = events'[u][i].to
      BY DEF StatusMatchesLog, After, StatusEvent
    <2>1. i \in DOMAIN events[u] /\ events'[u][i] = events[u][i]
      BY ForeignKeeps
    <2>2. \A j \in After(u, i) : ~ StatusEvent(events[u][j])
      BY ForeignKeeps DEF After
    <2> QED
      BY <2>1, <2>2 DEF LogInv, StatusMatchesLog, Foreign
  <1>4. StatusSeen'
    <2> SUFFICES ASSUME NEW r \in Requests, pc[r] \in Holding
                 PROVE  LET log == events'[call[r].ticket] IN
                        /\ txn[r].log \in 0 .. Len(log)
                        /\ \A i \in 1 .. txn[r].log :
                              (/\ StatusEvent(log[i])
                               /\ \A j \in (i + 1) .. txn[r].log :
                                     ~ StatusEvent(log[j]))
                              => log[i].to = txn[r].status
      BY DEF StatusSeen, Foreign, Holding, StatusEvent
    <2>1. call[r].ticket \in Tickets
      BY DEF TypeInv, TypeOK, Checked, Holding
    <2> DEFINE k == txn[r].log
               old == events[call[r].ticket]
               log == events'[call[r].ticket]
    <2>2. /\ k \in 0 .. Len(old)
          /\ \A i \in 1 .. k :
                (/\ StatusEvent(old[i])
                 /\ \A j \in (i + 1) .. k : ~ StatusEvent(old[j]))
                => old[i].to = txn[r].status
      BY DEF LogInv, StatusSeen, Holding
    <2>3. /\ Len(old) \in Nat /\ Len(log) \in Nat /\ Len(old) <= Len(log)
          /\ \A i \in 1 .. Len(old) : log[i] = old[i]
      BY <2>1, ForeignKeeps
    <2> HIDE DEF k, old, log
    <2>4. \A i \in 1 .. k : log[i] = old[i]
      BY <2>2, <2>3
    <2>5. \A i \in 1 .. k : \A j \in (i + 1) .. k : j \in 1 .. k
      BY <2>2
    <2>6. k \in 0 .. Len(log)
      BY <2>2, <2>3
    <2> QED
      BY <2>2, <2>4, <2>5, <2>6 DEF k, log
  <1>5. StatusLinkedOrOverlapped'
    <2> SUFFICES ASSUME NEW u \in Tickets, NEW i \in DOMAIN events'[u],
                        NEW j \in DOMAIN events'[u], i < j,
                        StatusEvent(events'[u][i]), StatusEvent(events'[u][j]),
                        \A k \in DOMAIN events'[u] :
                           i < k /\ k < j => ~ StatusEvent(events'[u][k])
                 PROVE  \/ events'[u][j].from = events'[u][i].to
                        \/ events'[u][j].read < i
      BY DEF StatusLinkedOrOverlapped, Between, StatusEvent
    <2>1. /\ i \in DOMAIN events[u] /\ events'[u][i] = events[u][i]
          /\ j \in DOMAIN events[u] /\ events'[u][j] = events[u][j]
      BY ForeignKeeps
    <2>2. \A k \in Between(u, i, j) : ~ StatusEvent(events[u][k])
      BY ForeignKeeps DEF Between
    <2> QED
      BY <2>1, <2>2 DEF LogInv, StatusLinkedOrOverlapped
  <1> QED
    BY <1>1, <1>2, <1>3, <1>4, <1>5 DEF LogInv

LEMMA ForeignAgentInv ==
  ASSUME TypeInv, LogInv, AgentInv, NEW t \in Tickets, NEW e \in Event,
         Foreign(t, e)
  PROVE  AgentInv'
  <1>1. TableLeavesTo'
    <2> SUFFICES ASSUME NEW u \in Tickets
                 PROVE  LeavesTo(events'[u], Len(events'[u]), agent_id[u])
      BY DEF TableLeavesTo, LeavesTo, Reassignment, AssignmentEvent, Foreign
    <2> DEFINE n == Len(events[u])
               g == events'[u]
    <2>1. LeavesTo(events[u], n, agent_id[u])
      BY DEF AgentInv, TableLeavesTo
    <2>2. n \in Nat /\ \A i \in 1 .. n : g[i] = events[u][i]
      BY ForeignKeeps
    <2>3. LeavesTo(g, n, agent_id[u])
      <3> HIDE DEF n, g
      <3> QED
        BY <2>1, <2>2, LeavesToPrefix
    <2>4. CASE Len(g) = n
      BY <2>3, <2>4
    <2>5. CASE Len(g) = n + 1
      <3>1. ~ Reassignment(g[n + 1]) /\ g[n + 1].type # "CREATED"
        BY <2>2, <2>5, ForeignKeeps
      <3> HIDE DEF n, g
      <3>2. LeavesTo(g, n + 1, agent_id[u])
        BY <2>2, <2>3, <3>1, LeavesToAfterOther
      <3> QED
        BY <2>5, <3>2 DEF g
    <2> QED
      BY <2>4, <2>5, ForeignKeeps
  <1>2. SessionLeavesTo'
    <2>0. UNCHANGED <<pc, call, txn>>
      BY DEF Foreign
    <2> SUFFICES ASSUME NEW r \in Requests, pc'[r] \in Holding
                 PROVE  LeavesTo(events'[call'[r].ticket], txn'[r].log,
                                 txn'[r].agent_id)
      BY DEF SessionLeavesTo, Holding, LeavesTo, Reassignment, AssignmentEvent
    <2>1. call[r].ticket \in Tickets
      BY <2>0 DEF TypeInv, TypeOK, Checked, Holding
    <2> DEFINE k == txn[r].log
               old == events[call[r].ticket]
               log == events'[call[r].ticket]
    <2>2. k \in 0 .. Len(old) /\ LeavesTo(old, k, txn[r].agent_id)
      BY <2>0 DEF LogInv, StatusSeen, AgentInv, SessionLeavesTo, Holding
    <2>3. Len(old) \in Nat /\ \A i \in 1 .. Len(old) : log[i] = old[i]
      BY <2>1, ForeignKeeps
    <2> HIDE DEF k, old, log
    <2>4. k \in Nat /\ \A i \in 1 .. k : log[i] = old[i]
      BY <2>2, <2>3
    <2>5. LeavesTo(log, k, txn[r].agent_id)
      BY <2>2, <2>4, LeavesToPrefix
    <2> QED
      BY <2>0, <2>5 DEF k, log
  <1>3. AgentLinkedOrOverlapped'
    <2> SUFFICES ASSUME NEW u \in Tickets, NEW i \in DOMAIN events'[u],
                        NEW j \in DOMAIN events'[u], i < j,
                        Reassignment(events'[u][i]), Reassignment(events'[u][j]),
                        \A k \in DOMAIN events'[u] :
                           i < k /\ k < j => ~ Reassignment(events'[u][k])
                 PROVE  \/ events'[u][j].from = events'[u][i].to
                        \/ events'[u][j].read < i
      BY DEF AgentLinkedOrOverlapped, Between, Reassignment, AssignmentEvent
    <2>1. /\ i \in DOMAIN events[u] /\ events'[u][i] = events[u][i]
          /\ j \in DOMAIN events[u] /\ events'[u][j] = events[u][j]
      BY ForeignKeeps
    <2>2. \A k \in Between(u, i, j) : ~ Reassignment(events[u][k])
      BY ForeignKeeps DEF Between
    <2> QED
      BY <2>1, <2>2 DEF AgentInv, AgentLinkedOrOverlapped
  <1> QED
    BY <1>1, <1>2, <1>3 DEF AgentInv

LEMMA ForeignTimeInv ==
  ASSUME TypeInv, TimeInv, NEW t \in Tickets, NEW e \in Event, Foreign(t, e),
         t \notin SeedTickets => e.at > First(t)
  PROVE  TimeInv'
  <1>0. UNCHANGED <<stored, clock, pc, call, txn>> /\ stored \in SUBSET Tickets
    BY DEF Foreign, TypeInv, TypeOK
  <1>1. ASSUME NEW u \in stored \ SeedTickets
        PROVE  /\ Len(events'[u]) > 0 /\ events'[u][1] = events[u][1]
               /\ \A i \in DOMAIN events'[u] \ {1} : events'[u][i].at > First(u)
    <2>0. u \in Tickets /\ events \in [Tickets -> Seq(Event)]
      BY <1>0 DEF TypeInv, TypeOK
    <2>1. /\ Len(events[u]) > 0
          /\ \A i \in DOMAIN events[u] \ {1} : events[u][i].at > First(u)
      BY DEF TimeInv
    <2>2. CASE u # t
      BY <2>0, <2>1, <2>2 DEF Foreign
    <2>3. CASE u = t
      <3> DEFINE n == Len(events[u])
      <3>1. events'[u] = Append(events[u], e)
        BY <2>0, <2>3 DEF Foreign
      <3>2. /\ n \in Nat /\ DOMAIN events[u] = 1 .. n
            /\ DOMAIN events'[u] = 1 .. (n + 1) /\ Len(events'[u]) = n + 1
            /\ \A i \in 1 .. n : events'[u][i] = events[u][i]
            /\ events'[u][n + 1] = e
        BY <2>0, <3>1, Grown
      <3>3. \A i \in 1 .. (n + 1) : i \in 1 .. n \/ i = n + 1
        BY <3>2
      <3>4. e.at > First(u)
        BY <2>3
      <3> QED
        BY <2>1, <3>2, <3>3, <3>4
    <2> QED
      BY <2>2, <2>3
  <1>2. \A u \in stored \ SeedTickets : events'[u][1].at = First(u)
    BY <1>1 DEF First
  <1> QED
    BY <1>0, <1>1, <1>2 DEF TimeInv, First, Open, Holding

LEMMA ForeignImplements ==
  ASSUME TypeInv, NEW t \in Tickets, NEW e \in Event, Foreign(t, e),
         e.from = None, e.to = None, e.read = 0
  PROVE  Log!Next
  <1>1. /\ MappedLog' = [MappedLog EXCEPT ![t] = Append(@, Entry(e))]
        /\ Len(MappedLog'[t]) > Len(MappedLog[t])
    BY MappedRecord DEF Foreign
  <1>2. Entry(e) = [type |-> "PROCESSED", from |-> None, to |-> None,
                    read |-> 0]
    BY DEF Entry, Foreign
  <1>3. Log!Process(t)
    BY <1>1, <1>2 DEF Foreign, Log!Process, Log!Record, MappedLog, Mapped
  <1> QED
    BY <1>1, <1>3 DEF Log!Next, MappedLog, Mapped

LEMMA ForeignBeginInv ==
  ASSUME TypeInv, LogInv, AgentInv, TimeInv, ForeignBegin
  PROVE  TypeInv' /\ LogInv' /\ AgentInv' /\ TimeInv'
  <1>1. TypeInv'
    BY DEF ForeignBegin, TypeInv, TypeOK, Called, Checked, Allowed
  <1>2. LogInv'
    BY DEF ForeignBegin, LogInv, LogsAreOfTickets, EventsAllowed,
           StatusMatchesLog, StatusSeen, StatusLinkedOrOverlapped, After,
           Between, StatusEvent, Allowed
  <1>3. AgentInv'
    BY DEF ForeignBegin, AgentInv, TableLeavesTo, SessionLeavesTo,
           AgentLinkedOrOverlapped, LeavesTo, Between, Reassignment,
           AssignmentEvent, Holding
  <1>4. TimeInv'
    <2>1. \A t \in stored \ SeedTickets : First(t) \in Nat
      <3> SUFFICES ASSUME NEW t \in stored \ SeedTickets PROVE First(t) \in Nat
        OBVIOUS
      <3>1. events[t] \in Seq(Event) /\ Len(events[t]) > 0
        BY DEF TypeInv, TypeOK, TimeInv
      <3>2. events[t][1] \in Event
        BY <3>1
      <3> QED
        BY <3>2 DEF Event, First
    <2>2. clock \in Nat
      BY DEF TypeInv, TypeOK
    <2> QED
      BY <2>1, <2>2 DEF ForeignBegin, TimeInv, First, Open, Holding
  <1> QED
    BY <1>1, <1>2, <1>3, <1>4

=============================================================================
