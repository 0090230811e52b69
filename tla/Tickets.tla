------------------------------ MODULE Tickets ------------------------------
(***************************************************************************)
(* The ticket service under concurrent PATCH requests: update_status and   *)
(* assign_agent of app/services/ticket_service.py, running against the     *)
(* tickets and ticket_events tables.                                       *)
(*                                                                         *)
(* Every request has a database session of its own (app/database.py).      *)
(* PostgreSQL runs it at its default level, READ COMMITTED: each SELECT    *)
(* sees what was committed when the statement ran, an UPDATE takes the     *)
(* row's lock and keeps it until the transaction ends, and nothing a       *)
(* transaction writes is seen by another one before it commits.  The       *)
(* handlers read a ticket without locking it, decide on what they read,    *)
(* and write later: every await between the two is a step here, so other   *)
(* requests may commit in between.                                         *)
(*                                                                         *)
(* The session writes only the columns whose value differs from the one    *)
(* it loaded (the ORM's unit of work): re-assigning the agent a request    *)
(* has read issues no UPDATE, though the event row is still inserted.      *)
(***************************************************************************)
EXTENDS Naturals, Sequences, FiniteSets, TicketEnums

CONSTANTS
    TicketIds,   \* the ids a client may put in a path
    Tickets,     \* those that have, or will get, a row
    SeedTickets, \* those scripts/seed.py inserts, which have no events
    UserIds,     \* the ids a client may put in a payload
    Users,       \* those that have a row in users; rows are never deleted
    Agents,      \* the users whose role is AGENT; roles never change
    Requests,    \* the PATCH requests; each is sent once (a bound)
    Calls,       \* what a request may ask for
    PoolSize,    \* db_pool_size + db_max_overflow of the API's process
    None         \* Python's None, SQL's NULL

(* A call is one PATCH: its operation, its path parameter and its body.    *)
CallType ==
    [op : {"status"}, ticket : TicketIds, value : TicketStatus,
     actor : UserIds \cup {None}]
  \cup
    [op : {"assign"}, ticket : TicketIds, value : UserIds \cup {None},
     actor : UserIds \cup {None}]

ASSUME TicketsAssumption ==
    /\ SeedTickets \subseteq Tickets
    /\ Tickets \subseteq TicketIds
    /\ Agents \subseteq Users
    /\ Users \subseteq UserIds
    /\ Calls \subseteq CallType
    /\ PoolSize \in Nat \ {0}
    /\ None \notin UserIds
    /\ None \notin TicketStatus
    /\ None \notin Requests

VARIABLES
    stored,    \* the ticket ids whose row is committed
    status,    \* tickets.status, of the committed rows
    agent_id,  \* tickets.agent_id, of the committed rows
    events,    \* per ticket, the committed ticket_events in commit order
    rowLock,   \* per ticket, the request whose transaction holds the row
    clock,     \* number of transactions begun so far: the source of now()
    pc,        \* where in its handler each request is
    call,      \* what each request asked for
    txn,       \* what each request's session has begun and loaded
    answer     \* how each request was answered

vars == <<stored, status, agent_id, events, rowLock, clock,
          pc, call, txn, answer>>

-----------------------------------------------------------------------------
(* Types.                                                                  *)

Value == TicketStatus \cup Users \cup {None}

(* A row of ticket_events.  from and to are from_status and to_status, or  *)
(* the previous_agent_id and new_agent_id of the metadata.  at is          *)
(* created_at: the column's default is now(), which PostgreSQL fixes when  *)
(* the transaction begins.  by and read are history: the request that      *)
(* wrote the row, and how many events the ticket had when that request     *)
(* loaded it.                                                              *)
Event == [type : TicketEventType, from : Value, to : Value,
          at : Nat, by : Requests \cup {None}, read : Nat]

(* What a session holds: the time its transaction began (0 before that),   *)
(* the ticket as it was loaded, and, as history, the number of events the  *)
(* ticket had then.                                                        *)
Session == [began : Nat, status : TicketStatus, agent_id : Users \cup {None},
            log : Nat]

NoSession == [began |-> 0, status |-> "OPEN", agent_id |-> None, log |-> 0]

NoCall == [op |-> "none", ticket |-> None, value |-> None, actor |-> None]

Place == {"idle", "actor", "ticket", "agent", "flush", "commit", "refresh",
          "done"}

(* unchanged is the 200 of a status update that changes nothing; invalid   *)
(* is 422, not_found 404, and error a 500 or a connection that broke.      *)
Answer == {"none", "ok", "unchanged", "not_found", "invalid", "error"}

-----------------------------------------------------------------------------
(* Helpers.                                                                *)

InTransaction(r) == pc[r] \in {"actor", "ticket", "agent", "flush", "commit"}

(* Wrong on purpose: a request that failed keeps its connection.           *)
Connected_LeaksOnError ==
    {r \in Requests : \/ InTransaction(r) /\ txn[r].began # 0
                      \/ answer[r] = "error"}

(* A session takes a connection from the pool with its first statement and *)
(* gives it back when its transaction ends.                                *)
Connected == {r \in Requests : InTransaction(r) /\ txn[r].began # 0}

FreeConnection == Cardinality(Connected) < PoolSize

(* The transaction begins with its first statement, which waits for a      *)
(* connection.                                                             *)
BeginTime(r) == IF txn[r].began = 0 THEN clock + 1 ELSE txn[r].began

Tick(r) ==
    /\ txn[r].began = 0 => FreeConnection
    /\ clock' = IF txn[r].began = 0 THEN clock + 1 ELSE clock

(* The request is over: the session is closed, the answer is sent.         *)
Finish(r, a) ==
    /\ pc' = [pc EXCEPT ![r] = "done"]
    /\ txn' = [txn EXCEPT ![r] = NoSession]
    /\ answer' = [answer EXCEPT ![r] = a]

GoTo(r, place) == pc' = [pc EXCEPT ![r] = place]

(* Wrong on purpose: any status may follow any other.                      *)
Allowed_Unchecked(from, to) == TRUE

(* The check of update_status against ALLOWED_STATUS_TRANSITIONS.          *)
Allowed(from, to) == to \in AllowedStatusTransitions[from]

(* Wrong on purpose: None is taken for an absent value.                    *)
Dirty_SkipsNone(r) ==
    IF call[r].op = "status" THEN call[r].value # txn[r].status
    ELSE call[r].value \notin {None, txn[r].agent_id}

(* Whether the unit of work finds a changed column to write.               *)
Dirty(r) ==
    IF call[r].op = "status" THEN call[r].value # txn[r].status
                             ELSE call[r].value # txn[r].agent_id

EventType(c) ==
    IF c.op = "status" THEN "STATUS_CHANGED"
    ELSE IF c.value = None THEN "UNASSIGNED" ELSE "ASSIGNED"

(* Wrong on purpose: the old value is taken after the new one is set.      *)
EventOf_FromAfterAssignment(r) ==
    [type |-> EventType(call[r]),
     from |-> call[r].value,
     to   |-> call[r].value,
     at   |-> txn[r].began, by |-> r, read |-> txn[r].log]

(* Wrong on purpose: the previous agent is not recorded.                   *)
EventOf_WithoutPrevious(r) ==
    [type |-> EventType(call[r]),
     from |-> IF call[r].op = "status" THEN txn[r].status ELSE None,
     to   |-> call[r].value,
     at   |-> txn[r].began, by |-> r, read |-> txn[r].log]

(* The event row a request inserts: the old value is the one it loaded.    *)
EventOf(r) ==
    [type |-> EventType(call[r]),
     from |-> IF call[r].op = "status" THEN txn[r].status
                                       ELSE txn[r].agent_id,
     to   |-> call[r].value,
     at   |-> txn[r].began, by |-> r, read |-> txn[r].log]

Unlocked(r) == [t \in Tickets |-> IF rowLock[t] = r THEN None ELSE rowLock[t]]

-----------------------------------------------------------------------------
(* Initially the database may hold seeded tickets: OPEN and unassigned, or *)
(* IN_PROGRESS and assigned to the seeded agent; neither has an event.     *)
Init ==
    /\ stored = SeedTickets
    /\ \E taken \in SUBSET SeedTickets :
          /\ status = [t \in Tickets |->
                          IF t \in taken THEN "IN_PROGRESS" ELSE "OPEN"]
          /\ \E a \in Agents \cup {None} :
                /\ taken # {} => a # None
                /\ agent_id = [t \in Tickets |->
                                  IF t \in taken THEN a ELSE None]
    /\ events = [t \in Tickets |-> << >>]
    /\ rowLock = [t \in Tickets |-> None]
    /\ clock = 0
    /\ pc = [r \in Requests |-> "idle"]
    /\ call = [r \in Requests |-> NoCall]
    /\ txn = [r \in Requests |-> NoSession]
    /\ answer = [r \in Requests |-> "none"]

(* create_ticket, as the other requests see it: the row and its CREATED    *)
(* event appear together when its transaction commits.  Until then no      *)
(* client knows the id.                                                    *)
CreateTicket(t) ==
    /\ t \notin stored
    /\ stored' = stored \cup {t}
    /\ status' = [status EXCEPT ![t] = "OPEN"]
    /\ agent_id' = [agent_id EXCEPT ![t] = None]
    /\ clock' = clock + 1
    /\ events' = [events EXCEPT ![t] = Append(@,
                     [type |-> "CREATED", from |-> None, to |-> "OPEN",
                      at |-> clock + 1, by |-> None, read |-> 0])]
    /\ UNCHANGED <<rowLock, pc, call, txn, answer>>

(* A request arrives.  A client names a ticket it has seen, or an id that  *)
(* belongs to no ticket.                                                   *)
Accept(r) ==
    /\ pc[r] = "idle"
    /\ \E c \in Calls :
          /\ c.ticket \in stored \cup (TicketIds \ Tickets)
          /\ call' = [call EXCEPT ![r] = c]
          /\ GoTo(r, IF c.actor = None THEN "ticket" ELSE "actor")
    /\ UNCHANGED <<stored, status, agent_id, events, rowLock, clock, txn,
                   answer>>

(* _ensure_actor: look the actor up, 404 if there is no such user.         *)
EnsureActor(r) ==
    /\ pc[r] = "actor"
    /\ Tick(r)
    /\ \/ /\ call[r].actor \in Users
          /\ txn' = [txn EXCEPT ![r].began = BeginTime(r)]
          /\ GoTo(r, "ticket")
          /\ UNCHANGED answer
       \/ /\ call[r].actor \notin Users
          /\ Finish(r, "not_found")
    /\ UNCHANGED <<stored, status, agent_id, events, rowLock, call>>

(* tickets.get for a status update, and the checks on what it returned.    *)
LoadForStatus(r) ==
    LET t == call[r].ticket
        new == call[r].value
    IN
    /\ pc[r] = "ticket"
    /\ call[r].op = "status"
    /\ Tick(r)
    /\ \/ /\ t \notin stored
          /\ Finish(r, "not_found")
       \/ /\ t \in stored
          /\ new = status[t]
          /\ Finish(r, "unchanged")
       \/ /\ t \in stored
          /\ new # status[t]
          /\ ~ Allowed(status[t], new)
          /\ Finish(r, "invalid")
       \/ /\ t \in stored
          /\ new # status[t]
          /\ Allowed(status[t], new)
          /\ txn' = [txn EXCEPT ![r] = [began |-> BeginTime(r),
                        status |-> status[t], agent_id |-> agent_id[t],
                        log |-> Len(events[t])]]
          /\ GoTo(r, "flush")
          /\ UNCHANGED answer
    /\ UNCHANGED <<stored, status, agent_id, events, rowLock, call>>

(* tickets.get for an assignment.                                          *)
LoadForAssignment(r) ==
    LET t == call[r].ticket IN
    /\ pc[r] = "ticket"
    /\ call[r].op = "assign"
    /\ Tick(r)
    /\ \/ /\ t \notin stored
          /\ Finish(r, "not_found")
       \/ /\ t \in stored
          /\ txn' = [txn EXCEPT ![r] = [began |-> BeginTime(r),
                        status |-> status[t], agent_id |-> agent_id[t],
                        log |-> Len(events[t])]]
          /\ GoTo(r, IF call[r].value = None THEN "flush" ELSE "agent")
          /\ UNCHANGED answer
    /\ UNCHANGED <<stored, status, agent_id, events, rowLock, call>>

(* Wrong on purpose: the new agent is not looked up.                       *)
LookupAgent_Skipped(r) ==
    /\ pc[r] = "agent"
    /\ GoTo(r, "flush")
    /\ UNCHANGED <<stored, status, agent_id, events, rowLock, clock, call,
                   txn, answer>>

(* users.get of the agent to assign: any user will do, 404 if there is no  *)
(* such user.  Neither the role nor is_active is looked at.                *)
LookupAgent(r) ==
    /\ pc[r] = "agent"
    /\ \/ /\ call[r].value \in Users
          /\ GoTo(r, "flush")
          /\ UNCHANGED <<txn, answer>>
       \/ /\ call[r].value \notin Users
          /\ Finish(r, "not_found")
    /\ UNCHANGED <<stored, status, agent_id, events, rowLock, clock, call>>

(* Wrong on purpose: the new status is committed before its event is       *)
(* recorded.                                                               *)
Flush_CommitsFirst(r) ==
    LET t == call[r].ticket IN
    /\ pc[r] = "flush"
    /\ rowLock[t] = None
    /\ rowLock' = [rowLock EXCEPT ![t] = r]
    /\ status' = IF call[r].op = "status"
                 THEN [status EXCEPT ![t] = call[r].value] ELSE status
    /\ GoTo(r, "commit")
    /\ UNCHANGED <<stored, agent_id, events, clock, call, txn, answer>>

(* The flush inside events.record: UPDATE of the ticket if a column has    *)
(* changed, which waits for the row's lock, and INSERT of the event.       *)
Flush(r) ==
    LET t == call[r].ticket IN
    /\ pc[r] = "flush"
    /\ \/ /\ Dirty(r)
          /\ rowLock[t] = None
          /\ rowLock' = [rowLock EXCEPT ![t] = r]
       \/ /\ ~ Dirty(r)
          /\ UNCHANGED rowLock
    /\ GoTo(r, "commit")
    /\ UNCHANGED <<stored, status, agent_id, events, clock, call, txn, answer>>

(* session.commit: what was flushed becomes visible, the lock is released. *)
Commit(r) ==
    LET t == call[r].ticket
        new == call[r].value
    IN
    /\ pc[r] = "commit"
    /\ status' = IF call[r].op = "status" /\ Dirty(r)
                 THEN [status EXCEPT ![t] = new] ELSE status
    /\ agent_id' = IF call[r].op = "assign" /\ Dirty(r)
                   THEN [agent_id EXCEPT ![t] = new] ELSE agent_id
    /\ events' = [events EXCEPT ![t] = Append(@, EventOf(r))]
    /\ rowLock' = Unlocked(r)
    /\ txn' = [txn EXCEPT ![r] = NoSession]
    /\ GoTo(r, "refresh")
    /\ UNCHANGED <<stored, clock, call, answer>>

(* session.refresh and the 200 response.  The row is read again in a new   *)
(* transaction, which needs a connection again and writes nothing.         *)
Refresh(r) ==
    /\ pc[r] = "refresh"
    /\ FreeConnection
    /\ Finish(r, "ok")
    /\ UNCHANGED <<stored, status, agent_id, events, rowLock, clock, call>>

(* Wrong on purpose: a request whose answer was lost is run once more.     *)
LoseAnswer_Retried(r) ==
    /\ pc[r] = "refresh"
    /\ GoTo(r, "ticket")
    /\ UNCHANGED <<stored, status, agent_id, events, rowLock, clock, call,
                   txn, answer>>

(* The refresh fails or gets no connection in time, or the commit's        *)
(* acknowledgement or the process is lost: the client gets an error        *)
(* although the change is committed.                                       *)
LoseAnswer(r) ==
    /\ pc[r] = "refresh"
    /\ Finish(r, "error")
    /\ UNCHANGED <<stored, status, agent_id, events, rowLock, clock, call>>

(* Wrong on purpose: the connection returns to the pool with its           *)
(* transaction still open.                                                 *)
Abort_KeepsLock(r) ==
    /\ InTransaction(r)
    /\ Finish(r, "error")
    /\ UNCHANGED <<stored, status, agent_id, events, rowLock, clock, call>>

(* A statement or the commit fails, no connection comes free in time, or   *)
(* the process dies: get_session, or the server when the connection drops, *)
(* rolls the transaction back.                                             *)
Abort(r) ==
    /\ InTransaction(r)
    /\ Finish(r, "error")
    /\ rowLock' = Unlocked(r)
    /\ UNCHANGED <<stored, status, agent_id, events, clock, call>>

-----------------------------------------------------------------------------
(* The steps the event loop takes for an accepted request.                 *)
Proceed(r) ==
    \/ EnsureActor(r)
    \/ LoadForStatus(r)
    \/ LoadForAssignment(r)
    \/ LookupAgent(r)
    \/ Flush(r)
    \/ Commit(r)
    \/ Refresh(r)

(* Every request has been sent and answered, every ticket created.         *)
Quiet ==
    /\ \A r \in Requests : pc[r] = "done"
    /\ stored = Tickets
    /\ UNCHANGED vars

Next ==
    \/ \E t \in Tickets : CreateTicket(t)
    \/ \E r \in Requests : Accept(r) \/ Proceed(r) \/ LoseAnswer(r) \/ Abort(r)
    \/ Quiet

Spec == Init /\ [][Next]_vars

(* Clients need not send anything and failures need not happen, but an     *)
(* accepted request is scheduled until it is answered; a lock wait ends    *)
(* when the holder's transaction does.                                     *)
Fairness == \A r \in Requests : WF_vars(Proceed(r))

FairSpec == Spec /\ Fairness

-----------------------------------------------------------------------------
(* Properties that hold.                                                   *)

(* Every variable has its type; in particular the two references a request *)
(* writes, tickets.agent_id and the event's new agent, name stored users.  *)
TypeOK ==
    /\ stored \in SUBSET Tickets
    /\ status \in [Tickets -> TicketStatus]
    /\ agent_id \in [Tickets -> Users \cup {None}]
    /\ events \in [Tickets -> Seq(Event)]
    /\ rowLock \in [Tickets -> Requests \cup {None}]
    /\ clock \in Nat
    /\ pc \in [Requests -> Place]
    /\ call \in [Requests -> CallType \cup {NoCall}]
    /\ txn \in [Requests -> Session]
    /\ answer \in [Requests -> Answer]

StatusEvent(e) == e.type \in {"CREATED", "STATUS_CHANGED"}

AssignmentEvent(e) == e.type \in {"ASSIGNED", "UNASSIGNED"}

(* An assignment the unit of work turned into an UPDATE.                   *)
Reassignment(e) == AssignmentEvent(e) /\ e.from # e.to

(* The log of a ticket and the positions after i in it.                    *)
After(t, i) == {j \in DOMAIN events[t] : i < j}

Between(t, i, j) == {k \in DOMAIN events[t] : i < k /\ k < j}

(* README.md:77 promises that a status change and its ticket_events row    *)
(* are committed atomically.  Whatever requests interleave, abort or lose  *)
(* their answer, the status of a ticket is the one its last committed      *)
(* status event names.                                                     *)
StatusMatchesLog ==
    \A t \in Tickets : \A i \in DOMAIN events[t] :
        (/\ StatusEvent(events[t][i])
         /\ \A j \in After(t, i) : ~ StatusEvent(events[t][j]))
        => status[t] = events[t][i].to

(* The same for assignments, counting only those that changed what their   *)
(* request had read: the others leave an event and no write.               *)
AgentMatchesLog ==
    \A t \in Tickets : \A i \in DOMAIN events[t] :
        (/\ Reassignment(events[t][i])
         /\ \A j \in After(t, i) : ~ Reassignment(events[t][j]))
        => agent_id[t] = events[t][i].to

(* The audit trail of a ticket is a chain, each status event starting      *)
(* where the one before it ended, except where two requests overlapped: a  *)
(* broken link is always the work of a request that had loaded the ticket  *)
(* before the previous change was committed.                               *)
StatusLinkedOrOverlapped ==
    \A t \in Tickets : \A i, j \in DOMAIN events[t] :
        (/\ i < j
         /\ StatusEvent(events[t][i]) /\ StatusEvent(events[t][j])
         /\ \A k \in Between(t, i, j) : ~ StatusEvent(events[t][k]))
        => \/ events[t][j].from = events[t][i].to
           \/ events[t][j].read < i

(* The same for the previous_agent_id of reassignments.                    *)
AgentLinkedOrOverlapped ==
    \A t \in Tickets : \A i, j \in DOMAIN events[t] :
        (/\ i < j
         /\ Reassignment(events[t][i]) /\ Reassignment(events[t][j])
         /\ \A k \in Between(t, i, j) : ~ Reassignment(events[t][k]))
        => \/ events[t][j].from = events[t][i].to
           \/ events[t][j].read < i

(* CLOSED has no successor in ALLOWED_STATUS_TRANSITIONS, so a ticket that *)
(* was closed can be given another status only by a request that loaded it *)
(* before it was closed.                                                   *)
ReopenIsOverlap ==
    \A t \in Tickets : \A i, j \in DOMAIN events[t] :
        (/\ i < j
         /\ StatusEvent(events[t][i]) /\ StatusEvent(events[t][j])
         /\ \A k \in Between(t, i, j) : ~ StatusEvent(events[t][k])
         /\ events[t][i].to = "CLOSED")
        => events[t][j].read < i

(* Where in the log of a ticket a request left an event.                   *)
Traces(t, r) == {i \in DOMAIN events[t] : events[t][i].by = r}

(* A request takes effect at most once, and the answer tells the client    *)
(* whether it did: after a 404, a 422 or the 200 of an update that changes *)
(* nothing there is no event of the request, after any other 200 there is  *)
(* one and it names what was asked for.  Only an error leaves it open.     *)
AnswerMatchesLog ==
    \A r \in Requests :
        /\ \A t \in Tickets : \A i, j \in Traces(t, r) :
              i = j /\ t = call[r].ticket /\ events[t][i].to = call[r].value
        /\ answer[r] \in {"not_found", "invalid", "unchanged"} =>
              \A t \in Tickets : Traces(t, r) = {}
        /\ answer[r] = "ok" => \E t \in Tickets : Traces(t, r) # {}

(* The row lock lasts from the UPDATE to the end of the transaction and no *)
(* longer, however the transaction ends: a lock that leaked would block    *)
(* every later change of the ticket.                                       *)
LockEndsWithTransaction ==
    \A t \in Tickets : \A r \in Requests :
        rowLock[t] = r <=> (pc[r] = "commit" /\ call[r].ticket = t /\ Dirty(r))

(* Requests that wait for each other's row locks, or for a connection that *)
(* one of them holds, do not wait for ever: every accepted request is      *)
(* answered.                                                               *)
EveryRequestAnswered ==
    \A r \in Requests : (pc[r] # "idle") ~> (pc[r] = "done")

(* The service keeps the promise of TicketLog: an interleaving of requests *)
(* is, for the tables, a sequence of whole changes with their log entries. *)
Entry(e) ==
    [type |-> e.type, from |-> e.from, to |-> e.to, read |-> e.read]

Log == INSTANCE TicketLog
           WITH log <- [t \in Tickets |-> [i \in DOMAIN events[t] |->
                                             Entry(events[t][i])]]

ImplementsLog == Log!Spec

-----------------------------------------------------------------------------
(* Statements of the repository's documents that the code does not keep.   *)

(* README.md:46: closed is terminal.                                       *)
ClosedIsTerminal ==
    [][\A t \in stored : status[t] = "CLOSED" => status'[t] = "CLOSED"]_vars

(* README.md:78: the history of a ticket reconstructs from a single query. *)
(* The rows of the log have created_at and no other order, so replaying    *)
(* the status events by created_at must end in the ticket's status.        *)
HistoryReconstructs ==
    \A t \in Tickets : \A i \in DOMAIN events[t] :
        (/\ StatusEvent(events[t][i])
         /\ \A j \in DOMAIN events[t] \ {i} :
               StatusEvent(events[t][j]) => events[t][j].at < events[t][i].at)
        => status[t] = events[t][i].to

(* README.md:82: the audit tells who a ticket was assigned to.  The last   *)
(* committed assignment event names the assigned agent.                    *)
AssignmentReconstructs ==
    \A t \in Tickets : \A i \in DOMAIN events[t] :
        (/\ AssignmentEvent(events[t][i])
         /\ \A j \in After(t, i) : ~ AssignmentEvent(events[t][j]))
        => agent_id[t] = events[t][i].to

=============================================================================
