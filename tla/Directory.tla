----------------------------- MODULE Directory -----------------------------
(***************************************************************************)
(* The users table under concurrent requests: agents are created, updated  *)
(* and deactivated through app/services/agent_service.py, and a ticket     *)
(* creates its customer if nobody has the e-mail address yet               *)
(* (get_or_create_customer in app/repositories/user.py).                   *)
(*                                                                         *)
(* A request first looks and later writes, and others may commit in        *)
(* between (READ COMMITTED).  Only the unique index on the address stands  *)
(* between two requests that have both found it free: the INSERT of the    *)
(* second waits for the transaction of the first, and fails if that        *)
(* commits.                                                                *)
(***************************************************************************)
EXTENDS Naturals, FiniteSets, TicketEnums

CONSTANTS
    Emails, Names,
    SeedUsers,   \* the users scripts/seed.py inserts
    SeedRow,     \* their rows
    Requests,    \* each is sent once (a bound); also the id it may create
    Calls,       \* what a request may ask for
    None

Ids == SeedUsers \cup Requests

Row == [email : Emails, name : Names, role : UserRole, is_active : BOOLEAN]

(* POST /tickets, as far as its customer goes, POST /agents, and PATCH and *)
(* DELETE /agents/{id}.  A PATCH may leave out either column.              *)
CallType ==
    [op : {"ticket", "create"}, email : Emails, name : Names]
      \cup [op : {"update"}, id : Ids, name : Names \cup {None},
            is_active : BOOLEAN \cup {None}]
      \cup [op : {"deactivate"}, id : Ids]

ASSUME DirectoryAssumption ==
    /\ SeedUsers \cap Requests = {}
    /\ SeedRow \in [SeedUsers -> Row]
    /\ \A a, b \in SeedUsers : SeedRow[a].email = SeedRow[b].email => a = b
    /\ Calls \subseteq CallType
    /\ None \notin Ids \cup Names \cup BOOLEAN \cup Row

VARIABLES
    users,       \* the committed rows, by id
    tickets,     \* the customer of the ticket each request has created
    claim,       \* per address, the request with an uncommitted INSERT of it
    pc,          \* where in its handler each request is
    call,        \* what it asked for
    found,       \* the user a ticket's request has found
    loaded,      \* the agent's row an update has loaded
    seen,        \* history: the users there were when the request looked
    overtaken,   \* history: who wrote an agent's row since it was loaded
    wrote,       \* history: the row an update or deactivation has left
    answer       \* how it was answered

history == <<overtaken, wrote>>
vars == <<users, tickets, claim, pc, call, found, loaded, seen, history,
          answer>>

Place == {"idle", "lookup", "insert", "commit", "load", "write", "answer",
          "done"}

(* violation is the 500 for a violated unique constraint, error any other  *)
(* one; conflict is 409.                                                   *)
Answer == {"none", "ok", "not_found", "conflict", "violation", "error"}

-----------------------------------------------------------------------------
Stored == {i \in Ids : users[i] # None}

WithEmail(e) == {i \in Stored : users[i].email = e}

GoTo(r, place) == pc' = [pc EXCEPT ![r] = place]

Finish(r, a) ==
    /\ GoTo(r, "done")
    /\ answer' = [answer EXCEPT ![r] = a]

(* The unique index forgets the uncommitted entry of a transaction.        *)
Released(r) == [e \in Emails |-> IF claim[e] = r THEN None ELSE claim[e]]

(* Wrong on purpose: nobody gives is_active a value.                       *)
NewRow_NoDefault(c) ==
    [email |-> c.email, name |-> c.name, is_active |-> None,
     role |-> IF c.op = "ticket" THEN "CUSTOMER" ELSE "AGENT"]

(* The row an INSERT writes.                                               *)
NewRow(c) ==
    [email |-> c.email, name |-> c.name, is_active |-> TRUE,
     role |-> IF c.op = "ticket" THEN "CUSTOMER" ELSE "AGENT"]

(* Those that have loaded an agent and are about to write him.             *)
Writing(i) == {r \in Requests : pc[r] = "write" /\ call[r].id = i}

(* What an update or deactivation asks a column to be.                     *)
AsksName(c, name) == c.op = "update" /\ c.name = name

AsksActive(c, active) ==
    \/ c.op = "deactivate" /\ ~ active
    \/ c.op = "update" /\ c.is_active = active

(* Wrong on purpose: every column is written as it was read.               *)
Updated_WholeRow(old, read, c) ==
    CASE c.op = "deactivate" -> [read EXCEPT !.is_active = FALSE]
      [] c.op = "update" ->
            [read EXCEPT !.name = IF c.name = None THEN @ ELSE c.name,
                         !.is_active = IF c.is_active = None THEN @
                                       ELSE c.is_active]

(* Wrong on purpose: "if payload.is_active" instead of "is not None".      *)
Updated_IgnoresFalse(old, read, c) ==
    CASE c.op = "deactivate" ->
            IF read.is_active THEN [old EXCEPT !.is_active = FALSE] ELSE old
      [] c.op = "update" ->
            [old EXCEPT
                !.name = IF c.name \in {None, read.name} THEN @ ELSE c.name,
                !.is_active = IF c.is_active \in {None, FALSE, read.is_active}
                              THEN @ ELSE c.is_active]

(* The row old after an UPDATE of the columns whose new value differs from *)
(* the one that was read.                                                  *)
Updated(old, read, c) ==
    CASE c.op = "deactivate" ->
            IF read.is_active THEN [old EXCEPT !.is_active = FALSE] ELSE old
      [] c.op = "update" ->
            [old EXCEPT
                !.name = IF c.name \in {None, read.name} THEN @ ELSE c.name,
                !.is_active = IF c.is_active \in {None, read.is_active} THEN @
                              ELSE c.is_active]

-----------------------------------------------------------------------------
Init ==
    /\ users = [i \in Ids |-> IF i \in SeedUsers THEN SeedRow[i] ELSE None]
    /\ tickets = [r \in Requests |-> None]
    /\ claim = [e \in Emails |-> None]
    /\ pc = [r \in Requests |-> "idle"]
    /\ call = [r \in Requests |-> None]
    /\ found = [r \in Requests |-> None]
    /\ loaded = [r \in Requests |-> None]
    /\ seen = [r \in Requests |-> {}]
    /\ overtaken = [r \in Requests |-> {}]
    /\ wrote = [r \in Requests |-> None]
    /\ answer = [r \in Requests |-> "none"]

Accept(r) ==
    /\ pc[r] = "idle"
    /\ \E c \in Calls :
          /\ call' = [call EXCEPT ![r] = c]
          /\ GoTo(r, IF c.op \in {"ticket", "create"} THEN "lookup" ELSE "load")
    /\ UNCHANGED <<users, tickets, claim, found, loaded, seen, history, answer>>

(* Wrong on purpose: only customers are looked for.                        *)
FindByEmail_Customers(r) ==
    LET same == {i \in WithEmail(call[r].email) : users[i].role = "CUSTOMER"} IN
    /\ pc[r] = "lookup"
    /\ seen' = [seen EXCEPT ![r] = Stored]
    /\ \/ /\ same = {}
          /\ GoTo(r, "insert")
          /\ UNCHANGED <<found, answer>>
       \/ /\ same # {}
          /\ call[r].op = "create"
          /\ Finish(r, "conflict")
          /\ UNCHANGED found
       \/ /\ call[r].op = "ticket"
          /\ \E i \in same : found' = [found EXCEPT ![r] = i]
          /\ GoTo(r, "commit")
          /\ UNCHANGED answer
    /\ UNCHANGED <<users, tickets, claim, call, loaded, history>>

(* get_by_email.  A new agent must not be there yet (409); a ticket takes  *)
(* whoever is there as its customer, whatever his role.                    *)
FindByEmail(r) ==
    LET same == WithEmail(call[r].email) IN
    /\ pc[r] = "lookup"
    /\ seen' = [seen EXCEPT ![r] = Stored]
    /\ \/ /\ same = {}
          /\ GoTo(r, "insert")
          /\ UNCHANGED <<found, answer>>
       \/ /\ same # {}
          /\ call[r].op = "create"
          /\ Finish(r, "conflict")
          /\ UNCHANGED found
       \/ /\ call[r].op = "ticket"
          /\ \E i \in same : found' = [found EXCEPT ![r] = i]
          /\ GoTo(r, "commit")
          /\ UNCHANGED answer
    /\ UNCHANGED <<users, tickets, claim, call, loaded, history>>

(* Wrong on purpose: there is no unique constraint.                        *)
Insert_Unchecked(r) ==
    /\ pc[r] = "insert"
    /\ claim' = [claim EXCEPT ![call[r].email] = r]
    /\ found' = [found EXCEPT ![r] = r]
    /\ GoTo(r, "commit")
    /\ UNCHANGED <<users, tickets, call, loaded, seen, history, answer>>

(* Wrong on purpose: the repository commits the customer by itself.        *)
Insert_Commits(r) ==
    /\ pc[r] = "insert"
    /\ WithEmail(call[r].email) = {}
    /\ users' = [users EXCEPT ![r] = NewRow(call[r])]
    /\ found' = [found EXCEPT ![r] = r]
    /\ GoTo(r, "commit")
    /\ UNCHANGED <<tickets, claim, call, loaded, seen, history, answer>>

(* Wrong on purpose: ON CONFLICT DO NOTHING, and nobody looks again.       *)
Insert_IgnoresConflict(r) ==
    LET e == call[r].email IN
    /\ pc[r] = "insert"
    /\ claim[e] = None
    /\ GoTo(r, "commit")
    /\ IF WithEmail(e) = {}
       THEN /\ claim' = [claim EXCEPT ![e] = r]
            /\ found' = [found EXCEPT ![r] = r]
       ELSE UNCHANGED <<claim, found>>
    /\ UNCHANGED <<users, tickets, call, loaded, seen, history, answer>>

(* users.create: the INSERT waits while another transaction has inserted   *)
(* the address, and fails once somebody has committed it.                  *)
Insert(r) ==
    LET e == call[r].email IN
    /\ pc[r] = "insert"
    /\ claim[e] = None
    /\ \/ /\ WithEmail(e) = {}
          /\ claim' = [claim EXCEPT ![e] = r]
          /\ found' = [found EXCEPT ![r] = r]
          /\ GoTo(r, "commit")
          /\ UNCHANGED answer
       \/ /\ WithEmail(e) # {}
          /\ Finish(r, "violation")
          /\ UNCHANGED <<claim, found>>
    /\ UNCHANGED <<users, tickets, call, loaded, seen, history>>

(* session.commit: the new user and, in create_ticket, the ticket that was *)
(* inserted after him become visible.                                      *)
Commit(r) ==
    /\ pc[r] = "commit"
    /\ users' = IF found[r] = r THEN [users EXCEPT ![r] = NewRow(call[r])]
                                ELSE users
    /\ tickets' = IF call[r].op = "ticket"
                  THEN [tickets EXCEPT ![r] = found[r]] ELSE tickets
    /\ claim' = Released(r)
    /\ GoTo(r, "answer")
    /\ UNCHANGED <<call, found, loaded, seen, history, answer>>

(* AgentService.get: 404 unless there is such a user, and he is an agent.  *)
LoadAgent(r) ==
    LET i == call[r].id
        isAgent == i \in Stored /\ users[i].role = "AGENT"
    IN
    /\ pc[r] = "load"
    /\ seen' = [seen EXCEPT ![r] = Stored]
    /\ \/ /\ isAgent
          /\ loaded' = [loaded EXCEPT ![r] = users[i]]
          /\ GoTo(r, "write")
          /\ UNCHANGED answer
       \/ /\ ~ isAgent
          /\ Finish(r, "not_found")
          /\ UNCHANGED loaded
    /\ UNCHANGED <<users, tickets, claim, call, found, history>>

(* The commit of update and deactivate, which flushes first: an UPDATE of  *)
(* what differs.  Its row lock lasts no longer than this step.             *)
Write(r) ==
    /\ pc[r] = "write"
    /\ users' = [users EXCEPT ![call[r].id] = Updated(@, loaded[r], call[r])]
    /\ wrote' = [wrote EXCEPT ![r] = users'[call[r].id]]
    /\ overtaken' = [q \in Requests |->
                        IF q \in Writing(call[r].id) \ {r}
                        THEN overtaken[q] \cup {r} ELSE overtaken[q]]
    /\ GoTo(r, "answer")
    /\ UNCHANGED <<tickets, claim, call, found, loaded, seen, answer>>

(* The refresh, where there is one, and the answer.                        *)
Respond(r) ==
    /\ pc[r] = "answer"
    /\ Finish(r, "ok")
    /\ UNCHANGED <<users, tickets, claim, call, found, loaded, seen, history>>

(* Wrong on purpose: a failed request leaves its transaction open.         *)
Fail_KeepsClaim(r) ==
    /\ pc[r] \notin {"idle", "done"}
    /\ Finish(r, "error")
    /\ UNCHANGED <<users, tickets, claim, call, found, loaded, seen, history>>

(* A statement or the commit fails or the process dies, and the            *)
(* transaction is rolled back; or only the answer to a commit is lost.     *)
Fail(r) ==
    /\ pc[r] \notin {"idle", "done"}
    /\ Finish(r, "error")
    /\ claim' = Released(r)
    /\ UNCHANGED <<users, tickets, call, found, loaded, seen, history>>

-----------------------------------------------------------------------------
Proceed(r) ==
    \/ FindByEmail(r) \/ Insert(r) \/ Commit(r)
    \/ LoadAgent(r) \/ Write(r) \/ Respond(r)

(* Every request was sent and answered.                                    *)
Quiet == (\A r \in Requests : pc[r] = "done") /\ UNCHANGED vars

Next == Quiet \/ \E r \in Requests : Accept(r) \/ Proceed(r) \/ Fail(r)

(* An accepted request is scheduled until it is answered.                  *)
Spec == Init /\ [][Next]_vars /\ \A r \in Requests : WF_vars(Proceed(r))

-----------------------------------------------------------------------------
(* Every variable has its type; the customer of a ticket is a stored user. *)
TypeOK ==
    /\ users \in [Ids -> Row \cup {None}]
    /\ tickets \in [Requests -> Stored \cup {None}]
    /\ claim \in [Emails -> Requests \cup {None}]
    /\ pc \in [Requests -> Place]
    /\ call \in [Requests -> Calls \cup {None}]
    /\ found \in [Requests -> Ids \cup {None}]
    /\ loaded \in [Requests -> Row \cup {None}]
    /\ seen \in [Requests -> SUBSET Ids]
    /\ overtaken \in [Requests -> SUBSET Requests]
    /\ wrote \in [Requests -> Row \cup {None}]
    /\ answer \in [Requests -> Answer]

(* However many requests found an address free, at most one user gets it,  *)
(* and none while another transaction has inserted it.                     *)
EmailUnique ==
    \A e \in Emails :
        Cardinality(WithEmail(e)) + (IF claim[e] = None THEN 0 ELSE 1) <= 1

(* ticket_service.py:39: a ticket belongs to the user with the address its *)
(* client gave, and a customer was created only together with a ticket of  *)
(* his: a creation that fails leaves neither.                              *)
TicketHasItsCustomer ==
    \A r \in Requests :
        /\ tickets[r] # None => users[tickets[r]].email = call[r].email
        /\ r \in Stored /\ users[r].role = "CUSTOMER" => tickets[r] = r

(* The service means to answer 409 for an address that is taken.  A        *)
(* client gets the 500 of a violated constraint only if the user who has   *)
(* the address was committed after the request had looked for him.         *)
ViolationIsOverlap ==
    \A r \in Requests :
        answer[r] = "violation" => WithEmail(call[r].email) \ seen[r] # {}

(* The row that a request's UPDATE leaves has what the request asks for,   *)
(* or what one asked for that wrote to the row since it was loaded.        *)
DoneUnlessOvertaken(r) ==
    /\ wrote[r] # None
    /\ \A name \in Names : AsksName(call[r], name) =>
          \/ wrote[r].name = name
          \/ \E q \in overtaken[r] : AsksName(call[q], wrote[r].name)
    /\ \A active \in BOOLEAN : AsksActive(call[r], active) =>
          \/ wrote[r].is_active = active
          \/ \E q \in overtaken[r] : AsksActive(call[q], wrote[r].is_active)

(* What the answer tells is what happened.  404, 409 and a violation leave *)
(* nothing behind, and a 404 means that there was no such agent when the   *)
(* request looked.  Success leaves a ticket or a new agent; a changed or   *)
(* deactivated agent is as the request asked for, except for a column that *)
(* an overlapping request has asked to be otherwise: a request whose value *)
(* is the one it has read writes nothing.                                  *)
AnswerTellsEffect ==
    \A r \in Requests :
        /\ answer[r] \in {"not_found", "conflict", "violation"}
           => r \notin Stored /\ tickets[r] = None /\ wrote[r] = None
        /\ answer[r] = "not_found" /\ call[r].id \in seen[r]
           => users[call[r].id].role # "AGENT"
        /\ answer[r] = "ok" /\ call[r].op = "ticket" => tickets[r] # None
        /\ answer[r] = "ok" /\ call[r].op = "create"
           => r \in Stored /\ users[r].role = "AGENT"
        /\ answer[r] = "ok" /\ call[r].op \in {"update", "deactivate"}
           => DoneUnlessOvertaken(r)

(* README.md:82: users are never deleted.  Their address and role stay,    *)
(* only agents are changed, and a column changes only to what a request    *)
(* asks for that is being written to this user: an update of the name that *)
(* had read an active agent does not undo the deactivation that came in    *)
(* between.                                                                *)
NothingChangesUnasked ==
    [][\A i \in Stored :
          /\ users'[i] # None
          /\ users'[i].email = users[i].email
          /\ users'[i].role = users[i].role
          /\ users'[i] # users[i] => users[i].role = "AGENT"
          /\ users'[i].name # users[i].name =>
                \E r \in Writing(i) : AsksName(call[r], users'[i].name)
          /\ users'[i].is_active # users[i].is_active =>
                \E r \in Writing(i) :
                    AsksActive(call[r], users'[i].is_active)]_vars

(* A request that waits for another one's INSERT does not wait for ever.   *)
EveryRequestAnswered ==
    \A r \in Requests : pc[r] # "idle" ~> pc[r] = "done"

=============================================================================
