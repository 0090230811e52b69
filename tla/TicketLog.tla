----------------------------- MODULE TicketLog -----------------------------
(***************************************************************************)
(* What the ticket service promises about a ticket and its audit log,      *)
(* without requests, sessions or locks: the table and the log change only  *)
(* together and in one step, nothing is ever taken out of a log, and every *)
(* change starts from a value that the log had once given the ticket.      *)
(*                                                                         *)
(* That value need not be the latest one: the service reads a ticket       *)
(* without a lock, so an entry tells how long the log was when its request *)
(* read the ticket (read), and it is the log up to there that it follows.  *)
(***************************************************************************)
EXTENDS Naturals, Sequences, TicketEnums

CONSTANTS
    Tickets,     \* the tickets that have, or will get, a row
    Users,       \* those a ticket can be assigned to
    None         \* nobody

VARIABLES
    stored,      \* the tickets in the database
    status,      \* the status of each
    agent_id,    \* whom each is assigned to
    log          \* the entries about each, in the order of their commits

vars == <<stored, status, agent_id, log>>

-----------------------------------------------------------------------------
(* Entries that name the status, or that give the ticket another agent.    *)
NamesStatus(e) == e.type \in {"CREATED", "STATUS_CHANGED"}

MovesAgent(e) == e.type \in {"ASSIGNED", "UNASSIGNED"} /\ e.from # e.to

(* s is the status that the first k entries of h give the ticket.  A       *)
(* seeded ticket has no CREATED entry: its log may not name one yet.       *)
StatusNamed(h, k, s) ==
    \A i \in 1 .. k :
        NamesStatus(h[i]) /\ (\A j \in i + 1 .. k : ~ NamesStatus(h[j]))
        => h[i].to = s

(* a is the agent that the first k entries of h give the ticket: nobody at *)
(* its creation, and then whoever it was moved to.                         *)
AgentNamed(h, k, a) ==
    /\ \A i \in 1 .. k :
          MovesAgent(h[i]) /\ (\A j \in i + 1 .. k : ~ MovesAgent(h[j]))
          => h[i].to = a
    /\ (/\ k > 0 /\ h[1].type = "CREATED"
        /\ \A i \in 1 .. k : ~ MovesAgent(h[i])) => a = None

Record(t, e) == log' = [log EXCEPT ![t] = Append(@, e)]

-----------------------------------------------------------------------------
Init ==
    /\ stored \in SUBSET Tickets
    /\ status \in [Tickets -> TicketStatus]
    /\ agent_id \in [Tickets -> Users \cup {None}]
    /\ log = [t \in Tickets |-> << >>]

(* A new ticket is OPEN and nobody's.                                      *)
Create(t) ==
    /\ t \notin stored
    /\ stored' = stored \cup {t}
    /\ status' = [status EXCEPT ![t] = "OPEN"]
    /\ agent_id' = [agent_id EXCEPT ![t] = None]
    /\ Record(t, [type |-> "CREATED", from |-> None, to |-> "OPEN",
                  read |-> 0])

(* A status change along an allowed transition from the status that was    *)
(* read.                                                                   *)
ChangeStatus(t) ==
    /\ t \in stored
    /\ \E read \in 0 .. Len(log[t]), old, new \in TicketStatus :
          /\ status' = [status EXCEPT ![t] = new]
          /\ new \in AllowedStatusTransitions[old]
          /\ StatusNamed(log[t], read, old)
          /\ Record(t, [type |-> "STATUS_CHANGED", from |-> old, to |-> new,
                        read |-> read])
    /\ UNCHANGED <<stored, agent_id>>

(* An assignment.  One to the agent that was read is recorded, and changes *)
(* nothing.                                                                *)
Assign(t) ==
    /\ t \in stored
    /\ \E read \in 0 .. Len(log[t]), old, new \in Users \cup {None} :
          /\ AgentNamed(log[t], read, old)
          /\ agent_id' = IF new = old THEN agent_id
                         ELSE [agent_id EXCEPT ![t] = new]
          /\ Record(t, [type |-> IF new = None THEN "UNASSIGNED"
                                 ELSE "ASSIGNED",
                        from |-> old, to |-> new, read |-> read])
    /\ UNCHANGED <<stored, status>>

(* The worker has processed the ticket: recorded, and of no consequence    *)
(* for its status and its agent.                                           *)
Process(t) ==
    /\ t \in stored
    /\ Record(t, [type |-> "PROCESSED", from |-> None, to |-> None,
                  read |-> 0])
    /\ UNCHANGED <<stored, status, agent_id>>

(* Nothing happens to a ticket that leaves no entry.                       *)
Next ==
    \E t \in Tickets :
        /\ Len(log'[t]) > Len(log[t])
        /\ Create(t) \/ ChangeStatus(t) \/ Assign(t) \/ Process(t)

Spec == Init /\ [][Next]_vars

=============================================================================
