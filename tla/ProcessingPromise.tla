------------------------- MODULE ProcessingPromise -------------------------
(***************************************************************************)
(* What asynchronous processing promises, without a queue or workers: at   *)
(* least one run for every message that is done with.  A run stores the    *)
(* outcome of a ticket and counts itself in one step; further runs of the  *)
(* same ticket store the same.  A message is done, or given up, for good.  *)
(***************************************************************************)
EXTENDS Naturals

CONSTANTS
    Tickets,
    Messages,
    Subject,    \* the ticket a message is about, if it is about one
    Expected,   \* the outcome of each ticket
    None

VARIABLES
    accepted,   \* the tickets a client was given
    runs,       \* how often each was processed
    outcome,    \* what is stored about each
    fate        \* of each message: "open", "done" or "given_up"

vars == <<accepted, runs, outcome, fate>>

Init ==
    /\ accepted = {}
    /\ runs = [t \in Tickets |-> 0]
    /\ outcome = [t \in Tickets |-> None]
    /\ fate = [m \in Messages |-> "open"]

Accept(t) ==
    /\ t \notin accepted
    /\ accepted' = accepted \cup {t}
    /\ UNCHANGED <<runs, outcome, fate>>

Run(t) ==
    /\ t \in accepted
    /\ runs' = [runs EXCEPT ![t] = @ + 1]
    /\ outcome' = [outcome EXCEPT ![t] = Expected[t]]
    /\ UNCHANGED <<accepted, fate>>

Finish(m) ==
    /\ fate[m] = "open"
    /\ Subject[m] \in Tickets => runs[Subject[m]] > 0
    /\ fate' = [fate EXCEPT ![m] = "done"]
    /\ UNCHANGED <<accepted, runs, outcome>>

(* One receive may move several messages to the dead-letter queue.         *)
GiveUp ==
    /\ fate' \in [Messages -> {"open", "done", "given_up"}]
    /\ \A m \in Messages :
          \/ fate'[m] = fate[m]
          \/ fate[m] = "open" /\ fate'[m] = "given_up"
    /\ UNCHANGED <<accepted, runs, outcome>>

Next ==
    \/ \E t \in Tickets : Accept(t) \/ Run(t)
    \/ \E m \in Messages : Finish(m)
    \/ GiveUp

Spec == Init /\ [][Next]_vars

=============================================================================
