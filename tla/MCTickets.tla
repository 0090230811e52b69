----------------------------- MODULE MCTickets -----------------------------
(***************************************************************************)
(* Small instances of Tickets.  The runs differ in the calls that clients  *)
(* make: each needs other pairs of requests to overlap.                    *)
(***************************************************************************)
EXTENDS Tickets, TLC

CONSTANTS t1, ts, tx,      \* a ticket of the API, a seeded one, an unknown id
          ann, bob, nobody, \* an agent, a customer, an unknown id
          r1, r2, r3

StatusCalls(targets, actors) ==
    [op : {"status"}, ticket : targets, value : TicketStatus, actor : actors]

AssignCalls(targets, values, actors) ==
    [op : {"assign"}, ticket : targets, value : values, actor : actors]

(* One ticket that everybody changes at once.                              *)
BusyCalls ==
    StatusCalls({t1}, {None, ann})
      \cup AssignCalls({t1}, {None, ann, bob}, {None})
      \cup AssignCalls({t1}, {nobody}, {ann})

(* A seeded ticket, and ids of nothing at all among the path parameters,   *)
(* the assignees and the actors.                                           *)
SeedCalls ==
    [op : {"status"}, ticket : {ts, tx}, value : {"RESOLVED"}, actor : {None}]
      \cup AssignCalls({ts}, {None}, {bob})
      \cup AssignCalls({ts}, {nobody}, {None})
      \cup AssignCalls({ts}, {ann}, {nobody})

(* Status updates only, with and without an actor.                         *)
StatusOnlyCalls == StatusCalls({t1}, {None, ann})

(* Assignments only, of an agent, a customer, or nobody.                   *)
AssignOnlyCalls == AssignCalls({t1}, {None, ann, bob}, {None})

(* Requests are interchangeable.                                           *)
RequestSymmetry == Permutations(Requests)

=============================================================================
