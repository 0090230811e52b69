--------------------------- MODULE MCSupportDesk ---------------------------
(***************************************************************************)
(* A small instance of SupportDesk: a ticket that is created, processed    *)
(* and changed by a request.                                               *)
(***************************************************************************)
EXTENDS SupportDesk, TLC

CONSTANTS t1, ann, m1, m2

TwoCalls ==
    {[op |-> "status", ticket |-> t1, value |-> "CLOSED", actor |-> None],
     [op |-> "assign", ticket |-> t1, value |-> ann, actor |-> ann]}

Texts == t1 :> [words |-> {"how"}, length |-> 10, category |-> "OTHER",
                score |-> 0]

(* A message about the ticket, and one that ends the worker.               *)
Subjects == m1 :> t1 @@ m2 :> Malformed

=============================================================================
