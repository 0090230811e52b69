----------------------------- MODULE MCListing -----------------------------
(***************************************************************************)
(* A small instance of Listing: a walk of up to five pages over two        *)
(* seeded tickets, which are tied, and two that are created meanwhile.     *)
(***************************************************************************)
EXTENDS Listing

CONSTANTS s1, s2, t1, t2

TicketSymmetry == Permutations({s1, s2}) \cup Permutations({t1, t2})

=============================================================================
