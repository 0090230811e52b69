---------------------------- MODULE MCDirectory ----------------------------
(***************************************************************************)
(* A small instance of Directory: the seeded agent bob and customer alice, *)
(* and an address that nobody has yet.                                     *)
(***************************************************************************)
EXTENDS Directory, TLC

CONSTANTS alice, bob, r1, r2, r3,
          old, new             \* names

Row0(e, role) == [email |-> e, name |-> old, role |-> role, is_active |-> TRUE]

SeedRows == alice :> Row0("alice", "CUSTOMER") @@ bob :> Row0("bob", "AGENT")

(* One update may target alice, who is no agent, or the user that the      *)
(* first request creates; the others work on bob and on two addresses.     *)
SmallCalls ==
    [op : {"ticket", "create"}, email : {"bob", "carol"}, name : {old}]
      \cup [op : {"update"}, id : {bob}, name : {new}, is_active : {None}]
      \cup [op : {"update"}, id : {bob}, name : {None}, is_active : {TRUE}]
      \cup [op : {"update"}, id : {alice, r1}, name : {new},
            is_active : {FALSE}]
      \cup [op : {"deactivate"}, id : {bob}]

=============================================================================
