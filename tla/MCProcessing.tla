---------------------------- MODULE MCProcessing ----------------------------
(***************************************************************************)
(* Small instances of Processing: which messages there are and what they   *)
(* name.                                                                   *)
(***************************************************************************)
EXTENDS Processing, TLC

CONSTANTS t1, t2,          \* tickets
          m1, m2, m3       \* messages

(* A long report with words of two lists, and a short one with none.       *)
Texts ==
    [t \in Tickets |->
        IF t = t1
        THEN [words |-> {"error", "down"}, length |-> 500,
              category |-> "TECHNICAL", score |-> 401]
        ELSE [words |-> {}, length |-> 20, category |-> "BILLING",
              score |-> 400]]

(* Two copies of one message.                                              *)
TwoCopies == m1 :> t1 @@ m2 :> t1

(* Two copies, and a message about a ticket that does not exist.           *)
CopiesAndForeign == TwoCopies @@ m3 :> Unknown

(* A message of a ticket, and one that ends the worker.                    *)
OnePoisoned == m1 :> t1 @@ m2 :> Malformed

(* One message each of two tickets.                                        *)
OneEach == m1 :> t1 @@ m2 :> t2

(* Workers, exception texts and the copies of one message are each         *)
(* interchangeable.                                                        *)
CopySymmetry ==
    Permutations(Workers) \cup Permutations(Errors) \cup Permutations({m1, m2})

=============================================================================
