------------------------------- MODULE Triage -------------------------------
(***************************************************************************)
(* What the worker computes about a ticket: the pure part of               *)
(* TicketProcessingService.process.  A text is given by the keywords that  *)
(* occur in it, ignoring case and also inside other words, and by its      *)
(* length.                                                                 *)
(***************************************************************************)
EXTENDS Naturals, TicketEnums

UrgentWords == {"urgent", "critical", "outage", "down", "broken"}
HighWords == {"error", "fail", "bug", "cannot", "can't"}
LowWords == {"question", "how", "help"}
Keywords == UrgentWords \cup HighWords \cup LowWords

(* What the computation reads of a ticket.  score is the number, in        *)
(* thousandths, that the generator seeded with the ticket's id gives       *)
(* first: a property of the id.                                            *)
Text == [words : SUBSET Keywords, length : Nat, category : TicketCategory,
         score : 0 .. 1000]

(* _heuristic_priority: the first list that has a word in the text.        *)
HeuristicPriority(words) ==
    IF words \cap UrgentWords # {} THEN "URGENT"
    ELSE IF words \cap HighWords # {} THEN "HIGH"
    ELSE IF words \cap LowWords # {} THEN "LOW"
    ELSE "MEDIUM"

(* CATEGORY_TO_DEPARTMENT, with its default.                               *)
Department(category) ==
    CASE category = "TECHNICAL" -> "engineering"
      [] category = "BILLING"   -> "finance"
      [] category = "ACCOUNT"   -> "customer-success"
      [] category = "GENERAL"   -> "support"
      [] OTHER                  -> "triage"

SummaryLimit == 200

(* The length of the summary: the beginning of the description, and an     *)
(* ellipsis where that is not all of it.                                   *)
SummaryLength(length) ==
    IF length > SummaryLimit THEN SummaryLimit + 1 ELSE length

(* The five computed columns of a result row.                              *)
Triaged(text) ==
    [auto_summary         |-> SummaryLength(text.length),
     suggested_priority   |-> HeuristicPriority(text.words),
     spam_score           |-> text.score,
     is_spam              |-> text.score > 400,
     suggested_department |-> Department(text.category)]

=============================================================================
