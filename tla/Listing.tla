------------------------------ MODULE Listing ------------------------------
(***************************************************************************)
(* A client walks through GET /tickets, page after page, while tickets are *)
(* created and changed.  A page is two statements, a count and a SELECT    *)
(* with ORDER BY created_at DESC, OFFSET and LIMIT, each of which sees     *)
(* what is committed when it runs.  created_at is the time at which the    *)
(* creating transaction began, so that a ticket may appear below newer     *)
(* ones, and tickets of one transaction (scripts/seed.py) have the same:   *)
(* PostgreSQL may return those in another order each time.                 *)
(*                                                                         *)
(* GET /agents is the same walk over users.                                *)
(***************************************************************************)
EXTENDS Naturals, SequencesExt

CONSTANTS
    Tickets,
    SeedTickets, \* those of one transaction, there from the beginning
    PageSizes    \* the page sizes a client may choose

ASSUME ListingAssumption ==
    /\ IsFiniteSet(Tickets)
    /\ SeedTickets \subseteq Tickets
    /\ PageSizes \subseteq 1 .. 100

VARIABLES
    created_at,  \* per ticket, when its transaction began; 0 before
    stored,      \* the committed tickets
    matching,    \* those that the filters of the walk accept
    place,       \* the walk: "idle", before "count" or "page", or "done"
    page,        \* the page asked for
    page_size,   \* the page size of the walk
    total,       \* what the last count returned
    items,       \* the last page
    counted,     \* history: the rows there were for the last count
    paged,       \* history: the rows there were for the last SELECT
    shown,       \* history: the pages before it
    arrived,     \* history: the tickets that became rows during the walk
    left         \* history: those that ceased to be rows

table == <<created_at, stored, matching>>
walk == <<place, page, page_size, total, items, counted, paged, shown>>
vars == <<table, walk, arrived, left>>

-----------------------------------------------------------------------------
(* What the filtered query selects.                                        *)
Rows == stored \cap matching

(* Wrong on purpose: pages are counted from 0.                             *)
Offset_FromZero == page * page_size

Offset == (page - 1) * page_size

(* Wrong on purpose: there is no ORDER BY.                                 *)
Ordered_NoOrderBy(rows) == SetToSeqs(rows)

(* The orders in which the query may return rows: newest first.            *)
Ordered(rows) ==
    {s \in SetToSeqs(rows) :
        \A i, j \in 1 .. Len(s) :
            i < j => created_at[s[i]] >= created_at[s[j]]}

(* Wrong on purpose: the count ignores the filters.                        *)
CountRows_Unfiltered == Cardinality(stored)

CountRows == Cardinality(Rows)

-----------------------------------------------------------------------------
(* Whether a new ticket will match the filters is the client's choice.     *)
Init ==
    /\ created_at = [t \in Tickets |-> IF t \in SeedTickets THEN 1 ELSE 0]
    /\ stored = SeedTickets
    /\ matching \in SUBSET Tickets
    /\ place = "idle" /\ page = 1 /\ page_size \in PageSizes /\ total = 0
    /\ items = << >> /\ shown = << >> /\ counted = {} /\ paged = {}
    /\ arrived = {} /\ left = {}

Now == Max({1} \cup Range(created_at))

(* What a change of the table does to the rows of the query.               *)
Track ==
    IF place = "idle" THEN UNCHANGED <<arrived, left>>
    ELSE /\ arrived' = arrived \cup (Rows' \ Rows)
         /\ left' = left \cup (Rows \ Rows')

(* The transaction of a POST begins.                                       *)
Begin(t) ==
    /\ created_at[t] = 0
    /\ created_at' = [created_at EXCEPT ![t] = Now + 1]
    /\ UNCHANGED <<stored, matching, walk, arrived, left>>

(* It commits.                                                             *)
Create(t) ==
    /\ created_at[t] > 0 /\ t \notin stored
    /\ stored' = stored \cup {t}
    /\ UNCHANGED <<created_at, matching, walk>>
    /\ Track

(* A PATCH makes a ticket match the filters, or no longer.                 *)
Change(t) ==
    /\ t \in stored
    /\ matching' = IF t \in matching THEN matching \ {t} ELSE matching \cup {t}
    /\ UNCHANGED <<created_at, stored, walk>>
    /\ Track

(* The client asks for the first page.                                     *)
Start ==
    /\ place = "idle"
    /\ place' = "count"
    /\ UNCHANGED <<table, page, page_size, total, items, counted, paged, shown,
                   arrived, left>>

(* TicketRepository.list, its first statement: how many rows there are.    *)
Count ==
    /\ place = "count"
    /\ total' = CountRows
    /\ counted' = Rows
    /\ place' = "page"
    /\ UNCHANGED <<table, page, page_size, paged, items, shown, arrived, left>>

(* The SELECT of the page, and the answer.  The client asks for the next   *)
(* page until one is not full.                                             *)
Fetch ==
    /\ place = "page"
    /\ paged' = Rows
    /\ shown' = shown \o items
    /\ \E s \in Ordered(Rows) :
          items' = SubSeq(s, Offset + 1, Min({Offset + page_size, Len(s)}))
    /\ IF Len(items') < page_size
       THEN place' = "done" /\ UNCHANGED page
       ELSE place' = "count" /\ page' = page + 1
    /\ UNCHANGED <<table, page_size, total, counted, arrived, left>>

(* The client has all pages; only the table still changes.                 *)
Done == place = "done" /\ UNCHANGED vars

Next ==
    \/ \E t \in Tickets : Begin(t) \/ Create(t) \/ Change(t)
    \/ Start \/ Count \/ Fetch \/ Done

Spec == Init /\ [][Next]_vars

-----------------------------------------------------------------------------
(* All that the walk has shown.                                            *)
Seen == shown \o items

(* No other ticket has the same created_at: the order of the query is      *)
(* the same each time as far as t goes.                                    *)
Untied(t) == \A u \in Tickets \ {t} : created_at[u] # created_at[t]

(* A ticket was shown twice that is t or has the same created_at.          *)
RepeatedLike(t) ==
    \E i, j \in 1 .. Len(Seen) :
        i # j /\ Seen[i] = Seen[j] /\ created_at[Seen[i]] = created_at[t]

(* t became a row during the walk, and one of these tickets is not newer.  *)
Overtaken(t, tickets) ==
    t \in arrived /\ \E u \in tickets : created_at[u] <= created_at[t]

(* A complete walk from which nothing went away has shown every ticket     *)
(* that its last page could see, though others were created meanwhile: the *)
(* offset of the next page only ever grows too small.  A ticket is missing *)
(* for two reasons only.  It is tied, and another of its created_at was    *)
(* shown twice in its place; or it was committed when an earlier page had  *)
(* already shown a ticket that is not newer.                               *)
MissedIsExplained ==
    place = "done" /\ left = {} =>
        \A t \in paged \ Range(Seen) :
            RepeatedLike(t) \/ Overtaken(t, Range(shown))

(* A ticket that is not tied is shown twice only if another one arrived    *)
(* above it while the client walked, newly created or matching again.      *)
(* That it goes away itself and comes back is no reason: as long as        *)
(* nothing arrives above it, its place is on a page that was read.         *)
RepeatIsArrival ==
    \A i, j \in 1 .. Len(Seen) :
        i # j /\ Seen[i] = Seen[j] /\ Untied(Seen[i])
        => \E t \in arrived : created_at[t] > created_at[Seen[i]]

(* The total of an answer fits its page unless a ticket was created or     *)
(* changed between the two statements: the page is full, or it is the last *)
(* one that the total allows.                                              *)
TotalFitsPage ==
    place \in {"count", "done"} /\ counted = paged =>
        LET last == IF place = "done" THEN page ELSE page - 1
            before == (last - 1) * page_size
        IN  last > 0 =>
              Len(items) = IF total < before THEN 0
                           ELSE Min({page_size, total - before})

=============================================================================
