--------------------------- MODULE ListingProofs ---------------------------
(***************************************************************************)
(* Theorems about Listing, for any number of tickets and any page size.    *)
(*                                                                         *)
(* The argument is about places.  Rows that are newer than all others come *)
(* first (Prefix), so that the place of an untied ticket is one more than  *)
(* the number of rows above it (Rank), however tied rows are ordered.  A   *)
(* ticket whose absence nothing would explain has at least Offset rows     *)
(* above it or shown in its place (Ahead), since rows only arrive while    *)
(* nothing leaves; a page either shows it or reaches as far again          *)
(* (FetchReaches).  An untied ticket that was shown has fewer than Offset  *)
(* rows above it (Behind), as long as nothing arrives above it.            *)
(***************************************************************************)
EXTENDS Listing, SequenceTheorems, FiniteSetTheorems, TLAPS

(* The rows above a ticket in the order of the query.                      *)
Above(t) == {u \in Rows : created_at[u] > created_at[t]}

(* Nothing that happened explains that a ticket is shown again.            *)
Settled(t) ==
    /\ Untied(t)
    /\ \A u \in arrived : ~ (created_at[u] > created_at[t])

(* The newest ticket exists, so that Now is a time.                        *)
HasNewest ==
    \E m \in {1} \cup Range(created_at) :
        \A n \in {1} \cup Range(created_at) : m >= n

TypeInv ==
    /\ created_at \in [Tickets -> Nat] /\ HasNewest
    /\ stored \subseteq Tickets /\ \A t \in stored : created_at[t] > 0
    /\ matching \subseteq Tickets
    /\ place \in {"idle", "count", "page", "done"}
    /\ page \in Nat \ {0} /\ page_size \in Nat \ {0}
    /\ items \in Seq(Tickets) /\ shown \in Seq(Tickets)
    /\ counted \subseteq Tickets /\ paged \subseteq stored
    /\ arrived \subseteq stored /\ left \subseteq stored
    /\ place = "idle" => page = 1 /\ items = << >> /\ shown = << >>

(* What was shown is a row, or was one.                                    *)
ShownWasRow == \A t \in Range(Seen) : t \in Rows \cup left

(* The rows that are newer than some time.                                 *)
Newer(n) == {u \in Rows : created_at[u] > n}

(* What a walk accounts for, seen from a ticket that is still to come: the *)
(* rows above it, and the rows tied with it that were shown.               *)
Reached(t) ==
    Above(t) \cup {u \in Rows \cap Range(Seen) : created_at[u] = created_at[t]}

(* As long as everything shown is newer than n, so many rows are.          *)
Deep ==
    place \in {"count", "page"} /\ left = {} =>
        \A n \in Nat :
            (\A u \in Range(Seen) : created_at[u] > n)
            => Cardinality(Newer(n)) >= Offset

(* A row whose absence nothing would explain is shown or still to come.    *)
Ahead ==
    place \in {"count", "page"} /\ left = {} =>
        \A t \in Rows \ Range(Seen) :
            ~ RepeatedLike(t) /\ ~ Overtaken(t, Range(Seen))
            => Cardinality(Reached(t)) >= Offset

(* What was shown is not on a page to come.                                *)
Behind ==
    place \in {"count", "page"} =>
        \A t \in Range(Seen) : Settled(t) => Cardinality(Above(t)) < Offset

(* The rows on the pages before page p of k rows each.                     *)
Before(p, k) == (p - 1) * k

(* The length of a page of at most k of n rows, after offset others.       *)
PageLength(n, offset, k) ==
    IF n < offset THEN 0 ELSE IF n - offset < k THEN n - offset ELSE k

(* The total and the last page, each of the rows its statement saw.        *)
Answered ==
    /\ total = Cardinality(counted)
    /\ LET last == IF place = "done" THEN page ELSE page - 1
       IN  place \in {"count", "done"} /\ last > 0 =>
              Len(items) = PageLength(Cardinality(paged),
                                      Before(last, page_size), page_size)

WalkInv ==
    /\ ShownWasRow
    /\ Deep /\ Ahead /\ MissedIsExplained
    /\ Behind /\ RepeatIsArrival
    /\ Answered

-----------------------------------------------------------------------------
(* Rows and pages.                                                         *)

LEMMA SomeRows ==
  ASSUME TypeInv, NEW S \in SUBSET Tickets
  PROVE  IsFiniteSet(S) /\ Cardinality(S) \in Nat
  BY ListingAssumption, FS_Subset, FS_CardinalityType

LEMMA FewerRows ==
  ASSUME TypeInv, NEW S \in SUBSET Tickets, NEW T \in SUBSET S
  PROVE  Cardinality(T) <= Cardinality(S)
  BY SomeRows, FS_Subset

LEMMA BeforeNext ==
  ASSUME NEW p \in Nat \ {0}, NEW k \in Nat
  PROVE  Before(p, k) \in Nat /\ Before(p + 1, k) = Before(p, k) + k
  BY DEF Before

(* The result of a query has each of its rows at one place.                *)
LEMMA OrderedIsBijection ==
  ASSUME TypeInv, NEW R \in SUBSET Tickets, NEW s \in Ordered(R)
  PROVE  /\ s \in Seq(R) /\ Len(s) = Cardinality(R)
         /\ \A i, j \in 1 .. Len(s) : s[i] = s[j] => i = j
         /\ \A t \in R : \E i \in 1 .. Len(s) : s[i] = t
  <1> DEFINE n == Cardinality(R)
  <1>1. n \in Nat /\ IsFiniteSet(R)
    BY SomeRows
  <1>2. /\ s \in [1 .. n -> R]
        /\ \A i, j \in 1 .. n : i # j => s[i] # s[j]
    BY DEF Ordered, SetToSeqs
  <1>3. s \in Seq(R) /\ Len(s) = n
    <2> HIDE DEF n
    <2> QED
      BY <1>1, <1>2
  <1>4. s \in Injection(1 .. n, R)
    BY <1>2 DEF Injection, IsInjective
  <1>5. Cardinality(1 .. n) = n
    <2> HIDE DEF n
    <2> QED
      BY <1>1, FS_Interval
  <1>6. s \in Surjection(1 .. n, R)
    BY <1>1, <1>4, <1>5, FS_Injection
  <1>7. \A t \in R : \E i \in 1 .. n : s[i] = t
    BY <1>6 DEF Surjection
  <1> QED
    BY <1>2, <1>3, <1>7

(* The rows at some consecutive places, of which there are as many.        *)
Between(s, a, b) == {s[k] : k \in (a + 1) .. b}

LEMMA Placed ==
  ASSUME TypeInv, NEW s \in Ordered(Rows),
         NEW a \in Nat, NEW b \in Nat, a <= b, b <= Len(s)
  PROVE  /\ Between(s, a, b) \subseteq Rows
         /\ Cardinality(Between(s, a, b)) = b - a
  <1> DEFINE K == (a + 1) .. b
  <1> DEFINE f == [k \in K |-> s[k]]
  <1>1. /\ s \in Seq(Rows) /\ Len(s) \in Nat
        /\ \A k, j \in 1 .. Len(s) : s[k] = s[j] => k = j
    BY OrderedIsBijection DEF TypeInv, Rows
  <1>2. \A k \in K : k \in 1 .. Len(s) /\ s[k] \in Rows
    BY <1>1
  <1>3. f \in Bijection(K, Between(s, a, b))
    <2>1. Between(s, a, b) = {s[k] : k \in K}
      BY DEF Between
    <2>2. \A k, j \in K : s[k] = s[j] => k = j
      BY <1>1, <1>2
    <2> HIDE DEF K
    <2> QED
      BY <2>1, <2>2 DEF Bijection, Injection, Surjection, IsInjective
  <1>4. IsFiniteSet(K) /\ Cardinality(K) = b - a
    <2>1. a + 1 \in Int /\ b \in Int /\ (IF a + 1 > b THEN 0 ELSE b - (a + 1) + 1) = b - a
      OBVIOUS
    <2> QED
      BY <2>1, FS_Interval
  <1>5. Cardinality(Between(s, a, b)) = b - a
    <2> HIDE DEF K, f
    <2> QED
      BY <1>3, <1>4, FS_Bijection DEF ExistsBijection
  <1> QED
    BY <1>2, <1>5 DEF Between

(* Rows that are newer than all others come first.                         *)
LEMMA Prefix ==
  ASSUME TypeInv, NEW s \in Ordered(Rows), NEW U \in SUBSET Rows,
         \A u \in U, v \in Rows : created_at[v] >= created_at[u] => v \in U
  PROVE  /\ Cardinality(U) \in Nat /\ Cardinality(U) <= Len(s)
         /\ \A i \in 1 .. Len(s) : s[i] \in U <=> i <= Cardinality(U)
  <1> DEFINE n == Cardinality(U)
  <1> DEFINE P == {i \in 1 .. Len(s) : s[i] \in U}
  <1> DEFINE f == [i \in P |-> s[i]]
  <1>1. Rows \in SUBSET Tickets /\ U \in SUBSET Tickets
    BY DEF TypeInv, Rows
  <1>2. /\ s \in Seq(Rows) /\ Len(s) \in Nat
        /\ \A k, j \in 1 .. Len(s) : s[k] = s[j] => k = j
        /\ \A u \in Rows : \E k \in 1 .. Len(s) : s[k] = u
        /\ Len(s) = Cardinality(Rows)
    BY <1>1, OrderedIsBijection
  <1>3. n \in Nat /\ n <= Len(s) /\ IsFiniteSet(U)
    BY <1>1, <1>2, SomeRows, FewerRows
  <1>4. /\ IsFiniteSet(P) /\ Cardinality(P) = n
    <2>1. f \in Bijection(P, U)
      <3>1. \A k, j \in P : s[k] = s[j] => k = j
        BY <1>2
      <3>2. \A u \in U : \E k \in P : s[k] = u
        BY <1>2
      <3>3. \A k \in P : s[k] \in U
        OBVIOUS
      <3> HIDE DEF P
      <3> QED
        BY <3>1, <3>2, <3>3 DEF Bijection, Injection, Surjection, IsInjective
    <2>2. IsFiniteSet(1 .. Len(s))
      BY <1>2, FS_Interval
    <2>3. P \in SUBSET (1 .. Len(s))
      OBVIOUS
    <2>4. IsFiniteSet(P)
      <3> HIDE DEF P
      <3> QED
        BY <2>2, <2>3, FS_Subset
    <2> HIDE DEF P, f
    <2> QED
      BY <2>1, <2>4, FS_Bijection DEF ExistsBijection
  <1>5. ASSUME NEW i \in P
        PROVE  i \in 1 .. n
    <2>1. i \in Nat \ {0} /\ i <= Len(s) /\ s[i] \in U
      BY <1>2
    <2>2. ASSUME NEW j \in 1 .. i
          PROVE  j \in P
      <3>1. j \in 1 .. Len(s) /\ s[j] \in Rows /\ (j < i \/ j = i)
        BY <1>2, <2>1
      <3>2. j < i => created_at[s[j]] >= created_at[s[i]]
        BY <3>1 DEF Ordered
      <3> QED
        BY <2>1, <3>1, <3>2
    <2>3. 1 .. i \in SUBSET P
      BY <2>2
    <2>4. Cardinality(1 .. i) = i
      BY <2>1, FS_Interval
    <2>5. i <= n
      <3> HIDE DEF P, n
      <3>1. Cardinality(1 .. i) <= Cardinality(P)
        BY <1>4, <2>3, FS_Subset
      <3> QED
        BY <1>4, <2>4, <3>1
    <2> QED
      BY <1>3, <2>1, <2>5
  <1>6. P = 1 .. n
    <2>1. IsFiniteSet(1 .. n) /\ Cardinality(1 .. n) = n
      <3> HIDE DEF n
      <3> QED
        BY <1>3, FS_Interval
    <2>2. P \in SUBSET (1 .. n)
      BY <1>5
    <2> HIDE DEF P, n
    <2> QED
      BY <1>4, <2>1, <2>2, FS_Subset
  <1> HIDE DEF n
  <1>7. \A i \in 1 .. Len(s) : s[i] \in U <=> i <= n
    BY <1>3, <1>6
  <1> QED
    BY <1>3, <1>7 DEF n

(* The rank of an untied ticket does not depend on how ties are ordered.   *)
LEMMA Rank ==
  ASSUME TypeInv, NEW s \in Ordered(Rows), NEW i \in 1 .. Len(s),
         Untied(s[i])
  PROVE  Cardinality(Above(s[i])) = i - 1
  <1> DEFINE U == Above(s[i])
  <1>1. /\ Rows \subseteq Tickets /\ \A u \in Tickets : created_at[u] \in Nat
        /\ s \in Seq(Rows) /\ Len(s) \in Nat
        /\ \A k, j \in 1 .. Len(s) : s[k] = s[j] => k = j
    BY OrderedIsBijection DEF TypeInv, Rows
  <1>2. /\ U \in SUBSET Rows
        /\ \A u \in U, v \in Rows : created_at[v] >= created_at[u] => v \in U
    BY <1>1 DEF Above
  <1>3. /\ Cardinality(U) \in Nat /\ Cardinality(U) <= Len(s)
        /\ \A j \in 1 .. Len(s) : s[j] \in U <=> j <= Cardinality(U)
    <2> HIDE DEF U
    <2> QED
      BY <1>2, Prefix
  <1>4. s[i] \notin U
    BY <1>1 DEF Above
  <1>5. ASSUME i > 1
        PROVE  s[i - 1] \in U
    <2>1. i - 1 \in 1 .. Len(s) /\ i - 1 < i /\ i - 1 # i
      BY <1>1, <1>5
    <2>2. created_at[s[i - 1]] >= created_at[s[i]]
      BY <2>1 DEF Ordered
    <2>3. s[i - 1] \in Tickets \ {s[i]}
      BY <1>1, <2>1
    <2> QED
      BY <1>1, <2>1, <2>2, <2>3 DEF Untied, Above
  <1> HIDE DEF U
  <1>6. Cardinality(U) = i - 1
    BY <1>1, <1>3, <1>4, <1>5
  <1> QED
    BY <1>6 DEF U

(* The items of a page.                                                    *)
Items(s) == SubSeq(s, Offset + 1, Min({Offset + page_size, Len(s)}))

LEMMA PageOfRows ==
  ASSUME TypeInv, NEW s \in Ordered(Rows)
  PROVE  /\ Offset \in Nat
         /\ Items(s) \in Seq(Rows)
         /\ Len(Items(s)) = PageLength(Cardinality(Rows), Offset, page_size)
         /\ \A i \in 1 .. Len(Items(s)) :
               Offset + i \in 1 .. Len(s) /\ Items(s)[i] = s[Offset + i]
         /\ \A i \in 1 .. Len(s) : Offset < i /\ i <= Offset + page_size
               => /\ i - Offset \in 1 .. Len(Items(s))
                  /\ Items(s)[i - Offset] = s[i]
  <1> DEFINE o == Offset
  <1> DEFINE e == Min({o + page_size, Len(s)})
  <1>1. o \in Nat /\ page_size \in Nat \ {0}
    BY BeforeNext DEF TypeInv, Offset, Before
  <1>2. Rows \in SUBSET Tickets
    BY DEF TypeInv, Rows
  <1>3. s \in Seq(Rows) /\ Len(s) = Cardinality(Rows) /\ Len(s) \in Nat
    BY <1>2, OrderedIsBijection
  <1> HIDE DEF o
  <1>4. e = IF Len(s) < o + page_size THEN Len(s) ELSE o + page_size
    BY <1>1, <1>3 DEF Min
  <1>5. e \in Nat /\ e <= Len(s) /\ e <= o + page_size
    BY <1>1, <1>3, <1>4
  <1>6. Items(s) = SubSeq(s, o + 1, e)
    BY DEF Items, o
  <1>7. \A i \in (o + 1) .. e : s[i] \in Rows
    BY <1>1, <1>3, <1>5
  <1>8. /\ Items(s) \in Seq(Rows)
        /\ Len(Items(s)) = IF o + 1 <= e THEN e - (o + 1) + 1 ELSE 0
        /\ \A i \in 1 .. e - (o + 1) + 1 : Items(s)[i] = s[o + 1 + i - 1]
    <2> HIDE DEF e
    <2> QED
      BY <1>1, <1>5, <1>6, <1>7, SubSeqProperties
  <1>9. Len(Items(s)) = PageLength(Cardinality(Rows), o, page_size)
    BY <1>1, <1>3, <1>4, <1>8 DEF PageLength
  <1>10. ASSUME NEW i \in 1 .. Len(Items(s))
         PROVE  o + i \in 1 .. Len(s) /\ Items(s)[i] = s[o + i]
    <2> HIDE DEF e
    <2> DEFINE n == Len(Items(s))
    <2>1. i \in 1 .. n /\ n = IF o + 1 <= e THEN e - (o + 1) + 1 ELSE 0
      BY <1>8
    <2> HIDE DEF n
    <2>2. /\ i \in 1 .. e - (o + 1) + 1 /\ o + 1 + i - 1 = o + i
          /\ o + i \in 1 .. e
      BY <2>1, <1>1, <1>5
    <2>3. Items(s)[i] = s[o + 1 + i - 1]
      BY <2>2, <1>8
    <2>4. o + i \in 1 .. Len(s)
      BY <2>2, <1>1, <1>3, <1>5
    <2> QED
      BY <2>2, <2>3, <2>4
  <1>11. ASSUME NEW i \in 1 .. Len(s), o < i, i <= o + page_size
         PROVE  /\ i - o \in 1 .. Len(Items(s))
                /\ Items(s)[i - o] = s[i]
    <2>1. i <= e
      BY <1>1, <1>3, <1>4, <1>11
    <2> HIDE DEF e
    <2>2. i - o \in 1 .. Len(Items(s))
      BY <2>1, <1>1, <1>3, <1>5, <1>8, <1>11
    <2>3. o + (i - o) = i
      BY <1>1, <1>3
    <2> QED
      BY <2>2, <2>3, <1>10
  <1> QED
    BY <1>1, <1>8, <1>9, <1>10, <1>11 DEF o

-----------------------------------------------------------------------------
(* What the steps of the table do: times of begun transactions stay, so    *)
(* that a tie stays a tie, and the history of the walk is kept.            *)

TableStep == \E t \in Tickets : Begin(t) \/ Create(t) \/ Change(t)

Moved ==
    /\ created_at' \in [Tickets -> Nat] /\ HasNewest'
    /\ \A u \in Tickets : created_at[u] > 0 => created_at'[u] = created_at[u]
    /\ stored \subseteq stored' /\ stored' \subseteq Tickets
    /\ \A u \in stored' : created_at'[u] > 0
    /\ matching' \subseteq Tickets
    /\ UNCHANGED walk
    /\ IF place = "idle" THEN UNCHANGED <<arrived, left>>
       ELSE /\ arrived' = arrived \cup (Rows' \ Rows)
            /\ left' = left \cup (Rows \ Rows')

LEMMA NowIsNewest ==
  ASSUME TypeInv
  PROVE  Now \in Nat /\ \A u \in Tickets : created_at[u] <= Now
  <1> DEFINE T == {1} \cup Range(created_at)
  <1>1. \A n \in T : n \in Nat
    BY DEF TypeInv, Range
  <1>2. PICK m \in T : \A n \in T : m >= n
    BY DEF TypeInv, HasNewest
  <1>3. Now = CHOOSE x \in T : \A y \in T : x >= y
    BY DEF Now, Max
  <1>4. Now \in T /\ \A n \in T : Now >= n
    <2> HIDE DEF T
    <2> QED
      BY <1>2, <1>3
  <1>5. \A u \in Tickets : created_at[u] \in T
    BY DEF TypeInv, Range
  <1> QED
    BY <1>1, <1>4, <1>5

LEMMA TableStepMoves ==
  ASSUME TypeInv, TableStep
  PROVE  Moved
  <1>1. PICK t \in Tickets : Begin(t) \/ Create(t) \/ Change(t)
    BY DEF TableStep
  <1>2. CASE Begin(t)
    <2> DEFINE now == Now + 1
    <2>1. now \in Nat /\ now > 0 /\ \A u \in Tickets : created_at[u] <= now
      BY NowIsNewest DEF TypeInv
    <2>2. created_at \in [Tickets -> Nat] /\ created_at[t] = 0
      BY <1>2 DEF TypeInv, Begin
    <2>3. created_at' = [created_at EXCEPT ![t] = now]
      BY <1>2 DEF Begin
    <2> HIDE DEF now
    <2>4. created_at' \in [Tickets -> Nat]
      BY <2>1, <2>2, <2>3
    <2>5. now \in Range(created_at') /\ \A n \in Range(created_at') : now >= n
      BY <2>1, <2>2, <2>3 DEF Range
    <2>6. HasNewest'
      BY <2>1, <2>5 DEF HasNewest
    <2>7. UNCHANGED <<stored, matching, walk, arrived, left>> /\ Rows' = Rows
      BY <1>2 DEF Begin, Rows
    <2>8. \A u \in Tickets : created_at[u] > 0 => created_at'[u] = created_at[u]
      BY <2>2, <2>3
    <2>9. stored \subseteq Tickets /\ \A u \in stored : created_at[u] > 0
      BY DEF TypeInv
    <2>10. matching \subseteq Tickets
      BY DEF TypeInv
    <2> QED
      BY <2>4, <2>6, <2>7, <2>8, <2>9, <2>10 DEF Moved
  <1>3. CASE Create(t)
    BY <1>3 DEF TypeInv, Create, Moved, Track, HasNewest
  <1>4. CASE Change(t)
    BY <1>4 DEF TypeInv, Change, Moved, Track, HasNewest
  <1> QED
    BY <1>1, <1>2, <1>3, <1>4

(* A tie between two tickets is there since the later one began, and       *)
(* remains.                                                                *)
LEMMA TieStays ==
  ASSUME TypeInv, Moved, NEW t \in Tickets, created_at[t] > 0, Untied(t)'
  PROVE  Untied(t)
  <1> SUFFICES ASSUME NEW u \in Tickets \ {t}
               PROVE  created_at[u] # created_at[t]
    BY DEF Untied
  <1>1. created_at'[u] # created_at'[t] /\ created_at'[t] = created_at[t]
    BY DEF Untied, Moved
  <1>2. CASE created_at[u] > 0
    BY <1>1, <1>2 DEF Moved
  <1>3. CASE ~ (created_at[u] > 0)
    BY <1>3
  <1> QED
    BY <1>2, <1>3

LEMMA InitTypeInv == Init => TypeInv
  <1> SUFFICES ASSUME Init PROVE TypeInv
    OBVIOUS
  <1>1. created_at \in [Tickets -> Nat] /\ Range(created_at) \subseteq {0, 1}
    BY DEF Init, Range
  <1>2. HasNewest
    BY <1>1 DEF HasNewest
  <1>3. SeedTickets \subseteq Tickets /\ page_size \in Nat \ {0}
    BY ListingAssumption DEF Init
  <1>4. << >> \in Seq(Tickets)
    BY EmptySeq
  <1> QED
    BY <1>1, <1>2, <1>3, <1>4 DEF Init, TypeInv

LEMMA MovedTypeInv ==
  ASSUME TypeInv, Moved
  PROVE  TypeInv'
  <1>1. Rows \subseteq stored /\ Rows' \subseteq stored' /\ stored \subseteq stored'
    BY DEF Moved, Rows
  <1>2. arrived' \subseteq stored' /\ left' \subseteq stored'
    BY <1>1 DEF Moved, TypeInv
  <1> QED
    BY <1>2 DEF Moved, TypeInv, walk

(* What Fetch does, with the place of each item.                           *)
LEMMA FetchShows ==
  ASSUME TypeInv, Fetch
  PROVE  /\ TypeInv'
         /\ Seen' = Seen \o items' /\ Seen \in Seq(Tickets)
         /\ Len(items') = PageLength(Cardinality(Rows), Offset, page_size)
         /\ \E s \in Ordered(Rows) : items' = Items(s)
         /\ UNCHANGED <<Rows, created_at, stored, arrived, left, page_size,
                        total, counted>>
         /\ paged' = Rows
         /\ \/ place' = "done" /\ Len(items') < page_size /\ page' = page
            \/ /\ place' = "count" /\ Offset' = Offset + page_size
               /\ page' = page + 1
  <1>1. PICK s \in Ordered(Rows) : items' = Items(s)
    BY DEF Fetch, Items
  <1>2. items' \in Seq(Tickets)
    <2>1. Items(s) \in Seq(Rows) /\ Rows \subseteq Tickets
      BY PageOfRows DEF TypeInv, Rows
    <2>2. Items(s) \in Seq(Tickets)
      BY <2>1, SeqMonotonic
    <2> QED
      BY <1>1, <2>2
  <1>3. Len(items') = PageLength(Cardinality(Rows), Offset, page_size)
    BY <1>1, PageOfRows
  <1>4. shown' = Seen /\ Seen \in Seq(Tickets)
    BY ConcatProperties DEF Fetch, Seen, TypeInv
  <1>5. UNCHANGED <<Rows, created_at, stored, matching, arrived, left,
                    page_size, total, counted>>
    BY DEF Fetch, table, Rows
  <1>6. paged' = Rows /\ place = "page"
    BY DEF Fetch
  <1>7. page' \in Nat \ {0} /\ place' \in {"count", "done"}
    BY DEF Fetch, TypeInv
  <1>8. TypeInv'
    BY <1>2, <1>4, <1>5, <1>6, <1>7 DEF TypeInv, HasNewest, Rows
  <1>9. \/ place' = "done" /\ Len(items') < page_size /\ page' = page
        \/ place' = "count" /\ page' = page + 1
    BY DEF Fetch
  <1>10. page' = page + 1 => Offset' = Offset + page_size
    <2> SUFFICES ASSUME page' = page + 1 PROVE Offset' = Offset + page_size
      OBVIOUS
    <2>1. Offset = Before(page, page_size) /\ Offset' = Before(page', page_size')
      BY DEF Offset, Before
    <2>2. page \in Nat \ {0} /\ page_size \in Nat
      BY DEF TypeInv
    <2>3. Offset' = Before(page + 1, page_size)
      BY <2>1, <1>5
    <2> QED
      BY <2>1, <2>2, <2>3, BeforeNext
  <1> QED
    BY <1>1, <1>3, <1>4, <1>5, <1>6, <1>8, <1>9, <1>10 DEF Seen

LEMMA NextTypeInv == TypeInv /\ [Next]_vars => TypeInv'
  <1> SUFFICES ASSUME TypeInv, [Next]_vars PROVE TypeInv'
    OBVIOUS
  <1>1. CASE TableStep
    BY <1>1, TableStepMoves, MovedTypeInv
  <1>2. CASE Start
    BY <1>2 DEF Start, TypeInv, table, HasNewest
  <1>3. CASE Count
    BY <1>3 DEF Count, TypeInv, table, HasNewest, Rows
  <1>4. CASE Fetch
    BY <1>4, FetchShows
  <1>5. CASE Done \/ UNCHANGED vars
    BY <1>5 DEF Done, vars, table, walk, TypeInv, HasNewest
  <1> QED
    BY <1>1, <1>2, <1>3, <1>4, <1>5 DEF Next, TableStep

-----------------------------------------------------------------------------
(* Nothing is skipped.                                                     *)

LEMMA RangeOfConcat ==
  ASSUME NEW S, NEW a \in Seq(S), NEW b \in Seq(S)
  PROVE  Range(a \o b) = Range(a) \cup Range(b)
  <1>1. /\ Len(a) \in Nat /\ DOMAIN a = 1 .. Len(a)
        /\ Len(b) \in Nat /\ DOMAIN b = 1 .. Len(b)
    BY LenProperties
  <1>2. /\ a \o b \in Seq(S) /\ Len(a \o b) = Len(a) + Len(b)
        /\ \A i \in 1 .. Len(a) + Len(b) :
              (a \o b)[i] = IF i <= Len(a) THEN a[i] ELSE b[i - Len(a)]
    BY ConcatProperties
  <1>3. DOMAIN (a \o b) = 1 .. Len(a) + Len(b)
    BY <1>2, LenProperties
  <1>4. ASSUME NEW i \in 1 .. Len(a) PROVE a[i] \in Range(a \o b)
    <2>1. i \in 1 .. Len(a) + Len(b) /\ (a \o b)[i] = a[i]
      BY <1>1, <1>2
    <2> QED
      BY <2>1, <1>3 DEF Range
  <1>5. ASSUME NEW i \in 1 .. Len(b) PROVE b[i] \in Range(a \o b)
    <2>1. /\ Len(a) + i \in 1 .. Len(a) + Len(b)
          /\ ~ (Len(a) + i <= Len(a)) /\ Len(a) + i - Len(a) = i
      BY <1>1
    <2>2. (a \o b)[Len(a) + i] = b[i]
      BY <2>1, <1>2
    <2> QED
      BY <2>1, <2>2, <1>3 DEF Range
  <1>6. ASSUME NEW i \in 1 .. Len(a) + Len(b)
        PROVE  (a \o b)[i] \in Range(a) \cup Range(b)
    <2>1. CASE i <= Len(a)
      BY <2>1, <1>1, <1>2 DEF Range
    <2>2. CASE ~ (i <= Len(a))
      <3>1. i - Len(a) \in DOMAIN b
        BY <2>2, <1>1
      <3> QED
        BY <2>2, <3>1, <1>2 DEF Range
    <2> QED
      BY <2>1, <2>2
  <1> QED
    BY <1>1, <1>3, <1>4, <1>5, <1>6 DEF Range

LEMMA IdleShowsNothing ==
  ASSUME TypeInv, place = "idle"
  PROVE  Range(Seen) = {} /\ Len(Seen) = 0
  <1>1. Seen = << >> \o << >> /\ << >> \in Seq(Tickets)
    BY DEF TypeInv, Seen
  <1>2. Seen = << >>
    BY <1>1, ConcatEmptySeq
  <1> QED
    BY <1>2 DEF Range

LEMMA SeenType ==
  ASSUME TypeInv
  PROVE  Seen \in Seq(Tickets) /\ Len(Seen) \in Nat /\ DOMAIN Seen = 1 .. Len(Seen)
  <1>1. Seen \in Seq(Tickets)
    BY ConcatProperties DEF TypeInv, Seen
  <1> QED
    BY <1>1, LenProperties

(* Steps that change neither the table nor what was shown.                 *)
Quiet ==
    UNCHANGED <<created_at, stored, matching, page, page_size, items, shown,
                arrived, left>>

LEMMA QuietSame ==
  ASSUME Quiet
  PROVE  /\ UNCHANGED <<Rows, Seen, Offset>>
         /\ \A n : Newer(n)' = Newer(n)
         /\ \A t : /\ Untied(t)' = Untied(t) /\ Above(t)' = Above(t)
                   /\ Settled(t)' = Settled(t) /\ Reached(t)' = Reached(t)
                   /\ RepeatedLike(t)' = RepeatedLike(t)
                   /\ Overtaken(t, Range(Seen))' = Overtaken(t, Range(Seen))
  BY DEF Quiet, Rows, Seen, Offset, Untied, Above, Newer, Settled, Reached,
         RepeatedLike, Overtaken

LEMMA FirstOffset ==
  ASSUME TypeInv, page = 1
  PROVE  Offset = 0
  BY DEF TypeInv, Offset

LEMMA StepsOfNext ==
  ASSUME TypeInv, [Next]_vars
  PROVE  \/ Moved
         \/ Start /\ Quiet
         \/ Count /\ Quiet
         \/ Fetch
         \/ UNCHANGED vars /\ Quiet
  <1>1. CASE TableStep
    BY <1>1, TableStepMoves
  <1>2. Start => Quiet
    BY DEF Start, Quiet, table
  <1>3. Count => Quiet
    BY DEF Count, Quiet, table
  <1>4. UNCHANGED vars => Quiet
    BY DEF Quiet, vars, table, walk
  <1> QED
    BY <1>1, <1>2, <1>3, <1>4 DEF Next, TableStep, Done

(* While no row leaves, the rows that a walk has to pass only become more. *)
LEMMA RowsGrow ==
  ASSUME TypeInv, TypeInv', ShownWasRow, Moved, place # "idle", left' = {}
  PROVE  /\ left = {} /\ Rows \subseteq Rows' /\ Range(Seen) \subseteq Rows
         /\ arrived' = arrived \cup (Rows' \ Rows)
         /\ UNCHANGED <<place, items, shown, paged, Seen, Offset>>
         /\ \A u \in Rows : /\ u \in Tickets /\ created_at[u] \in Nat
                            /\ created_at'[u] = created_at[u]
         /\ \A n : Cardinality(Newer(n)) <= Cardinality(Newer(n)')
         /\ \A t \in Rows : Cardinality(Reached(t)) <= Cardinality(Reached(t)')
  <1>1. /\ left = {} /\ Rows \subseteq Rows'
        /\ arrived' = arrived \cup (Rows' \ Rows)
        /\ UNCHANGED <<place, items, shown, paged, Seen, Offset>>
    BY DEF Moved, walk, Seen, Offset
  <1>2. Range(Seen) \subseteq Rows
    BY <1>1 DEF ShownWasRow
  <1>3. \A u \in Rows : /\ u \in Tickets /\ created_at[u] \in Nat
                        /\ created_at'[u] = created_at[u]
    BY DEF TypeInv, Moved, Rows
  <1>4. Rows' \subseteq Tickets
    BY DEF TypeInv, Rows
  <1>5. ASSUME NEW n
        PROVE  Cardinality(Newer(n)) <= Cardinality(Newer(n)')
    <2>1. Newer(n) \in SUBSET (Newer(n)') /\ Newer(n)' \in SUBSET Tickets
      BY <1>1, <1>3, <1>4 DEF Newer
    <2> HIDE DEF Newer
    <2> QED
      BY <2>1, FewerRows
  <1>6. ASSUME NEW t \in Rows
        PROVE  Cardinality(Reached(t)) <= Cardinality(Reached(t)')
    <2>1. Reached(t) \in SUBSET (Reached(t)') /\ Reached(t)' \in SUBSET Tickets
      BY <1>1, <1>3, <1>4 DEF Reached, Above
    <2> HIDE DEF Reached
    <2> QED
      BY <2>1, FewerRows
  <1> QED
    BY <1>1, <1>2, <1>3, <1>5, <1>6

(* The items of a page, and the sequence of all that was shown.            *)
LEMMA FetchedItems ==
  ASSUME TypeInv, Fetch
  PROVE  /\ items' \in Seq(Rows) /\ Len(items') \in Nat
         /\ Range(items') \subseteq Rows
         /\ Range(Seen') = Range(Seen) \cup Range(items')
         /\ Len(Seen) \in Nat /\ Len(Seen') = Len(Seen) + Len(items')
         /\ DOMAIN Seen = 1 .. Len(Seen)
         /\ \A i \in 1 .. Len(Seen) : Seen'[i] = Seen[i]
         /\ \A k \in 1 .. Len(items') :
               /\ Seen'[Len(Seen) + k] = items'[k]
               /\ items'[k] \in Range(items')
         /\ Offset \in Nat /\ page_size \in Nat \ {0}
         /\ Len(items') <= page_size
  <1>1. PICK s \in Ordered(Rows) : items' = Items(s)
    BY FetchShows
  <1>2. items' \in Seq(Rows) /\ Rows \subseteq Tickets
    BY <1>1, PageOfRows DEF TypeInv, Rows
  <1>3. /\ items' \in Seq(Tickets) /\ Len(items') \in Nat
        /\ DOMAIN items' = 1 .. Len(items')
        /\ \A k \in 1 .. Len(items') : items'[k] \in Rows
    BY <1>2, SeqMonotonic, LenProperties, ElementOfSeq
  <1>4. Range(items') \subseteq Rows
    BY <1>3 DEF Range
  <1>5. \A k \in 1 .. Len(items') : items'[k] \in Range(items')
    BY <1>3 DEF Range
  <1>6. /\ Seen \in Seq(Tickets) /\ Len(Seen) \in Nat
        /\ DOMAIN Seen = 1 .. Len(Seen) /\ Seen' = Seen \o items'
    BY FetchShows, LenProperties
  <1>7. Range(Seen') = Range(Seen) \cup Range(items')
    BY <1>3, <1>6, RangeOfConcat
  <1>8. /\ Len(Seen \o items') = Len(Seen) + Len(items')
        /\ \A i \in 1 .. Len(Seen) + Len(items') :
              (Seen \o items')[i] = IF i <= Len(Seen) THEN Seen[i]
                                    ELSE items'[i - Len(Seen)]
    BY <1>3, <1>6, ConcatProperties
  <1>9. \A i \in 1 .. Len(Seen) : Seen'[i] = Seen[i]
    BY <1>3, <1>6, <1>8
  <1>10. ASSUME NEW k \in 1 .. Len(items')
         PROVE  Seen'[Len(Seen) + k] = items'[k]
    <2>1. /\ Len(Seen) + k \in 1 .. Len(Seen) + Len(items')
          /\ ~ (Len(Seen) + k <= Len(Seen)) /\ Len(Seen) + k - Len(Seen) = k
      BY <1>3, <1>6
    <2> QED
      BY <1>6, <1>8, <2>1
  <1>11. /\ Offset \in Nat /\ page_size \in Nat \ {0}
         /\ Cardinality(Rows) \in Nat
    BY <1>1, <1>2, PageOfRows, SomeRows DEF TypeInv
  <1>12. Len(items') <= page_size
    BY <1>11, FetchShows DEF PageLength
  <1> QED
    BY <1>2, <1>3, <1>4, <1>5, <1>6, <1>7, <1>8, <1>9, <1>10, <1>11, <1>12

(* A repetition remains one, and an item shown before is a new one.        *)
LEMMA RepeatsStay ==
  ASSUME TypeInv, Fetch, NEW t
  PROVE  /\ RepeatedLike(t) => RepeatedLike(t)'
         /\ \A k \in 1 .. Len(items') :
               (/\ items'[k] \in Range(Seen)
                /\ created_at[items'[k]] = created_at[t]) => RepeatedLike(t)'
  <1>1. UNCHANGED created_at
    BY FetchShows
  <1>2. ASSUME RepeatedLike(t)
        PROVE  RepeatedLike(t)'
    <2>1. PICK i \in 1 .. Len(Seen), j \in 1 .. Len(Seen) :
             i # j /\ Seen[i] = Seen[j] /\ created_at[Seen[i]] = created_at[t]
      BY <1>2 DEF RepeatedLike
    <2>2. /\ i \in 1 .. Len(Seen') /\ j \in 1 .. Len(Seen')
          /\ Seen'[i] = Seen[i] /\ Seen'[j] = Seen[j]
      BY <2>1, FetchedItems
    <2> QED
      BY <1>1, <2>1, <2>2 DEF RepeatedLike
  <1>3. ASSUME NEW k \in 1 .. Len(items'), items'[k] \in Range(Seen),
               created_at[items'[k]] = created_at[t]
        PROVE  RepeatedLike(t)'
    <2>1. PICK i \in 1 .. Len(Seen) : Seen[i] = items'[k]
      BY <1>3, FetchedItems DEF Range
    <2> DEFINE j == Len(Seen) + k
    <2>2. /\ i \in 1 .. Len(Seen') /\ j \in 1 .. Len(Seen') /\ i # j
          /\ Seen'[i] = items'[k] /\ Seen'[j] = items'[k]
      BY <2>1, FetchedItems
    <2> QED
      BY <1>1, <1>3, <2>2 DEF RepeatedLike
  <1> QED
    BY <1>2, <1>3

(* A page advances the walk towards a ticket that is still to come: if     *)
(* nothing was repeated, all places up to the end of the page, or up to    *)
(* the last one that the ticket can have, are accounted for.               *)
LEMMA FetchReaches ==
  ASSUME TypeInv, TypeInv', Fetch, NEW t \in Rows, t \notin Range(Seen'),
         ~ RepeatedLike(t)', Cardinality(Reached(t)) >= Offset
  PROVE  /\ Cardinality(Reached(t)') >= Offset + page_size
         /\ Len(items') = page_size
  <1> DEFINE o == Offset
  <1> DEFINE e == Offset + page_size
  <1> DEFINE A == Above(t)
  <1> DEFINE W == {u \in Rows : created_at[u] >= created_at[t]}
  <1> DEFINE D == Reached(t)
  <1> DEFINE E == Reached(t)'
  <1> DEFINE q == IF Cardinality(W) < e THEN Cardinality(W) ELSE e
  <1>1. PICK s \in Ordered(Rows) : items' = Items(s)
    BY FetchShows
  <1>2. /\ UNCHANGED <<Rows, created_at>> /\ A' = A
        /\ Range(Seen') = Range(Seen) \cup Range(items')
    BY FetchShows, FetchedItems DEF Above
  <1>3. /\ Rows \in SUBSET Tickets /\ \A u \in Rows : created_at[u] \in Nat
        /\ s \in Seq(Rows) /\ Len(s) \in Nat /\ Len(s) = Cardinality(Rows)
        /\ \A i \in 1 .. Len(s) : s[i] \in Rows
    <2>1. Rows \in SUBSET Tickets /\ \A u \in Rows : created_at[u] \in Nat
      BY DEF TypeInv, Rows
    <2>2. s \in Seq(Rows) /\ Len(s) = Cardinality(Rows)
      BY <2>1, OrderedIsBijection
    <2> QED
      BY <2>1, <2>2, LenProperties, ElementOfSeq
  <1>4. /\ A \in SUBSET W /\ W \in SUBSET Rows /\ t \in W
        /\ A \in SUBSET D /\ D \in SUBSET E /\ E \in SUBSET W
        /\ t \notin E
    BY <1>2, <1>3 DEF Reached, Above
  <1>5. /\ \A u \in A, v \in Rows : created_at[v] >= created_at[u] => v \in A
        /\ \A u \in W, v \in Rows : created_at[v] >= created_at[u] => v \in W
    BY <1>3 DEF Above
  <1>6. /\ Cardinality(A) \in Nat
        /\ \A i \in 1 .. Len(s) : s[i] \in A <=> i <= Cardinality(A)
    <2>1. A \in SUBSET Rows
      BY <1>4
    <2> HIDE DEF A
    <2> QED
      BY <1>5, <2>1, Prefix
  <1>7. /\ Cardinality(W) \in Nat /\ Cardinality(W) <= Len(s)
        /\ \A i \in 1 .. Len(s) : s[i] \in W <=> i <= Cardinality(W)
    <2> HIDE DEF W
    <2> QED
      BY <1>4, <1>5, Prefix
  <1>8. /\ o \in Nat /\ page_size \in Nat \ {0} /\ e \in Nat
        /\ q \in Nat /\ q <= Len(s) /\ q <= e /\ q <= Cardinality(W)
    BY <1>7, FetchedItems
  <1>9. ASSUME NEW i \in (o + 1) .. q
        PROVE  /\ i \in 1 .. Len(s) /\ s[i] \in E
               /\ i > Cardinality(A) => s[i] \notin D
    <2>1. /\ i \in 1 .. Len(s) /\ o < i /\ i <= e /\ i <= Cardinality(W)
      BY <1>3, <1>7, <1>8
    <2>2. i - o \in 1 .. Len(items') /\ items'[i - o] = s[i]
      BY <1>1, <2>1, PageOfRows
    <2>3. s[i] \in W /\ s[i] \in Range(Seen') /\ s[i] \in Rows
      BY <1>2, <1>3, <1>7, <2>1, <2>2, FetchedItems
    <2>4. s[i] \in E
      BY <1>2, <1>3, <2>3 DEF Reached, Above
    <2>5. ASSUME i > Cardinality(A), s[i] \in D
          PROVE  FALSE
      <3>1. s[i] \notin A
        BY <1>6, <2>1, <2>5
      <3>2. s[i] \in Range(Seen) /\ created_at[s[i]] = created_at[t]
        BY <2>5, <3>1 DEF Reached
      <3> QED
        BY <2>2, <3>2, RepeatsStay
    <2> QED
      BY <2>1, <2>4, <2>5
  <1>10. /\ IsFiniteSet(D) /\ Cardinality(D) \in Nat
         /\ IsFiniteSet(E) /\ Cardinality(E) \in Nat
         /\ Cardinality(D) <= Cardinality(E)
    <2>1. D \in SUBSET Tickets /\ E \in SUBSET Tickets /\ D \in SUBSET E
      BY <1>3, <1>4
    <2> HIDE DEF D, E
    <2> QED
      BY <2>1, SomeRows, FewerRows
  <1>11. E \in SUBSET Tickets /\ W \in SUBSET Tickets
    BY <1>3, <1>4
  <1>12. Cardinality(D) >= o
    OBVIOUS
  <1> HIDE DEF A, W, D, E, o, e, q
  <1>13. Cardinality(E) >= q
    <2>1. CASE q <= o
      BY <1>8, <1>10, <1>12, <2>1
    <2>2. CASE o < q /\ o <= Cardinality(A)
      <3>1. Between(s, 0, q) \in SUBSET E
        <4>1. ASSUME NEW i \in (0 + 1) .. q
              PROVE  s[i] \in E
          <5>1. i \in 1 .. Len(s)
            BY <1>3, <1>8
          <5>2. CASE i <= o
            BY <1>4, <1>6, <1>8, <2>2, <5>1, <5>2
          <5>3. CASE ~ (i <= o)
            BY <1>8, <1>9, <5>3
          <5> QED
            BY <5>2, <5>3
        <4> QED
          BY <4>1 DEF Between
      <3>2. Cardinality(Between(s, 0, q)) = q
        <4>1. Cardinality(Between(s, 0, q)) = q - 0
          BY <1>8, Placed
        <4> QED
          BY <1>8, <4>1
      <3> QED
        BY <1>11, <3>1, <3>2, FewerRows
    <2>3. CASE o < q /\ ~ (o <= Cardinality(A))
      <3> DEFINE J == Between(s, o, q)
      <3>1. J \in SUBSET E /\ J \cap D = {}
        <4>1. \A i \in (o + 1) .. q : i > Cardinality(A)
          BY <1>6, <1>8, <2>3
        <4> QED
          BY <1>9, <4>1 DEF Between
      <3>2. Cardinality(J) = q - o
        BY <1>8, <2>3, Placed
      <3> HIDE DEF J
      <3>3. IsFiniteSet(J)
        BY <1>10, <3>1, FS_Subset
      <3>4. Cardinality(D \cup J) = Cardinality(D) + Cardinality(J)
        <4>1. Cardinality(D \cap J) = 0
          <5>1. D \cap J = {}
            BY <3>1
          <5> QED
            BY <5>1, FS_EmptySet
        <4>2. Cardinality(D \cup J) =
                 Cardinality(D) + Cardinality(J) - Cardinality(D \cap J)
          BY <1>10, <3>3, FS_Union
        <4> QED
          BY <1>8, <1>10, <2>3, <3>2, <4>1, <4>2
      <3>5. (D \cup J) \in SUBSET E
        BY <1>4, <3>1
      <3>6. Cardinality(D \cup J) <= Cardinality(E)
        BY <1>11, <3>5, FewerRows
      <3> QED
        BY <1>8, <1>10, <1>12, <3>2, <3>4, <3>6
    <2> QED
      BY <1>8, <2>1, <2>2, <2>3
  <1>14. Cardinality(E) < Cardinality(W)
    <2>1. IsFiniteSet(W) /\ E # W
      BY <1>4, <1>11, SomeRows
    <2>2. /\ Cardinality(E) <= Cardinality(W)
          /\ Cardinality(W) = Cardinality(E) => W = E
      BY <1>4, <2>1, FS_Subset
    <2> QED
      BY <1>7, <1>10, <2>1, <2>2
  <1>15. Cardinality(E) >= e /\ e < Cardinality(W)
    BY <1>7, <1>8, <1>10, <1>13, <1>14 DEF q
  <1>16. Len(items') = page_size
    <2>1. Len(items') = PageLength(Len(s), o, page_size)
      BY <1>3, FetchShows DEF o
    <2>2. ~ (Len(s) < o) /\ ~ (Len(s) - o < page_size)
      BY <1>3, <1>7, <1>8, <1>15 DEF e, o
    <2> QED
      BY <2>1, <2>2 DEF PageLength
  <1> QED
    BY <1>15, <1>16 DEF E, e

(* Everything shown is newer, so that all shown places are of newer rows.  *)
LEMMA NextDeep ==
  ASSUME TypeInv, TypeInv', ShownWasRow, Deep, [Next]_vars
  PROVE  Deep'
  <1>0. /\ Offset \in Nat
        /\ \A n : Cardinality(Newer(n)) \in Nat /\ Cardinality(Newer(n)') \in Nat
    <2>1. Offset \in Nat
      BY BeforeNext DEF TypeInv, Offset, Before
    <2>2. \A n : Newer(n) \in SUBSET Tickets /\ Newer(n)' \in SUBSET Tickets
      BY DEF TypeInv, Newer, Rows
    <2> HIDE DEF Newer
    <2> QED
      BY <2>1, <2>2, SomeRows
  <1>1. CASE Moved
    <2>1. SUFFICES ASSUME place' \in {"count", "page"}, left' = {},
                          NEW n \in Nat,
                          \A u \in Range(Seen') : created_at'[u] > n
                   PROVE  Cardinality(Newer(n)') >= Offset'
      BY DEF Deep
    <2>2. place # "idle"
      BY <1>1, <2>1 DEF Moved, walk
    <2>3. Cardinality(Newer(n)) >= Offset
      BY <1>1, <2>1, <2>2, RowsGrow DEF Deep
    <2> QED
      BY <1>0, <1>1, <2>1, <2>2, <2>3, RowsGrow
  <1>2. CASE Start /\ Quiet
    <2>1. place' = "count" /\ page = 1
      BY <1>2 DEF Start, TypeInv
    <2>2. Offset' = 0
      BY <1>2, <2>1, FirstOffset, QuietSame
    <2> QED
      BY <1>0, <2>2 DEF Deep
  <1>3. CASE Count /\ Quiet
    <2>1. place = "count" /\ UNCHANGED <<created_at, left>>
      BY <1>3 DEF Count, Quiet
    <2> QED
      BY <1>3, <2>1, QuietSame DEF Deep
  <1>4. CASE Fetch
    <2>1. SUFFICES ASSUME place' = "count", left' = {}, NEW n \in Nat,
                          \A u \in Range(Seen') : created_at'[u] > n
                   PROVE  Cardinality(Newer(n)') >= Offset'
      BY <1>4 DEF Deep, Fetch
    <2>2. PICK s \in Ordered(Rows) : items' = Items(s)
      BY <1>4, FetchShows
    <2>3. /\ UNCHANGED <<Rows, created_at>> /\ Newer(n)' = Newer(n)
          /\ Offset' = Offset + page_size
      BY <1>4, <2>1, FetchShows DEF Newer
    <2>4. Len(items') = page_size /\ page_size \in Nat \ {0}
      <3>1. ~ (Len(items') < page_size)
        BY <1>4, <2>1 DEF Fetch
      <3>2. /\ Len(items') <= page_size /\ Len(items') \in Nat
            /\ page_size \in Nat \ {0}
        BY <1>4, FetchedItems
      <3> QED
        BY <3>1, <3>2
    <2>5. /\ page_size \in 1 .. Len(items')
          /\ Offset + page_size \in 1 .. Len(s)
          /\ items'[page_size] = s[Offset + page_size]
      BY <2>2, <2>4, PageOfRows
    <2>6. s[Offset + page_size] \in Newer(n)
      BY <1>4, <2>1, <2>3, <2>5, FetchedItems DEF Newer
    <2>7. /\ Newer(n) \in SUBSET Rows
          /\ \A u \in Newer(n), v \in Rows :
                created_at[v] >= created_at[u] => v \in Newer(n)
      <3>1. \A u \in Rows : created_at[u] \in Nat
        BY DEF TypeInv, Rows
      <3> QED
        BY <3>1 DEF Newer
    <2>8. Offset + page_size <= Cardinality(Newer(n))
      BY <2>5, <2>6, <2>7, Prefix
    <2> QED
      BY <1>0, <2>3, <2>4, <2>8
  <1>5. CASE UNCHANGED vars /\ Quiet
    <2>1. UNCHANGED <<place, created_at, left>>
      BY <1>5 DEF vars, walk, table
    <2> QED
      BY <1>5, <2>1, QuietSame DEF Deep
  <1> QED
    BY <1>1, <1>2, <1>3, <1>4, <1>5, StepsOfNext

LEMMA NextAhead ==
  ASSUME TypeInv, TypeInv', ShownWasRow, Deep, Ahead, MissedIsExplained,
         [Next]_vars
  PROVE  Ahead' /\ MissedIsExplained'
  <1>0. /\ Offset \in Nat
        /\ \A t : Cardinality(Reached(t)) \in Nat
                  /\ Cardinality(Reached(t)') \in Nat
    <2>1. Offset \in Nat
      BY BeforeNext DEF TypeInv, Offset, Before
    <2>2. \A t : Reached(t) \in SUBSET Tickets /\ Reached(t)' \in SUBSET Tickets
      BY DEF TypeInv, Reached, Above, Rows
    <2> HIDE DEF Reached
    <2> QED
      BY <2>1, <2>2, SomeRows
  <1>1. CASE Moved
    <2>1. UNCHANGED <<place, items, shown, paged, Seen, Offset>>
      BY <1>1 DEF Moved, walk, Seen, Offset
    <2>2. \A i \in 1 .. Len(Seen) : Seen[i] \in Range(Seen)
      BY SeenType DEF Range
    <2>3. ASSUME place # "idle", left' = {}, NEW t \in stored
          PROVE  /\ RepeatedLike(t) => RepeatedLike(t)'
                 /\ \A S \in SUBSET Range(Seen) :
                       Overtaken(t, S) => Overtaken(t, S)'
      <3>1. \A u \in Range(Seen) : created_at'[u] = created_at[u]
        BY <1>1, <2>3, RowsGrow
      <3>2. created_at'[t] = created_at[t]
        BY <1>1, <2>3 DEF TypeInv, Moved
      <3>3. arrived \subseteq arrived'
        BY <1>1, <2>3, RowsGrow
      <3> QED
        BY <2>1, <2>2, <3>1, <3>2, <3>3 DEF RepeatedLike, Overtaken
    <2>4. ASSUME place \in {"count", "page"}, left' = {},
                 NEW t \in Rows' \ Range(Seen), ~ RepeatedLike(t)',
                 ~ Overtaken(t, Range(Seen))'
          PROVE  Cardinality(Reached(t)') >= Offset
      <3>1. /\ left = {} /\ Range(Seen) \subseteq Rows
            /\ arrived' = arrived \cup (Rows' \ Rows)
        BY <1>1, <2>4, RowsGrow
      <3>2. CASE t \in Rows
        <4>1. t \in stored
          BY <3>2 DEF Rows
        <4>2. ~ RepeatedLike(t) /\ ~ Overtaken(t, Range(Seen))
          BY <2>1, <2>3, <2>4, <4>1 DEF Overtaken
        <4>3. Cardinality(Reached(t)) >= Offset
          BY <2>4, <3>1, <3>2, <4>2 DEF Ahead
        <4>4. Cardinality(Reached(t)) <= Cardinality(Reached(t)')
          BY <1>1, <2>4, <3>2, RowsGrow
        <4> QED
          BY <1>0, <4>3, <4>4
      <3>3. CASE t \notin Rows
        <4>1. t \in arrived' /\ created_at'[t] \in Nat
          BY <2>4, <3>1, <3>3 DEF TypeInv, Rows
        <4> PICK n \in Nat : n = created_at'[t]
          BY <4>1
        <4>2. ASSUME NEW u \in Range(Seen)
              PROVE  created_at[u] > n
          <5>1. ~ (created_at'[u] <= n)
            BY <2>1, <2>4, <4>1, <4>2 DEF Overtaken
          <5>2. created_at'[u] = created_at[u] /\ created_at[u] \in Nat
            BY <1>1, <2>4, <3>1, <4>2, RowsGrow
          <5> QED
            BY <5>1, <5>2
        <4>3. Cardinality(Newer(n)) >= Offset
          BY <2>4, <3>1, <4>2 DEF Deep
        <4>4. Cardinality(Newer(n)) <= Cardinality(Newer(n)')
          BY <1>1, <2>4, RowsGrow
        <4>5. Newer(n)' \in SUBSET (Reached(t)')
          BY <4>1 DEF Newer, Reached, Above
        <4>6. Reached(t)' \in SUBSET Tickets
          BY DEF TypeInv, Reached, Above, Rows
        <4>7. Cardinality(Newer(n)') <= Cardinality(Reached(t)')
          BY <4>5, <4>6, FewerRows
        <4>8. Cardinality(Newer(n)) \in Nat /\ Cardinality(Newer(n)') \in Nat
          <5>1. Newer(n) \in SUBSET Tickets /\ Newer(n)' \in SUBSET Tickets
            BY DEF TypeInv, Newer, Rows
          <5> QED
            BY <5>1, SomeRows
        <4> QED
          BY <1>0, <4>3, <4>4, <4>7, <4>8
      <3> QED
        BY <3>2, <3>3
    <2>5. Ahead'
      BY <2>1, <2>4 DEF Ahead
    <2>6. MissedIsExplained'
      <3>1. SUFFICES ASSUME place = "done", left' = {},
                            NEW t \in paged \ Range(Seen)
                     PROVE  RepeatedLike(t)' \/ Overtaken(t, Range(shown))'
        BY <2>1 DEF MissedIsExplained
      <3>2. left = {} /\ t \in stored
        BY <1>1, <3>1, RowsGrow DEF TypeInv
      <3>3. RepeatedLike(t) \/ Overtaken(t, Range(shown))
        BY <3>1, <3>2 DEF MissedIsExplained
      <3>4. Range(shown) \in SUBSET Range(Seen)
        BY RangeOfConcat DEF TypeInv, Seen
      <3>5. RepeatedLike(t)' \/ (Overtaken(t, Range(shown)))'
        BY <2>1, <2>3, <3>1, <3>2, <3>3, <3>4 DEF Overtaken
      <3> QED
        BY <3>5
    <2> QED
      BY <2>5, <2>6
  <1>2. CASE Start /\ Quiet
    <2>1. place' = "count" /\ page = 1
      BY <1>2 DEF Start, TypeInv
    <2>2. Offset' = 0
      BY <1>2, <2>1, FirstOffset, QuietSame
    <2> QED
      BY <1>0, <2>1, <2>2 DEF Ahead, MissedIsExplained
  <1>3. CASE Count /\ Quiet
    <2>1. place = "count" /\ place' = "page" /\ UNCHANGED left
      BY <1>3 DEF Count
    <2> QED
      BY <1>3, <2>1, QuietSame DEF Ahead, MissedIsExplained
  <1>4. CASE Fetch
    <2>1. /\ UNCHANGED <<Rows, created_at, arrived, left, page_size>>
          /\ paged' = Rows /\ place = "page" /\ shown' = Seen
          /\ Range(Seen') = Range(Seen) \cup Range(items')
      BY <1>4, FetchShows, FetchedItems DEF Fetch, Seen
    <2>2. ASSUME left = {}, NEW t \in Rows \ Range(Seen'),
                 ~ RepeatedLike(t)', ~ Overtaken(t, Range(Seen))
          PROVE  /\ Cardinality(Reached(t)') >= Offset + page_size
                 /\ place' = "count" /\ Offset' = Offset + page_size
      <3>1. ~ RepeatedLike(t)
        BY <1>4, <2>2, RepeatsStay
      <3>2. Cardinality(Reached(t)) >= Offset
        BY <2>1, <2>2, <3>1 DEF Ahead
      <3>3. /\ Cardinality(Reached(t)') >= Offset + page_size
            /\ Len(items') = page_size
        BY <1>4, <2>2, <3>2, FetchReaches
      <3>4. ~ (Len(items') < page_size)
        BY <1>4, <3>3, FetchedItems
      <3> QED
        BY <1>4, <3>3, <3>4, FetchShows
    <2>3. \A t : Overtaken(t, Range(Seen)) =>
                    /\ (Overtaken(t, Range(Seen)))'
                    /\ (Overtaken(t, Range(shown)))'
      BY <2>1 DEF Overtaken
    <2>4. Ahead'
      BY <2>1, <2>2, <2>3 DEF Ahead
    <2>5. MissedIsExplained'
      BY <2>1, <2>2, <2>3 DEF MissedIsExplained
    <2> QED
      BY <2>4, <2>5
  <1>5. CASE UNCHANGED vars /\ Quiet
    <2>1. UNCHANGED <<place, left, paged, shown, arrived, created_at>>
      BY <1>5 DEF vars, walk, table
    <2> QED
      BY <1>5, <2>1, QuietSame DEF Ahead, MissedIsExplained, Overtaken
  <1> QED
    BY <1>1, <1>2, <1>3, <1>4, <1>5, StepsOfNext

-----------------------------------------------------------------------------
(* Nothing is shown twice without a reason.                                *)

LEMMA NextShownWasRow ==
  ASSUME TypeInv, ShownWasRow, [Next]_vars
  PROVE  ShownWasRow'
  <1>1. CASE Moved
    <2>1. SUFFICES ASSUME NEW t \in Range(Seen)
                   PROVE  t \in Rows' \cup left'
      BY <1>1 DEF ShownWasRow, Moved, walk, Seen
    <2>2. place # "idle"
      BY <2>1, IdleShowsNothing
    <2> QED
      BY <1>1, <2>2 DEF ShownWasRow, Moved
  <1>2. CASE Quiet
    BY <1>2, QuietSame DEF ShownWasRow, Quiet
  <1>3. CASE Fetch
    <2>1. PICK s \in Ordered(Rows) : items' = Items(s)
      BY <1>3, FetchShows
    <2>2. items' \in Seq(Rows)
      BY <2>1, PageOfRows
    <2>3. Range(items') \subseteq Rows
      BY <2>2, LenProperties, ElementOfSeq DEF Range
    <2>4. /\ Seen' = Seen \o items' /\ Seen \in Seq(Tickets)
          /\ UNCHANGED <<Rows, left>> /\ TypeInv'
      BY <1>3, FetchShows
    <2>5. Range(Seen') = Range(Seen) \cup Range(items')
      BY <2>4, RangeOfConcat DEF TypeInv
    <2> QED
      BY <2>3, <2>4, <2>5 DEF ShownWasRow
  <1> QED
    BY <1>1, <1>2, <1>3, StepsOfNext

(* A ticket that is settled after a step of the table was so before it,    *)
(* and nothing arrived above it.                                           *)
LEMMA SettledBefore ==
  ASSUME TypeInv, TypeInv', ShownWasRow, Moved, NEW t \in Range(Seen), Settled(t)'
  PROVE  Settled(t) /\ Cardinality(Above(t)') <= Cardinality(Above(t))
  <1>1. place # "idle"
    BY IdleShowsNothing
  <1>2. /\ arrived' = arrived \cup (Rows' \ Rows)
        /\ left' = left \cup (Rows \ Rows')
    BY <1>1 DEF Moved
  <1>3. /\ Untied(t)'
        /\ \A u \in arrived' : ~ (created_at'[u] > created_at'[t])
    BY DEF Settled
  <1>4. t \in stored
    BY DEF ShownWasRow, Rows, TypeInv
  <1>5. \A u \in stored : u \in Tickets /\ created_at[u] > 0 /\ created_at'[u] = created_at[u]
    BY DEF TypeInv, Moved
  <1>6. Rows \subseteq stored /\ arrived \subseteq stored
    BY DEF Rows, TypeInv
  <1>7. Untied(t)
    BY <1>3, <1>4, <1>5, <1>6, TieStays
  <1>8. \A u \in arrived : ~ (created_at[u] > created_at[t])
    BY <1>2, <1>3, <1>4, <1>5, <1>6
  <1>9. Settled(t)
    BY <1>2, <1>3, <1>7, <1>8 DEF Settled
  <1>10. ASSUME NEW u \in Above(t)' PROVE u \in Above(t)
    <2>1. u \in Rows' /\ created_at'[u] > created_at'[t]
      BY DEF Above
    <2>2. u \in Rows
      BY <2>1, <1>2, <1>3
    <2> QED
      BY <2>1, <2>2, <1>4, <1>5, <1>6 DEF Above
  <1>11. Above(t)' \in SUBSET Above(t)
    BY <1>10
  <1>12. Above(t) \in SUBSET Tickets
    BY DEF Above, Rows, TypeInv
  <1> HIDE DEF Above
  <1>13. Cardinality(Above(t)') <= Cardinality(Above(t))
    BY <1>11, <1>12, FewerRows
  <1> QED
    BY <1>9, <1>13

LEMMA NextBehind ==
  ASSUME TypeInv, TypeInv', ShownWasRow, Behind, RepeatIsArrival, [Next]_vars
  PROVE  Behind' /\ RepeatIsArrival'
  <1>0. \A t \in Tickets : /\ Cardinality(Above(t)) \in Nat
                           /\ Cardinality(Above(t)') \in Nat
    <2> TAKE t \in Tickets
    <2>1. Above(t) \in SUBSET Tickets /\ Above(t)' \in SUBSET Tickets
      BY DEF Above, Rows, TypeInv
    <2> QED
      BY <2>1, SomeRows
  <1>1. /\ Seen \in Seq(Tickets) /\ Len(Seen) \in Nat
        /\ DOMAIN Seen = 1 .. Len(Seen) /\ Range(Seen) \subseteq Tickets
    BY SeenType DEF Range
  <1>2. CASE Moved
    <2>1. UNCHANGED <<place, Seen, Offset>>
      BY <1>2 DEF Moved, walk, Seen, Offset
    <2>2. Offset \in Nat
      BY BeforeNext DEF TypeInv, Offset, Before
    <2>3. \A t \in Range(Seen) : Settled(t)' =>
             Settled(t) /\ Cardinality(Above(t)') <= Cardinality(Above(t))
      BY <1>2, SettledBefore
    <2>4. Behind'
      BY <2>1, <2>2, <2>3, <1>0, <1>1 DEF Behind
    <2>5. RepeatIsArrival'
      BY <2>1, <2>3, <1>1 DEF RepeatIsArrival, Settled, Range
    <2> QED
      BY <2>4, <2>5
  <1>3. CASE Start /\ Quiet
    <2>1. Range(Seen) = {} /\ Len(Seen) = 0 /\ Seen' = Seen
      BY <1>3, IdleShowsNothing, QuietSame DEF Start
    <2> QED
      BY <2>1 DEF Behind, RepeatIsArrival
  <1>4. CASE Count /\ Quiet
    <2>1. place = "count" /\ UNCHANGED <<created_at, left, arrived>>
      BY <1>4 DEF Count, table
    <2> QED
      BY <1>4, <2>1, QuietSame DEF Behind, RepeatIsArrival
  <1>5. CASE UNCHANGED vars /\ Quiet
    <2>1. UNCHANGED <<created_at, place, left, arrived>>
      BY <1>5 DEF vars, table, walk
    <2> QED
      BY <1>5, <2>1, QuietSame DEF Behind, RepeatIsArrival
  <1>6. CASE Fetch
    <2>1. PICK s \in Ordered(Rows) : items' = Items(s)
      BY <1>6, FetchShows
    <2>2. place = "page" /\ items' \in Seq(Tickets) /\ Rows \in SUBSET Tickets
      BY <1>6 DEF Fetch, TypeInv, Rows
    <2>3. /\ Seen' = Seen \o items'
          /\ Len(items') = PageLength(Cardinality(Rows), Offset, page_size)
          /\ UNCHANGED <<Rows, created_at, arrived, left, page_size>>
      BY <1>6, FetchShows
    <2>4. Range(Seen') = Range(Seen) \cup Range(items')
      BY <1>1, <2>2, <2>3, RangeOfConcat
    <2>5. \A t : /\ Untied(t)' = Untied(t) /\ Above(t)' = Above(t)
                 /\ Settled(t)' = Settled(t)
      BY <2>3 DEF Untied, Above, Settled
    <2>6. /\ Offset \in Nat /\ page_size \in Nat \ {0}
          /\ Cardinality(Rows) \in Nat /\ Len(items') <= page_size
      <3>1. Offset \in Nat /\ page_size \in Nat \ {0} /\ Cardinality(Rows) \in Nat
        BY <2>1, <2>2, PageOfRows, SomeRows DEF TypeInv
      <3> QED
        BY <2>3, <3>1 DEF PageLength
    <2>7. ASSUME NEW k \in 1 .. Len(items'), NEW t, t = items'[k], Untied(t)
          PROVE  Cardinality(Above(t)) = Offset + k - 1
      <3>1. PICK i \in 1 .. Len(s) : i = Offset + k /\ s[i] = t
        BY <2>1, <2>7, PageOfRows
      <3>2. Cardinality(Above(s[i])) = i - 1
        BY <2>7, <3>1, Rank
      <3>3. Above(s[i]) = Above(t)
        BY <3>1 DEF Above
      <3> QED
        BY <2>6, <3>1, <3>2, <3>3
    <2>8. Len(items') \in Nat /\ DOMAIN items' = 1 .. Len(items')
      BY <2>2, LenProperties
    <2>9. ASSUME place' # "done", NEW t \in Range(Seen'), Settled(t)
          PROVE  Cardinality(Above(t)) < Offset'
      <3>1. Offset' = Offset + page_size
        BY <1>6, <2>9, FetchShows
      <3>2. CASE t \in Range(Seen)
        <4>1. Cardinality(Above(t)) < Offset
          BY <2>2, <2>9, <3>2 DEF Behind
        <4> QED
          BY <3>1, <3>2, <4>1, <2>6, <1>0, <1>1
      <3>3. CASE t \in Range(items')
        <4>1. PICK k \in 1 .. Len(items') : items'[k] = t
          BY <2>8, <3>3 DEF Range
        <4>2. Cardinality(Above(t)) = Offset + k - 1
          BY <2>7, <2>9, <4>1 DEF Settled
        <4> QED
          BY <3>1, <4>2, <2>6, <2>8
      <3> QED
        BY <2>4, <2>9, <3>2, <3>3
    <2>10. Behind'
      BY <2>5, <2>9 DEF Behind
    <2>11. /\ Len(Seen') = Len(Seen) + Len(items')
           /\ \A i \in 1 .. Len(Seen') :
                 Seen'[i] = IF i <= Len(Seen) THEN Seen[i]
                            ELSE items'[i - Len(Seen)]
      <3>1. /\ Len(Seen \o items') = Len(Seen) + Len(items')
            /\ \A i \in 1 .. Len(Seen) + Len(items') :
                  (Seen \o items')[i] = IF i <= Len(Seen) THEN Seen[i]
                                        ELSE items'[i - Len(Seen)]
        BY <1>1, <2>2, ConcatProperties
      <3> QED
        BY <2>3, <3>1
    <2>12. ASSUME NEW i \in 1 .. Len(Seen'), NEW j \in 1 .. Len(Seen'),
                  i < j, Seen'[i] = Seen'[j], Settled(Seen'[i])
           PROVE  FALSE
      <3>1. CASE j <= Len(Seen)
        <4>1. i \in 1 .. Len(Seen) /\ j \in 1 .. Len(Seen) /\ i # j
          BY <1>1, <2>8, <2>11, <2>12, <3>1
        <4>2. Seen'[i] = Seen[i] /\ Seen'[j] = Seen[j]
          BY <2>11, <2>12, <3>1, <4>1
        <4> QED
          BY <2>12, <4>1, <4>2 DEF RepeatIsArrival, Settled
      <3>2. CASE ~ (j <= Len(Seen))
        <4> DEFINE k == j - Len(Seen)
        <4>1. k \in 1 .. Len(items') /\ Seen'[j] = items'[k]
          BY <1>1, <2>8, <2>11, <3>2
        <4>2. Cardinality(Above(Seen'[j])) = Offset + k - 1
          BY <2>7, <2>12, <4>1 DEF Settled
        <4>3. CASE i <= Len(Seen)
          <5>1. i \in DOMAIN Seen /\ Seen'[i] = Seen[i]
            BY <1>1, <2>8, <2>11, <4>3
          <5>2. Cardinality(Above(Seen'[i])) < Offset
            BY <2>2, <2>12, <5>1 DEF Behind, Range
          <5> QED
            BY <2>6, <2>8, <2>12, <4>1, <4>2, <5>2
        <4>4. CASE ~ (i <= Len(Seen))
          <5>1. /\ i - Len(Seen) \in 1 .. Len(items')
                /\ Seen'[i] = items'[i - Len(Seen)]
            BY <1>1, <2>8, <2>11, <4>4
          <5>2. Cardinality(Above(Seen'[i])) = Offset + (i - Len(Seen)) - 1
            BY <2>7, <2>12, <5>1 DEF Settled
          <5> QED
            BY <1>1, <2>6, <2>8, <2>11, <2>12, <4>2, <5>2
        <4> QED
          BY <4>3, <4>4
      <3> QED
        BY <3>1, <3>2
    <2>13. ASSUME NEW i \in 1 .. Len(Seen'), NEW j \in 1 .. Len(Seen'),
                  i # j, Seen'[i] = Seen'[j]
           PROVE  ~ Settled(Seen'[i])
      <3>1. CASE i < j
        BY <2>12, <2>13, <3>1
      <3>2. CASE j < i
        BY <2>12, <2>13, <3>2
      <3>3. i < j \/ j < i
        BY <1>1, <2>8, <2>11, <2>13
      <3> QED
        BY <3>1, <3>2, <3>3
    <2>14. RepeatIsArrival'
      BY <2>3, <2>5, <2>13 DEF RepeatIsArrival, Settled
    <2> QED
      BY <2>10, <2>14
  <1> QED
    BY <1>2, <1>3, <1>4, <1>5, <1>6, StepsOfNext

-----------------------------------------------------------------------------
(* Totals.                                                                 *)

LEMMA NextAnswered ==
  ASSUME TypeInv, Answered, [Next]_vars
  PROVE  Answered'
  <1>1. CASE Moved \/ UNCHANGED vars
    <2>1. UNCHANGED <<place, page, page_size, total, items, counted, paged>>
      BY <1>1 DEF Moved, vars, walk
    <2> QED
      BY <2>1 DEF Answered, PageLength
  <1>2. CASE Start
    <2>1. /\ place' = "count" /\ page' = page /\ page = 1
          /\ UNCHANGED <<total, counted>>
      BY <1>2 DEF Start, TypeInv
    <2> QED
      BY <2>1 DEF Answered
  <1>3. CASE Count
    <2>1. place' = "page" /\ counted' = Rows /\ total' = Cardinality(Rows)
      BY <1>3 DEF Count, CountRows
    <2> QED
      BY <2>1 DEF Answered
  <1>4. CASE Fetch
    <2>1. /\ Len(items') = PageLength(Cardinality(Rows), Offset, page_size)
          /\ UNCHANGED <<page_size, total, counted>> /\ paged' = Rows
          /\ \/ place' = "done" /\ page' = page
             \/ place' = "count" /\ page' = page + 1
      BY <1>4, FetchShows
    <2> DEFINE last == IF place' = "done" THEN page' ELSE page' - 1
    <2>2. last = page
      BY <2>1 DEF TypeInv
    <2>3. Offset = Before(last, page_size')
      BY <2>1, <2>2 DEF Offset, Before
    <2>4. Len(items') = PageLength(Cardinality(paged'),
                                   Before(last, page_size'), page_size')
      BY <2>1, <2>3
    <2> QED
      BY <2>1, <2>4 DEF Answered
  <1> QED
    BY <1>1, <1>2, <1>3, <1>4, StepsOfNext

LEMMA InitWalkInv == Init => WalkInv
  <1> SUFFICES ASSUME Init PROVE WalkInv
    OBVIOUS
  <1>1. TypeInv /\ place = "idle" /\ page = 1
    BY InitTypeInv DEF Init
  <1>2. Range(Seen) = {} /\ Len(Seen) = 0
    BY <1>1, IdleShowsNothing
  <1>3. total = Cardinality(counted)
    BY FS_EmptySet DEF Init
  <1> QED
    BY <1>1, <1>2, <1>3
       DEF WalkInv, ShownWasRow, Deep, Ahead, MissedIsExplained, Behind,
           RepeatIsArrival, Answered

LEMMA WalkInvCorrect == Spec => [](TypeInv /\ WalkInv)
  <1>1. Init => TypeInv /\ WalkInv
    BY InitTypeInv, InitWalkInv
  <1>2. TypeInv /\ WalkInv /\ [Next]_vars => (TypeInv /\ WalkInv)'
    <2> SUFFICES ASSUME TypeInv, WalkInv, [Next]_vars
                 PROVE  TypeInv' /\ WalkInv'
      OBVIOUS
    <2>1. TypeInv'
      BY NextTypeInv
    <2> QED
      BY <2>1, NextShownWasRow, NextDeep, NextAhead, NextBehind, NextAnswered
         DEF WalkInv
  <1> QED
    BY <1>1, <1>2, PTL DEF Spec

-----------------------------------------------------------------------------
(* A client that reads page after page until one is not full has seen      *)
(* every ticket that the last page could see, however many others were     *)
(* created or committed late, unless one stopped matching during the walk: *)
(* a ticket is missing only if another one of its created_at was shown     *)
(* twice, or if it was committed after a ticket that is not newer had been *)
(* shown.                                                                  *)
THEOREM MissesAreExplained == Spec => []MissedIsExplained
  <1>1. WalkInv => MissedIsExplained
    BY DEF WalkInv
  <1> QED
    BY WalkInvCorrect, <1>1, PTL

(* A client that sees an untied ticket twice has been overtaken: another   *)
(* one became a row above it.                                              *)
THEOREM RepetitionsAreArrivals == Spec => []RepeatIsArrival
  <1>1. WalkInv => RepeatIsArrival
    BY DEF WalkInv
  <1> QED
    BY WalkInvCorrect, <1>1, PTL

(* The total of an answer and the length of its page fit when the two      *)
(* statements of TicketRepository.list saw the same rows.                  *)
THEOREM TotalsFit == Spec => []TotalFitsPage
  <1>1. TypeInv /\ WalkInv => TotalFitsPage
    <2> DEFINE last == IF place = "done" THEN page ELSE page - 1
    <2> DEFINE before == (last - 1) * page_size
    <2> SUFFICES ASSUME TypeInv, Answered, place \in {"count", "done"},
                        counted = paged, last > 0
                 PROVE  Len(items) = IF total < before THEN 0
                                     ELSE Min({page_size, total - before})
      BY DEF WalkInv, TotalFitsPage
    <2>1. last \in Nat \ {0} /\ page_size \in Nat
      BY DEF TypeInv
    <2>2. before \in Nat /\ before = Before(last, page_size)
      <3> HIDE DEF last
      <3> QED
        BY <2>1, BeforeNext DEF Before
    <2>3. total = Cardinality(paged) /\ total \in Nat
      BY SomeRows DEF Answered, TypeInv
    <2>4. Len(items) = PageLength(total, Before(last, page_size), page_size)
      BY <2>3 DEF Answered
    <2> HIDE DEF before, last
    <2>5. Min({page_size, total - before})
            = IF total - before < page_size THEN total - before ELSE page_size
      BY <2>1, <2>2, <2>3 DEF Min
    <2> QED
      BY <2>2, <2>4, <2>5 DEF PageLength
  <1> QED
    BY WalkInvCorrect, <1>1, PTL

=============================================================================
