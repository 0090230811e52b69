-------------------------- MODULE DirectoryProofs --------------------------
(***************************************************************************)
(* Theorems about Directory, for any number of requests, addresses and     *)
(* seeded users.                                                           *)
(***************************************************************************)
EXTENDS Directory, FiniteSetTheorems, TLAPS

(* What the place of a request says about its call and what it has read.   *)
RequestInv ==
    \A r \in Requests :
        /\ pc[r] # "idle" => call[r] \in Calls
        /\ pc[r] \in {"lookup", "insert", "commit"} =>
              call[r].op \in {"ticket", "create"}
        /\ pc[r] \in {"load", "write"} => call[r].op \in {"update", "deactivate"}
        /\ pc[r] = "write" => /\ loaded[r] \in Row
                              /\ call[r].id \in Stored
                              /\ users[call[r].id].role = "AGENT"
        /\ pc[r] = "insert" =>
              \A i \in seen[r] : i \in Stored /\ users[i].email # call[r].email

(* What each request has left behind.                                      *)
EffectInv ==
    \A r \in Requests :
        /\ pc[r] # "done" => answer[r] = "none"
        /\ r \in Stored =>
              /\ pc[r] \in {"answer", "done"}
              /\ answer[r] \notin {"not_found", "conflict", "violation"}
              /\ call[r].op \in {"ticket", "create"}
              /\ users[r].role =
                    IF call[r].op = "ticket" THEN "CUSTOMER" ELSE "AGENT"
              /\ call[r].op = "ticket" => tickets[r] = r
        /\ tickets[r] # None =>
              /\ pc[r] \in {"answer", "done"}
              /\ answer[r] \notin {"not_found", "conflict", "violation"}
              /\ users[tickets[r]].email = call[r].email
        /\ pc[r] = "answer" \/ answer[r] = "ok" =>
              /\ call[r].op = "ticket" => tickets[r] # None
              /\ call[r].op = "create" => r \in Stored

(* An uncommitted INSERT belongs to a request that is about to commit it,  *)
(* and nobody else has the address.                                        *)
ClaimInv ==
    /\ \A e \in Emails : claim[e] # None =>
          /\ pc[claim[e]] = "commit"
          /\ found[claim[e]] = claim[e]
          /\ call[claim[e]].email = e
          /\ WithEmail(e) = {}
    /\ \A r \in Requests : pc[r] = "commit" =>
          \/ found[r] = r /\ claim[call[r].email] = r
          \/ /\ found[r] # r /\ call[r].op = "ticket"
             /\ found[r] \in Stored /\ users[found[r]].email = call[r].email

(* The row that a request is about to write is as it has read it, except   *)
(* for what others have asked for and written since.                       *)
Explained(r) ==
    LET row == users[call[r].id] IN
    /\ \/ row.name = loaded[r].name
       \/ \E q \in overtaken[r] : AsksName(call[q], row.name)
    /\ \/ row.is_active = loaded[r].is_active
       \/ \E q \in overtaken[r] : AsksActive(call[q], row.is_active)

(* What each update and deactivation has left behind.                      *)
WrittenInv ==
    \A r \in Requests :
        /\ \A q \in overtaken[r] : pc[q] # "idle"
        /\ wrote[r] # None =>
              /\ pc[r] \in {"answer", "done"}
              /\ answer[r] \notin {"not_found", "conflict", "violation"}
        /\ pc[r] = "write" => Explained(r)
        /\ /\ pc[r] = "answer" \/ answer[r] = "ok"
           /\ call[r].op \in {"update", "deactivate"}
           => DoneUnlessOvertaken(r)
        /\ answer[r] = "not_found" /\ call[r].id \in seen[r] =>
              call[r].id \in Stored /\ users[call[r].id].role # "AGENT"

AddressInv ==
    \A i, j \in Stored : users[i].email = users[j].email => i = j

Inv ==
    /\ TypeOK
    /\ RequestInv
    /\ EffectInv
    /\ ClaimInv
    /\ AddressInv
    /\ WrittenInv
    /\ ViolationIsOverlap

-----------------------------------------------------------------------------
(* Rows and calls.                                                         *)

LEMMA CallFacts ==
  ASSUME NEW c \in Calls
  PROVE  /\ c.op \in {"ticket", "create", "update", "deactivate"}
         /\ c.op \in {"ticket", "create"} => c.email \in Emails /\ c.name \in Names
         /\ c.op \in {"update", "deactivate"} => c.id \in Ids
         /\ c.op = "update" => /\ c.name \in Names \cup {None}
                              /\ c.is_active \in BOOLEAN \cup {None}
  <1>1. c \in CallType
    BY DirectoryAssumption
  <1>2. CASE c \in [op : {"ticket", "create"}, email : Emails, name : Names]
    BY <1>2
  <1>3. CASE c \in [op : {"update"}, id : Ids, name : Names \cup {None},
                   is_active : BOOLEAN \cup {None}]
    BY <1>3
  <1>4. CASE c \in [op : {"deactivate"}, id : Ids]
    BY <1>4
  <1> QED
    BY <1>1, <1>2, <1>3, <1>4 DEF CallType

LEMMA NewRowFacts ==
  ASSUME NEW c \in Calls, c.op \in {"ticket", "create"}
  PROVE  /\ NewRow(c) \in Row
         /\ NewRow(c).email = c.email
         /\ NewRow(c).role = IF c.op = "ticket" THEN "CUSTOMER" ELSE "AGENT"
  BY CallFacts DEF NewRow, Row, UserRole

(* An UPDATE keeps the address and the role, and gives a column another    *)
(* value only if the call asks for that value.                             *)
LEMMA UpdatedFacts ==
  ASSUME NEW old \in Row, NEW read \in Row, NEW c \in Calls,
         c.op \in {"update", "deactivate"}
  PROVE  LET row == Updated(old, read, c) IN
         /\ row \in Row
         /\ row.email = old.email /\ row.role = old.role
         /\ row.name # old.name => AsksName(c, row.name)
         /\ row.is_active # old.is_active => AsksActive(c, row.is_active)
  <1> USE DEF AsksName, AsksActive
  <1>1. CASE c.op = "deactivate"
    <2>1. Updated(old, read, c) =
             IF read.is_active THEN [old EXCEPT !.is_active = FALSE] ELSE old
      BY <1>1 DEF Updated
    <2>2. CASE read.is_active
      <3> DEFINE row == [old EXCEPT !.is_active = FALSE]
      <3>1. /\ row \in Row /\ row.email = old.email /\ row.role = old.role
            /\ row.name = old.name /\ row.is_active = FALSE
        BY DEF Row
      <3>2. Updated(old, read, c) = row
        BY <2>1, <2>2
      <3> HIDE DEF row
      <3> QED
        BY <1>1, <3>1, <3>2
    <2>3. CASE ~ read.is_active
      <3>1. Updated(old, read, c) = old /\ read.is_active = FALSE
        BY <2>1, <2>3 DEF Row
      <3> QED
        BY <1>1, <3>1
    <2> QED
      BY <2>2, <2>3
  <1>2. CASE c.op = "update"
    <2>1. /\ c.name \in Names \cup {None}
          /\ c.is_active \in BOOLEAN \cup {None}
      BY <1>2, CallFacts
    <2> DEFINE name1 == IF c.name \in {None, read.name} THEN old.name ELSE c.name
               active1 == IF c.is_active \in {None, read.is_active}
                          THEN old.is_active ELSE c.is_active
    <2>2. name1 \in Names /\ active1 \in BOOLEAN
      BY <2>1 DEF Row
    <2>3. Updated(old, read, c) =
             [old EXCEPT !.name = name1, !.is_active = active1]
      BY <1>2 DEF Updated
    <2>4. /\ name1 # old.name => c.name = name1
          /\ active1 # old.is_active => c.is_active = active1
      OBVIOUS
    <2> HIDE DEF name1, active1
    <2> DEFINE row == [old EXCEPT !.name = name1, !.is_active = active1]
    <2>5. /\ row \in Row /\ row.email = old.email /\ row.role = old.role
          /\ row.name = name1 /\ row.is_active = active1
      BY <2>2 DEF Row
    <2>6. Updated(old, read, c) = row
      BY <2>3
    <2> HIDE DEF row
    <2> QED
      BY <1>2, <2>4, <2>5, <2>6
  <1> QED
    BY <1>1, <1>2

(* It leaves alone what the call asks for only if it was read so.         *)
LEMMA UpdatedAsked ==
  ASSUME NEW old \in Row, NEW read \in Row, NEW c \in Calls,
         c.op \in {"update", "deactivate"}
  PROVE  LET row == Updated(old, read, c) IN
         /\ \A name \in Names : AsksName(c, name) =>
               row.name = name \/ (read.name = name /\ row.name = old.name)
         /\ \A active \in BOOLEAN : AsksActive(c, active) =>
               \/ row.is_active = active
               \/ read.is_active = active /\ row.is_active = old.is_active
  <1> USE DEF AsksName, AsksActive
  <1>1. CASE c.op = "deactivate"
    <2>1. Updated(old, read, c) =
             IF read.is_active THEN [old EXCEPT !.is_active = FALSE] ELSE old
      BY <1>1 DEF Updated
    <2>2. CASE read.is_active
      <3> DEFINE row == [old EXCEPT !.is_active = FALSE]
      <3>1. /\ row \in Row /\ row.email = old.email /\ row.role = old.role
            /\ row.name = old.name /\ row.is_active = FALSE
        BY DEF Row
      <3>2. Updated(old, read, c) = row
        BY <2>1, <2>2
      <3> HIDE DEF row
      <3> QED
        BY <1>1, <3>1, <3>2
    <2>3. CASE ~ read.is_active
      <3>1. Updated(old, read, c) = old /\ read.is_active = FALSE
        BY <2>1, <2>3 DEF Row
      <3> QED
        BY <1>1, <3>1
    <2> QED
      BY <2>2, <2>3
  <1>2. CASE c.op = "update"
    <2>1. /\ c.name \in Names \cup {None}
          /\ c.is_active \in BOOLEAN \cup {None}
      BY <1>2, CallFacts
    <2> DEFINE name1 == IF c.name \in {None, read.name} THEN old.name ELSE c.name
               active1 == IF c.is_active \in {None, read.is_active}
                          THEN old.is_active ELSE c.is_active
    <2>2. name1 \in Names /\ active1 \in BOOLEAN
      BY <2>1 DEF Row
    <2>3. Updated(old, read, c) =
             [old EXCEPT !.name = name1, !.is_active = active1]
      BY <1>2 DEF Updated
    <2>4. /\ \A n \in Names : c.name = n =>
                name1 = n \/ (read.name = n /\ name1 = old.name)
          /\ \A b \in BOOLEAN : c.is_active = b =>
                active1 = b \/ (read.is_active = b /\ active1 = old.is_active)
      BY DirectoryAssumption
    <2> HIDE DEF name1, active1
    <2> DEFINE row == [old EXCEPT !.name = name1, !.is_active = active1]
    <2>5. /\ row \in Row /\ row.email = old.email /\ row.role = old.role
          /\ row.name = name1 /\ row.is_active = active1
      BY <2>2 DEF Row
    <2>6. Updated(old, read, c) = row
      BY <2>3
    <2> HIDE DEF row
    <2> QED
      BY <1>2, <2>4, <2>5, <2>6
  <1> QED
    BY <1>1, <1>2

LEMMA RowIsNotNone == None \notin Row /\ None \notin Ids /\ None \notin Requests
  BY DirectoryAssumption DEF Ids

-----------------------------------------------------------------------------
(* What steps do to the table.                                             *)

(* A user appears when the request that creates him commits, and changes   *)
(* when an update writes.                                                  *)
LEMMA UserSteps ==
  ASSUME Inv, [Next]_vars
  PROVE  \/ users' = users
         \/ \E r \in Requests :
               /\ Commit(r) /\ found[r] = r /\ r \notin Stored
               /\ users' = [users EXCEPT ![r] = NewRow(call[r])]
         \/ \E r \in Requests : \E i \in Stored :
               /\ Write(r) /\ call[r].id = i /\ users[i].role = "AGENT"
               /\ users' = [users EXCEPT
                               ![i] = Updated(users[i], loaded[r], call[r])]
  <1>1. ASSUME NEW r \in Requests, Commit(r)
        PROVE  users' = users \/ ( /\ Commit(r) /\ found[r] = r /\ r \notin Stored
                                  /\ users' = [users EXCEPT ![r] = NewRow(call[r])])
    BY <1>1 DEF Commit, Inv, EffectInv
  <1>2. ASSUME NEW r \in Requests, Write(r)
        PROVE  \E i \in Stored :
                  /\ Write(r) /\ call[r].id = i /\ users[i].role = "AGENT"
                  /\ users' = [users EXCEPT
                                  ![i] = Updated(users[i], loaded[r], call[r])]
    <2>1. call[r].id \in Stored /\ users[call[r].id].role = "AGENT"
      BY <1>2 DEF Write, Inv, RequestInv
    <2> QED
      BY <1>2, <2>1 DEF Write
  <1>3. ASSUME NEW r \in Requests,
               \/ Accept(r) \/ FindByEmail(r) \/ Insert(r) \/ LoadAgent(r)
               \/ Respond(r) \/ Fail(r)
        PROVE  users' = users
    BY <1>3 DEF Accept, FindByEmail, Insert, LoadAgent, Respond, Fail
  <1>4. CASE UNCHANGED vars
    BY <1>4 DEF vars
  <1> QED
    BY <1>1, <1>2, <1>3, <1>4 DEF Next, Quiet, Proceed

LEMMA UsersStay ==
  ASSUME Inv, [Next]_vars
  PROVE  /\ users' \in [Ids -> Row \cup {None}]
         /\ \A i \in Stored : /\ i \in Stored'
                              /\ users'[i].email = users[i].email
                              /\ users'[i].role = users[i].role
         /\ \A i \in Stored' \ Stored :
               /\ i \in Requests /\ Commit(i) /\ found[i] = i
               /\ users'[i] = NewRow(call[i])
  <1>1. users \in [Ids -> Row \cup {None}]
    BY DEF Inv, TypeOK
  <1>2. CASE users' = users
    BY <1>1, <1>2 DEF Stored
  <1>3. ASSUME NEW r \in Requests,
               Commit(r) /\ found[r] = r /\ r \notin Stored,
               users' = [users EXCEPT ![r] = NewRow(call[r])]
        PROVE  /\ users' \in [Ids -> Row \cup {None}]
               /\ \A i \in Stored : /\ i \in Stored'
                                    /\ users'[i].email = users[i].email
                                    /\ users'[i].role = users[i].role
               /\ \A i \in Stored' \ Stored :
                     /\ i \in Requests /\ Commit(i) /\ found[i] = i
                     /\ users'[i] = NewRow(call[i])
    <2>1. NewRow(call[r]) \in Row /\ r \in Ids
      BY <1>3, NewRowFacts DEF Commit, Inv, RequestInv, Ids
    <2>2. \A i \in Ids \ {r} : users'[i] = users[i]
      BY <1>1, <1>3
    <2>3. users'[r] = NewRow(call[r])
      BY <1>1, <1>3, <2>1
    <2>4. Stored' = Stored \cup {r}
      BY <2>1, <2>2, <2>3, RowIsNotNone DEF Stored
    <2>5. users' \in [Ids -> Row \cup {None}]
      BY <1>1, <1>3, <2>1
    <2>6. \A i \in Stored : i \in Ids \ {r}
      BY <1>3 DEF Stored
    <2>7. \A i \in Stored' \ Stored : i = r
      BY <2>4
    <2> QED
      BY <1>3, <2>2, <2>3, <2>4, <2>5, <2>6, <2>7
  <1>4. ASSUME NEW r \in Requests, NEW j \in Stored,
               Write(r) /\ call[r].id = j /\ users[j].role = "AGENT",
               users' = [users EXCEPT
                           ![j] = Updated(users[j], loaded[r], call[r])]
        PROVE  /\ users' \in [Ids -> Row \cup {None}]
               /\ \A i \in Stored : /\ i \in Stored'
                                    /\ users'[i].email = users[i].email
                                    /\ users'[i].role = users[i].role
               /\ Stored' = Stored
    <2>1. /\ users[j] \in Row /\ loaded[r] \in Row /\ call[r] \in Calls
          /\ call[r].op \in {"update", "deactivate"} /\ j \in Ids
      BY <1>1, <1>4 DEF Stored, Write, Inv, RequestInv
    <2> DEFINE row == Updated(users[j], loaded[r], call[r])
    <2>2. /\ row \in Row
          /\ row.email = users[j].email /\ row.role = users[j].role
      BY <2>1, UpdatedFacts
    <2>3. users' = [users EXCEPT ![j] = row]
      BY <1>4
    <2> HIDE DEF row
    <2>4. users' \in [Ids -> Row \cup {None}]
      BY <1>1, <2>1, <2>2, <2>3
    <2>5. /\ users'[j] = row
          /\ \A i \in Ids \ {j} : users'[i] = users[i]
      BY <1>1, <2>1, <2>3
    <2>6. Stored' = Stored
      BY <2>2, <2>5, RowIsNotNone DEF Stored
    <2> QED
      BY <2>2, <2>4, <2>5, <2>6 DEF Stored
  <1> QED
    BY <1>2, <1>3, <1>4, UserSteps

-----------------------------------------------------------------------------
(* Types and requests.                                                     *)

LEMMA NextTypeOK == Inv /\ [Next]_vars => TypeOK'
  <1> SUFFICES ASSUME Inv, [Next]_vars PROVE TypeOK'
    OBVIOUS
  <1>1. TypeOK
    BY DEF Inv
  <1>2. users' \in [Ids -> Row \cup {None}] /\ Stored \subseteq Stored'
    BY UsersStay
  <1> USE DEF TypeOK, GoTo, Finish, Place, Answer, history
  <1>3. ASSUME NEW r \in Requests, Accept(r)
        PROVE  TypeOK'
    BY <1>1, <1>2, <1>3 DEF Accept, Stored
  <1>4. ASSUME NEW r \in Requests, FindByEmail(r)
        PROVE  TypeOK'
    BY <1>1, <1>2, <1>4 DEF FindByEmail, Stored, WithEmail
  <1>5. ASSUME NEW r \in Requests, Insert(r)
        PROVE  TypeOK'
    <2>1. call[r].email \in Emails /\ r \in Ids
      BY <1>5, CallFacts DEF Insert, Inv, RequestInv, Ids
    <2> QED
      BY <1>1, <1>2, <1>5, <2>1 DEF Insert, Stored
  <1>6. ASSUME NEW r \in Requests, Commit(r)
        PROVE  TypeOK'
    <2>1. found[r] \in Stored'
      <3>1. CASE found[r] = r
        <4>1. users' = [users EXCEPT ![r] = NewRow(call[r])]
          BY <1>6, <3>1 DEF Commit
        <4>2. NewRow(call[r]) \in Row /\ r \in Ids
          BY <1>6, NewRowFacts DEF Commit, Inv, RequestInv, Ids
        <4> QED
          BY <1>1, <3>1, <4>1, <4>2, RowIsNotNone DEF Stored
      <3>2. CASE found[r] # r
        BY <1>2, <1>6, <3>2 DEF Commit, Inv, ClaimInv
      <3> QED
        BY <3>1, <3>2
    <2>2. tickets' \in [Requests -> Stored' \cup {None}]
      BY <1>1, <1>2, <1>6, <2>1 DEF Commit
    <2>3. claim' \in [Emails -> Requests \cup {None}]
      BY <1>1, <1>6 DEF Commit, Released
    <2> QED
      BY <1>1, <1>2, <1>6, <2>2, <2>3 DEF Commit
  <1>7. ASSUME NEW r \in Requests, LoadAgent(r)
        PROVE  TypeOK'
    BY <1>1, <1>2, <1>7 DEF LoadAgent, Stored
  <1>8. ASSUME NEW r \in Requests, Write(r)
        PROVE  TypeOK'
    <2>1. tickets' \in [Requests -> Stored' \cup {None}]
      BY <1>1, <1>2, <1>8 DEF Write
    <2>2. call[r].id \in Ids
      BY <1>8 DEF Write, Inv, RequestInv, Stored
    <2>3. wrote' \in [Requests -> Row \cup {None}]
      BY <1>1, <1>2, <1>8, <2>2 DEF Write
    <2>4. overtaken' \in [Requests -> SUBSET Requests]
      BY <1>1, <1>8 DEF Write
    <2> QED
      BY <1>1, <1>2, <1>8, <2>1, <2>3, <2>4 DEF Write
  <1>9. ASSUME NEW r \in Requests, Respond(r)
        PROVE  TypeOK'
    BY <1>1, <1>2, <1>9 DEF Respond, Stored
  <1>10. ASSUME NEW r \in Requests, Fail(r)
         PROVE  TypeOK'
    <2>1. claim' \in [Emails -> Requests \cup {None}]
      BY <1>1, <1>10 DEF Fail, Released
    <2> QED
      BY <1>1, <1>2, <1>10, <2>1 DEF Fail, Stored
  <1>11. CASE UNCHANGED vars
    BY <1>1, <1>11 DEF vars, Stored
  <1> QED
    BY <1>3, <1>4, <1>5, <1>6, <1>7, <1>8, <1>9, <1>10, <1>11
       DEF Next, Quiet, Proceed

(* The steps of a request leave the others where they are.                 *)
LEMMA OthersStay ==
  ASSUME TypeOK, NEW r \in Requests, Accept(r) \/ Proceed(r) \/ Fail(r),
         NEW q \in Requests, q # r
  PROVE  /\ pc'[q] = pc[q] /\ call'[q] = call[q] /\ found'[q] = found[q]
         /\ loaded'[q] = loaded[q] /\ seen'[q] = seen[q]
         /\ answer'[q] = answer[q] /\ tickets'[q] = tickets[q]
         /\ wrote'[q] = wrote[q] /\ overtaken[q] \subseteq overtaken'[q]
         /\ pc[q] # "write" => overtaken'[q] = overtaken[q]
  <1> USE DEF TypeOK, GoTo, Finish, history
  <1>1. CASE Accept(r)
    BY <1>1 DEF Accept
  <1>2. CASE FindByEmail(r)
    BY <1>2 DEF FindByEmail
  <1>3. CASE Insert(r)
    BY <1>3 DEF Insert
  <1>4. CASE Commit(r)
    BY <1>4 DEF Commit
  <1>5. CASE LoadAgent(r) \/ Respond(r) \/ Fail(r)
    BY <1>5 DEF LoadAgent, Respond, Fail
  <1>6. CASE Write(r)
    BY <1>6 DEF Write, Writing
  <1> QED
    BY <1>1, <1>2, <1>3, <1>4, <1>5, <1>6 DEF Proceed

LEMMA NextRequestInv == Inv /\ [Next]_vars => RequestInv'
  <1> DEFINE Fine(q) ==
        /\ pc'[q] # "idle" => call'[q] \in Calls
        /\ pc'[q] \in {"lookup", "insert", "commit"} =>
              call'[q].op \in {"ticket", "create"}
        /\ pc'[q] \in {"load", "write"} =>
              call'[q].op \in {"update", "deactivate"}
        /\ pc'[q] = "write" => /\ loaded'[q] \in Row
                              /\ call'[q].id \in Stored'
                              /\ users'[call'[q].id].role = "AGENT"
        /\ pc'[q] = "insert" =>
              \A i \in seen'[q] :
                 i \in Stored' /\ users'[i].email # call'[q].email
  <1> SUFFICES ASSUME Inv, [Next]_vars, NEW q \in Requests
               PROVE  Fine(q)
    BY DEF RequestInv
  <1>1. TypeOK
    BY DEF Inv
  <1>2. \A i \in Stored : /\ i \in Stored'
                         /\ users'[i].email = users[i].email
                         /\ users'[i].role = users[i].role
    BY UsersStay
  <1>3. /\ pc[q] # "idle" => call[q] \in Calls
        /\ pc[q] \in {"lookup", "insert", "commit"} =>
              call[q].op \in {"ticket", "create"}
        /\ pc[q] \in {"load", "write"} => call[q].op \in {"update", "deactivate"}
        /\ pc[q] = "write" => /\ loaded[q] \in Row
                             /\ call[q].id \in Stored
                             /\ users[call[q].id].role = "AGENT"
        /\ pc[q] = "insert" =>
              \A i \in seen[q] : i \in Stored /\ users[i].email # call[q].email
    BY DEF Inv, RequestInv
  <1>4. CASE /\ pc'[q] = pc[q] \/ pc'[q] \in {"commit", "answer", "done"}
             /\ pc'[q] = "commit" => pc[q] \in {"lookup", "insert", "commit"}
             /\ pc[q] = "idle" => pc'[q] = "idle"
             /\ call'[q] = call[q]
             /\ pc'[q] = pc[q] => loaded'[q] = loaded[q] /\ seen'[q] = seen[q]
    BY <1>2, <1>3, <1>4
  <1> USE DEF GoTo, Finish
  <1>5. CASE Accept(q)
    <2>1. PICK c \in Calls :
             /\ call' = [call EXCEPT ![q] = c]
             /\ pc' = [pc EXCEPT ![q] =
                          IF c.op \in {"ticket", "create"} THEN "lookup" ELSE "load"]
      BY <1>5 DEF Accept
    <2> QED
      BY <1>1, <2>1, CallFacts DEF TypeOK
  <1>6. CASE FindByEmail(q)
    <2>1. /\ pc[q] = "lookup" /\ call' = call /\ seen'[q] = Stored
          /\ pc'[q] \in {"insert", "commit", "done"}
          /\ pc'[q] = "insert" => WithEmail(call[q].email) = {}
      BY <1>1, <1>6 DEF FindByEmail, TypeOK
    <2> QED
      BY <1>2, <1>3, <2>1 DEF WithEmail
  <1>7. CASE LoadAgent(q)
    <2>1. /\ pc[q] = "load" /\ call' = call /\ pc'[q] \in {"write", "done"}
          /\ pc'[q] = "write" => /\ call[q].id \in Stored
                                /\ users[call[q].id].role = "AGENT"
                                /\ loaded'[q] = users[call[q].id]
      BY <1>1, <1>7 DEF LoadAgent, TypeOK
    <2>2. \A i \in Stored : users[i] \in Row
      BY <1>1 DEF TypeOK, Stored
    <2> QED
      BY <1>2, <1>3, <2>1, <2>2
  <1>8. CASE Insert(q) \/ Commit(q) \/ Write(q) \/ Respond(q) \/ Fail(q)
    BY <1>1, <1>4, <1>8 DEF Insert, Commit, Write, Respond, Fail, TypeOK
  <1>9. ASSUME NEW r \in Requests, Accept(r) \/ Proceed(r) \/ Fail(r), q # r
        PROVE  Fine(q)
    BY <1>1, <1>4, <1>9, OthersStay
  <1>10. CASE UNCHANGED vars
    BY <1>4, <1>10 DEF vars
  <1> QED
    BY <1>5, <1>6, <1>7, <1>8, <1>9, <1>10 DEF Next, Quiet, Proceed

-----------------------------------------------------------------------------
(* Effects and answers.                                                    *)

LEMMA NextEffectInv == Inv /\ [Next]_vars => EffectInv'
  <1> DEFINE Fine(q) ==
        /\ pc'[q] # "done" => answer'[q] = "none"
        /\ q \in Stored' =>
              /\ pc'[q] \in {"answer", "done"}
              /\ answer'[q] \notin {"not_found", "conflict", "violation"}
              /\ call'[q].op \in {"ticket", "create"}
              /\ users'[q].role =
                    IF call'[q].op = "ticket" THEN "CUSTOMER" ELSE "AGENT"
              /\ call'[q].op = "ticket" => tickets'[q] = q
        /\ tickets'[q] # None =>
              /\ pc'[q] \in {"answer", "done"}
              /\ answer'[q] \notin {"not_found", "conflict", "violation"}
              /\ users'[tickets'[q]].email = call'[q].email
        /\ pc'[q] = "answer" \/ answer'[q] = "ok" =>
              /\ call'[q].op = "ticket" => tickets'[q] # None
              /\ call'[q].op = "create" => q \in Stored'
  <1> SUFFICES ASSUME Inv, [Next]_vars, NEW q \in Requests
               PROVE  Fine(q)
    BY DEF EffectInv
  <1>1. TypeOK
    BY DEF Inv
  <1>2. \A i \in Stored : /\ i \in Stored'
                         /\ users'[i].email = users[i].email
                         /\ users'[i].role = users[i].role
    BY UsersStay
  <1>3. /\ pc[q] # "done" => answer[q] = "none"
        /\ q \in Stored =>
              /\ pc[q] \in {"answer", "done"}
              /\ answer[q] \notin {"not_found", "conflict", "violation"}
              /\ call[q].op \in {"ticket", "create"}
              /\ users[q].role =
                    IF call[q].op = "ticket" THEN "CUSTOMER" ELSE "AGENT"
              /\ call[q].op = "ticket" => tickets[q] = q
        /\ tickets[q] # None =>
              /\ pc[q] \in {"answer", "done"}
              /\ answer[q] \notin {"not_found", "conflict", "violation"}
              /\ users[tickets[q]].email = call[q].email
        /\ pc[q] = "answer" \/ answer[q] = "ok" =>
              /\ call[q].op = "ticket" => tickets[q] # None
              /\ call[q].op = "create" => q \in Stored
        /\ pc[q] \in {"load", "write"} => call[q].op \in {"update", "deactivate"}
        /\ pc[q] \in {"lookup", "insert", "commit"} =>
              call[q].op \in {"ticket", "create"}
    BY DEF Inv, EffectInv, RequestInv
  <1>4. tickets[q] \in Stored \cup {None}
    BY <1>1 DEF TypeOK
  <1>5. q \in Stored' /\ q \notin Stored =>
           Commit(q) /\ found[q] = q /\ users'[q] = NewRow(call[q])
    BY UsersStay
  (* A step that leaves the effects of q alone.                            *)
  <1>6. CASE /\ UNCHANGED tickets /\ ~ Commit(q)
             /\ call'[q] = call[q]
             /\ \/ pc'[q] = pc[q] /\ answer'[q] = answer[q]
                \/ /\ pc[q] = "answer" /\ pc'[q] = "done"
                   /\ answer'[q] \in {"ok", "error"}
                \/ pc'[q] = "done" /\ answer'[q] = "error"
                \/ /\ pc[q] \in {"lookup", "insert", "load"}
                   /\ pc'[q] \in {"insert", "commit", "write"}
                   /\ answer'[q] = answer[q]
                \/ /\ pc[q] \in {"lookup", "insert", "load"}
                   /\ pc'[q] = "done"
                   /\ answer'[q] \in {"not_found", "conflict", "violation"}
                \/ pc[q] = "write" /\ pc'[q] = "answer" /\ answer'[q] = answer[q]
    BY <1>2, <1>3, <1>4, <1>5, <1>6
  <1> USE DEF GoTo, Finish
  <1>7. CASE Accept(q)
    <2>1. /\ pc[q] = "idle" /\ pc'[q] \in {"lookup", "load"}
          /\ UNCHANGED <<users, tickets, answer>>
      BY <1>1, <1>7 DEF Accept, TypeOK
    <2>2. Stored' = Stored
      BY <2>1 DEF Stored
    <2> QED
      BY <1>3, <2>1, <2>2
  <1>8. CASE FindByEmail(q) \/ Insert(q) \/ LoadAgent(q)
    BY <1>1, <1>6, <1>8 DEF FindByEmail, Insert, LoadAgent, Commit, TypeOK
  <1>9. CASE Commit(q)
    <2>1. /\ pc[q] = "commit" /\ pc'[q] = "answer" /\ answer'[q] = "none"
          /\ call'[q] = call[q] /\ call[q] \in Calls
          /\ call[q].op \in {"ticket", "create"}
          /\ tickets'[q] = IF call[q].op = "ticket" THEN found[q] ELSE tickets[q]
      BY <1>1, <1>3, <1>9 DEF Commit, TypeOK, Inv, RequestInv
    <2>2. tickets[q] = None /\ q \notin Stored
      BY <1>3, <2>1
    <2>3. CASE found[q] = q
      <3>1. users'[q] = NewRow(call[q])
        BY <1>1, <1>9, <2>3 DEF Commit, TypeOK, Ids
      <3>2. /\ users'[q] \in Row
            /\ users'[q].email = call[q].email
            /\ users'[q].role =
                  IF call[q].op = "ticket" THEN "CUSTOMER" ELSE "AGENT"
        BY <2>1, <3>1, NewRowFacts
      <3>3. q \in Stored' /\ q # None
        BY <3>2, RowIsNotNone DEF Stored, Ids
      <3> QED
        BY <2>1, <2>2, <2>3, <3>2, <3>3
    <2>4. CASE found[q] # q
      <3>1. /\ call[q].op = "ticket" /\ found[q] \in Stored
            /\ users[found[q]].email = call[q].email
        BY <2>1, <2>4 DEF Inv, ClaimInv
      <3>2. users'[found[q]].email = call[q].email /\ found[q] # None
        BY <1>2, <3>1, RowIsNotNone DEF Stored
      <3>3. q \notin Stored'
        BY <1>5, <2>2, <2>4
      <3> QED
        BY <2>1, <3>1, <3>2, <3>3
    <2> QED
      BY <2>3, <2>4
  <1>10. CASE Write(q)
    <2>1. pc[q] = "write" /\ pc'[q] = "answer" /\ UNCHANGED <<tickets, call, answer>>
      BY <1>1, <1>10 DEF Write, TypeOK
    <2> QED
      BY <1>6, <2>1 DEF Commit
  <1>11. CASE Respond(q) \/ Fail(q)
    BY <1>1, <1>6, <1>11 DEF Respond, Fail, Commit, TypeOK
  <1>12. ASSUME NEW r \in Requests, Accept(r) \/ Proceed(r) \/ Fail(r), q # r
         PROVE  Fine(q)
    <2>1. /\ pc'[q] = pc[q] /\ call'[q] = call[q]
          /\ answer'[q] = answer[q] /\ tickets'[q] = tickets[q]
      BY <1>1, <1>12, OthersStay
    <2>2. ~ Commit(q)
      BY <1>1, <2>1 DEF Commit, TypeOK
    <2> QED
      BY <1>2, <1>3, <1>4, <1>5, <2>1, <2>2
  <1>13. CASE UNCHANGED vars
    <2>1. UNCHANGED <<users, tickets, call, answer, pc>> /\ Stored' = Stored
      BY <1>13 DEF vars, Stored
    <2> QED
      BY <1>3, <2>1
  <1> QED
    BY <1>7, <1>8, <1>9, <1>10, <1>11, <1>12, <1>13 DEF Next, Quiet, Proceed

-----------------------------------------------------------------------------
(* Updates and deactivations.                                              *)

(* A request that has begun keeps what it asks for.                        *)
LEMMA CallsStay ==
  ASSUME Inv, [Next]_vars, NEW q \in Requests, pc[q] # "idle"
  PROVE  call'[q] = call[q] /\ pc'[q] # "idle"
  <1>1. TypeOK
    BY DEF Inv
  <1> USE DEF GoTo, Finish, TypeOK
  <1>2. CASE \/ FindByEmail(q) \/ Insert(q) \/ Commit(q) \/ LoadAgent(q)
             \/ Write(q) \/ Respond(q) \/ Fail(q)
    BY <1>1, <1>2 DEF FindByEmail, Insert, Commit, LoadAgent, Write, Respond,
                      Fail
  <1>3. ASSUME NEW r \in Requests, Accept(r) \/ Proceed(r) \/ Fail(r), q # r
        PROVE  call'[q] = call[q] /\ pc'[q] # "idle"
    BY <1>1, <1>3, OthersStay
  <1>4. CASE UNCHANGED vars
    BY <1>4 DEF vars
  <1>5. ~ Accept(q)
    BY DEF Accept
  <1> QED
    BY <1>2, <1>3, <1>4, <1>5 DEF Next, Quiet, Proceed

(* While a request has not written, whoever changes the row joins those    *)
(* that have overtaken it.                                                 *)
LEMMA ExplainedStays ==
  ASSUME Inv, [Next]_vars, NEW q \in Requests, pc[q] = "write",
         pc'[q] = "write", loaded'[q] = loaded[q],
         overtaken[q] \subseteq overtaken'[q]
  PROVE  Explained(q)'
  <1> DEFINE i == call[q].id
  <1>1. /\ i \in Stored /\ call'[q] = call[q]
        /\ users \in [Ids -> Row \cup {None}]
        /\ overtaken[q] \subseteq Requests
    BY CallsStay DEF Inv, RequestInv, TypeOK
  <1>2. \A p \in overtaken[q] : p \in overtaken'[q] /\ call'[p] = call[p]
    BY <1>1, CallsStay DEF Inv, WrittenInv
  <1>3. /\ \/ users[i].name = loaded[q].name
           \/ \E p \in overtaken[q] : AsksName(call[p], users[i].name)
        /\ \/ users[i].is_active = loaded[q].is_active
           \/ \E p \in overtaken[q] : AsksActive(call[p], users[i].is_active)
    BY DEF Inv, WrittenInv, Explained
  <1>4. ASSUME \/ users'[i].name = users[i].name
               \/ \E p \in overtaken'[q] : AsksName(call'[p], users'[i].name),
               \/ users'[i].is_active = users[i].is_active
               \/ \E p \in overtaken'[q] :
                     AsksActive(call'[p], users'[i].is_active)
        PROVE  Explained(q)'
    <2>1. \/ users'[i].name = loaded[q].name
          \/ \E p \in overtaken'[q] : AsksName(call'[p], users'[i].name)
      BY <1>2, <1>3, <1>4
    <2>2. \/ users'[i].is_active = loaded[q].is_active
          \/ \E p \in overtaken'[q] : AsksActive(call'[p], users'[i].is_active)
      BY <1>2, <1>3, <1>4
    <2> QED
      BY <1>1, <2>1, <2>2 DEF Explained
  <1>5. CASE users'[i] = users[i]
    BY <1>4, <1>5
  <1>6. ASSUME NEW r \in Requests, r \notin Stored,
               users' = [users EXCEPT ![r] = NewRow(call[r])]
        PROVE  users'[i] = users[i]
    BY <1>1, <1>6
  <1>7. ASSUME NEW r \in Requests, NEW j \in Stored, Write(r), call[r].id = j,
               users' = [users EXCEPT
                           ![j] = Updated(users[j], loaded[r], call[r])]
        PROVE  Explained(q)'
    <2>1. CASE j # i
      BY <1>1, <1>5, <1>7, <2>1
    <2>2. CASE j = i
      <3>1. /\ users[i] \in Row /\ loaded[r] \in Row /\ call[r] \in Calls
            /\ call[r].op \in {"update", "deactivate"}
            /\ pc[r] = "write" /\ call'[r] = call[r] /\ pc'[r] = "answer"
        BY <1>1, <1>7 DEF Write, GoTo, Inv, RequestInv, TypeOK, Stored
      <3>2. r \in overtaken'[q]
        BY <1>1, <1>7, <2>2, <3>1 DEF Write, Writing
      <3> DEFINE row == Updated(users[i], loaded[r], call[r])
      <3>3. /\ row.name # users[i].name => AsksName(call[r], row.name)
            /\ row.is_active # users[i].is_active =>
                  AsksActive(call[r], row.is_active)
        BY <3>1, UpdatedFacts
      <3>4. users'[i] = row
        BY <1>1, <1>7, <2>2 DEF Stored
      <3> HIDE DEF row
      <3> QED
        BY <1>4, <3>1, <3>2, <3>3, <3>4
    <2> QED
      BY <2>1, <2>2
  <1> QED
    BY <1>5, <1>6, <1>7, UserSteps

(* What a request writes is what it asks for, unless it was overtaken.     *)
LEMMA WriteIsDone ==
  ASSUME Inv, NEW q \in Requests, Write(q)
  PROVE  DoneUnlessOvertaken(q)'
  <1> DEFINE i == call[q].id
  <1>1. /\ i \in Stored /\ users \in [Ids -> Row \cup {None}]
        /\ users[i] \in Row /\ loaded[q] \in Row /\ call[q] \in Calls
        /\ call[q].op \in {"update", "deactivate"} /\ pc[q] = "write"
    BY DEF Write, Inv, RequestInv, TypeOK, Stored
  <1>2. /\ \/ users[i].name = loaded[q].name
           \/ \E p \in overtaken[q] : AsksName(call[p], users[i].name)
        /\ \/ users[i].is_active = loaded[q].is_active
           \/ \E p \in overtaken[q] : AsksActive(call[p], users[i].is_active)
    BY <1>1 DEF Inv, WrittenInv, Explained
  <1> DEFINE row == Updated(users[i], loaded[q], call[q])
  <1>3. row \in Row
    BY <1>1, UpdatedFacts
  <1>4. /\ \A name \in Names : AsksName(call[q], name) =>
              \/ row.name = name
              \/ loaded[q].name = name /\ row.name = users[i].name
        /\ \A active \in BOOLEAN : AsksActive(call[q], active) =>
              \/ row.is_active = active
              \/ loaded[q].is_active = active
                   /\ row.is_active = users[i].is_active
    BY <1>1, UpdatedAsked
  <1>5. /\ wrote'[q] = row
        /\ overtaken'[q] = overtaken[q] /\ call' = call
    BY <1>1 DEF Write, Inv, TypeOK, Stored
  <1> HIDE DEF row
  <1>6. wrote'[q] # None
    BY <1>5, <1>3, RowIsNotNone
  <1>7. ASSUME NEW name \in Names, AsksName(call[q], name)
        PROVE  \/ wrote'[q].name = name
               \/ \E p \in overtaken'[q] : AsksName(call'[p], wrote'[q].name)
    BY <1>2, <1>4, <1>5, <1>7
  <1>8. ASSUME NEW active \in BOOLEAN, AsksActive(call[q], active)
        PROVE  \/ wrote'[q].is_active = active
               \/ \E p \in overtaken'[q] :
                     AsksActive(call'[p], wrote'[q].is_active)
    BY <1>2, <1>4, <1>5, <1>8
  <1> QED
    BY <1>5, <1>6, <1>7, <1>8 DEF DoneUnlessOvertaken

LEMMA NextWrittenInv == Inv /\ [Next]_vars => WrittenInv'
  <1> DEFINE Fine(q) ==
        /\ \A p \in overtaken'[q] : pc'[p] # "idle"
        /\ wrote'[q] # None =>
              /\ pc'[q] \in {"answer", "done"}
              /\ answer'[q] \notin {"not_found", "conflict", "violation"}
        /\ pc'[q] = "write" => Explained(q)'
        /\ /\ pc'[q] = "answer" \/ answer'[q] = "ok"
           /\ call'[q].op \in {"update", "deactivate"}
           => DoneUnlessOvertaken(q)'
        /\ answer'[q] = "not_found" /\ call'[q].id \in seen'[q] =>
              call'[q].id \in Stored' /\ users'[call'[q].id].role # "AGENT"
  <1> SUFFICES ASSUME Inv, [Next]_vars, NEW q \in Requests
               PROVE  Fine(q)
    BY DEF WrittenInv
  <1>1. TypeOK
    BY DEF Inv
  <1>2. /\ \A p \in overtaken[q] : p \in Requests /\ pc[p] # "idle"
        /\ wrote[q] # None =>
              /\ pc[q] \in {"answer", "done"}
              /\ answer[q] \notin {"not_found", "conflict", "violation"}
        /\ pc[q] = "write" => Explained(q)
        /\ /\ pc[q] = "answer" \/ answer[q] = "ok"
           /\ call[q].op \in {"update", "deactivate"}
           => DoneUnlessOvertaken(q)
        /\ answer[q] = "not_found" /\ call[q].id \in seen[q] =>
              call[q].id \in Stored /\ users[call[q].id].role # "AGENT"
        /\ pc[q] # "done" => answer[q] = "none"
        /\ pc[q] \in {"lookup", "insert", "commit"} =>
              call[q].op \in {"ticket", "create"}
    BY <1>1 DEF Inv, WrittenInv, EffectInv, RequestInv, TypeOK
  <1>3. \A i \in Stored : i \in Stored' /\ users'[i].role = users[i].role
    BY UsersStay
  <1>4. \A p \in overtaken[q] : pc'[p] # "idle" /\ call'[p] = call[p]
    BY <1>2, CallsStay
  <1>5. ASSUME wrote'[q] = wrote[q], overtaken'[q] = overtaken[q],
               call'[q] = call[q], DoneUnlessOvertaken(q)
        PROVE  DoneUnlessOvertaken(q)'
    BY <1>4, <1>5 DEF DoneUnlessOvertaken
  (* A step of q itself that writes nothing.                               *)
  <1>6. CASE /\ wrote'[q] = wrote[q] /\ overtaken'[q] = overtaken[q]
             /\ call'[q] = call[q] /\ pc'[q] # "write"
             /\ \/ /\ pc[q] \in {"lookup", "insert", "commit"}
                   /\ answer'[q] # "not_found"
                \/ /\ pc[q] \notin {"idle", "done"} /\ pc'[q] = "done"
                   /\ answer'[q] \in {"ok", "error"}
                   /\ answer'[q] = "ok" => pc[q] = "answer"
    BY <1>2, <1>4, <1>5, <1>6
  <1> USE DEF GoTo, Finish, history
  <1>7. CASE Accept(q)
    <2>1. /\ pc[q] = "idle" /\ pc'[q] \in {"lookup", "load"}
          /\ UNCHANGED <<answer, history>>
      BY <1>1, <1>7 DEF Accept, TypeOK
    <2> QED
      BY <1>2, <1>4, <2>1
  <1>8. CASE FindByEmail(q) \/ Insert(q) \/ Commit(q) \/ Respond(q) \/ Fail(q)
    <2>1. CASE FindByEmail(q)
      BY <1>1, <1>2, <1>6, <2>1 DEF FindByEmail, TypeOK
    <2>2. CASE Insert(q) \/ Commit(q)
      BY <1>1, <1>2, <1>6, <2>2 DEF Insert, Commit, TypeOK
    <2>3. CASE Respond(q) \/ Fail(q)
      BY <1>1, <1>6, <2>3 DEF Respond, Fail, TypeOK
    <2> QED
      BY <1>8, <2>1, <2>2, <2>3
  <1>9. CASE LoadAgent(q)
    <2>1. /\ pc[q] = "load" /\ UNCHANGED <<users, call, history>>
          /\ seen'[q] = Stored
          /\ \/ /\ pc'[q] = "write" /\ answer' = answer
                /\ loaded'[q] = users[call[q].id]
             \/ /\ pc'[q] = "done" /\ answer'[q] = "not_found"
                /\ ~ (call[q].id \in Stored /\ users[call[q].id].role = "AGENT")
      BY <1>1, <1>9 DEF LoadAgent, TypeOK
    <2>2. pc'[q] = "write" => Explained(q)'
      BY <2>1 DEF Explained
    <2> QED
      BY <1>2, <1>3, <1>4, <2>1, <2>2
  <1>10. CASE Write(q)
    <2>1. /\ pc[q] = "write" /\ pc'[q] = "answer" /\ UNCHANGED <<call, answer>>
          /\ overtaken'[q] = overtaken[q]
      BY <1>1, <1>10 DEF Write, TypeOK
    <2>2. DoneUnlessOvertaken(q)'
      BY <1>10, WriteIsDone
    <2> QED
      BY <1>2, <1>4, <2>1, <2>2
  <1>11. ASSUME NEW r \in Requests, Accept(r) \/ Proceed(r) \/ Fail(r), q # r
         PROVE  Fine(q)
    <2>1. /\ pc'[q] = pc[q] /\ call'[q] = call[q] /\ answer'[q] = answer[q]
          /\ loaded'[q] = loaded[q] /\ seen'[q] = seen[q]
          /\ wrote'[q] = wrote[q] /\ overtaken[q] \subseteq overtaken'[q]
          /\ pc[q] # "write" => overtaken'[q] = overtaken[q]
      BY <1>1, <1>11, OthersStay
    <2>2. pc'[q] = "write" => Explained(q)'
      BY <2>1, ExplainedStays
    <2>3. \A p \in overtaken'[q] : pc'[p] # "idle"
      <3>1. CASE overtaken'[q] = overtaken[q]
        BY <1>4, <3>1
      <3>2. CASE Write(r)
        <4>1. overtaken'[q] \subseteq overtaken[q] \cup {r} /\ pc'[r] = "answer"
          BY <1>1, <3>2 DEF Write, TypeOK
        <4> QED
          BY <1>4, <4>1
      <3>3. CASE ~ Write(r)
        BY <1>1, <1>4, <1>11, <3>3
           DEF Accept, Proceed, FindByEmail, Insert, Commit, LoadAgent, Respond,
               Fail
      <3> QED
        BY <3>1, <3>2, <3>3
    <2>4. pc[q] = "answer" \/ answer[q] = "ok" => pc[q] # "write"
      BY <1>2
    <2> QED
      BY <1>2, <1>3, <1>5, <2>1, <2>2, <2>3, <2>4
  <1>12. CASE UNCHANGED vars
    <2>1. /\ UNCHANGED <<users, call, pc, answer, loaded, seen, overtaken, wrote>>
          /\ Stored' = Stored
      BY <1>12 DEF vars, Stored
    <2>2. /\ Explained(q)' = Explained(q)
          /\ DoneUnlessOvertaken(q)' = DoneUnlessOvertaken(q)
      BY <2>1 DEF Explained, DoneUnlessOvertaken
    <2> QED
      BY <1>2, <2>1, <2>2
  <1> QED
    BY <1>7, <1>8, <1>9, <1>10, <1>11, <1>12 DEF Next, Quiet, Proceed

-----------------------------------------------------------------------------
(* Addresses.                                                              *)

(* Another user with an address appears only from the claim on it.         *)
LEMMA NewAddress ==
  ASSUME Inv, [Next]_vars, NEW i \in Stored' \ Stored
  PROVE  /\ i \in Requests /\ Commit(i)
         /\ users'[i].email = call[i].email
         /\ call[i].email \in Emails
         /\ claim[call[i].email] = i
         /\ WithEmail(call[i].email) = {}
  <1>1. /\ i \in Requests /\ Commit(i) /\ found[i] = i
        /\ users'[i] = NewRow(call[i])
    BY UsersStay
  <1>2. /\ call[i] \in Calls /\ call[i].op \in {"ticket", "create"}
        /\ claim[call[i].email] = i
    BY <1>1 DEF Commit, Inv, RequestInv, ClaimInv
  <1>3. call[i].email \in Emails /\ users'[i].email = call[i].email
    BY <1>1, <1>2, CallFacts, NewRowFacts
  <1>4. WithEmail(call[i].email) = {}
    BY <1>1, <1>2, <1>3, RowIsNotNone DEF Inv, ClaimInv
  <1> QED
    BY <1>1, <1>2, <1>3, <1>4

LEMMA NextAddressInv == Inv /\ [Next]_vars => AddressInv'
  <1> SUFFICES ASSUME Inv, [Next]_vars, NEW i \in Stored', NEW j \in Stored',
                      users'[i].email = users'[j].email
               PROVE  i = j
    BY DEF AddressInv
  <1>1. CASE i \in Stored /\ j \in Stored
    BY <1>1, UsersStay DEF Inv, AddressInv
  <1>2. ASSUME NEW a \in Stored' \ Stored, NEW b \in Stored,
               users'[a].email = users'[b].email
        PROVE  FALSE
    <2>1. b \in WithEmail(call[a].email)
      BY <1>2, NewAddress, UsersStay DEF WithEmail
    <2> QED
      BY <2>1, NewAddress
  <1>3. CASE i \notin Stored /\ j \notin Stored
    BY <1>3, NewAddress
  <1> QED
    BY <1>1, <1>2, <1>3

LEMMA NextClaimInv == Inv /\ [Next]_vars => ClaimInv'
  <1> SUFFICES ASSUME Inv, [Next]_vars PROVE ClaimInv'
    OBVIOUS
  <1>1. TypeOK
    BY DEF Inv
  <1> USE DEF GoTo, Finish
  (* A claim that stays: its request has not moved, and nobody else can    *)
  (* have committed the address.                                           *)
  <1>2. ASSUME NEW e \in Emails, NEW q \in Requests, claim[e] = q,
               pc'[q] = pc[q], found'[q] = found[q], call'[q] = call[q]
        PROVE  /\ pc'[q] = "commit" /\ found'[q] = q /\ call'[q].email = e
               /\ WithEmail(e)' = {}
    <2>1. /\ pc[q] = "commit" /\ found[q] = q /\ call[q].email = e
          /\ WithEmail(e) = {}
      BY <1>2, RowIsNotNone DEF Inv, ClaimInv
    <2>2. ASSUME NEW i \in Stored', users'[i].email = e
          PROVE  FALSE
      <3>1. CASE i \in Stored
        BY <2>1, <2>2, <3>1, UsersStay DEF WithEmail
      <3>2. CASE i \notin Stored
        <4>1. Commit(i) /\ claim[e] = i
          BY <2>2, <3>2, NewAddress
        <4> QED
          BY <1>1, <1>2, <2>1, <4>1 DEF Commit, TypeOK
      <3> QED
        BY <3>1, <3>2
    <2> QED
      BY <1>2, <2>1, <2>2 DEF WithEmail
  <1>3. ASSUME NEW q \in Requests, pc[q] = "commit",
               pc'[q] = pc[q], found'[q] = found[q], call'[q] = call[q],
               claim[call[q].email] = q => claim'[call[q].email] = q
        PROVE  \/ found'[q] = q /\ claim'[call'[q].email] = q
               \/ /\ found'[q] # q /\ call'[q].op = "ticket"
                  /\ found'[q] \in Stored'
                  /\ users'[found'[q]].email = call'[q].email
    BY <1>3, UsersStay DEF Inv, ClaimInv
  <1>4. ASSUME NEW r \in Requests, Accept(r) \/ Proceed(r) \/ Fail(r),
               claim' = claim \/ claim' = Released(r),
               pc[r] = "commit" => claim' = Released(r),
               pc'[r] = "commit" => FindByEmail(r)
        PROVE  ClaimInv'
    <2>1. ASSUME NEW e \in Emails, claim'[e] # None
          PROVE  /\ pc'[claim'[e]] = "commit"
                 /\ found'[claim'[e]] = claim'[e]
                 /\ call'[claim'[e]].email = e
                 /\ WithEmail(e)' = {}
      <3>1. claim'[e] = claim[e] /\ claim[e] \in Requests
        BY <1>1, <1>4, <2>1 DEF Released, TypeOK
      <3>2. pc[claim[e]] = "commit"
        BY <2>1, <3>1 DEF Inv, ClaimInv
      <3>3. claim[e] # r
        BY <1>4, <2>1, <3>1, <3>2 DEF Released
      <3> QED
        BY <1>1, <1>2, <1>4, <3>1, <3>3, OthersStay
    <2>2. ASSUME NEW q \in Requests, pc'[q] = "commit"
          PROVE  \/ found'[q] = q /\ claim'[call'[q].email] = q
                 \/ /\ found'[q] # q /\ call'[q].op = "ticket"
                    /\ found'[q] \in Stored'
                    /\ users'[found'[q]].email = call'[q].email
      <3>1. CASE q # r
        <4>1. /\ pc'[q] = pc[q] /\ found'[q] = found[q] /\ call'[q] = call[q]
          BY <1>1, <1>4, <3>1, OthersStay
        <4>2. call[q].email \in Emails
          BY <2>2, <4>1, CallFacts DEF Inv, RequestInv
        <4>3. claim[call[q].email] = q => claim'[call[q].email] = q
          BY <1>4, <3>1, <4>2 DEF Released
        <4> QED
          BY <1>3, <2>2, <4>1, <4>3
      <3>2. CASE q = r
        <4>1. /\ pc[r] = "lookup" /\ call[r].op = "ticket" /\ call'[r] = call[r]
              /\ found'[r] \in WithEmail(call[r].email)
          BY <1>1, <1>4, <2>2, <3>2 DEF FindByEmail, TypeOK
        <4>2. r \notin Stored
          BY <4>1 DEF Inv, EffectInv
        <4> QED
          BY <3>2, <4>1, <4>2, UsersStay DEF WithEmail
      <3> QED
        BY <3>1, <3>2
    <2> QED
      BY <2>1, <2>2 DEF ClaimInv
  <1>5. ASSUME NEW r \in Requests, Insert(r)
        PROVE  ClaimInv'
    <2>1. CASE claim' = claim
      <3>1. pc[r] # "commit" /\ pc'[r] # "commit"
        BY <1>1, <1>5, <2>1, RowIsNotNone, CallFacts
           DEF Insert, TypeOK, Inv, RequestInv
      <3> QED
        BY <1>4, <1>5, <2>1, <3>1 DEF Proceed
    <2>2. ASSUME NEW e \in Emails, call[r].email = e, claim[e] = None,
                 WithEmail(e) = {}, claim' = [claim EXCEPT ![e] = r],
                 found' = [found EXCEPT ![r] = r],
                 pc' = [pc EXCEPT ![r] = "commit"],
                 UNCHANGED <<users, call>>
          PROVE  ClaimInv'
      <3>1. WithEmail(e)' = {} /\ pc[r] = "insert"
        BY <1>5, <2>2 DEF WithEmail, Stored, Insert
      <3>2. /\ claim'[e] = r /\ pc'[r] = "commit" /\ found'[r] = r
            /\ call'[r].email = e
            /\ \A f \in Emails \ {e} : claim'[f] = claim[f]
            /\ \A q \in Requests \ {r} :
                  pc'[q] = pc[q] /\ found'[q] = found[q] /\ call'[q] = call[q]
        BY <1>1, <2>2 DEF TypeOK
      <3>3. ASSUME NEW f \in Emails, claim'[f] # None
            PROVE  /\ pc'[claim'[f]] = "commit"
                   /\ found'[claim'[f]] = claim'[f]
                   /\ call'[claim'[f]].email = f
                   /\ WithEmail(f)' = {}
        <4>1. CASE f = e
          BY <3>1, <3>2, <4>1
        <4>2. CASE f # e
          <5>1. claim'[f] = claim[f] /\ claim[f] \in Requests
            BY <1>1, <3>2, <3>3, <4>2 DEF TypeOK
          <5>2. claim[f] # r
            BY <3>1, <3>3, <5>1 DEF Inv, ClaimInv
          <5> QED
            BY <1>2, <3>2, <5>1, <5>2
        <4> QED
          BY <4>1, <4>2
      <3>4. ASSUME NEW q \in Requests, pc'[q] = "commit"
            PROVE  \/ found'[q] = q /\ claim'[call'[q].email] = q
                   \/ /\ found'[q] # q /\ call'[q].op = "ticket"
                      /\ found'[q] \in Stored'
                      /\ users'[found'[q]].email = call'[q].email
        <4>1. CASE q = r
          BY <3>2, <4>1
        <4>2. CASE q # r
          <5>1. pc[q] = "commit" /\ call[q].email \in Emails
            BY <3>2, <3>4, <4>2, CallFacts DEF Inv, RequestInv
          <5>2. claim[call[q].email] = q => claim'[call[q].email] = q
            BY <2>2, <3>2, <5>1, RowIsNotNone
          <5> QED
            BY <1>3, <3>2, <4>2, <5>1, <5>2
        <4> QED
          BY <4>1, <4>2
      <3> QED
        BY <3>3, <3>4 DEF ClaimInv
    <2>3. call[r].email \in Emails
      BY <1>5, CallFacts DEF Insert, Inv, RequestInv
    <2> QED
      BY <1>5, <2>1, <2>2, <2>3 DEF Insert
  <1>6. ASSUME NEW r \in Requests, Accept(r) \/ FindByEmail(r) \/ LoadAgent(r)
                                      \/ Write(r) \/ Respond(r)
        PROVE  ClaimInv'
    <2>1. /\ claim' = claim /\ pc[r] # "commit"
          /\ pc'[r] = "commit" => FindByEmail(r)
      BY <1>1, <1>6 DEF Accept, FindByEmail, LoadAgent, Write, Respond, TypeOK
    <2> QED
      BY <1>4, <1>6, <2>1 DEF Proceed
  <1>7. ASSUME NEW r \in Requests, Commit(r) \/ Fail(r)
        PROVE  ClaimInv'
    <2>1. claim' = Released(r) /\ pc'[r] # "commit"
      BY <1>1, <1>7 DEF Commit, Fail, TypeOK
    <2> QED
      BY <1>4, <1>7, <2>1 DEF Proceed
  <1>8. CASE UNCHANGED vars
    BY <1>8 DEF vars, Inv, ClaimInv, WithEmail, Stored
  <1> QED
    BY <1>5, <1>6, <1>7, <1>8 DEF Next, Quiet, Proceed

(* Who had looked and found the address free, and then lost to another.    *)
LEMMA NextViolation == Inv /\ [Next]_vars => ViolationIsOverlap'
  <1> SUFFICES ASSUME Inv, [Next]_vars, NEW q \in Requests,
                      answer'[q] = "violation"
               PROVE  \E i \in Stored' \ seen'[q] :
                         users'[i].email = call'[q].email
    BY DEF ViolationIsOverlap, WithEmail
  <1>1. TypeOK
    BY DEF Inv
  <1> USE DEF GoTo, Finish
  <1>2. CASE Insert(q)
    <2>1. /\ pc[q] = "insert" /\ answer[q] = "none"
          /\ UNCHANGED <<users, call, seen>>
      BY <1>2 DEF Insert, Inv, EffectInv
    <2>2. WithEmail(call[q].email) # {}
      BY <1>1, <1>2, <2>1 DEF Insert, TypeOK
    <2>3. PICK i \in Stored : users[i].email = call[q].email
      BY <2>2 DEF WithEmail
    <2>4. i \notin seen[q]
      BY <2>1, <2>3 DEF Inv, RequestInv
    <2> QED
      BY <2>1, <2>3, <2>4, UsersStay
  <1>3. CASE answer[q] = "violation" /\ call'[q] = call[q] /\ seen'[q] = seen[q]
    <2>1. PICK i \in Stored \ seen[q] : users[i].email = call[q].email
      BY <1>3 DEF Inv, ViolationIsOverlap, WithEmail
    <2> QED
      BY <1>3, <2>1, UsersStay
  <1>4. CASE \/ Accept(q) \/ FindByEmail(q) \/ Commit(q) \/ LoadAgent(q)
             \/ Write(q) \/ Respond(q) \/ Fail(q)
    <2>1. pc[q] # "done" /\ answer'[q] \in {answer[q], "conflict", "not_found",
                                           "ok", "error"}
      BY <1>1, <1>4 DEF Accept, FindByEmail, Commit, LoadAgent, Write, Respond,
                        Fail, TypeOK
    <2> QED
      BY <2>1 DEF Inv, EffectInv
  <1>5. ASSUME NEW r \in Requests, Accept(r) \/ Proceed(r) \/ Fail(r), q # r
        PROVE  answer[q] = "violation" /\ call'[q] = call[q] /\ seen'[q] = seen[q]
    BY <1>1, <1>5, OthersStay
  <1>6. CASE UNCHANGED vars
    BY <1>3, <1>6 DEF vars
  <1> QED
    BY <1>2, <1>3, <1>4, <1>5, <1>6 DEF Next, Quiet, Proceed

-----------------------------------------------------------------------------
LEMMA InitInv == Init => Inv
  <1> SUFFICES ASSUME Init PROVE Inv
    OBVIOUS
  <1>1. /\ \A i \in SeedUsers : users[i] \in Row /\ users[i] = SeedRow[i]
        /\ \A r \in Requests : users[r] = None
        /\ users \in [Ids -> Row \cup {None}]
    BY DirectoryAssumption DEF Init, Ids
  <1>2. Stored = SeedUsers
    BY <1>1, RowIsNotNone DEF Stored, Ids
  <1>3. TypeOK
    BY <1>1 DEF Init, TypeOK, Place, Answer
  <1>4. RequestInv /\ ClaimInv /\ WrittenInv /\ ViolationIsOverlap
    BY DEF Init, RequestInv, ClaimInv, WrittenInv, ViolationIsOverlap
  <1>5. EffectInv
    BY <1>2, DirectoryAssumption DEF Init, EffectInv
  <1>6. AddressInv
    BY <1>1, <1>2, DirectoryAssumption DEF AddressInv
  <1> QED
    BY <1>3, <1>4, <1>5, <1>6 DEF Inv

LEMMA NextInv == Inv /\ [Next]_vars => Inv'
  BY NextTypeOK, NextRequestInv, NextEffectInv, NextClaimInv, NextAddressInv,
     NextWrittenInv, NextViolation DEF Inv

LEMMA InvCorrect == Spec => []Inv
  BY InitInv, NextInv, PTL DEF Spec

(* Every variable keeps its type, and the customer of a ticket is a user   *)
(* who is stored.                                                          *)
THEOREM TypeCorrect == Spec => []TypeOK
  <1>1. Inv => TypeOK
    BY DEF Inv
  <1> QED
    BY InvCorrect, <1>1, PTL

(* The unique index keeps what get_by_email cannot: of any number of       *)
(* requests that found an address free, one gets it, and while one has an  *)
(* uncommitted INSERT of it nobody has it yet.                             *)
THEOREM EmailsAreUnique == Spec => []EmailUnique
  <1>1. ASSUME Inv, NEW e \in Emails
        PROVE  Cardinality(WithEmail(e)) + (IF claim[e] = None THEN 0 ELSE 1) <= 1
    <2>1. CASE WithEmail(e) = {}
      <3>1. Cardinality(WithEmail(e)) = 0
        BY <2>1, FS_EmptySet
      <3> QED
        BY <3>1
    <2>2. ASSUME NEW i \in WithEmail(e)
          PROVE  Cardinality(WithEmail(e)) = 1 /\ claim[e] = None
      <3>1. WithEmail(e) = {i}
        BY <1>1, <2>2 DEF WithEmail, Inv, AddressInv
      <3>2. Cardinality({i}) = 1
        BY FS_Singleton
      <3>3. claim[e] = None
        BY <1>1, <2>2 DEF Inv, ClaimInv
      <3> QED
        BY <3>1, <3>2, <3>3
    <2> QED
      BY <2>1, <2>2
  <1>2. Inv => EmailUnique
    BY <1>1 DEF EmailUnique
  <1> QED
    BY InvCorrect, <1>2, PTL

(* The customer of a ticket is the user with the address its client gave,  *)
(* whoever created him, and no customer was stored without his ticket: the *)
(* two are flushed and committed by one transaction.                       *)
THEOREM CustomersComeWithTickets == Spec => []TicketHasItsCustomer
  <1>1. Inv => TicketHasItsCustomer
    BY DEF Inv, EffectInv, TicketHasItsCustomer
  <1> QED
    BY InvCorrect, <1>1, PTL

(* The 500 of a violated unique constraint is a race: the user who has the *)
(* address was committed after the request had looked for him.             *)
THEOREM ViolationNeedsOverlap == Spec => []ViolationIsOverlap
  <1>1. Inv => ViolationIsOverlap
    BY DEF Inv
  <1> QED
    BY InvCorrect, <1>1, PTL

(* An answer tells what happened: 404, 409 and a violated constraint leave *)
(* nothing behind, success leaves a ticket, a new agent, or an agent whose *)
(* row is as the request asked for.  Only a request that was overtaken     *)
(* between its read and its write may be answered 200 with a column that   *)
(* is not so, and then that column is what the other asked for.            *)
THEOREM AnswersTellEffects == Spec => []AnswerTellsEffect
  <1>1. ASSUME Inv, NEW r \in Requests
        PROVE  /\ answer[r] \in {"not_found", "conflict", "violation"}
                    => r \notin Stored /\ tickets[r] = None /\ wrote[r] = None
               /\ answer[r] = "not_found" /\ call[r].id \in seen[r]
                    => users[call[r].id].role # "AGENT"
               /\ answer[r] = "ok" /\ call[r].op = "ticket" => tickets[r] # None
               /\ answer[r] = "ok" /\ call[r].op = "create"
                    => r \in Stored /\ users[r].role = "AGENT"
               /\ answer[r] = "ok" /\ call[r].op \in {"update", "deactivate"}
                    => DoneUnlessOvertaken(r)
    BY <1>1 DEF Inv, EffectInv, WrittenInv
  <1>2. Inv => AnswerTellsEffect
    BY <1>1 DEF AnswerTellsEffect
  <1> QED
    BY InvCorrect, <1>2, PTL

(* Users stay, with their address and role.  A column gets another value   *)
(* only from a request that asks for it and is being written to that user, *)
(* so that no overlapping update puts back what it had read.               *)
THEOREM ChangesAreAsked == Spec => NothingChangesUnasked
  <1> DEFINE Kept(i) ==
         /\ users'[i] # None
         /\ users'[i].email = users[i].email
         /\ users'[i].role = users[i].role
         /\ users'[i] # users[i] => users[i].role = "AGENT"
         /\ users'[i].name # users[i].name =>
               \E r \in Writing(i) : AsksName(call[r], users'[i].name)
         /\ users'[i].is_active # users[i].is_active =>
               \E r \in Writing(i) : AsksActive(call[r], users'[i].is_active)
  <1>1. ASSUME Inv, [Next]_vars, NEW i \in Stored
        PROVE  Kept(i)
    <2>1. /\ users'[i] # None
          /\ users'[i].email = users[i].email
          /\ users'[i].role = users[i].role
      BY <1>1, UsersStay DEF Stored
    <2>2. users \in [Ids -> Row \cup {None}] /\ i \in Ids /\ users[i] \in Row
      BY <1>1 DEF Inv, TypeOK, Stored
    <2>3. CASE users'[i] = users[i]
      BY <2>1, <2>3
    <2>4. ASSUME NEW r \in Requests, Write(r) /\ call[r].id = i,
                 users[i].role = "AGENT",
                 users' = [users EXCEPT
                             ![i] = Updated(users[i], loaded[r], call[r])]
          PROVE  Kept(i)
      <3>1. /\ pc[r] = "write" /\ loaded[r] \in Row /\ call[r] \in Calls
            /\ call[r].op \in {"update", "deactivate"}
        BY <1>1, <2>4 DEF Write, Inv, RequestInv
      <3>2. users'[i] = Updated(users[i], loaded[r], call[r])
        BY <2>2, <2>4
      <3>3. /\ users'[i].name # users[i].name =>
                  AsksName(call[r], users'[i].name)
            /\ users'[i].is_active # users[i].is_active =>
                  AsksActive(call[r], users'[i].is_active)
        <4> DEFINE row == Updated(users[i], loaded[r], call[r])
        <4>1. /\ row.name # users[i].name => AsksName(call[r], row.name)
              /\ row.is_active # users[i].is_active =>
                    AsksActive(call[r], row.is_active)
          BY <2>2, <3>1, UpdatedFacts
        <4>2. users'[i] = row
          BY <3>2
        <4> HIDE DEF row
        <4> QED
          BY <4>1, <4>2
      <3>4. r \in Writing(i)
        BY <2>4, <3>1 DEF Writing
      <3> QED
        BY <2>1, <2>4, <3>3, <3>4
    <2>5. ASSUME NEW r \in Requests, r \notin Stored,
                 users' = [users EXCEPT ![r] = NewRow(call[r])]
          PROVE  users'[i] = users[i]
      BY <1>1, <2>2, <2>5
    <2>6. ASSUME NEW r \in Requests, NEW j \in Stored, j # i,
                 users' = [users EXCEPT
                             ![j] = Updated(users[j], loaded[r], call[r])]
          PROVE  users'[i] = users[i]
      BY <2>2, <2>6
    <2> QED
      BY <1>1, <2>3, <2>4, <2>5, <2>6, UserSteps
  <1>2. Inv /\ [Next]_vars => [\A i \in Stored : Kept(i)]_vars
    BY <1>1
  <1> QED
    BY InvCorrect, <1>2, PTL DEF Spec, NothingChangesUnasked

=============================================================================
