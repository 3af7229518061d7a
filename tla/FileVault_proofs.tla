-------------------------- MODULE FileVault_proofs --------------------------
(* Proofs about FileVault, for any users, slots and bounds: one inductive
   invariant, of the chain of rows and of each row with its history. *)
EXTENDS FileVault, SequenceTheorems, TLAPS

Counts == [deleted: Nat, restored: Nat]

(* What the properties say of one row, the users told of it, its recorded
   facts, and whether a user was robbed of it. *)
Good(row, users, counts, wasRobbed) ==
  /\ row \in Row /\ users \subseteq Users /\ counts \in Counts
  /\ row.expired => row.holder # Nobody
  /\ \A u \in users : row.holder = u \/ wasRobbed
  /\ counts.restored <= counts.deleted
  /\ row.deleted => counts.restored < counts.deleted

(* A row in its place in a chain of n rows. *)
InPlace(row, k, n) == row.version = k /\ (row.latest <=> k = n)

ChainInv ==
  /\ rows \in Seq(Row) /\ rows # <<>>
  /\ told \in Seq(SUBSET Users) /\ Len(told) = Len(rows)
  /\ facts \in Seq(Counts) /\ Len(facts) = Len(rows)
  /\ robbed \subseteq DOMAIN rows
  /\ \A k \in 1 .. Len(rows) : /\ Good(rows[k], told[k], facts[k], k \in robbed)
                               /\ InPlace(rows[k], k, Len(rows))

(* A request is of a user, and of one of n rows. *)
Aimed(req, n) == req.row \in 1 .. n /\ (req.op # "none" => req.user \in Users)

SlotsInv == /\ request \in [Requests -> Request]
            /\ \A q \in Requests : Aimed(request[q], Len(rows))
            /\ requests \in Nat /\ expiries \in Nat

VaultInv == ChainInv /\ SlotsInv

-----------------------------------------------------------------------------
(* What each change does to one row *)

LEMMA FreeRow ==
  ASSUME NEW row \in Row
  PROVE  /\ Free(row) \in Row /\ Free(row).holder = Nobody /\ ~Free(row).expired
         /\ Free(row).version = row.version /\ Free(row).latest = row.latest
         /\ Free(row).deleted = row.deleted
  BY DEF Free, Row

LEMMA DemotedRow ==
  ASSUME NEW row \in Row
  PROVE  /\ Demoted(row) \in Row /\ Demoted(row).holder = Nobody /\ ~Demoted(row).expired
         /\ Demoted(row).version = row.version /\ ~Demoted(row).latest
         /\ Demoted(row).deleted = row.deleted
  BY DEF Demoted, Free, Row

LEMMA HeldRow ==
  ASSUME NEW row \in Row, NEW u \in Users
  PROVE  /\ Held(row, u) \in Row /\ Held(row, u).holder = u
         /\ Held(row, u).version = row.version /\ Held(row, u).latest = row.latest
         /\ Held(row, u).deleted = row.deleted /\ Held(row, u).expired = row.expired
  BY DEF Held, Row

LEMMA AgedRow ==
  ASSUME NEW row \in Row
  PROVE  /\ Aged(row) \in Row /\ Aged(row).holder = row.holder
         /\ Aged(row).version = row.version /\ Aged(row).latest = row.latest
         /\ Aged(row).deleted = row.deleted
  BY DEF Aged, Row

LEMMA RemovedRow ==
  ASSUME NEW row \in Row, NEW gone \in BOOLEAN
  PROVE  /\ Removed(row, gone) \in Row /\ Removed(row, gone).holder = row.holder
         /\ Removed(row, gone).version = row.version
         /\ Removed(row, gone).latest = row.latest
         /\ Removed(row, gone).deleted = gone /\ Removed(row, gone).expired = row.expired
  BY DEF Removed, Row

LEMMA FreshRow ==
  ASSUME NEW n \in Nat
  PROVE  /\ NewVersion(n) \in Row /\ NewVersion(n).version = n /\ NewVersion(n).latest
         /\ Good(NewVersion(n), {}, NoFacts, FALSE)
  BY DEF NewVersion, Row, Good, NoFacts, Counts

LEMMA CountedFacts ==
  ASSUME NEW counts \in Counts
  PROVE  /\ Recorded(counts, "deleted") \in Counts /\ Recorded(counts, "restored") \in Counts
         /\ Recorded(counts, "deleted").deleted = counts.deleted + 1
         /\ Recorded(counts, "deleted").restored = counts.restored
         /\ Recorded(counts, "restored").restored = counts.restored + 1
         /\ Recorded(counts, "restored").deleted = counts.deleted
  BY DEF Recorded, Counts

-----------------------------------------------------------------------------
(* What each change does to the chain *)

LEMMA OneEntry ==
  ASSUME NEW S, NEW s \in Seq(S), NEW i \in 1 .. Len(s), NEW x \in S,
         NEW e, e = [s EXCEPT ![i] = x]
  PROVE  /\ e \in Seq(S) /\ Len(e) = Len(s)
         /\ \A k \in 1 .. Len(s) : e[k] = IF k = i THEN x ELSE s[k]
  BY ExceptSeq

LEMMA OneMore ==
  ASSUME NEW S, NEW s \in Seq(S), NEW x \in S, NEW e, e = Append(s, x),
         NEW n \in Nat, Len(s) = n
  PROVE  /\ e \in Seq(S) /\ Len(e) = n + 1 /\ e # <<>>
         /\ \A k \in 1 .. n : e[k] = s[k]
         /\ e[n + 1] = x
  BY AppendProperties

LEMMA Same ==
  ASSUME NEW S, NEW s \in Seq(S), NEW k \in 1 .. Len(s)
  PROVE  s = [s EXCEPT ![k] = s[k]]
  BY LenProperties

(* A write of one row that leaves it in its place. *)
LEMMA OneRow ==
  ASSUME ChainInv, NEW r \in 1 .. Len(rows), NEW row \in Row,
         row.version = rows[r].version, row.latest = rows[r].latest,
         rows' = [rows EXCEPT ![r] = row],
         NEW users \in SUBSET Users, told' = [told EXCEPT ![r] = users],
         NEW counts \in Counts, facts' = [facts EXCEPT ![r] = counts],
         robbed' \in {robbed, robbed \union {r}},
         Good(row, users, counts, r \in robbed')
  PROVE  ChainInv' /\ Len(rows') = Len(rows)
<1>1. /\ rows' \in Seq(Row) /\ Len(rows') = Len(rows)
      /\ \A k \in 1 .. Len(rows) : rows'[k] = IF k = r THEN row ELSE rows[k]
  BY OneEntry DEF ChainInv
<1>2. /\ told' \in Seq(SUBSET Users) /\ Len(told') = Len(told)
      /\ \A k \in 1 .. Len(told) : told'[k] = IF k = r THEN users ELSE told[k]
  BY OneEntry DEF ChainInv
<1>3. /\ facts' \in Seq(Counts) /\ Len(facts') = Len(facts)
      /\ \A k \in 1 .. Len(facts) : facts'[k] = IF k = r THEN counts ELSE facts[k]
  BY OneEntry DEF ChainInv
<1>4. Len(told) = Len(rows) /\ Len(facts) = Len(rows) /\ Len(rows) \in Nat
      /\ DOMAIN rows' = 1 .. Len(rows) /\ robbed' \subseteq 1 .. Len(rows) /\ rows' # <<>>
  BY <1>1, LenProperties DEF ChainInv
<1>5. ASSUME NEW k \in 1 .. Len(rows)
      PROVE  /\ Good(rows'[k], told'[k], facts'[k], k \in robbed')
             /\ InPlace(rows'[k], k, Len(rows))
  <2>1. CASE k = r
    <3>1. rows'[k] = row /\ told'[k] = users /\ facts'[k] = counts
      BY <2>1, <1>1, <1>2, <1>3, <1>4
    <3>2. InPlace(rows[k], k, Len(rows))
      BY DEF ChainInv
    <3> QED BY <3>1, <3>2, <2>1 DEF InPlace
  <2>2. CASE k # r
    <3>1. (k \in robbed) = (k \in robbed')
      BY <2>2
    <3> QED BY <3>1, <2>2, <1>1, <1>2, <1>3, <1>4 DEF ChainInv
  <2> QED BY <2>1, <2>2
<1> QED BY <1>1, <1>2, <1>3, <1>4, <1>5 DEF ChainInv

(* The head of the chain is demoted and its successor appended. *)
LEMMA NewHead ==
  ASSUME ChainInv, NEW r \in 1 .. Len(rows), rows[r].latest,
         rows' = Append([rows EXCEPT ![r] = Demoted(@)], NewVersion(rows[r].version + 1)),
         NEW users \in SUBSET Users, told' = Append([told EXCEPT ![r] = users], {}),
         facts' = Append(facts, NoFacts), UNCHANGED robbed,
         Good(Demoted(rows[r]), users, facts[r], r \in robbed)
  PROVE  ChainInv' /\ Len(rows') = Len(rows) + 1
<1> DEFINE n == Len(rows)
<1>1. /\ n \in Nat /\ Len(told) = n /\ Len(facts) = n /\ r = n /\ rows[r].version = n
      /\ rows[r] \in Row /\ DOMAIN rows = 1 .. n
  BY LenProperties DEF ChainInv, InPlace, Good
<1>2. Demoted(rows[r]) \in Row /\ ~Demoted(rows[r]).latest /\ Demoted(rows[r]).version = n
  BY <1>1, DemotedRow
<1>3. /\ NewVersion(n + 1) \in Row
      /\ NewVersion(n + 1).version = n + 1 /\ NewVersion(n + 1).latest
      /\ Good(NewVersion(n + 1), {}, NoFacts, FALSE)
  <2>1. n + 1 \in Nat
    BY <1>1
  <2> QED BY <2>1, FreshRow, Zenon
<1>4. NoFacts \in Counts
  BY DEF NoFacts, Counts
<1>5. PICK before : before = [rows EXCEPT ![r] = Demoted(rows[r])]
  OBVIOUS
<1>6. /\ before \in Seq(Row) /\ Len(before) = n
      /\ \A k \in 1 .. n : before[k] = IF k = r THEN Demoted(rows[r]) ELSE rows[k]
  BY <1>2, <1>5, OneEntry DEF ChainInv
<1>7. rows' = Append(before, NewVersion(n + 1))
  BY <1>1, <1>5
<1>8. /\ rows' \in Seq(Row) /\ rows' # <<>> /\ Len(rows') = n + 1
      /\ \A k \in 1 .. n : rows'[k] = before[k]
      /\ rows'[n + 1] = NewVersion(n + 1)
  <2>1. n \in Nat /\ Len(before) = n /\ before \in Seq(Row)
    BY <1>1, <1>6
  <2>2. NewVersion(n + 1) \in Row
    BY <1>3
  <2> HIDE DEF n
  <2> QED BY ONLY <2>1, <2>2, <1>7, OneMore
<1>9. PICK older : older = [told EXCEPT ![r] = users]
  OBVIOUS
<1>10. /\ older \in Seq(SUBSET Users) /\ Len(older) = n
       /\ \A k \in 1 .. n : older[k] = IF k = r THEN users ELSE told[k]
  BY <1>1, <1>9, OneEntry DEF ChainInv
<1>11. /\ told' \in Seq(SUBSET Users) /\ Len(told') = n + 1
       /\ \A k \in 1 .. n : told'[k] = older[k]
       /\ told'[n + 1] = {}
  <2>1. told' = Append(older, {}) /\ {} \in SUBSET Users
    BY <1>9
  <2>2. n \in Nat /\ Len(older) = n /\ older \in Seq(SUBSET Users)
    BY <1>1, <1>10
  <2> HIDE DEF n
  <2> QED BY ONLY <2>1, <2>2, OneMore
<1>12. /\ facts' \in Seq(Counts) /\ Len(facts') = n + 1
       /\ \A k \in 1 .. n : facts'[k] = facts[k]
       /\ facts'[n + 1] = NoFacts
  <2>1. facts \in Seq(Counts)
    BY DEF ChainInv
  <2> HIDE DEF n
  <2> QED BY <2>1, <1>1, <1>4, OneMore
<1>13. robbed' \subseteq DOMAIN rows' /\ n + 1 \notin robbed'
  BY <1>1, <1>8, LenProperties DEF ChainInv
<1>14. ASSUME NEW k \in 1 .. n + 1
       PROVE  /\ Good(rows'[k], told'[k], facts'[k], k \in robbed')
              /\ InPlace(rows'[k], k, n + 1)
  <2> HIDE DEF n
  <2>1. CASE k = r
    <3>1. rows'[k] = Demoted(rows[r]) /\ told'[k] = users /\ facts'[k] = facts[r]
      BY <2>1, <1>1, <1>6, <1>8, <1>10, <1>11, <1>12
    <3>2. (k \in robbed') = (r \in robbed)
      BY <2>1
    <3>3. InPlace(rows'[k], k, n + 1)
      BY <3>1, <2>1, <1>1, <1>2 DEF InPlace
    <3> QED BY <3>1, <3>2, <3>3
  <2>2. CASE k \in 1 .. n /\ k # r
    <3>1. rows'[k] = rows[k] /\ told'[k] = told[k] /\ facts'[k] = facts[k]
      BY <2>2, <1>6, <1>8, <1>10, <1>11, <1>12
    <3>2. (k \in robbed') = (k \in robbed)
      OBVIOUS
    <3>3. Good(rows[k], told[k], facts[k], k \in robbed) /\ InPlace(rows[k], k, n)
      BY <2>2 DEF ChainInv, n
    <3>4. InPlace(rows'[k], k, n + 1)
      BY <3>1, <3>3, <2>2, <1>1 DEF InPlace
    <3> QED BY <3>1, <3>2, <3>3, <3>4
  <2>3. CASE k = n + 1
    <3>1. (k \in robbed') = FALSE
      BY <2>3, <1>13
    <3>2. rows'[k] = NewVersion(n + 1) /\ told'[k] = {} /\ facts'[k] = NoFacts
      BY <2>3, <1>8, <1>11, <1>12
    <3>3. InPlace(NewVersion(n + 1), k, n + 1) /\ Good(NewVersion(n + 1), {}, NoFacts, FALSE)
      BY <2>3, <1>3 DEF InPlace
    <3> QED BY <3>1, <3>2, <3>3
  <2> QED BY <2>1, <2>2, <2>3, <1>1
<1> QED BY <1>1, <1>8, <1>11, <1>12, <1>13, <1>14 DEF ChainInv

LEMMA NothingWritten ==
  ASSUME ChainInv, UNCHANGED <<rows, told, robbed, facts>>
  PROVE  ChainInv' /\ Len(rows') = Len(rows)
  BY DEF ChainInv

LEMMA RowFacts ==
  ASSUME ChainInv, NEW r \in 1 .. Len(rows)
  PROVE  /\ rows[r] \in Row /\ told[r] \in SUBSET Users /\ facts[r] \in Counts
         /\ Good(rows[r], told[r], facts[r], r \in robbed)
         /\ told = [told EXCEPT ![r] = told[r]]
         /\ facts = [facts EXCEPT ![r] = facts[r]]
         /\ robbed \subseteq 1 .. Len(rows) /\ DOMAIN rows = 1 .. Len(rows)
<1>1. Len(told) = Len(rows) /\ Len(facts) = Len(rows)
  BY DEF ChainInv
<1>2. told = [told EXCEPT ![r] = told[r]] /\ facts = [facts EXCEPT ![r] = facts[r]]
  BY <1>1, Same DEF ChainInv
<1>3. DOMAIN rows = 1 .. Len(rows)
  BY LenProperties DEF ChainInv
<1> QED BY <1>2, <1>3 DEF ChainInv, Good

(* A lock is freed, and nobody is left who was told of it but not robbed. *)
LEMMA Freed ==
  ASSUME ChainInv, NEW r \in 1 .. Len(rows), NEW users \in SUBSET Users,
         rows' = [rows EXCEPT ![r] = Free(@)], told' = [told EXCEPT ![r] = users],
         robbed' \in {robbed, robbed \union {r}}, UNCHANGED facts,
         users = {} \/ r \in robbed'
  PROVE  ChainInv' /\ Len(rows') = Len(rows)
<1> DEFINE row == Free(rows[r])
<1>1. /\ row \in Row /\ row.holder = Nobody /\ ~row.expired
      /\ row.version = rows[r].version /\ row.latest = rows[r].latest
      /\ row.deleted = rows[r].deleted
  BY FreeRow, RowFacts
<1>2. rows' = [rows EXCEPT ![r] = row]
  OBVIOUS
<1>3. facts' = [facts EXCEPT ![r] = facts[r]] /\ facts[r] \in Counts
  BY RowFacts
<1> HIDE DEF row
<1>4. Good(row, users, facts[r], r \in robbed')
  BY <1>1, RowFacts DEF Good
<1> QED BY <1>1, <1>2, <1>3, <1>4, OneRow

-----------------------------------------------------------------------------
(* Requests move between their slots' states. *)

LEMMA RequestFields ==
  ASSUME SlotsInv, NEW q \in Requests
  PROVE  /\ request[q] \in Request /\ Aimed(request[q], Len(rows))
         /\ request[q].row \in 1 .. Len(rows)
         /\ request[q].op \in Operations \union {"none"}
         /\ request[q].user \in Users \union {Nobody}
  BY DEF SlotsInv, Request, Aimed

LEMMA SlotsMove ==
  ASSUME VaultInv, ChainInv', Len(rows') \in {Len(rows), Len(rows) + 1},
         NEW q \in Requests, NEW req \in Request, Aimed(req, Len(rows)),
         Moves(q, req), requests' \in Nat, expiries' \in Nat
  PROVE  SlotsInv'
<1>1. Len(rows) \in Nat /\ request \in [Requests -> Request]
  BY LenProperties DEF VaultInv, ChainInv, SlotsInv
<1>2. request' = [request EXCEPT ![q] = req]
  BY DEF Moves
<1>3. request' \in [Requests -> Request]
  BY <1>1, <1>2
<1>4. ASSUME NEW p \in Requests
      PROVE  Aimed(request'[p], Len(rows'))
  <2>1. Aimed(request[p], Len(rows))
    BY DEF VaultInv, SlotsInv
  <2>2. request'[p] = IF p = q THEN req ELSE request[p]
    BY <1>1, <1>2
  <2>3. Aimed(request'[p], Len(rows))
    BY <2>1, <2>2
  <2> QED BY <2>3, <1>1 DEF Aimed
<1> QED BY <1>3, <1>4 DEF SlotsInv

LEMMA NoRequestFields ==
  ASSUME ChainInv
  PROVE  NoRequest \in Request /\ Aimed(NoRequest, Len(rows))
<1>1. Len(rows) \in Nat \ {0}
  BY EmptySeq, LenProperties DEF ChainInv
<1> QED BY <1>1 DEF NoRequest, Request, Aimed

LEMMA SlotsEnd ==
  ASSUME VaultInv, ChainInv', Len(rows') \in {Len(rows), Len(rows) + 1},
         NEW q \in Requests, Ends(q), UNCHANGED <<requests, expiries>>
  PROVE  SlotsInv'
<1>1. requests' \in Nat /\ expiries' \in Nat
  BY DEF VaultInv, SlotsInv
<1> QED BY <1>1, NoRequestFields, SlotsMove DEF Ends, VaultInv

LEMMA RefusedStep ==
  ASSUME VaultInv, NEW q \in Requests, Refused(q)
  PROVE  VaultInv'
<1>1. ChainInv' /\ Len(rows') = Len(rows)
  BY NothingWritten DEF VaultInv, Refused, Keeps
<1>2. SlotsInv'
  BY <1>1, SlotsEnd DEF Refused, Keeps
<1> QED BY <1>1, <1>2 DEF VaultInv

LEMMA ContinueStep ==
  ASSUME VaultInv, NEW q \in Requests, NEW req \in Request,
         Aimed(req, Len(rows)), Continue(q, req)
  PROVE  VaultInv'
<1>1. ChainInv' /\ Len(rows') = Len(rows)
  BY NothingWritten DEF VaultInv, Continue, Keeps
<1>2. requests' \in Nat /\ expiries' \in Nat
  BY DEF VaultInv, SlotsInv, Continue, Keeps
<1>3. SlotsInv'
  BY <1>1, <1>2, SlotsMove DEF Continue
<1> QED BY <1>1, <1>3 DEF VaultInv

-----------------------------------------------------------------------------
(* The actions *)

LEMMA ArriveStep ==
  ASSUME VaultInv, NEW q \in Requests, NEW op \in Operations, NEW u \in Users,
         NEW r \in DOMAIN rows, Arrive(q, op, u, r)
  PROVE  VaultInv'
<1> DEFINE tries == IF op = "checkOut" THEN 2 ELSE 0
           req == [NoRequest EXCEPT !.op = op, !.user = u, !.row = r, !.tries = tries]
<1>1. ChainInv' /\ Len(rows') = Len(rows)
  BY NothingWritten DEF VaultInv, Arrive
<1>2. r \in 1 .. Len(rows)
  BY LenProperties DEF VaultInv, ChainInv
<1>3. req \in Request /\ Aimed(req, Len(rows))
  <2>1. r \in Nat /\ tries \in 0 .. 2
    BY <1>2
  <2> HIDE DEF tries
  <2> QED BY <2>1, <1>2 DEF NoRequest, Request, Aimed
<1>4. Moves(q, req) /\ requests' \in Nat /\ expiries' \in Nat
  BY DEF Arrive, VaultInv, SlotsInv
<1> HIDE DEF req
<1>5. SlotsInv'
  BY <1>1, <1>2, <1>3, <1>4, SlotsMove
<1> QED BY <1>1, <1>5 DEF VaultInv

LEMMA ReadStep ==
  ASSUME VaultInv, NEW q \in Requests, Read(q)
  PROVE  VaultInv'
<1> DEFINE row == rows[request[q].row]
           phase == IF request[q].op = "checkOut" /\ row.holder # Nobody
                    THEN "release" ELSE "write"
           tries == IF request[q].tries > 0 THEN request[q].tries - 1 ELSE 0
           req == [request[q] EXCEPT !.phase = phase, !.seen = row.holder, !.tries = tries]
<1>1. Refused(q) \/ Continue(q, req)
  BY DEF Read
<1>2. row.holder \in Users \union {Nobody}
  BY RequestFields, RowFacts DEF VaultInv, Row
<1>3. req \in Request /\ Aimed(req, Len(rows))
  <2>1. phase \in {"read", "release", "write"} /\ tries \in 0 .. 2
    BY RequestFields DEF VaultInv, Request
  <2> HIDE DEF row, phase, tries
  <2> QED BY <1>2, <2>1, RequestFields DEF VaultInv, Request, Aimed
<1> HIDE DEF req
<1> QED BY <1>1, <1>3, RefusedStep, ContinueStep

LEMMA AgainStep ==
  ASSUME VaultInv, NEW q \in Requests, NEW phase \in {"read", "write"},
         Continue(q, [request[q] EXCEPT !.phase = phase])
  PROVE  VaultInv'
<1> DEFINE req == [request[q] EXCEPT !.phase = phase]
<1>1. req \in Request /\ Aimed(req, Len(rows))
  BY RequestFields DEF VaultInv, Request, Aimed
<1>2. Continue(q, req)
  OBVIOUS
<1> HIDE DEF req
<1> QED BY <1>1, <1>2, ContinueStep

LEMMA ReleaseExpiredLockStep ==
  ASSUME VaultInv, NEW q \in Requests, ReleaseExpiredLock(q)
  PROVE  VaultInv'
<1> DEFINE r == request[q].row
           req == [request[q] EXCEPT !.phase = "write"]
<1>1. CASE rows[r].expired
  <2>1. /\ rows' = [rows EXCEPT ![r] = Free(@)] /\ told' = [told EXCEPT ![r] = {}]
        /\ UNCHANGED <<robbed, facts, requests, expiries>> /\ Moves(q, req)
    BY <1>1 DEF ReleaseExpiredLock, Keeps
  <2>2. r \in 1 .. Len(rows) /\ req \in Request /\ Aimed(req, Len(rows))
    BY RequestFields DEF VaultInv, Request, Aimed
  <2>3. requests' \in Nat /\ expiries' \in Nat
    BY <2>1 DEF VaultInv, SlotsInv
  <2> HIDE DEF r, req
  <2>4. ChainInv' /\ Len(rows') = Len(rows)
    BY <2>1, <2>2, Freed DEF VaultInv
  <2>5. SlotsInv'
    BY <2>1, <2>2, <2>3, <2>4, SlotsMove
  <2> QED BY <2>4, <2>5 DEF VaultInv
<1>2. CASE ~rows[r].expired
  BY <1>2, AgainStep DEF ReleaseExpiredLock, Again
<1> QED BY <1>1, <1>2

(* A free row has no users told of it but those robbed. *)
LEMMA ClaimFileLockStep ==
  ASSUME VaultInv, NEW q \in Requests, ClaimFileLock(q)
  PROVE  VaultInv'
<1> DEFINE r == request[q].row
           u == request[q].user
           row == Held(rows[r], u)
           users == told[r] \union {u}
<1>1. CASE rows[r].holder = Nobody /\ ~rows[r].deleted
  <2>1. /\ rows' = [rows EXCEPT ![r] = row] /\ told' = [told EXCEPT ![r] = users]
        /\ UNCHANGED <<robbed, facts, requests, expiries>> /\ Ends(q)
    BY <1>1 DEF ClaimFileLock, Keeps
  <2>2. r \in 1 .. Len(rows)
    BY RequestFields DEF VaultInv
  <2>0. u \in Users
    BY RequestFields DEF VaultInv, ClaimFileLock, Writes, Aimed
  <2>3. /\ row \in Row /\ row.holder = u /\ row.version = rows[r].version
        /\ row.latest = rows[r].latest /\ row.deleted = rows[r].deleted
        /\ row.expired = rows[r].expired
    BY <2>0, <2>2, HeldRow, RowFacts DEF VaultInv
  <2>4. users \in SUBSET Users
    BY <2>0, <2>2, RowFacts DEF VaultInv
  <2>5. facts' = [facts EXCEPT ![r] = facts[r]] /\ facts[r] \in Counts
    BY <2>1, <2>2, RowFacts DEF VaultInv
  <2>6. Good(rows[r], told[r], facts[r], r \in robbed)
    BY <2>2, RowFacts DEF VaultInv
  <2>7. \A v \in users : u = v \/ r \in robbed
    BY <2>6, <1>1, UsersAssumption DEF Good
  <2> HIDE DEF r, u, row, users
  <2>8. Good(row, users, facts[r], r \in robbed')
    <3>1. u # Nobody
      BY <2>0, UsersAssumption
    <3> QED BY <3>1, <2>1, <2>3, <2>4, <2>6, <2>7 DEF Good
  <2>9. ChainInv' /\ Len(rows') = Len(rows)
    BY <2>1, <2>2, <2>3, <2>4, <2>5, <2>8, OneRow DEF VaultInv
  <2>10. SlotsInv'
    BY <2>1, <2>9, SlotsEnd
  <2> QED BY <2>9, <2>10 DEF VaultInv
<1>2. CASE ~(rows[r].holder = Nobody /\ ~rows[r].deleted)
  BY <1>2, AgainStep DEF ClaimFileLock, Again
<1> QED BY <1>1, <1>2

(* Clearing a lock spares no user but those told of another's. *)
LEMMA ClearStep ==
  ASSUME VaultInv, NEW q \in Requests, NEW meant \in BOOLEAN, Clear(q, meant)
  PROVE  VaultInv'
<1> DEFINE r == request[q].row
           u == request[q].user
           users == IF meant THEN {} ELSE told[r] \ {u}
<1>1. r \in 1 .. Len(rows)
  BY RequestFields DEF VaultInv
<1>2. told[r] \in SUBSET Users /\ Good(rows[r], told[r], facts[r], r \in robbed)
  BY <1>1, RowFacts DEF VaultInv
<1>3. /\ rows' = [rows EXCEPT ![r] = Free(@)] /\ told' = [told EXCEPT ![r] = users]
      /\ robbed' = IF rows[r].holder \in {Nobody, u} \/ meant
                   THEN robbed ELSE robbed \union {r}
      /\ UNCHANGED <<facts, requests, expiries>> /\ Ends(q)
  BY DEF Clear
<1>4. users \in SUBSET Users
  BY <1>2
<1>5. users = {} \/ r \in robbed'
  <2>1. CASE meant
    BY <2>1
  <2>2. CASE ~meant /\ rows[r].holder \notin {Nobody, u}
    BY <2>2, <1>3
  <2>3. CASE ~meant /\ rows[r].holder \in {Nobody, u} /\ r \notin robbed
    BY <2>3, <1>2, UsersAssumption DEF Good
  <2>4. CASE ~meant /\ r \in robbed
    BY <2>4, <1>3
  <2> QED BY <2>1, <2>2, <2>3, <2>4
<1>6. robbed' \in {robbed, robbed \union {r}}
  BY <1>3
<1> HIDE DEF r, u, users
<1>7. ChainInv' /\ Len(rows') = Len(rows)
  BY <1>1, <1>3, <1>4, <1>5, <1>6, Freed DEF VaultInv
<1>8. SlotsInv'
  BY <1>3, <1>7, SlotsEnd
<1> QED BY <1>7, <1>8 DEF VaultInv

LEMMA SupersedeStep ==
  ASSUME VaultInv, NEW q \in Requests, NEW owns \in {Nobody, request[q].user},
         NEW present \in BOOLEAN, Supersede(q, owns, present)
  PROVE  VaultInv'
<1> DEFINE r == request[q].row
           u == request[q].user
           users == told[r] \ {u}
<1>1. CASE rows[r].latest /\ rows[r].holder = owns /\ (present => ~rows[r].deleted)
  <2>1. /\ rows' = Append([rows EXCEPT ![r] = Demoted(@)], NewVersion(rows[r].version + 1))
        /\ told' = Append([told EXCEPT ![r] = users], {})
        /\ facts' = Append(facts, NoFacts)
        /\ UNCHANGED <<robbed, requests, expiries>> /\ Ends(q)
    BY <1>1 DEF Supersede
  <2>2. r \in 1 .. Len(rows)
    BY RequestFields DEF VaultInv
  <2>3. /\ told[r] \in SUBSET Users /\ rows[r] \in Row
        /\ Good(rows[r], told[r], facts[r], r \in robbed)
    BY <2>2, RowFacts DEF VaultInv
  <2>4. users = {} \/ r \in robbed
    BY <1>1, <2>3, UsersAssumption DEF Good
  <2>5. users \in SUBSET Users
    BY <2>3
  <2>6. rows[r].latest
    BY <1>1
  <2> HIDE DEF r, u, users
  <2>7. Good(Demoted(rows[r]), users, facts[r], r \in robbed)
    BY <2>3, <2>4, <2>5, DemotedRow DEF Good
  <2>8. ChainInv' /\ Len(rows') = Len(rows) + 1
    BY <2>1, <2>2, <2>5, <2>6, <2>7, NewHead DEF VaultInv
  <2>9. SlotsInv'
    BY <2>1, <2>8, SlotsEnd
  <2> QED BY <2>8, <2>9 DEF VaultInv
<1>2. CASE ~(rows[r].latest /\ rows[r].holder = owns /\ (present => ~rows[r].deleted))
  <2>1. UNCHANGED <<rows, told, facts, robbed, requests, expiries>> /\ Ends(q)
    BY <1>2 DEF Supersede
  <2>2. ChainInv' /\ Len(rows') = Len(rows)
    BY <2>1, NothingWritten DEF VaultInv
  <2>3. SlotsInv'
    BY <2>1, <2>2, SlotsEnd
  <2> QED BY <2>2, <2>3 DEF VaultInv
<1> QED BY <1>1, <1>2

(* A deletion or a restoration, and the fact of it. *)
LEMMA RecordsStep ==
  ASSUME VaultInv, NEW q \in Requests, NEW fact \in {"deleted", "restored"},
         rows' = [rows EXCEPT ![request[q].row] = Removed(@, fact = "deleted")],
         fact = "restored" => rows[request[q].row].deleted,
         Records(q, fact)
  PROVE  VaultInv'
<1> DEFINE r == request[q].row
           row == Removed(rows[r], fact = "deleted")
           counts == Recorded(facts[r], fact)
<1>1. r \in 1 .. Len(rows)
  BY RequestFields DEF VaultInv
<1>2. /\ rows[r] \in Row /\ told[r] \in SUBSET Users /\ facts[r] \in Counts
      /\ Good(rows[r], told[r], facts[r], r \in robbed)
      /\ told = [told EXCEPT ![r] = told[r]]
  BY <1>1, RowFacts DEF VaultInv
<1>3. /\ row \in Row /\ row.holder = rows[r].holder /\ row.version = rows[r].version
      /\ row.latest = rows[r].latest /\ row.deleted = (fact = "deleted")
      /\ row.expired = rows[r].expired
  BY <1>2, RemovedRow
<1>4. /\ counts \in Counts
      /\ fact = "deleted" => /\ counts.deleted = facts[r].deleted + 1
                             /\ counts.restored = facts[r].restored
      /\ fact = "restored" => /\ counts.restored = facts[r].restored + 1
                              /\ counts.deleted = facts[r].deleted
  BY <1>2, CountedFacts
<1>5. /\ rows' = [rows EXCEPT ![r] = row] /\ facts' = [facts EXCEPT ![r] = counts]
      /\ UNCHANGED <<told, robbed, requests, expiries>> /\ Ends(q)
  BY DEF Records
<1>6. told' = [told EXCEPT ![r] = told[r]]
  BY <1>2, <1>5
<1>7. fact = "restored" => rows[r].deleted
  OBVIOUS
<1> HIDE DEF r, row, counts
<1>8. Good(row, told[r], counts, r \in robbed')
  <2>1. facts[r].deleted \in Nat /\ facts[r].restored \in Nat
    BY <1>2 DEF Counts
  <2>2. /\ facts[r].restored <= facts[r].deleted
        /\ rows[r].deleted => facts[r].restored < facts[r].deleted
    BY <1>2 DEF Good
  <2>3. counts.restored <= counts.deleted /\ (row.deleted => counts.restored < counts.deleted)
    <3>1. CASE fact = "deleted"
      BY <3>1, <2>1, <2>2, <1>4
    <3>2. CASE fact = "restored"
      <4>1. ~row.deleted /\ facts[r].restored < facts[r].deleted
        BY <3>2, <2>2, <1>3, <1>7
      <4>2. counts.restored = facts[r].restored + 1 /\ counts.deleted = facts[r].deleted
        BY <3>2, <1>4
      <4> QED BY <4>1, <4>2, <2>1
    <3> QED BY <3>1, <3>2
  <2> QED BY <2>3, <1>2, <1>3, <1>4, <1>5 DEF Good
<1>9. ChainInv' /\ Len(rows') = Len(rows)
  BY <1>1, <1>2, <1>3, <1>4, <1>5, <1>6, <1>8, OneRow DEF VaultInv
<1>10. SlotsInv'
  BY <1>5, <1>9, SlotsEnd
<1> QED BY <1>9, <1>10 DEF VaultInv

LEMMA ExpireStep ==
  ASSUME VaultInv, NEW r \in DOMAIN rows, Expire(r)
  PROVE  VaultInv'
<1> DEFINE row == Aged(rows[r])
<1>1. r \in 1 .. Len(rows)
  BY LenProperties DEF VaultInv, ChainInv
<1>2. /\ rows[r] \in Row /\ told[r] \in SUBSET Users /\ facts[r] \in Counts
      /\ Good(rows[r], told[r], facts[r], r \in robbed)
      /\ told = [told EXCEPT ![r] = told[r]] /\ facts = [facts EXCEPT ![r] = facts[r]]
  BY <1>1, RowFacts DEF VaultInv
<1>3. /\ row \in Row /\ row.holder = rows[r].holder /\ row.version = rows[r].version
      /\ row.latest = rows[r].latest /\ row.deleted = rows[r].deleted
  BY <1>2, AgedRow
<1>4. /\ rows' = [rows EXCEPT ![r] = row] /\ rows[r].holder # Nobody
      /\ UNCHANGED <<request, told, robbed, facts, requests>>
      /\ told' = [told EXCEPT ![r] = told[r]] /\ facts' = [facts EXCEPT ![r] = facts[r]]
  BY <1>2 DEF Expire
<1> HIDE DEF row
<1>5. Good(row, told[r], facts[r], r \in robbed')
  BY <1>2, <1>3, <1>4 DEF Good
<1>6. ChainInv' /\ Len(rows') = Len(rows)
  BY <1>1, <1>2, <1>3, <1>4, <1>5, OneRow DEF VaultInv
<1>7. SlotsInv'
  BY <1>4, <1>6 DEF Expire, VaultInv, SlotsInv
<1> QED BY <1>6, <1>7 DEF VaultInv

LEMMA CleanupStep ==
  ASSUME VaultInv, CleanupExpiredCheckouts
  PROVE  VaultInv'
<1> DEFINE n == Len(rows)
           row(k) == IF rows[k].expired THEN Free(rows[k]) ELSE rows[k]
           users(k) == IF rows[k].expired THEN {} ELSE told[k]
<1>1. n \in Nat \ {0} /\ DOMAIN rows = 1 .. n /\ Len(facts) = n
  BY EmptySeq, LenProperties DEF VaultInv, ChainInv
<1>2. /\ rows' = [k \in 1 .. n |-> row(k)] /\ told' = [k \in 1 .. n |-> users(k)]
      /\ UNCHANGED <<request, robbed, facts, requests, expiries>>
  BY <1>1 DEF CleanupExpiredCheckouts
<1>3. ASSUME NEW k \in 1 .. n
      PROVE  /\ row(k) \in Row /\ users(k) \in SUBSET Users
             /\ row(k).version = rows[k].version /\ row(k).latest = rows[k].latest
             /\ Good(row(k), users(k), facts[k], k \in robbed)
  <2>1. Good(rows[k], told[k], facts[k], k \in robbed) /\ rows[k] \in Row
    BY RowFacts DEF VaultInv
  <2>2. CASE rows[k].expired
    <3>1. row(k) = Free(rows[k]) /\ users(k) = {}
      BY <2>2
    <3>2. Good(Free(rows[k]), {}, facts[k], k \in robbed)
      BY <2>1, FreeRow DEF Good
    <3> QED BY <3>1, <3>2, <2>1, FreeRow
  <2>3. CASE ~rows[k].expired
    BY <2>1, <2>3 DEF Good
  <2> QED BY <2>2, <2>3
<1> HIDE DEF n, row, users
<1>4. /\ rows' \in Seq(Row) /\ Len(rows') = n /\ rows' # <<>> /\ DOMAIN rows' = 1 .. n
      /\ told' \in Seq(SUBSET Users) /\ Len(told') = n
  BY <1>1, <1>2, <1>3
<1>5. ASSUME NEW k \in 1 .. n
      PROVE  Good(rows'[k], told'[k], facts'[k], k \in robbed') /\ InPlace(rows'[k], k, n)
  <2>1. InPlace(rows[k], k, n)
    BY DEF VaultInv, ChainInv, n
  <2>2. rows'[k] = row(k) /\ told'[k] = users(k) /\ facts'[k] = facts[k] /\ robbed' = robbed
    BY <1>2
  <2>3. InPlace(row(k), k, n)
    BY <2>1, <1>3 DEF InPlace
  <2> QED BY <2>2, <2>3, <1>3
<1>6. ChainInv'
  <2>1. facts' \in Seq(Counts) /\ Len(facts') = n /\ robbed' \subseteq DOMAIN rows'
    BY <1>1, <1>2, <1>4 DEF VaultInv, ChainInv
  <2> QED BY <2>1, <1>4, <1>5 DEF ChainInv
<1>7. SlotsInv'
  BY <1>2, <1>4 DEF VaultInv, SlotsInv, n
<1> QED BY <1>6, <1>7 DEF VaultInv

LEMMA StepsPreserve ==
  ASSUME VaultInv, NEW q \in Requests, Step(q)
  PROVE  VaultInv'
<1>1. CASE Read(q)
  BY <1>1, ReadStep
<1>2. CASE ReleaseExpiredLock(q)
  BY <1>2, ReleaseExpiredLockStep
<1>3. CASE ClaimFileLock(q)
  BY <1>3, ClaimFileLockStep
<1>4. CASE Unlock(q)
  BY <1>4, ClearStep DEF Unlock
<1>5. CASE ForceReleaseLock(q)
  <2> DEFINE meant == request[q].seen # request[q].user
  <2>1. meant \in BOOLEAN /\ Clear(q, meant)
    BY <1>5 DEF ForceReleaseLock
  <2> HIDE DEF meant
  <2> QED BY <2>1, ClearStep
<1>6. CASE CheckInFile(q)
  BY <1>6, SupersedeStep DEF CheckInFile
<1>7. CASE ReplaceContent(q)
  BY <1>7, SupersedeStep DEF ReplaceContent
<1>8. CASE DeleteFile(q)
  <2>1. /\ rows' = [rows EXCEPT ![request[q].row] = Removed(@, "deleted" = "deleted")]
        /\ Records(q, "deleted")
    BY <1>8 DEF DeleteFile
  <2> QED BY <2>1, RecordsStep
<1>9. CASE RestoreFile(q)
  <2>1. CASE rows[request[q].row].deleted
    <3>1. /\ rows' = [rows EXCEPT ![request[q].row] = Removed(@, "restored" = "deleted")]
          /\ Records(q, "restored")
      BY <1>9, <2>1 DEF RestoreFile
    <3> QED BY <3>1, <2>1, RecordsStep
  <2>2. CASE ~rows[request[q].row].deleted
    BY <1>9, <2>2, RefusedStep DEF RestoreFile
  <2> QED BY <2>1, <2>2
<1>10. CASE Die(q)
  BY <1>10, RefusedStep DEF Die
<1> QED BY <1>1, <1>2, <1>3, <1>4, <1>5, <1>6, <1>7, <1>8, <1>9, <1>10 DEF Step

LEMMA InitHolds == VaultInit => VaultInv
<1> SUFFICES ASSUME VaultInit PROVE VaultInv
  OBVIOUS
<1>1. NewVersion(1) \in Row /\ NewVersion(1).version = 1 /\ NewVersion(1).latest
      /\ Good(NewVersion(1), {}, NoFacts, FALSE) /\ NoFacts \in Counts
  BY FreshRow DEF NoFacts, Counts
<1>2. rows = <<NewVersion(1)>> /\ told = <<{}>> /\ robbed = {} /\ facts = <<NoFacts>>
  BY DEF VaultInit
<1>3. ChainInv
  <2>1. \A k \in 1 .. Len(rows) : /\ Good(rows[k], told[k], facts[k], k \in robbed)
                                  /\ InPlace(rows[k], k, Len(rows))
    <3> SUFFICES ASSUME NEW k \in 1 .. Len(rows)
                 PROVE  /\ Good(rows[k], told[k], facts[k], k \in robbed)
                        /\ InPlace(rows[k], k, Len(rows))
      OBVIOUS
    <3>1. k = 1 /\ Len(rows) = 1 /\ (k \in robbed) = FALSE
      BY <1>2
    <3>2. rows[k] = NewVersion(1) /\ told[k] = {} /\ facts[k] = NoFacts
      BY <1>2, <3>1
    <3> QED BY <3>1, <3>2, <1>1 DEF InPlace
  <2> QED BY <2>1, <1>1, <1>2 DEF ChainInv
<1>4. SlotsInv
  BY <1>3, NoRequestFields, BoundsAssumption DEF VaultInit, SlotsInv
<1> QED BY <1>3, <1>4 DEF VaultInv

(* The inductive invariant. *)
LEMMA InvHolds == VaultSpec => []VaultInv
<1>1. VaultInv /\ [VaultNext]_vaultVars => VaultInv'
  <2> SUFFICES ASSUME VaultInv, [VaultNext]_vaultVars PROVE VaultInv'
    OBVIOUS
  <2>1. ASSUME NEW q \in Requests, Step(q) PROVE VaultInv'
    BY <2>1, StepsPreserve
  <2>2. ASSUME NEW q \in Requests, NEW op \in Operations, NEW u \in Users,
               NEW r \in DOMAIN rows, Arrive(q, op, u, r)
        PROVE  VaultInv'
    BY <2>2, ArriveStep
  <2>3. ASSUME NEW r \in DOMAIN rows, Expire(r) PROVE VaultInv'
    BY <2>3, ExpireStep
  <2>4. CASE CleanupExpiredCheckouts
    BY <2>4, CleanupStep
  <2>5. CASE UNCHANGED vaultVars
    BY <2>5 DEF vaultVars, VaultInv, ChainInv, SlotsInv
  <2> QED BY <2>1, <2>2, <2>3, <2>4, <2>5 DEF VaultNext
<1> QED BY <1>1, InitHolds, PTL DEF VaultSpec

-----------------------------------------------------------------------------
(* The theorems *)

(* Every row and every request stays what its columns and the code allow, and
   a lock grows old only while it is held. *)
THEOREM VaultTyping == VaultSpec => []VaultTypeOK
<1>1. VaultInv => VaultTypeOK
  <2> SUFFICES ASSUME VaultInv PROVE VaultTypeOK
    OBVIOUS
  <2>1. DOMAIN rows = 1 .. Len(rows)
    BY LenProperties DEF VaultInv, ChainInv
  <2> QED BY <2>1 DEF VaultInv, ChainInv, SlotsInv, VaultTypeOK, Good, Aimed, Counts
<1> QED BY <1>1, InvHolds, PTL

(* Racing check-ins and machine rewrites, and deaths between them, leave one
   head and versions without a gap. *)
THEOREM OneHeadPerChain == VaultSpec => []ChainIsIntact
<1>1. VaultInv => ChainIsIntact
  <2> SUFFICES ASSUME VaultInv PROVE ChainIsIntact
    OBVIOUS
  <2>1. DOMAIN rows = 1 .. Len(rows)
    BY LenProperties DEF VaultInv, ChainInv
  <2> QED BY <2>1 DEF VaultInv, ChainInv, ChainIsIntact, InPlace
<1> QED BY <1>1, InvHolds, PTL

(* A check-out that succeeded holds until something entitled ends it, the stale
   unlock of another user apart. *)
THEOREM CheckOutsHold == VaultSpec => []HoldersHold
<1>1. VaultInv => HoldersHold
  <2> SUFFICES ASSUME VaultInv PROVE HoldersHold
    OBVIOUS
  <2>1. DOMAIN rows = 1 .. Len(rows)
    BY LenProperties DEF VaultInv, ChainInv
  <2> QED BY <2>1 DEF VaultInv, ChainInv, HoldersHold, Good
<1> QED BY <1>1, InvHolds, PTL

(* The event log never restores a file more often than it deleted it. *)
THEOREM RestorationsAreRecordedOnce == VaultSpec => []RestoredOnce
<1>1. VaultInv => RestoredOnce
  <2> SUFFICES ASSUME VaultInv PROVE RestoredOnce
    OBVIOUS
  <2>1. DOMAIN rows = 1 .. Len(rows)
    BY LenProperties DEF VaultInv, ChainInv
  <2> QED BY <2>1 DEF VaultInv, ChainInv, RestoredOnce, Good
<1> QED BY <1>1, InvHolds, PTL
=============================================================================
