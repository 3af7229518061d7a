------------------------- MODULE BranchItems_proofs -------------------------
(* Proofs about BranchItems, for any users, items and requests: the types,
   the exclusive checkout, the working copies behind the branch's content,
   its listing, and the archived branch that takes no commit. *)
EXTENDS BranchItems, TLAPS

(* What every step of a request in flight may assume of the request. *)
LEMMA InFlight ==
  ASSUME BranchTypeOK, NEW r \in Requests, req[r].phase # "idle"
  PROVE  req[r] \in ReqRecords
  BY DEF BranchTypeOK, IdleReq

LEMMA TypeInit == Init => BranchTypeOK
  BY RequestsAssumption DEF Init, BranchTypeOK, NoRow, IdleReq, Rows

(* A request that arrives has read, and written nothing. *)
LEMMA ArriveOnlyReads ==
  ASSUME NEW r \in Requests, Arrive(r)
  PROVE  /\ UNCHANGED <<contentVars, stray, branch, order>>
         /\ req[r].phase = "idle"
         /\ \E state : req' = [req EXCEPT ![r] = state]
<1> DEFINE Reads == /\ UNCHANGED <<contentVars, stray, branch, order>>
                    /\ req[r].phase = "idle"
                    /\ \E state : req' = [req EXCEPT ![r] = state]
<1>1. ASSUME NEW kind, NEW state, Begin(r, kind, state) PROVE Reads
  BY <1>1 DEF Begin
<1> HIDE DEF Reads
<1>2. PICK u \in Users, m \in Items :
        \/ BeginCheckout(r, u, m) \/ BeginEnsure(r, u, m) \/ BeginSave(r, u, m)
        \/ BeginCreate(r, u, m) \/ BeginDelete(r, u, m)
        \/ \E kind \in {"cancel", "checkin"} : BeginFree(r, kind, u, m)
        \/ \E action \in {"addRevise", "addOther"} : BeginAdd(r, u, m, action)
        \/ \E discard \in BOOLEAN : BeginRemove(r, u, m, discard)
  BY DEF Arrive
<1>3. ASSUME BeginCheckout(r, u, m) PROVE Reads
  BY <1>1, <1>3 DEF BeginCheckout
<1>4. ASSUME BeginEnsure(r, u, m) PROVE Reads
  BY <1>1, <1>4 DEF BeginEnsure
<1>5. ASSUME BeginSave(r, u, m) PROVE Reads
  BY <1>1, <1>5 DEF BeginSave
<1>6. ASSUME BeginCreate(r, u, m) PROVE Reads
  BY <1>1, <1>6 DEF BeginCreate
<1>7. ASSUME BeginDelete(r, u, m) PROVE Reads
  BY <1>1, <1>7 DEF BeginDelete
<1>8. ASSUME NEW kind \in {"cancel", "checkin"}, BeginFree(r, kind, u, m) PROVE Reads
  BY <1>1, <1>8 DEF BeginFree
<1>9. ASSUME NEW action \in {"addRevise", "addOther"}, BeginAdd(r, u, m, action) PROVE Reads
  BY <1>1, <1>9 DEF BeginAdd
<1>10. ASSUME NEW discard \in BOOLEAN, BeginRemove(r, u, m, discard) PROVE Reads
  BY <1>1, <1>10 DEF BeginRemove
<1>11. Reads
  BY <1>2, <1>3, <1>4, <1>5, <1>6, <1>7, <1>8, <1>9, <1>10
<1> QED BY <1>11 DEF Reads

(* A request arrives with what it read. *)
LEMMA ArriveTypes ==
  ASSUME BranchTypeOK, NEW r \in Requests, Arrive(r)
  PROVE  BranchTypeOK'
<1> USE DEF BranchTypeOK
<1>1. ASSUME NEW kind, NEW state \in ReqRecords, Begin(r, kind, state)
      PROVE  BranchTypeOK'
  BY <1>1, RequestsAssumption DEF Begin, contentVars
<1>2. ASSUME NEW phase \in Phases, NEW u \in Users, NEW m \in Items
      PROVE  Asks(phase, u, m) \in ReqRecords
  BY <1>2 DEF Asks, ReqRecords
<1>3. PICK u \in Users, m \in Items :
        \/ BeginCheckout(r, u, m) \/ BeginEnsure(r, u, m) \/ BeginSave(r, u, m)
        \/ BeginCreate(r, u, m) \/ BeginDelete(r, u, m)
        \/ \E kind \in {"cancel", "checkin"} : BeginFree(r, kind, u, m)
        \/ \E action \in {"addRevise", "addOther"} : BeginAdd(r, u, m, action)
        \/ \E discard \in BOOLEAN : BeginRemove(r, u, m, discard)
  BY DEF Arrive
<1>4. row[m] \in Rows
  OBVIOUS
<1>5. CASE BeginCheckout(r, u, m)
  BY <1>1, <1>2, <1>5 DEF BeginCheckout, Phases
<1>6. CASE BeginEnsure(r, u, m)
  BY <1>1, <1>2, <1>6 DEF BeginEnsure, Phases
<1>7. CASE BeginSave(r, u, m)
  <2> DEFINE asked == Asks(IF row[m].change = "none" THEN "saveFirst" ELSE "saveInPlace", u, m)
  <2>1. asked \in ReqRecords
    BY <1>2 DEF Phases
  <2>2. [asked EXCEPT !.id = row[m].id, !.version = row[m].current] \in ReqRecords
    BY <2>1, <1>4 DEF ReqRecords, Rows
  <2> QED BY <1>1, <1>7, <2>2 DEF BeginSave
<1>8. CASE BeginCreate(r, u, m)
  BY <1>1, <1>2, <1>8 DEF BeginCreate, Phases
<1>9. CASE BeginDelete(r, u, m)
  <2>1. Asks("delete", u, m) \in ReqRecords
    BY <1>2 DEF Phases
  <2>2. WorkingVersion(m) \in {"base", "copy", "none"}
    BY <1>4 DEF WorkingVersion, Rows
  <2>3. [Asks("delete", u, m) EXCEPT !.version = WorkingVersion(m)] \in ReqRecords
    BY <2>1, <2>2 DEF ReqRecords
  <2> QED BY <1>1, <1>9, <2>3 DEF BeginDelete
<1>10. CASE \E kind \in {"cancel", "checkin"} : BeginFree(r, kind, u, m)
  <2>1. PICK kind \in {"cancel", "checkin"} : BeginFree(r, kind, u, m)
    BY <1>10
  <2>2. Asks(kind, u, m) \in ReqRecords
    BY <1>2 DEF Phases
  <2>3. [Asks(kind, u, m) EXCEPT !.id = row[m].id, !.change = row[m].change] \in ReqRecords
    BY <2>2, <1>4 DEF ReqRecords, Rows
  <2> QED BY <1>1, <2>1, <2>3 DEF BeginFree
<1>11. CASE \E action \in {"addRevise", "addOther"} : BeginAdd(r, u, m, action)
  BY <1>1, <1>2, <1>11 DEF BeginAdd, Phases
<1>12. CASE \E discard \in BOOLEAN : BeginRemove(r, u, m, discard)
  <2>1. PICK discard \in BOOLEAN : BeginRemove(r, u, m, discard)
    BY <1>12
  <2>2. Asks("remove", u, m) \in ReqRecords /\ scope[m] \in Nat
    BY <1>2 DEF Phases
  <2>3. [Asks("remove", u, m) EXCEPT !.id = scope[m], !.discard = discard] \in ReqRecords
    BY <2>2 DEF ReqRecords
  <2> QED BY <1>1, <2>1, <2>3 DEF BeginRemove
<1> QED BY <1>3, <1>5, <1>6, <1>7, <1>8, <1>9, <1>10, <1>11, <1>12

(* The helpers the steps share keep their types. *)
LEMMA HelperTypes ==
  ASSUME BranchTypeOK, NEW m \in Items
  PROVE  /\ Listed(m) \in [Items -> Nat]
         /\ FreedHolder(m) \subseteq [kind : {"taken", "freed"}, item : Items, user : Users]
         /\ Unheld(m) \in [Items -> Rows]
         /\ Deleted(m) \in [Items -> Rows]
         /\ [row EXCEPT ![m] = NoRow] \in [Items -> Rows]
<1> USE DEF BranchTypeOK
<1>1. row[m] \in Rows
  OBVIOUS
<1>2. Listed(m) \in [Items -> Nat]
  BY DEF Listed
<1>3. FreedHolder(m) \subseteq [kind : {"taken", "freed"}, item : Items, user : Users]
  BY <1>1 DEF FreedHolder, Freed, Rows
<1>4. Unheld(m) \in [Items -> Rows]
  <2>1. [row[m] EXCEPT !.holder = Nobody] \in Rows
    BY <1>1 DEF Rows
  <2> QED BY <2>1 DEF Unheld
<1>5. Deleted(m) \in [Items -> Rows]
  <2>1. [row[m] EXCEPT !.change = "deleted", !.holder = Nobody] \in Rows
    BY <1>1 DEF Rows
  <2> QED BY <2>1 DEF Deleted
<1>6. [row EXCEPT ![m] = NoRow] \in [Items -> Rows]
  BY DEF NoRow, Rows
<1> QED BY <1>2, <1>3, <1>4, <1>5, <1>6

(* Listing an item, or passing it over, keeps the types of what it writes. *)
LEMMA RegisterTypes ==
  ASSUME BranchTypeOK, NEW m \in Items,
         Lists(m) \/ \E change, finding : registerBranchChange(m, change, finding)
  PROVE  scope' \in [Items -> Nat] /\ stray' \subseteq Items
<1>1. Listed(m) \in [Items -> Nat] /\ stray \subseteq Items /\ scope \in [Items -> Nat]
  BY HelperTypes DEF BranchTypeOK
<1> QED BY <1>1 DEF registerBranchChange, Lists

(* A step that writes no content changes at most where its request stands. *)
LEMMA MovesTypes ==
  ASSUME BranchTypeOK, NEW r \in Requests,
         NEW state \in {IdleReq} \union ReqRecords, Moves(r, state)
  PROVE  BranchTypeOK'
  BY DEF BranchTypeOK, Moves, contentVars

LEMMA DropTypes ==
  ASSUME BranchTypeOK, NEW r \in Requests, Drop(r)
  PROVE  BranchTypeOK'
<1>1. req[r].phase = "register" => req[r].item \in Items
  BY InFlight DEF ReqRecords
<1> QED BY <1>1 DEF Drop, Done, BranchTypeOK, contentVars

LEMMA CheckoutTypes ==
  ASSUME BranchTypeOK, NEW r \in Requests, CheckoutStep(r)
  PROVE  BranchTypeOK'
<1> DEFINE m == req[r].item
           u == req[r].user
<1>1. req[r] \in ReqRecords
  <2>1. req[r].phase # "idle"
    BY DEF CheckoutStep, ReadClaim, Claim, LoseClaim, InsertCheckout, LoseInsert,
           RegisterCheckout, cancelCheckout, checkin
  <2> QED BY <2>1, InFlight
<1>2. m \in Items /\ u \in Users /\ row[m] \in Rows
  BY <1>1 DEF ReqRecords, BranchTypeOK
<1>3. {Taken(m, u)} \subseteq [kind : {"taken", "freed"}, item : Items, user : Users]
  BY <1>2 DEF Taken
<1>4. {Freed(m, u)} \subseteq [kind : {"taken", "freed"}, item : Items, user : Users]
  BY <1>2 DEF Freed
<1>5. CASE ReadClaim(r)
  <2>1. [req[r] EXCEPT !.phase = "cas", !.id = row[m].id, !.tries = @ + 1] \in ReqRecords
    <3>1. req[r].tries + 1 \in 0 .. 2 /\ row[m].id \in Nat
      BY <1>1, <1>2, <1>5 DEF ReadClaim, ReqRecords, Rows
    <3> QED BY <1>1, <3>1 DEF ReqRecords, Phases
  <2> QED BY <1>5, <2>1, MovesTypes DEF ReadClaim
<1>6. CASE Claim(r)
  <2>1. [row[m] EXCEPT !.holder = u] \in Rows
    BY <1>2 DEF Rows
  <2>2. row' \in [Items -> Rows]
    BY <1>6, <1>2, <2>1 DEF Claim, BranchTypeOK
  <2> QED BY <1>6, <1>3, <2>2 DEF Claim, BranchTypeOK, Done
<1>7. CASE LoseClaim(r)
  <2>1. [req[r] EXCEPT !.phase = "claim"] \in ReqRecords
    BY <1>1 DEF ReqRecords, Phases
  <2> QED BY <1>7, <2>1, MovesTypes DEF LoseClaim
<1>8. CASE InsertCheckout(r)
  <2>1. [NoRow EXCEPT !.id = ids + 1, !.holder = u] \in Rows
    <3>1. ids + 1 \in Nat
      BY DEF BranchTypeOK
    <3> QED BY <1>2, <3>1 DEF NoRow, Rows
  <2>2. row' \in [Items -> Rows]
    BY <1>8, <1>2, <2>1 DEF InsertCheckout, BranchTypeOK
  <2>3. [req[r] EXCEPT !.phase = "register"] \in ReqRecords
    BY <1>1 DEF ReqRecords, Phases
  <2>4. req' \in [Requests -> {IdleReq} \union ReqRecords]
    BY <1>8, <2>3 DEF InsertCheckout, BranchTypeOK
  <2> QED BY <1>8, <1>3, <2>2, <2>4 DEF InsertCheckout, BranchTypeOK
<1>9. CASE LoseInsert(r)
  <2>1. [req[r] EXCEPT !.phase = "claim"] \in ReqRecords
    BY <1>1 DEF ReqRecords, Phases
  <2> QED BY <1>9, <2>1, MovesTypes DEF LoseInsert
<1>10. CASE \E finding \in Findings : RegisterCheckout(r, finding)
  <2>1. scope' \in [Items -> Nat] /\ stray' \subseteq Items
    BY <1>2, <1>10, RegisterTypes DEF RegisterCheckout
  <2> QED BY <1>10, <2>1 DEF RegisterCheckout, BranchTypeOK, Done
<1>11. ASSUME NEW freed \in [Items -> Rows], FreeRow(r, freed)
       PROVE  BranchTypeOK'
  BY <1>11, <1>4 DEF FreeRow, BranchTypeOK, Done
<1>12. CASE cancelCheckout(r)
  BY <1>12, <1>11, <1>2, HelperTypes DEF cancelCheckout
<1>13. CASE checkin(r)
  BY <1>13, <1>11, <1>2, HelperTypes DEF checkin
<1> QED BY <1>5, <1>6, <1>7, <1>8, <1>9, <1>10, <1>12, <1>13 DEF CheckoutStep

(* A new or repointed working copy, and what goes with it. *)
LEMMA RevisionTypes ==
  ASSUME BranchTypeOK, NEW m \in Items, StartRevision(m)
  PROVE  /\ row' \in [Items -> Rows]
         /\ copy' \in [Items -> {"none", "live", "deleted"}]
         /\ commits' \in Nat /\ ids' \in Nat /\ shared' \subseteq Items
<1> DEFINE new == [row[m] EXCEPT !.id = IF Tracked(m) THEN @ ELSE ids + 1,
                                 !.current = "copy", !.change = "modified"]
<1>1. new \in Rows
  <2>1. row[m] \in Rows /\ ids + 1 \in Nat
    BY DEF BranchTypeOK
  <2> QED BY <2>1 DEF Rows
<1>2. row' = [row EXCEPT ![m] = new]
  BY DEF StartRevision, BranchTypeOK
<1>3. row' \in [Items -> Rows]
  BY <1>1, <1>2 DEF BranchTypeOK
<1> QED BY <1>3, HelperTypes DEF StartRevision, BranchTypeOK

LEMMA ContentTypes ==
  ASSUME BranchTypeOK, NEW r \in Requests, ContentStep(r)
  PROVE  BranchTypeOK'
<1> DEFINE m == req[r].item
<1>1. req[r] \in ReqRecords
  <2>1. req[r].phase # "idle"
    BY DEF ContentStep, ensureRevisionWorkingCopy, SaveInPlace, SaveFirst, createOnBranch,
           DeleteAdded, DeleteTracked, DeleteUntracked, InsertDeleted, DeleteWinner
  <2> QED BY <2>1, InFlight
<1>2. m \in Items /\ row[m] \in Rows /\ ids + 1 \in Nat /\ commits + 1 \in Nat
  BY <1>1 DEF ReqRecords, BranchTypeOK
<1>3. CASE \E finding \in Findings : ensureRevisionWorkingCopy(r, finding)
  <2>1. StartRevision(m)
    BY <1>3 DEF ensureRevisionWorkingCopy
  <2>2. /\ row' \in [Items -> Rows]
        /\ copy' \in [Items -> {"none", "live", "deleted"}]
        /\ commits' \in Nat /\ ids' \in Nat /\ shared' \subseteq Items
    BY <2>1, <1>2, RevisionTypes
  <2>3. scope' \in [Items -> Nat] /\ stray' \subseteq Items
    BY <1>2, <1>3, RegisterTypes DEF ensureRevisionWorkingCopy
  <2> QED BY <1>3, <2>2, <2>3 DEF ensureRevisionWorkingCopy, BranchTypeOK, Done
<1>4. CASE SaveInPlace(r)
  BY <1>4, <1>2 DEF SaveInPlace, BranchTypeOK, Done
<1>5. CASE SaveFirst(r)
  <2>1. [row[m] EXCEPT !.current = "copy", !.change = "modified"] \in Rows
    BY <1>2 DEF Rows
  <2>2. row' \in [Items -> Rows]
    BY <1>5, <1>2, <2>1 DEF SaveFirst, BranchTypeOK
  <2> QED BY <1>5, <1>2, <2>2 DEF SaveFirst, BranchTypeOK, Done
<1>6. CASE createOnBranch(r)
  <2>1. [NoRow EXCEPT !.id = ids + 1, !.change = "added", !.current = "copy"] \in Rows
    BY <1>2 DEF NoRow, Rows
  <2>2. row' \in [Items -> Rows]
    BY <1>6, <1>2, <2>1 DEF createOnBranch, BranchTypeOK
  <2> QED BY <1>6, <1>2, <2>2, RegisterTypes DEF createOnBranch, BranchTypeOK, Done
<1>7. CASE DeleteAdded(r)
  BY <1>7, <1>2, HelperTypes DEF DeleteAdded, BranchTypeOK, Done
<1>8. ASSUME NEW marked \in [Items -> Rows], NEW published, NEW finding,
             MarkDeleted(r, marked, published, finding),
             published \subseteq [kind : {"taken", "freed"}, item : Items, user : Users]
      PROVE  BranchTypeOK'
  <2>1. scope' \in [Items -> Nat] /\ stray' \subseteq Items
    BY <1>8, <1>2, RegisterTypes DEF MarkDeleted
  <2> QED BY <1>8, <1>2, <2>1 DEF MarkDeleted, BranchTypeOK, Done
<1>9. CASE \E finding \in Findings : DeleteTracked(r, finding)
  BY <1>9, <1>8, <1>2, HelperTypes DEF DeleteTracked
<1>10. CASE DeleteUntracked(r)
  <2>1. [req[r] EXCEPT !.phase = "deleteInsert"] \in ReqRecords
    BY <1>1 DEF ReqRecords, Phases
  <2> QED BY <1>10, <2>1, MovesTypes DEF DeleteUntracked
<1>11. CASE \E finding \in Findings : InsertDeleted(r, finding)
  <2>1. req[r].version \in {"base", "copy"}
    BY <1>11, <1>1 DEF InsertDeleted, MarkDeleted, ReqRecords
  <2>2. [NoRow EXCEPT !.id = ids + 1, !.change = "deleted", !.current = req[r].version] \in Rows
    BY <1>2, <2>1 DEF NoRow, Rows
  <2> DEFINE marked == [row EXCEPT ![m] = [NoRow EXCEPT !.id = ids + 1, !.change = "deleted",
                                                        !.current = req[r].version]]
  <2>3. marked \in [Items -> Rows]
    BY <2>2 DEF BranchTypeOK
  <2>4. PICK finding \in Findings : MarkDeleted(r, marked, {}, finding)
    BY <1>11 DEF InsertDeleted
  <2> HIDE DEF marked
  <2> QED BY <1>8, <2>3, <2>4
<1>12. CASE \E finding \in Findings : DeleteWinner(r, finding)
  BY <1>12, <1>8, <1>2, HelperTypes DEF DeleteWinner
<1> QED BY <1>3, <1>4, <1>5, <1>6, <1>7, <1>9, <1>10, <1>11, <1>12 DEF ContentStep

LEMMA ScopeTypes ==
  ASSUME BranchTypeOK, NEW r \in Requests, ScopeStep(r)
  PROVE  BranchTypeOK'
<1> DEFINE m == req[r].item
<1>1. req[r] \in ReqRecords
  <2>1. req[r].phase # "idle"
    BY DEF ScopeStep, addAffectedItem, removeAffectedItem, RemoveUntracked, RemoveScopeRow
  <2> QED BY <2>1, InFlight
<1>2. m \in Items /\ row[m] \in Rows /\ ids + 1 \in Nat
  BY <1>1 DEF ReqRecords, BranchTypeOK
<1>3. CASE addAffectedItem(r)
  <2>1. CASE req[r].phase = "addRevise" /\ row[m].change # "modified"
    <3>1. StartRevision(m)
      BY <1>3, <2>1 DEF addAffectedItem
    <3>2. /\ row' \in [Items -> Rows]
          /\ copy' \in [Items -> {"none", "live", "deleted"}]
          /\ commits' \in Nat /\ ids' \in Nat /\ shared' \subseteq Items
      BY <3>1, <1>2, RevisionTypes
    <3>3. scope' \in [Items -> Nat] /\ stray' \subseteq Items
      BY <1>2, <1>3, RegisterTypes DEF addAffectedItem
    <3> QED BY <1>3, <3>2, <3>3 DEF addAffectedItem, BranchTypeOK, Done
  <2>2. CASE ~(req[r].phase = "addRevise" /\ row[m].change # "modified")
    BY <1>3, <1>2, <2>2, RegisterTypes DEF addAffectedItem, BranchTypeOK, Done
  <2> QED BY <2>1, <2>2
<1>4. CASE removeAffectedItem(r)
  BY <1>4, <1>2, HelperTypes DEF removeAffectedItem, Unlist, BranchTypeOK, Done
<1>5. CASE RemoveUntracked(r)
  <2>1. [req[r] EXCEPT !.phase = "removeScope"] \in ReqRecords
    BY <1>1 DEF ReqRecords, Phases
  <2> QED BY <1>5, <2>1, MovesTypes DEF RemoveUntracked
<1>6. CASE RemoveScopeRow(r)
  BY <1>6, <1>2 DEF RemoveScopeRow, Unlist, BranchTypeOK, Done
<1> QED BY <1>3, <1>4, <1>5, <1>6 DEF ScopeStep

LEMMA OrderTypes ==
  ASSUME BranchTypeOK, Transition \/ ToggleLock \/ cancel
  PROVE  BranchTypeOK'
<1>1. CASE Transition
  BY <1>1 DEF Transition, BranchTypeOK, contentVars
<1>2. CASE ToggleLock
  BY <1>2 DEF ToggleLock, BranchTypeOK, contentVars
<1>3. CASE cancel
  <2>1. row' \in [Items -> Rows]
    <3>1. \A m \in Items : [row[m] EXCEPT !.holder = Nobody] \in Rows
      BY DEF BranchTypeOK, Rows
    <3> QED BY <1>3, <3>1 DEF cancel
  <2>2. facts' \subseteq [kind : {"taken", "freed"}, item : Items, user : Users]
    <3>1. facts' = UNION {FreedHolder(m) : m \in Items}
      BY <1>3 DEF cancel
    <3> QED BY <3>1, HelperTypes
  <2>3. branch' \in [archived: BOOLEAN, locked: BOOLEAN]
    BY <1>3 DEF cancel, BranchTypeOK
  <2> QED BY <1>3, <2>1, <2>2, <2>3 DEF cancel, BranchTypeOK
<1> QED BY <1>1, <1>2, <1>3

(* Every reachable state is well typed. *)
THEOREM BranchTyping == Spec => []BranchTypeOK
<1>1. BranchTypeOK /\ [Next]_vars => BranchTypeOK'
  <2> SUFFICES ASSUME BranchTypeOK, [Next]_vars
               PROVE  BranchTypeOK'
    OBVIOUS
  <2>1. CASE UNCHANGED vars
    BY <2>1 DEF BranchTypeOK, vars, contentVars
  <2>2. CASE Next
    BY <2>2, ArriveTypes, DropTypes, CheckoutTypes, ContentTypes, ScopeTypes, OrderTypes
       DEF Next
  <2> QED BY <2>1, <2>2
<1> QED BY <1>1, TypeInit, PTL DEF Spec

-----------------------------------------------------------------------------
(* The exclusive checkout *)

(* Apart from the two writes that take a lock, a step frees an item, or leaves
   it to its holder and does not delete its row. *)
Eases(i) == \/ row'[i].holder = Nobody
            \/ row'[i].holder = row[i].holder /\ (row'[i].id = 0 => row[i].id = 0)

LEMMA NextEases ==
  ASSUME BranchTypeOK, Next,
         ~ \E r \in Requests : Claim(r) \/ InsertCheckout(r)
  PROVE  \A i \in Items : Eases(i)
<1>1. row \in [Items -> Rows]
  BY DEF BranchTypeOK
<1>2. CASE UNCHANGED row
  BY <1>2 DEF Eases
<1>3. CASE cancel
  BY <1>1, <1>3 DEF cancel, Rows, Eases
<1>4. ASSUME NEW r \in Requests, req[r].phase # "idle", NEW m, m = req[r].item,
             \/ row' = [row EXCEPT ![m] = NoRow]
             \/ row' = Unheld(m)
             \/ row' = Deleted(m)
             \/ row' = [row EXCEPT ![m].current = "copy", ![m].change = "modified"]
             \/ \E n : n # 0 /\ row' = [row EXCEPT ![m].id = n, ![m].current = "copy",
                                          ![m].change = "modified"]
             \/ \E n, c, v : row' = [row EXCEPT ![m] = [NoRow EXCEPT !.id = n, !.change = c,
                                                                     !.current = v]]
      PROVE  \A i \in Items : Eases(i)
  <2>1. m \in Items
    BY <1>4, InFlight DEF ReqRecords
  <2>2. row[m] \in Rows
    BY <1>1, <2>1
  <2>4. CASE row' = [row EXCEPT ![m] = NoRow]
    BY <1>1, <2>1, <2>4 DEF NoRow, Eases
  <2>5. CASE row' = Unheld(m)
    BY <1>1, <2>1, <2>2, <2>5 DEF Unheld, Rows, Eases
  <2>6. CASE row' = Deleted(m)
    BY <1>1, <2>1, <2>2, <2>6 DEF Deleted, Rows, Eases
  <2>7. CASE row' = [row EXCEPT ![m].current = "copy", ![m].change = "modified"]
    BY <1>1, <2>1, <2>2, <2>7 DEF Rows, Eases
  <2>8. CASE \E n : n # 0 /\ row' = [row EXCEPT ![m].id = n, ![m].current = "copy",
                                        ![m].change = "modified"]
    <3>1. PICK n : n # 0 /\ row' = [row EXCEPT ![m].id = n, ![m].current = "copy",
                                      ![m].change = "modified"]
      BY <2>8
    <3> QED BY <1>1, <2>1, <2>2, <3>1 DEF Rows, Eases
  <2>9. CASE \E n, c, v : row' = [row EXCEPT ![m] = [NoRow EXCEPT !.id = n, !.change = c,
                                                                  !.current = v]]
    <3>1. PICK n, c, v : row' = [row EXCEPT ![m] = [NoRow EXCEPT !.id = n, !.change = c,
                                                                 !.current = v]]
      BY <2>9
    <3> QED BY <1>1, <2>1, <3>1 DEF NoRow, Eases
  <2> QED BY <1>4, <2>4, <2>5, <2>6, <2>7, <2>8, <2>9
<1>5. ASSUME NEW r \in Requests, Arrive(r) \/ Drop(r)
      PROVE  \A i \in Items : Eases(i)
  BY <1>5, <1>2, ArriveOnlyReads DEF Drop, contentVars
<1>6. ASSUME NEW r \in Requests, CheckoutStep(r)
      PROVE  \A i \in Items : Eases(i)
  <2>1. CASE \/ ReadClaim(r) \/ LoseClaim(r) \/ LoseInsert(r)
              \/ \E finding \in Findings : RegisterCheckout(r, finding)
    BY <2>1, <1>2 DEF ReadClaim, LoseClaim, LoseInsert, RegisterCheckout, Moves, contentVars
  <2>2. CASE cancelCheckout(r)
    BY <2>2, <1>2, <1>4 DEF cancelCheckout, FreeRow
  <2>3. CASE checkin(r)
    BY <2>3, <1>2, <1>4 DEF checkin, FreeRow
  <2> QED BY <1>6, <2>1, <2>2, <2>3 DEF CheckoutStep
<1>7. ASSUME NEW r \in Requests, req[r].phase # "idle", StartRevision(req[r].item)
      PROVE  \A i \in Items : Eases(i)
  <2>1. (IF Tracked(req[r].item) THEN row[req[r].item].id ELSE ids + 1) # 0
    BY DEF Tracked, BranchTypeOK
  <2> QED BY <1>7, <1>4, <2>1 DEF StartRevision
<1>8. ASSUME NEW r \in Requests, ContentStep(r)
      PROVE  \A i \in Items : Eases(i)
  <2>1. CASE \E finding \in Findings : ensureRevisionWorkingCopy(r, finding)
    BY <2>1, <1>7 DEF ensureRevisionWorkingCopy
  <2>2. CASE SaveInPlace(r) \/ DeleteUntracked(r)
    BY <2>2, <1>2 DEF SaveInPlace, DeleteUntracked, Moves, contentVars
  <2>3. CASE SaveFirst(r)
    BY <2>3, <1>2, <1>4 DEF SaveFirst
  <2>4. CASE createOnBranch(r)
    BY <2>4, <1>4 DEF createOnBranch
  <2>5. CASE DeleteAdded(r)
    BY <2>5, <1>4 DEF DeleteAdded
  <2>6. CASE \E finding \in Findings : DeleteTracked(r, finding) \/ DeleteWinner(r, finding)
    BY <2>6, <1>4 DEF DeleteTracked, DeleteWinner, MarkDeleted
  <2>7. CASE \E finding \in Findings : InsertDeleted(r, finding)
    <3>1. row' = [row EXCEPT ![req[r].item] = [NoRow EXCEPT !.id = ids + 1, !.change = "deleted",
                                                            !.current = req[r].version]]
          /\ req[r].phase # "idle"
      BY <2>7 DEF InsertDeleted, MarkDeleted
    <3> QED BY <1>4, <3>1
  <2> QED BY <1>8, <2>1, <2>2, <2>3, <2>4, <2>5, <2>6, <2>7 DEF ContentStep
<1>9. ASSUME NEW r \in Requests, ScopeStep(r)
      PROVE  \A i \in Items : Eases(i)
  <2>1. CASE addAffectedItem(r)
    BY <2>1, <1>2, <1>7 DEF addAffectedItem
  <2>2. CASE removeAffectedItem(r)
    BY <2>2, <1>4 DEF removeAffectedItem, Unlist
  <2>3. CASE RemoveUntracked(r) \/ RemoveScopeRow(r)
    BY <2>3, <1>2 DEF RemoveUntracked, RemoveScopeRow, Moves, contentVars
  <2> QED BY <1>9, <2>1, <2>2, <2>3 DEF ScopeStep
<1>10. CASE Transition \/ ToggleLock
  BY <1>10, <1>2 DEF Transition, ToggleLock, contentVars
<1> QED BY <1>3, <1>5, <1>6, <1>8, <1>9, <1>10 DEF Next

(* An item the branch does not track is held by nobody; and a claim, or a
   first save, updates a row it has seen. *)
UntrackedIsFree == \A i \in Items : ~Tracked(i) => row[i].holder = Nobody
ByIdPhases == {"cas", "saveFirst"}
WriteSawRow == \A r \in Requests : req[r].phase \in ByIdPhases => req[r].id # 0
LockInv == BranchTypeOK /\ UntrackedIsFree /\ WriteSawRow

(* The two writes that take a lock find nobody holding it. *)
LEMMA ClaimTakes ==
  ASSUME LockInv, NEW r \in Requests, Claim(r) \/ InsertCheckout(r)
  PROVE  \E m \in Items, u \in Users : Lock!Take(m, u)
<1> DEFINE m == req[r].item
           u == req[r].user
<1>1. m \in Items /\ u \in Users
  BY InFlight DEF Claim, InsertCheckout, ReqRecords, LockInv
<1>2. row \in [Items -> Rows]
  BY DEF LockInv, BranchTypeOK
<1>3. CASE Claim(r)
  <2>1. Holders[m] = Nobody
    BY <1>1, <1>3 DEF Claim, Holders
  <2>2. Holders' = [Holders EXCEPT ![m] = u]
    BY <1>1, <1>2, <1>3 DEF Claim, Holders, Rows
  <2> QED BY <1>1, <2>1, <2>2 DEF Lock!Take
<1>4. CASE InsertCheckout(r)
  <2>1. Holders[m] = Nobody
    BY <1>1, <1>4 DEF InsertCheckout, Holders, LockInv, UntrackedIsFree
  <2>2. Holders' = [Holders EXCEPT ![m] = u]
    BY <1>1, <1>2, <1>4 DEF InsertCheckout, Holders, Rows, NoRow
  <2> QED BY <1>1, <2>1, <2>2 DEF Lock!Take
<1> QED BY <1>3, <1>4

(* A request remembers the row it writes from a state in which it was there. *)
LEMMA WriteSawRowStep ==
  ASSUME LockInv, Next
  PROVE  WriteSawRow'
<1> SUFFICES ASSUME NEW s \in Requests, req'[s].phase \in ByIdPhases
             PROVE  req'[s].id # 0
  BY DEF WriteSawRow
<1>1. req \in [Requests -> {IdleReq} \union ReqRecords]
  BY DEF LockInv, BranchTypeOK
<1>2. CASE req'[s] = req[s]
  BY <1>2 DEF LockInv, WriteSawRow
<1>3. ASSUME NEW r \in Requests, NEW state, req' = [req EXCEPT ![r] = state],
             state.phase \notin ByIdPhases
      PROVE  req'[s] = req[s]
  BY <1>1, <1>3
<1>4. IdleReq.phase \notin ByIdPhases
  BY DEF IdleReq, ByIdPhases
<1>5. ASSUME NEW r \in Requests, Done(r)
      PROVE  req'[s] = req[s]
  BY <1>3, <1>4, <1>5 DEF Done
<1>6. ASSUME NEW r \in Requests, NEW kind, NEW state, Begin(r, kind, state),
             state.phase \notin ByIdPhases
      PROVE  req'[s] = req[s]
  BY <1>3, <1>6 DEF Begin
<1>7. ASSUME NEW r \in Requests, NEW state, Moves(r, state), state.phase \notin ByIdPhases
      PROVE  req'[s] = req[s]
  BY <1>3, <1>7 DEF Moves
<1>8. ASSUME NEW r \in Requests, Arrive(r)
      PROVE  req'[s].id # 0
  <2>1. PICK u \in Users, m \in Items :
          \/ BeginCheckout(r, u, m) \/ BeginEnsure(r, u, m) \/ BeginSave(r, u, m)
          \/ BeginCreate(r, u, m) \/ BeginDelete(r, u, m)
          \/ \E kind \in {"cancel", "checkin"} : BeginFree(r, kind, u, m)
          \/ \E action \in {"addRevise", "addOther"} : BeginAdd(r, u, m, action)
          \/ \E discard \in BOOLEAN : BeginRemove(r, u, m, discard)
    BY <1>8 DEF Arrive
  <2>2. CASE BeginCheckout(r, u, m) \/ BeginEnsure(r, u, m) \/ BeginCreate(r, u, m)
    BY <2>2, <1>2, <1>6 DEF BeginCheckout, BeginEnsure, BeginCreate, Asks, ByIdPhases
  <2>3. CASE BeginDelete(r, u, m)
    BY <2>3, <1>2, <1>6 DEF BeginDelete, Asks, ByIdPhases
  <2>7. CASE BeginSave(r, u, m)
    <3>1. CASE s = r
      BY <1>1, <2>7, <3>1 DEF BeginSave, Begin, Asks, Tracked
    <3>2. CASE s # r
      BY <1>1, <1>2, <2>7, <3>2 DEF BeginSave, Begin
    <3> QED BY <3>1, <3>2
  <2>4. CASE \E kind \in {"cancel", "checkin"} : BeginFree(r, kind, u, m)
    BY <2>4, <1>2, <1>6 DEF BeginFree, Asks, ByIdPhases
  <2>5. CASE \E action \in {"addRevise", "addOther"} : BeginAdd(r, u, m, action)
    BY <2>5, <1>2, <1>6 DEF BeginAdd, Asks, ByIdPhases
  <2>6. CASE \E discard \in BOOLEAN : BeginRemove(r, u, m, discard)
    BY <2>6, <1>2, <1>6 DEF BeginRemove, Asks, ByIdPhases
  <2> QED BY <2>1, <2>2, <2>3, <2>4, <2>5, <2>6, <2>7
<1>9. ASSUME NEW r \in Requests, Drop(r)
      PROVE  req'[s] = req[s]
  BY <1>5, <1>9 DEF Drop
<1>10. ASSUME NEW r \in Requests, ReadClaim(r)
       PROVE  req'[s].id # 0
  <2>1. CASE s = r
    <3>1. req[r] \in ReqRecords
      BY <1>10, InFlight DEF ReadClaim, LockInv
    <3>2. req'[r].id = row[req[r].item].id
      BY <1>1, <1>10, <3>1 DEF ReadClaim, Moves, ReqRecords
    <3> QED BY <1>10, <2>1, <3>2 DEF ReadClaim, Tracked
  <2>2. CASE s # r
    BY <1>1, <1>2, <1>10, <2>2 DEF ReadClaim, Moves
  <2> QED BY <2>1, <2>2
<1>11. ASSUME NEW r \in Requests, req[r].phase # "idle", NEW phase \in Phases \ ByIdPhases,
              req' = [req EXCEPT ![r].phase = phase]
       PROVE  req'[s] = req[s]
  <2>1. s # r
    <3>1. req[r] \in ReqRecords
      BY <1>11, InFlight DEF LockInv
    <3> QED BY <1>1, <1>11, <3>1 DEF ReqRecords
  <2> QED BY <1>1, <1>11, <2>1
<1>12. ASSUME NEW r \in Requests, NEW phase \in Phases \ ByIdPhases, req[r].phase # "idle",
              Moves(r, [req[r] EXCEPT !.phase = phase])
       PROVE  req'[s] = req[s]
  <2>1. req[r] \in ReqRecords
    BY <1>12, InFlight DEF LockInv
  <2>2. [req[r] EXCEPT !.phase = phase].phase \notin ByIdPhases
    BY <2>1 DEF ReqRecords
  <2> QED BY <1>7, <1>12, <2>2
<1>13. ASSUME NEW r \in Requests, CheckoutStep(r)
       PROVE  req'[s].id # 0
  <2>1. CASE \/ Claim(r) \/ cancelCheckout(r) \/ checkin(r)
              \/ \E finding \in Findings : RegisterCheckout(r, finding)
    BY <2>1, <1>2, <1>5 DEF Claim, RegisterCheckout, cancelCheckout, checkin, FreeRow
  <2>2. CASE LoseClaim(r) \/ LoseInsert(r)
    BY <2>2, <1>2, <1>12 DEF LoseClaim, LoseInsert, Phases, ByIdPhases
  <2>3. CASE InsertCheckout(r)
    BY <2>3, <1>2, <1>11 DEF InsertCheckout, Phases, ByIdPhases
  <2> QED BY <1>13, <1>10, <2>1, <2>2, <2>3 DEF CheckoutStep
<1>14. ASSUME NEW r \in Requests, ContentStep(r)
       PROVE  req'[s] = req[s]
  <2>1. CASE DeleteUntracked(r)
    BY <2>1, <1>12 DEF DeleteUntracked, Phases, ByIdPhases
  <2>2. CASE ~DeleteUntracked(r)
    BY <2>2, <1>14, <1>5 DEF ContentStep, ensureRevisionWorkingCopy, SaveInPlace, SaveFirst,
       createOnBranch, DeleteAdded, DeleteTracked, InsertDeleted, DeleteWinner, MarkDeleted
  <2> QED BY <2>1, <2>2
<1>15. ASSUME NEW r \in Requests, ScopeStep(r)
       PROVE  req'[s] = req[s]
  <2>1. CASE RemoveUntracked(r)
    BY <2>1, <1>12 DEF RemoveUntracked, Phases, ByIdPhases
  <2>2. CASE ~RemoveUntracked(r)
    BY <2>2, <1>15, <1>5 DEF ScopeStep, addAffectedItem, removeAffectedItem, RemoveScopeRow,
       Unlist
  <2> QED BY <2>1, <2>2
<1>16. CASE Transition \/ ToggleLock \/ cancel
  BY <1>2, <1>16 DEF Transition, ToggleLock, cancel
<1> QED BY <1>2, <1>8, <1>9, <1>13, <1>14, <1>15, <1>16 DEF Next

(* In every state the untracked items are free, and a claim or a first
   save is of a row that was there. *)
LEMMA LockInvariant == Spec => []LockInv
<1>1. Init => UntrackedIsFree /\ WriteSawRow
  BY DEF Init, UntrackedIsFree, WriteSawRow, ByIdPhases, NoRow, IdleReq
<1>2. LockInv /\ [Next]_vars => (UntrackedIsFree /\ WriteSawRow)'
  <2> SUFFICES ASSUME LockInv, [Next]_vars
               PROVE  (UntrackedIsFree /\ WriteSawRow)'
    OBVIOUS
  <2>1. CASE UNCHANGED vars
    BY <2>1 DEF LockInv, UntrackedIsFree, WriteSawRow, Tracked, vars, contentVars
  <2>2. CASE Next /\ \E r \in Requests : Claim(r) \/ InsertCheckout(r)
    <3> SUFFICES UntrackedIsFree'
      BY <2>2, WriteSawRowStep
    <3>1. PICK r \in Requests : Claim(r) \/ InsertCheckout(r)
      BY <2>2
    <3> DEFINE m == req[r].item
    <3>2. m \in Items /\ row \in [Items -> Rows] /\ ids \in Nat
      BY <3>1, InFlight DEF Claim, InsertCheckout, ReqRecords, LockInv, BranchTypeOK
    <3>3. \A i \in Items \ {m} : row'[i] = row[i]
      BY <3>1, <3>2 DEF Claim, InsertCheckout
    <3>4. row'[m].id # 0
      <4>1. CASE Claim(r)
        <5>1. row[m].id # 0
          BY <4>1 DEF Claim, LockInv, WriteSawRow, ByIdPhases
        <5> QED BY <3>2, <4>1, <5>1 DEF Claim, Rows
      <4>2. CASE InsertCheckout(r)
        BY <3>2, <4>2 DEF InsertCheckout, NoRow
      <4> QED BY <3>1, <4>1, <4>2
    <3> QED BY <3>3, <3>4 DEF LockInv, UntrackedIsFree, Tracked
  <2>3. CASE Next /\ ~ \E r \in Requests : Claim(r) \/ InsertCheckout(r)
    <3>1. \A i \in Items : Eases(i)
      BY <2>3, NextEases DEF LockInv
    <3> QED BY <2>3, <3>1, WriteSawRowStep DEF LockInv, UntrackedIsFree, Tracked, Eases
  <2> QED BY <2>1, <2>2, <2>3
<1> QED BY <1>1, <1>2, BranchTyping, PTL DEF Spec, LockInv

(* Checkout is an exclusive lock: every step of the branch's requests takes a
   free item, releases some items, or leaves every holder alone. *)
THEOREM BranchImplementsItemLocks == Spec => CheckoutIsExclusive
<1>1. Init => Lock!Init
  BY DEF Init, Lock!Init, Holders, NoRow
<1>2. LockInv /\ [Next]_vars => [Lock!Next]_Holders
  <2> SUFFICES ASSUME LockInv, [Next]_vars
               PROVE  [Lock!Next]_Holders
    OBVIOUS
  <2>1. CASE UNCHANGED vars
    BY <2>1 DEF Holders, vars, contentVars
  <2>2. CASE \E r \in Requests : Claim(r) \/ InsertCheckout(r)
    BY <2>2, ClaimTakes DEF Lock!Next
  <2>3. CASE Next /\ ~ \E r \in Requests : Claim(r) \/ InsertCheckout(r)
    <3> DEFINE S == {i \in Items : row'[i].holder = Nobody}
    <3>1. \A i \in Items : Eases(i)
      BY <2>3, NextEases DEF LockInv
    <3>2. Holders' = [i \in Items |-> IF i \in S THEN Nobody ELSE Holders[i]]
      BY <3>1 DEF Holders, Eases
    <3>3. Lock!Release(S) /\ S \in SUBSET Items
      BY <3>2 DEF Lock!Release
    <3> QED BY <3>3 DEF Lock!Next
  <2> QED BY <2>1, <2>2, <2>3
<1> QED BY <1>1, <1>2, LockInvariant, PTL DEF Spec, CheckoutIsExclusive, Lock!Spec

-----------------------------------------------------------------------------
(* The working copies behind the branch's content *)

(* Where a row or a copy is written, the row ends up without content to merge
   or on a live copy. *)
LEMMA CopyStep ==
  ASSUME BranchTypeOK, MergedContentIsACopy, Next
  PROVE  MergedContentIsACopy'
<1> SUFFICES ASSUME NEW i \in Items
             PROVE  row'[i].change \in {"added", "modified"}
                      => row'[i].current = "copy" /\ copy'[i] = "live"
  BY DEF MergedContentIsACopy
<1> DEFINE Sound == row'[i].change \in {"added", "modified"}
                      => row'[i].current = "copy" /\ copy'[i] = "live"
<1>1. /\ row \in [Items -> Rows]
      /\ copy \in [Items -> {"none", "live", "deleted"}]
      /\ row[i].change \in {"added", "modified"} => row[i].current = "copy" /\ copy[i] = "live"
  BY DEF BranchTypeOK, MergedContentIsACopy
<1>2. CASE row'[i].change = row[i].change /\ row'[i].current = row[i].current
           /\ copy'[i] = copy[i]
  BY <1>1, <1>2
<1>3. ASSUME NEW r \in Requests, req[r].phase # "idle"
      PROVE  req[r].item \in Items
  BY <1>3, InFlight DEF ReqRecords
<1>4. ASSUME NEW m \in Items, UNCHANGED copy,
             \/ row' = [row EXCEPT ![m] = NoRow]
             \/ row' = Unheld(m)
             \/ row' = Deleted(m)
      PROVE  Sound
  <2>1. row[m] \in Rows
    BY <1>1
  <2> QED BY <1>1, <1>4, <2>1 DEF Unheld, Deleted, NoRow, Rows
<1>5. ASSUME NEW m \in Items, StartRevision(m)
      PROVE  Sound
  <2>1. CASE i = m
    <3>1. row'[m].current = "copy" /\ copy'[m] = "live"
      <4> DEFINE id == IF Tracked(m) THEN row[m].id ELSE ids + 1
      <4>1. row' = [row EXCEPT ![m].id = id, ![m].current = "copy", ![m].change = "modified"]
        BY <1>5 DEF StartRevision
      <4> HIDE DEF id
      <4> QED BY <1>1, <1>5, <4>1 DEF StartRevision, Rows
    <3> QED BY <2>1, <3>1
  <2>2. CASE i # m
    BY <1>1, <1>2, <1>5, <2>2 DEF StartRevision
  <2> QED BY <2>1, <2>2
<1>6. ASSUME NEW r \in Requests, Arrive(r) \/ Drop(r)
      PROVE  Sound
  BY <1>6, <1>2, ArriveOnlyReads DEF Drop, contentVars
<1>7. ASSUME NEW r \in Requests, CheckoutStep(r)
      PROVE  Sound
  <2> DEFINE m == req[r].item
  <2>0. m \in Items
    BY <1>3, <1>7 DEF CheckoutStep, ReadClaim, Claim, LoseClaim, InsertCheckout, LoseInsert,
       RegisterCheckout, cancelCheckout, checkin
  <2>1. CASE \/ ReadClaim(r) \/ LoseClaim(r) \/ LoseInsert(r)
              \/ \E finding \in Findings : RegisterCheckout(r, finding)
    BY <2>1, <1>2 DEF ReadClaim, LoseClaim, LoseInsert, RegisterCheckout, Moves, contentVars
  <2>2. CASE Claim(r)
    <3>1. row[m] \in Rows
      BY <1>1, <2>0
    <3> QED BY <1>1, <1>2, <2>0, <2>2, <3>1 DEF Claim, Rows
  <2>3. CASE InsertCheckout(r)
    BY <1>1, <1>2, <2>0, <2>3 DEF InsertCheckout, NoRow
  <2>4. CASE cancelCheckout(r)
    BY <1>2, <1>4, <2>0, <2>4 DEF cancelCheckout, FreeRow
  <2>5. CASE checkin(r)
    BY <1>2, <1>4, <2>0, <2>5 DEF checkin, FreeRow
  <2> QED BY <1>7, <2>1, <2>2, <2>3, <2>4, <2>5 DEF CheckoutStep
<1>8. ASSUME NEW r \in Requests, ContentStep(r)
      PROVE  Sound
  <2> DEFINE m == req[r].item
  <2>0. m \in Items
    BY <1>3, <1>8 DEF ContentStep, ensureRevisionWorkingCopy, SaveInPlace, SaveFirst,
       createOnBranch, DeleteAdded, DeleteTracked, DeleteUntracked, InsertDeleted, DeleteWinner
  <2>1. CASE \E finding \in Findings : ensureRevisionWorkingCopy(r, finding)
    BY <1>5, <2>0, <2>1 DEF ensureRevisionWorkingCopy
  <2>2. CASE SaveInPlace(r) \/ DeleteUntracked(r)
    BY <1>2, <2>2 DEF SaveInPlace, DeleteUntracked, Moves, contentVars
  <2>3. CASE SaveFirst(r)
    <3>1. row[m] \in Rows
      BY <1>1, <2>0
    <3> QED BY <1>1, <2>0, <2>3, <3>1 DEF SaveFirst, Rows
  <2>4. CASE createOnBranch(r)
    BY <1>1, <2>0, <2>4 DEF createOnBranch, NoRow
  <2>5. CASE DeleteAdded(r)
    BY <1>1, <2>0, <2>5 DEF DeleteAdded, NoRow
  <2>6. CASE \E finding \in Findings : DeleteTracked(r, finding) \/ DeleteWinner(r, finding)
    BY <1>4, <2>0, <2>6 DEF DeleteTracked, DeleteWinner, MarkDeleted
  <2>7. CASE \E finding \in Findings : InsertDeleted(r, finding)
    BY <1>1, <2>0, <2>7 DEF InsertDeleted, MarkDeleted, NoRow
  <2> QED BY <1>8, <2>1, <2>2, <2>3, <2>4, <2>5, <2>6, <2>7 DEF ContentStep
<1>9. ASSUME NEW r \in Requests, ScopeStep(r)
      PROVE  Sound
  <2> DEFINE m == req[r].item
  <2>0. m \in Items
    BY <1>3, <1>9 DEF ScopeStep, addAffectedItem, removeAffectedItem, RemoveUntracked,
       RemoveScopeRow
  <2>1. CASE addAffectedItem(r)
    BY <1>2, <1>5, <2>0, <2>1 DEF addAffectedItem
  <2>2. CASE removeAffectedItem(r)
    BY <1>4, <2>0, <2>2 DEF removeAffectedItem, Unlist
  <2>3. CASE RemoveUntracked(r) \/ RemoveScopeRow(r)
    BY <1>2, <2>3 DEF RemoveUntracked, RemoveScopeRow, Unlist, Moves, contentVars
  <2> QED BY <1>9, <2>1, <2>2, <2>3 DEF ScopeStep
<1>10. CASE Transition \/ ToggleLock
  BY <1>2, <1>10 DEF Transition, ToggleLock, contentVars
<1>11. CASE cancel
  BY <1>1, <1>2, <1>11 DEF cancel, Rows
<1> QED BY <1>6, <1>7, <1>8, <1>9, <1>10, <1>11 DEF Next

(* What the branch adds or modifies is always a live working copy of its own. *)
THEOREM MergesOnlyCopies == Spec => []MergedContentIsACopy
<1>1. Init => MergedContentIsACopy
  BY DEF Init, MergedContentIsACopy, NoRow
<1>2. BranchTypeOK /\ MergedContentIsACopy /\ [Next]_vars => MergedContentIsACopy'
  <2>1. UNCHANGED vars /\ MergedContentIsACopy => MergedContentIsACopy'
    BY DEF MergedContentIsACopy, vars, contentVars
  <2> QED BY <2>1, CopyStep
<1> QED BY <1>1, <1>2, BranchTyping, PTL DEF Spec

-----------------------------------------------------------------------------
(* What the change order lists *)

(* The scope row of an item, or the reason there is none. *)
Covered(i) == scope[i] # 0 \/ i \in stray \/ BeingRegistered(i)

(* A changed item is a tracked one, and the tracked items are covered: not
   only the changed ones, as a save changes an item and lists nothing. *)
TrackedIsCovered == \A i \in Items : /\ row[i].change # "none" => Tracked(i)
                                     /\ Tracked(i) => Covered(i)

(* A registration lists its item or leaves word that it did not, and takes
   neither from another. *)
LEMMA RegisterCovers ==
  ASSUME BranchTypeOK, NEW m \in Items, NEW i \in Items,
         Lists(m) \/ \E change, finding : registerBranchChange(m, change, finding)
  PROVE  /\ scope'[m] # 0 \/ m \in stray'
         /\ scope[i] # 0 => scope'[i] # 0
         /\ i \in stray => i \in stray' \/ scope'[i] # 0
<1>1. scope \in [Items -> Nat] /\ ids + 1 # 0
  BY DEF BranchTypeOK
<1>2. CASE Lists(m)
  BY <1>1, <1>2 DEF Lists, Listed
<1>3. CASE ~Lists(m)
  BY <1>3 DEF registerBranchChange
<1> QED BY <1>2, <1>3

(* While a request that is not registering a checkout moves on, whoever is
   goes on being so. *)
LEMMA RegistrationsStay ==
  ASSUME BranchTypeOK, NEW r \in Requests, req[r].phase # "register",
         NEW state, req' = [req EXCEPT ![r] = state], NEW i, BeingRegistered(i)
  PROVE  BeingRegistered(i)'
<1>1. PICK s \in Requests : req[s].phase = "register" /\ req[s].item = i
  BY DEF BeingRegistered
<1>2. s # r
  BY <1>1
<1>3. req'[s] = req[s]
  BY <1>2 DEF BranchTypeOK
<1> QED BY <1>1, <1>3 DEF BeingRegistered

(* A step that leaves the row of i as tracked and as changed as it was, and
   takes no cover from it. *)
LEMMA CoverStays ==
  ASSUME TrackedIsCovered, NEW i \in Items,
         row'[i].id = row[i].id,
         row'[i].change # "none" => row[i].change # "none" \/ row[i].id # 0,
         scope[i] # 0 => scope'[i] # 0,
         i \in stray => i \in stray' \/ scope'[i] # 0,
         BeingRegistered(i) => BeingRegistered(i)'
  PROVE  /\ row'[i].change # "none" => row'[i].id # 0
         /\ row'[i].id # 0 => Covered(i)'
  BY DEF TrackedIsCovered, Tracked, Covered

LEMMA CoverStep ==
  ASSUME LockInv, TrackedIsCovered, Next
  PROVE  TrackedIsCovered'
<1> SUFFICES ASSUME NEW i \in Items
             PROVE  /\ row'[i].change # "none" => row'[i].id # 0
                    /\ row'[i].id # 0 => Covered(i)'
  BY DEF TrackedIsCovered, Tracked
<1> DEFINE Sound == /\ row'[i].change # "none" => row'[i].id # 0
                    /\ row'[i].id # 0 => Covered(i)'
<1>1. /\ BranchTypeOK
      /\ row \in [Items -> Rows]
      /\ scope \in [Items -> Nat]
      /\ req \in [Requests -> {IdleReq} \union ReqRecords]
      /\ ids \in Nat
  BY DEF LockInv, BranchTypeOK
<1>2. ASSUME NEW r \in Requests, req[r].phase # "idle"
      PROVE  req[r].item \in Items /\ row[req[r].item] \in Rows
  BY <1>1, <1>2, InFlight DEF ReqRecords
<1>3. ASSUME NEW r \in Requests, req[r].phase # "register", NEW state,
             req' = [req EXCEPT ![r] = state]
      PROVE  BeingRegistered(i) => BeingRegistered(i)'
  BY <1>1, <1>3, RegistrationsStay
<1>4. ASSUME UNCHANGED <<row, scope, stray>>,
             BeingRegistered(i) => BeingRegistered(i)'
      PROVE  Sound
  BY <1>4, CoverStays
<1>5. ASSUME row'[i] = NoRow
      PROVE  Sound
  BY <1>5 DEF NoRow
<1>6. ASSUME NEW m \in Items, i # m, UNCHANGED stray,
             row'[i] = row[i],
             scope[i] # 0 => scope'[i] # 0,
             BeingRegistered(i) => BeingRegistered(i)'
      PROVE  Sound
  BY <1>6, CoverStays
<1>7. ASSUME row'[i].id # 0, scope'[i] # 0 \/ i \in stray'
      PROVE  Sound
  BY <1>7 DEF Covered
<1>8. ASSUME NEW r \in Requests, Arrive(r)
      PROVE  Sound
  <2>1. UNCHANGED <<row, scope, stray>>
    BY <1>8, ArriveOnlyReads DEF contentVars
  <2>2. PICK state : req' = [req EXCEPT ![r] = state] /\ req[r].phase = "idle"
    BY <1>8, ArriveOnlyReads
  <2> QED BY <2>1, <2>2, <1>3, <1>4
<1>9. ASSUME NEW r \in Requests, Drop(r)
      PROVE  Sound
  <2>1. CASE req[r].phase # "register"
    BY <2>1, <1>9, <1>3, <1>4 DEF Drop, Done, contentVars
  <2>2. CASE req[r].phase = "register" /\ req[r].item = i
    <3>1. i \in stray' /\ UNCHANGED row
      BY <2>2, <1>9 DEF Drop, contentVars
    <3> QED BY <3>1 DEF Covered, TrackedIsCovered, Tracked
  <2>3. CASE req[r].phase = "register" /\ req[r].item # i
    <3>1. BeingRegistered(i) => BeingRegistered(i)'
      BY <2>3, <1>1, <1>9 DEF Drop, Done, BeingRegistered
    <3>2. UNCHANGED <<row, scope>> /\ (i \in stray => i \in stray')
      BY <1>9 DEF Drop, contentVars
    <3> QED BY <3>1, <3>2, CoverStays
  <2> QED BY <2>1, <2>2, <2>3
<1>10. ASSUME NEW r \in Requests, CheckoutStep(r)
       PROVE  Sound
  <2> DEFINE m == req[r].item
  <2>0. m \in Items /\ row[m] \in Rows
    BY <1>2, <1>10 DEF CheckoutStep, ReadClaim, Claim, LoseClaim, InsertCheckout, LoseInsert,
       RegisterCheckout, cancelCheckout, checkin
  <2>1. CASE ReadClaim(r) \/ LoseClaim(r) \/ LoseInsert(r)
    BY <2>1, <1>3, <1>4 DEF ReadClaim, LoseClaim, LoseInsert, Moves, contentVars
  <2>2. CASE Claim(r)
    <3>1. row'[i].id = row[i].id /\ row'[i].change = row[i].change
      BY <1>1, <2>0, <2>2 DEF Claim, Rows
    <3>2. BeingRegistered(i) => BeingRegistered(i)'
      BY <2>2, <1>3 DEF Claim, Done
    <3> QED BY <2>2, <3>1, <3>2, CoverStays DEF Claim
  <2>3. CASE InsertCheckout(r)
    <3>1. CASE i = m
      <4>1. row'[i].id # 0
        BY <1>1, <2>0, <2>3, <3>1 DEF InsertCheckout, NoRow
      <4>2. req'[r].phase = "register" /\ req'[r].item = i
        <5>1. req[r] \in ReqRecords
          BY <1>1, <2>3, InFlight DEF InsertCheckout
        <5> QED BY <1>1, <2>3, <3>1, <5>1 DEF InsertCheckout, ReqRecords
      <4> QED BY <4>1, <4>2 DEF Covered, BeingRegistered
    <3>2. CASE i # m
      <4>1. BeingRegistered(i) => BeingRegistered(i)'
        BY <2>3, <1>3 DEF InsertCheckout
      <4>2. row'[i] = row[i] /\ UNCHANGED <<scope, stray>>
        BY <2>3, <2>0, <1>1, <3>2 DEF InsertCheckout
      <4> QED BY <4>1, <4>2, CoverStays
    <3> QED BY <3>1, <3>2
  <2>4. CASE \E finding \in Findings : RegisterCheckout(r, finding)
    <3>1. /\ scope'[m] # 0 \/ m \in stray'
          /\ scope[i] # 0 => scope'[i] # 0
          /\ i \in stray => i \in stray' \/ scope'[i] # 0
      BY <1>1, <2>0, <2>4, RegisterCovers DEF RegisterCheckout
    <3>2. CASE i = m
      BY <2>4, <3>1, <3>2 DEF RegisterCheckout, TrackedIsCovered, Tracked, Covered
    <3>3. CASE i # m
      <4>1. BeingRegistered(i) => BeingRegistered(i)'
        BY <2>4, <1>1, <3>3 DEF RegisterCheckout, Done, BeingRegistered
      <4> QED BY <2>4, <3>1, <4>1, CoverStays DEF RegisterCheckout
    <3> QED BY <3>2, <3>3
  <2>5. ASSUME FreeRow(r, Unheld(m)), req[r].phase # "register"
        PROVE  Sound
    <3>1. row'[i].id = row[i].id /\ row'[i].change = row[i].change
      BY <1>1, <2>0, <2>5 DEF FreeRow, Unheld, Rows
    <3>2. BeingRegistered(i) => BeingRegistered(i)'
      BY <2>5, <1>3 DEF FreeRow, Done
    <3> QED BY <2>5, <3>1, <3>2, CoverStays DEF FreeRow
  <2>6. CASE cancelCheckout(r)
    <3>1. CASE FreeRow(r, Unheld(m))
      BY <2>5, <2>6, <3>1 DEF cancelCheckout
    <3>2. CASE FreeRow(r, [row EXCEPT ![m] = NoRow])
      <4>1. row'[i] = row[i] \/ row'[i] = NoRow
        BY <1>1, <2>0, <3>2 DEF FreeRow
      <4>2. BeingRegistered(i) => BeingRegistered(i)'
        BY <2>6, <3>2, <1>3 DEF cancelCheckout, FreeRow, Done
      <4> QED BY <3>2, <4>1, <4>2, <1>5, CoverStays DEF FreeRow
    <3> QED BY <2>6, <3>1, <3>2 DEF cancelCheckout
  <2>7. CASE checkin(r)
    BY <2>5, <2>7 DEF checkin
  <2> QED BY <1>10, <2>1, <2>2, <2>3, <2>4, <2>6, <2>7 DEF CheckoutStep
<1>11. ASSUME NEW r \in Requests, req[r].phase \notin {"idle", "register"},
              StartRevision(req[r].item), Done(r),
              \/ Lists(req[r].item)
              \/ \E change, finding : registerBranchChange(req[r].item, change, finding)
       PROVE  Sound
  <2> DEFINE m == req[r].item
  <2>0. m \in Items /\ row[m] \in Rows
    BY <1>2, <1>11
  <2>1. /\ scope'[m] # 0 \/ m \in stray'
        /\ scope[i] # 0 => scope'[i] # 0
        /\ i \in stray => i \in stray' \/ scope'[i] # 0
    BY <1>1, <1>11, <2>0, RegisterCovers
  <2>2. BeingRegistered(i) => BeingRegistered(i)'
    BY <1>3, <1>11 DEF Done
  <2>3. CASE i = m
    <3> DEFINE id == IF Tracked(m) THEN row[m].id ELSE ids + 1
    <3>1. row' = [row EXCEPT ![m].id = id, ![m].current = "copy", ![m].change = "modified"]
      BY <1>11 DEF StartRevision
    <3>2. id # 0
      BY <1>1 DEF Tracked
    <3> HIDE DEF id
    <3>3. row'[m].id = id
      BY <1>1, <2>0, <3>1 DEF Rows
    <3> QED BY <1>7, <2>1, <2>3, <3>2, <3>3
  <2>4. CASE i # m
    <3>1. row'[i] = row[i]
      BY <1>1, <1>11, <2>0, <2>4 DEF StartRevision
    <3> QED BY <1>11, <2>1, <2>2, <3>1, CoverStays
  <2> QED BY <2>3, <2>4
<1>12. ASSUME NEW r \in Requests, req[r].phase \notin {"idle", "register"},
              NEW marked, NEW published, NEW finding, MarkDeleted(r, marked, published, finding),
              marked[req[r].item].id # 0,
              i # req[r].item => marked[i] = row[i]
       PROVE  Sound
  <2> DEFINE m == req[r].item
  <2>1. /\ scope'[m] # 0 \/ m \in stray'
        /\ scope[i] # 0 => scope'[i] # 0
        /\ i \in stray => i \in stray' \/ scope'[i] # 0
    BY <1>1, <1>2, <1>12, RegisterCovers DEF MarkDeleted
  <2>2. BeingRegistered(i) => BeingRegistered(i)'
    BY <1>3, <1>12 DEF MarkDeleted, Done
  <2>3. CASE i = m
    BY <1>7, <1>12, <2>1, <2>3 DEF MarkDeleted
  <2>4. CASE i # m
    BY <1>12, <2>1, <2>2, <2>4, CoverStays DEF MarkDeleted
  <2> QED BY <2>3, <2>4
<1>13. ASSUME NEW r \in Requests, ContentStep(r)
       PROVE  Sound
  <2> DEFINE m == req[r].item
  <2>0. m \in Items /\ row[m] \in Rows
    BY <1>2, <1>13 DEF ContentStep, ensureRevisionWorkingCopy, SaveInPlace, SaveFirst,
       createOnBranch, DeleteAdded, DeleteTracked, DeleteUntracked, InsertDeleted, DeleteWinner
  <2>1. CASE \E finding \in Findings : ensureRevisionWorkingCopy(r, finding)
    BY <1>11, <2>1 DEF ensureRevisionWorkingCopy
  <2>2. CASE SaveInPlace(r) \/ DeleteUntracked(r)
    BY <2>2, <1>3, <1>4 DEF SaveInPlace, DeleteUntracked, Done, Moves, contentVars
  <2>3. CASE SaveFirst(r)
    <3>1. req[r].id # 0
      BY <2>3 DEF SaveFirst, LockInv, WriteSawRow, ByIdPhases
    <3>2. row'[i].id = row[i].id
          /\ (row'[i].change # "none" => row[i].change # "none" \/ row[i].id # 0)
      BY <1>1, <2>0, <2>3, <3>1 DEF SaveFirst, Rows
    <3>3. BeingRegistered(i) => BeingRegistered(i)'
      BY <2>3, <1>3 DEF SaveFirst, Done
    <3> QED BY <2>3, <3>2, <3>3, CoverStays DEF SaveFirst
  <2>4. CASE createOnBranch(r)
    <3>1. /\ scope'[m] # 0 \/ m \in stray'
          /\ scope[i] # 0 => scope'[i] # 0
          /\ i \in stray => i \in stray' \/ scope'[i] # 0
      BY <1>1, <2>0, <2>4, RegisterCovers DEF createOnBranch
    <3>2. CASE i = m
      <4>1. row'[i].id # 0
        BY <1>1, <2>0, <2>4, <3>2 DEF createOnBranch, NoRow
      <4> QED BY <1>7, <3>1, <3>2, <4>1
    <3>3. CASE i # m
      <4>1. BeingRegistered(i) => BeingRegistered(i)'
        BY <2>4, <1>3 DEF createOnBranch, Done
      <4>2. row'[i] = row[i]
        BY <1>1, <2>0, <2>4, <3>3 DEF createOnBranch
      <4> QED BY <2>4, <3>1, <4>1, <4>2, CoverStays DEF createOnBranch
    <3> QED BY <3>2, <3>3
  <2>5. CASE DeleteAdded(r)
    <3>1. CASE i = m
      BY <1>1, <1>5, <2>5, <3>1 DEF DeleteAdded
    <3>2. CASE i # m
      <4>1. BeingRegistered(i) => BeingRegistered(i)'
        BY <2>5, <1>3 DEF DeleteAdded, Done
      <4>2. row'[i] = row[i] /\ scope'[i] = scope[i]
        BY <1>1, <2>0, <2>5, <3>2 DEF DeleteAdded
      <4> QED BY <2>5, <4>1, <4>2, CoverStays DEF DeleteAdded
    <3> QED BY <3>1, <3>2
  <2>6. ASSUME row[m].id # 0
        PROVE  Deleted(m)[m].id # 0 /\ (i # m => Deleted(m)[i] = row[i])
    BY <1>1, <2>0, <2>6 DEF Deleted, Rows
  <2>7. CASE \E finding \in Findings : DeleteTracked(r, finding)
    BY <2>6, <2>7, <1>12 DEF DeleteTracked, Tracked
  <2>8. CASE \E finding \in Findings : DeleteWinner(r, finding)
    BY <2>6, <2>8, <1>12 DEF DeleteWinner, Tracked
  <2>9. CASE \E finding \in Findings : InsertDeleted(r, finding)
    <3> DEFINE marked == [row EXCEPT ![m] = [NoRow EXCEPT !.id = ids + 1, !.change = "deleted",
                                                          !.current = req[r].version]]
    <3>1. marked[m].id # 0 /\ (i # m => marked[i] = row[i])
      BY <1>1, <2>0 DEF NoRow
    <3>2. PICK finding \in Findings : MarkDeleted(r, marked, {}, finding)
      BY <2>9 DEF InsertDeleted
    <3>3. req[r].phase \notin {"idle", "register"}
      BY <2>9 DEF InsertDeleted
    <3> HIDE DEF marked
    <3> QED BY <3>1, <3>2, <3>3, <1>12
  <2> QED BY <1>13, <2>1, <2>2, <2>3, <2>4, <2>5, <2>7, <2>8, <2>9 DEF ContentStep
<1>14. ASSUME NEW r \in Requests, ScopeStep(r)
       PROVE  Sound
  <2> DEFINE m == req[r].item
  <2>0. m \in Items /\ row[m] \in Rows
    BY <1>2, <1>14 DEF ScopeStep, addAffectedItem, removeAffectedItem, RemoveUntracked,
       RemoveScopeRow
  <2>1. CASE addAffectedItem(r)
    <3>1. CASE StartRevision(m)
      BY <1>11, <2>1, <3>1 DEF addAffectedItem
    <3>2. CASE UNCHANGED row
      <4>1. /\ scope[i] # 0 => scope'[i] # 0
            /\ i \in stray => i \in stray' \/ scope'[i] # 0
        BY <1>1, <2>0, <2>1, RegisterCovers DEF addAffectedItem
      <4>2. BeingRegistered(i) => BeingRegistered(i)'
        BY <2>1, <1>3 DEF addAffectedItem, Done
      <4> QED BY <2>1, <3>2, <4>1, <4>2, CoverStays DEF addAffectedItem
    <3> QED BY <2>1, <3>1, <3>2 DEF addAffectedItem
  <2>2. CASE removeAffectedItem(r)
    <3>1. CASE i = m
      BY <1>1, <1>5, <2>2, <3>1 DEF removeAffectedItem
    <3>2. CASE i # m
      <4>1. BeingRegistered(i) => BeingRegistered(i)'
        BY <2>2, <1>3 DEF removeAffectedItem, Unlist, Done
      <4>2. row'[i] = row[i] /\ scope'[i] = scope[i]
        BY <1>1, <2>0, <2>2, <3>2 DEF removeAffectedItem, Unlist
      <4> QED BY <2>2, <4>1, <4>2, CoverStays DEF removeAffectedItem
    <3> QED BY <3>1, <3>2
  <2>3. CASE RemoveUntracked(r)
    BY <2>3, <1>3, <1>4 DEF RemoveUntracked, Moves, contentVars
  <2>4. CASE RemoveScopeRow(r)
    <3>1. BeingRegistered(i) => BeingRegistered(i)'
      BY <2>4, <1>3 DEF RemoveScopeRow, Unlist, Done
    <3>2. UNCHANGED row /\ (i \in stray => i \in stray')
      BY <2>4 DEF RemoveScopeRow
    <3>3. CASE scope'[i] = scope[i]
      BY <3>1, <3>2, <3>3, CoverStays
    <3>4. CASE scope'[i] # scope[i]
      <4>1. i = m /\ scope[m] = req[r].id
        BY <1>1, <2>0, <2>4, <3>4 DEF RemoveScopeRow, Unlist
      <4>2. Tracked(i) => i \in stray'
        BY <2>4, <4>1 DEF RemoveScopeRow
      <4> QED BY <3>2, <4>2 DEF TrackedIsCovered, Tracked, Covered
    <3> QED BY <3>3, <3>4
  <2> QED BY <1>14, <2>1, <2>2, <2>3, <2>4 DEF ScopeStep
<1>15. CASE Transition \/ ToggleLock
  BY <1>4, <1>15 DEF Transition, ToggleLock, contentVars, BeingRegistered
<1>16. CASE cancel
  <2>1. row'[i].id = row[i].id /\ row'[i].change = row[i].change
    BY <1>1, <1>16 DEF cancel, Rows
  <2> QED BY <1>16, <2>1, CoverStays DEF cancel, BeingRegistered
<1> QED BY <1>8, <1>9, <1>10, <1>13, <1>14, <1>15, <1>16 DEF Next

(* What the branch changes is listed, but for the three ways in which the code
   leaves an item unlisted: a checkout that has not registered yet, or never
   will; a removal that raced an insert; a registration that passed it over. *)
THEOREM ChangesAreListed == Spec => []ContentIsListed
<1>1. Init => TrackedIsCovered
  BY DEF Init, TrackedIsCovered, Tracked, NoRow
<1>2. LockInv /\ TrackedIsCovered /\ [Next]_vars => TrackedIsCovered'
  <2>1. UNCHANGED vars /\ TrackedIsCovered => TrackedIsCovered'
    BY DEF TrackedIsCovered, Tracked, Covered, BeingRegistered, vars, contentVars
  <2> QED BY <2>1, CoverStep
<1>3. TrackedIsCovered => ContentIsListed
  BY DEF TrackedIsCovered, Covered, ContentIsListed
<1> QED BY <1>1, <1>2, <1>3, LockInvariant, PTL DEF Spec

-----------------------------------------------------------------------------
(* The archived branch *)

(* Whatever a request read before, its commit is refused once the branch is
   archived. *)
THEOREM ArchiveIsFinal == Spec => ArchivedTakesNoCommit
<1>1. [Next]_vars => (branch.archived => commits' = commits)
  <2> SUFFICES ASSUME [Next]_vars, branch.archived
               PROVE  commits' = commits
    OBVIOUS
  <2>1. ~AcceptsCommit
    BY DEF AcceptsCommit
  <2>2. CASE UNCHANGED vars
    BY <2>2 DEF vars, contentVars
  <2>3. ASSUME NEW r \in Requests, Arrive(r) \/ Drop(r)
        PROVE  commits' = commits
    BY <2>3, ArriveOnlyReads DEF Drop, contentVars
  <2>4. ASSUME NEW r \in Requests, CheckoutStep(r)
        PROVE  commits' = commits
    BY <2>4 DEF CheckoutStep, ReadClaim, Claim, LoseClaim, InsertCheckout, LoseInsert,
       RegisterCheckout, cancelCheckout, checkin, FreeRow, Moves, contentVars
  <2>5. ASSUME NEW r \in Requests, ContentStep(r)
        PROVE  commits' = commits
    BY <2>5, <2>1 DEF ContentStep, ensureRevisionWorkingCopy, StartRevision, SaveInPlace,
       SaveFirst, createOnBranch, DeleteAdded, DeleteTracked, DeleteUntracked, InsertDeleted,
       DeleteWinner, MarkDeleted, Moves, contentVars
  <2>6. ASSUME NEW r \in Requests, ScopeStep(r)
        PROVE  commits' = commits
    BY <2>6, <2>1 DEF ScopeStep, addAffectedItem, StartRevision, removeAffectedItem,
       RemoveUntracked, RemoveScopeRow, Unlist, Moves, contentVars
  <2>7. CASE Transition \/ ToggleLock \/ cancel
    BY <2>7 DEF Transition, ToggleLock, cancel, contentVars
  <2> QED BY <2>2, <2>3, <2>4, <2>5, <2>6, <2>7 DEF Next
<1> QED BY <1>1, PTL DEF Spec, ArchivedTakesNoCommit
=============================================================================
