---------------------------- MODULE BranchItems ----------------------------
(***************************************************************************)
(* The items of one change-order branch: who has an item checked out, what *)
(* the branch has changed about it, and whether the change order lists it. *)
(*                                                                         *)
(* Every request first reads on the connection pool and checks what it     *)
(* read, and then runs one or more transactions.  A request is a record    *)
(* req[r]: its phase names what it does next, the rest is what it          *)
(* remembers of its reads.  Each transaction locks the one row it decides  *)
(* by, or commits under the lock of the branch row, and is one step here;  *)
(* one that finds no row to lock takes two.                                *)
(***************************************************************************)
EXTENDS Naturals, FiniteSets

CONSTANTS
  Users, Nobody,
  Items,      \* masters
  Existing,   \* those with a version on main
  Released,   \* those of them whose state implies a revision
  Requests,   \* the requests that can be in flight at once
  Kinds,      \* bound: the kinds of requests the clients make
  MaxRequests \* bound: the requests made in all

ASSUME NobodyAssumption == Nobody \notin Users
ASSUME ItemsAssumption == Released \subseteq Existing /\ Existing \subseteq Items
ASSUME RequestsAssumption == MaxRequests \in Nat

VARIABLES
  row,        \* row[m]: the branch_items row of m
  copy,       \* copy[m]: the items row of m under the branch's working revision
  scope,      \* scope[m]: id of the affected-items row of m, 0 for none
  branch,     \* the flags of the branch row
  order,      \* the flags of the change order's workflow instance
  commits,    \* commits on the branch
  shared,     \* items whose version on main was edited in place
  facts,      \* the checkout facts the last step published
  req,        \* the requests in flight
  ids,        \* row ids handed out
  left,       \* requests still to be made
  stray       \* history: items that a request left unlisted, until one lists them

contentVars == <<row, copy, scope, commits, shared, ids>>
vars == <<contentVars, branch, order, facts, req, left, stray>>

RequestKinds == {"checkout", "ensure", "save", "cancel", "checkin", "create",
                 "delete", "addRevise", "addOther", "remove"}

Rows == [id: Nat, holder: Users \union {Nobody},
         change: {"none", "added", "modified", "deleted"},
         current: {"base", "copy"}]

Phases == {"claim", "cas", "insert", "register", "mint", "saveInPlace",
           "saveFirst", "cancel", "checkin", "create", "delete",
           "deleteInsert", "addRevise", "addOther", "remove", "removeScope"}

(* id: of the row read.  version: the version of the item resolved.  tries:
   the passes of claimExistingCheckout.  discard: discardBranchChanges. *)
ReqRecords == [phase: Phases, user: Users, item: Items, id: Nat,
               change: {"none", "added", "modified", "deleted"},
               version: {"base", "copy", "none"}, tries: 0 .. 2, discard: BOOLEAN]

NoRow == [id |-> 0, holder |-> Nobody, change |-> "none", current |-> "base"]
IdleReq == [phase |-> "idle"]

Tracked(m) == row[m].id # 0

Init == /\ row = [m \in Items |-> NoRow]
        /\ copy = [m \in Items |-> "none"]
        /\ scope = [m \in Items |-> 0]
        /\ branch = [archived |-> FALSE, locked |-> FALSE]
        /\ order = [scopeLocked |-> FALSE, completed |-> FALSE]
        /\ commits = 0
        /\ shared = {}
        /\ facts = {}
        /\ req = [r \in Requests |-> IdleReq]
        /\ ids = 0
        /\ left = MaxRequests
        /\ stray = {}

-----------------------------------------------------------------------------
(* assertScopeOpen, assertBranchAcceptsNewItems *)
ScopeOpen == ~order.scopeLocked /\ ~order.completed

(* Mutant: the commit asks about the administrator's lock only. *)
MutantArchiveNotAsked == ~branch.locked

(* CommitService.create, which every content write calls in its transaction:
   it reads the branch row under its lock, and its refusal rolls all back. *)
AcceptsCommit == ~branch.archived /\ ~branch.locked

(* What a request asks before it reads anything else. *)
Writable == ~branch.archived /\ ~branch.locked

Taken(m, u) == [kind |-> "taken", item |-> m, user |-> u]
Freed(m, u) == [kind |-> "freed", item |-> m, user |-> u]

(* Mutant: the release of a lock nobody holds. *)
MutantFreedUnheld(m) == {Freed(m, row[m].holder)}

(* The release of a row's lock, if it is held, in its holder's name. *)
FreedHolder(m) == IF row[m].holder = Nobody THEN {} ELSE {Freed(m, row[m].holder)}

(* The scope row of m, which a listed item keeps. *)
Listed(m) == IF scope[m] = 0 THEN [scope EXCEPT ![m] = ids + 1] ELSE scope
Lists(m) == scope' = Listed(m) /\ stray' = stray \ {m}

(* registerBranchChange looks for a version of the item and, but for an
   addition or a deletion, for an action its state implies.  It returns in
   silence where there is none.  What becomes of a version on main is not
   decided here, so any of the three may be found; a working copy is there. *)
Findings == {"missing", "inert", "implied"}
FindingsOf(version) == IF version = "copy" THEN Findings \ {"missing"} ELSE Findings

registerBranchChange(m, change, finding) ==
  IF \/ scope[m] # 0
     \/ finding = "implied"
     \/ finding = "inert" /\ change \in {"added", "deleted"}
  THEN Lists(m)
  ELSE UNCHANGED scope /\ stray' = stray \union {m}

Done(r) == req' = [req EXCEPT ![r] = IdleReq]

(* A request arrives: its reads, and what it remembers of them. *)
Begin(r, kind, state) == /\ kind \in Kinds
                         /\ left > 0
                         /\ req[r].phase = "idle"
                         /\ left' = left - 1
                         /\ req' = [req EXCEPT ![r] = state]
                         /\ facts' = {}
                         /\ UNCHANGED <<contentVars, stray, branch, order>>

Asks(phase, u, m) == [phase |-> phase, user |-> u, item |-> m, id |-> 0,
                      change |-> "none", version |-> "none", tries |-> 0,
                      discard |-> FALSE]

(* A step of a request in flight that writes no content. *)
Moves(r, state) == /\ req' = [req EXCEPT ![r] = state]
                   /\ facts' = {}
                   /\ UNCHANGED <<contentVars, stray, branch, order, left>>

(* The request ends here without effect: it is refused or has nothing to do,
   an error rolls its transaction back, or its process dies.  A checkout that
   ends between its commit and its registration leaves the item unlisted. *)
Drop(r) == /\ req[r].phase # "idle"
           /\ stray' = IF req[r].phase = "register" THEN stray \union {req[r].item} ELSE stray
           /\ facts' = {}
           /\ Done(r)
           /\ UNCHANGED <<contentVars, branch, order, left>>

-----------------------------------------------------------------------------
(* checkout *)

BeginCheckout(r, u, m) ==
  /\ Writable
  /\ ~Tracked(m) => ScopeOpen /\ m \in Existing
  /\ Begin(r, "checkout", Asks(IF Tracked(m) THEN "claim" ELSE "insert", u, m))

(* claimExistingCheckout reads the row; it goes on only if nobody holds it. *)
ReadClaim(r) == LET m == req[r].item IN
  /\ req[r].phase = "claim"
  /\ req[r].tries < 2
  /\ Tracked(m) /\ row[m].holder = Nobody
  /\ Moves(r, [req[r] EXCEPT !.phase = "cas", !.id = row[m].id, !.tries = @ + 1])

(* Mutant: the UPDATE does not ask that checked_out_by is null. *)
MutantUnguardedClaim(r) ==
  LET m == req[r].item
      u == req[r].user
  IN /\ req[r].phase = "cas"
     /\ row[m].id = req[r].id
     /\ row' = [row EXCEPT ![m].holder = u]
     /\ facts' = {Taken(m, u)}
     /\ Done(r)
     /\ UNCHANGED <<copy, scope, commits, shared, ids, branch, order, stray, left>>

(* The UPDATE of that row where checked_out_by is null. *)
Claim(r) == LET m == req[r].item
                u == req[r].user
            IN /\ req[r].phase = "cas"
               /\ row[m].id = req[r].id /\ row[m].holder = Nobody
               /\ row' = [row EXCEPT ![m].holder = u]
               /\ facts' = {Taken(m, u)}
               /\ Done(r)
               /\ UNCHANGED <<copy, scope, commits, shared, ids, branch, order, stray, left>>

LoseClaim(r) == LET m == req[r].item IN
  /\ req[r].phase = "cas"
  /\ row[m].id # req[r].id \/ row[m].holder # Nobody
  /\ Moves(r, [req[r] EXCEPT !.phase = "claim"])

(* The insert, or nothing on conflict. *)
InsertCheckout(r) == LET m == req[r].item
                         u == req[r].user
  IN /\ req[r].phase = "insert"
     /\ ~Tracked(m)
     /\ row' = [row EXCEPT ![m] = [NoRow EXCEPT !.id = ids + 1, !.holder = u]]
     /\ ids' = ids + 1
     /\ facts' = {Taken(m, u)}
     /\ req' = [req EXCEPT ![r].phase = "register"]
     /\ UNCHANGED <<copy, scope, commits, shared, branch, order, stray, left>>

LoseInsert(r) == /\ req[r].phase = "insert"
                 /\ Tracked(req[r].item)
                 /\ Moves(r, [req[r] EXCEPT !.phase = "claim"])

(* Registered on the pool, after the insert has committed. *)
RegisterCheckout(r, finding) ==
  LET m == req[r].item IN
  /\ req[r].phase = "register"
  /\ registerBranchChange(m, row[m].change, finding)
  /\ ids' = ids + 1
  /\ facts' = {}
  /\ Done(r)
  /\ UNCHANGED <<row, copy, commits, shared, branch, order, left>>

-----------------------------------------------------------------------------
(* Working copies *)

(* Mutant: the upsert of an existing row does not repoint it. *)
MutantRowNotRepointed(m) ==
  /\ copy[m] = "none"
  /\ AcceptsCommit
  /\ copy' = [copy EXCEPT ![m] = "live"]
  /\ row' = [row EXCEPT ![m].id = IF Tracked(m) THEN @ ELSE ids + 1,
                        ![m].current = IF Tracked(m) THEN @ ELSE "copy",
                        ![m].change = "modified"]
  /\ commits' = commits + 1
  /\ ids' = ids + 1
  /\ UNCHANGED shared

(* createRevisionWorkingCopy, which lists nothing: the insert of the copy
   fails where the working revision of the item is taken, and the upsert of
   the branch row keeps its lock. *)
StartRevision(m) ==
  /\ copy[m] = "none"
  /\ AcceptsCommit
  /\ copy' = [copy EXCEPT ![m] = "live"]
  /\ row' = [row EXCEPT ![m].id = IF Tracked(m) THEN @ ELSE ids + 1,
                        ![m].current = "copy", ![m].change = "modified"]
  /\ commits' = commits + 1
  /\ ids' = ids + 1
  /\ UNCHANGED shared

BeginEnsure(r, u, m) ==
  /\ ~branch.archived
  /\ m \in Released
  /\ row[m].change = "none"
  /\ Tracked(m) \/ ScopeOpen
  /\ Begin(r, "ensure", Asks("mint", u, m))

ensureRevisionWorkingCopy(r, finding) ==
  /\ req[r].phase = "mint"
  /\ StartRevision(req[r].item)
  /\ registerBranchChange(req[r].item, "modified", finding)
  /\ facts' = {}
  /\ Done(r)
  /\ UNCHANGED <<branch, order, left>>

(* saveChanges: the row read on the pool decides which arm saves what. *)
BeginSave(r, u, m) ==
  /\ Writable
  /\ Tracked(m) /\ row[m].holder = u
  /\ Begin(r, "save", [Asks(IF row[m].change = "none" THEN "saveFirst" ELSE "saveInPlace", u, m)
                         EXCEPT !.id = row[m].id, !.version = row[m].current])

(* A row with a change type is taken to have a working copy. *)
SaveInPlace(r) ==
  /\ req[r].phase = "saveInPlace"
  /\ AcceptsCommit
  /\ shared' = IF req[r].version = "base" THEN shared \union {req[r].item} ELSE shared
  /\ commits' = commits + 1
  /\ facts' = {}
  /\ Done(r)
  /\ UNCHANGED <<row, copy, scope, ids, branch, order, stray, left>>

(* The first save inserts the copy, and updates the row by its id: a row
   that has gone since is not missed. *)
SaveFirst(r) == LET m == req[r].item IN
  /\ req[r].phase = "saveFirst"
  /\ copy[m] = "none"
  /\ AcceptsCommit
  /\ copy' = [copy EXCEPT ![m] = "live"]
  /\ row' = IF row[m].id = req[r].id
            THEN [row EXCEPT ![m].current = "copy", ![m].change = "modified"]
            ELSE row
  /\ commits' = commits + 1
  /\ facts' = {}
  /\ Done(r)
  /\ UNCHANGED <<scope, shared, ids, branch, order, stray, left>>

(* createOnBranch: a new master, drafted on the branch and listed with it. *)
BeginCreate(r, u, m) == /\ m \notin Existing
                        /\ Writable /\ ScopeOpen
                        /\ Begin(r, "create", Asks("create", u, m))

createOnBranch(r) == LET m == req[r].item IN
  /\ req[r].phase = "create"
  /\ copy[m] = "none"
  /\ AcceptsCommit
  /\ copy' = [copy EXCEPT ![m] = "live"]
  /\ row' = [row EXCEPT ![m] = [NoRow EXCEPT !.id = ids + 1, !.change = "added",
                                             !.current = "copy"]]
  /\ Lists(m)
  /\ commits' = commits + 1
  /\ ids' = ids + 1
  /\ facts' = {}
  /\ Done(r)
  /\ UNCHANGED <<shared, branch, order, left>>

-----------------------------------------------------------------------------
(* Ending a checkout: cancelCheckout and checkin, allowed on an archived
   branch.  Both update by the id of the row they read, and publish. *)

BeginFree(r, kind, u, m) ==
  /\ kind \in {"cancel", "checkin"}
  /\ Tracked(m) /\ row[m].holder = u
  /\ Begin(r, kind, [Asks(kind, u, m) EXCEPT !.id = row[m].id, !.change = row[m].change])

Unheld(m) == [row EXCEPT ![m].holder = Nobody]

FreeRow(r, freed) == LET m == req[r].item IN
  /\ row' = IF row[m].id = req[r].id THEN freed ELSE row
  /\ facts' = {Freed(m, req[r].user)}
  /\ Done(r)
  /\ UNCHANGED <<copy, scope, commits, shared, ids, branch, order, stray, left>>

cancelCheckout(r) ==
  /\ req[r].phase = "cancel"
  /\ FreeRow(r, IF req[r].change = "none" THEN [row EXCEPT ![req[r].item] = NoRow]
                ELSE Unheld(req[r].item))

checkin(r) == /\ req[r].phase = "checkin"
              /\ FreeRow(r, Unheld(req[r].item))

-----------------------------------------------------------------------------
(* deleteOnBranch *)

(* getWorkingVersion, and nothing for an item the branch added. *)
WorkingVersion(m) == IF row[m].change \in {"added", "deleted"} THEN "none"
                     ELSE IF Tracked(m) THEN row[m].current
                     ELSE IF m \in Existing THEN "base" ELSE "none"

BeginDelete(r, u, m) ==
  /\ Writable
  /\ Tracked(m) \/ ScopeOpen
  /\ Begin(r, "delete", [Asks("delete", u, m) EXCEPT !.version = WorkingVersion(m)])

(* The row FOR UPDATE, and everything under it. *)
DeleteAdded(r) == LET m == req[r].item IN
  /\ req[r].phase = "delete"
  /\ Tracked(m) /\ row[m].change = "added"
  /\ row[m].holder \in {Nobody, req[r].user}
  /\ AcceptsCommit
  /\ row' = [row EXCEPT ![m] = NoRow]
  /\ copy' = [copy EXCEPT ![m] = "deleted"]
  /\ scope' = [scope EXCEPT ![m] = 0]
  /\ commits' = commits + 1
  /\ facts' = {}
  /\ Done(r)
  /\ UNCHANGED <<shared, ids, branch, order, stray, left>>

(* Mutant: the deletion is not registered with the change order. *)
MutantDeletionNotListed(r, marked, published, finding) ==
  /\ req[r].version # "none"
  /\ AcceptsCommit
  /\ row' = marked
  /\ commits' = commits + 1
  /\ facts' = published
  /\ Done(r)
  /\ UNCHANGED <<scope, ids, copy, shared, branch, order, stray, left>>

(* The row says deleted, the change order is told, and the branch commits. *)
MarkDeleted(r, marked, published, finding) ==
  /\ req[r].version # "none"
  /\ AcceptsCommit
  /\ row' = marked
  /\ finding \in FindingsOf(req[r].version)
  /\ registerBranchChange(req[r].item, "deleted", finding)
  /\ ids' = ids + 1
  /\ commits' = commits + 1
  /\ facts' = published
  /\ Done(r)
  /\ UNCHANGED <<copy, shared, branch, order, left>>

Deleted(m) == [row EXCEPT ![m].change = "deleted", ![m].holder = Nobody]

DeleteTracked(r, finding) == LET m == req[r].item IN
  /\ req[r].phase = "delete"
  /\ Tracked(m) /\ row[m].change # "added"
  /\ row[m].holder \in {Nobody, req[r].user}
  /\ MarkDeleted(r, Deleted(m), FreedHolder(m), finding)

(* FOR UPDATE finds no row, and locks nothing. *)
DeleteUntracked(r) == /\ req[r].phase = "delete"
                      /\ ~Tracked(req[r].item)
                      /\ req[r].version # "none"
                      /\ Moves(r, [req[r] EXCEPT !.phase = "deleteInsert"])

InsertDeleted(r, finding) == LET m == req[r].item IN
  /\ req[r].phase = "deleteInsert"
  /\ ~Tracked(m)
  /\ MarkDeleted(r, [row EXCEPT ![m] = [NoRow EXCEPT !.id = ids + 1, !.change = "deleted",
                                                     !.current = req[r].version]],
                 {}, finding)

(* The insert lost to another's: that row is marked, and its lock cleared. *)
DeleteWinner(r, finding) == LET m == req[r].item IN
  /\ req[r].phase = "deleteInsert"
  /\ Tracked(m)
  /\ row[m].holder \in {Nobody, req[r].user}
  /\ MarkDeleted(r, Deleted(m), {}, finding)

-----------------------------------------------------------------------------
(* The change order: its affected items, its workflow, its end *)

BeginAdd(r, u, m, action) ==
  /\ action \in {"addRevise", "addOther"}
  /\ ScopeOpen
  /\ m \in IF action = "addRevise" THEN Released ELSE Existing
  /\ Begin(r, action, Asks(action, u, m))

(* addAffectedItem: a revision needs a working copy, any other action only
   the scope row, which is this transaction's own.  A listed item is refused. *)
addAffectedItem(r) == LET m == req[r].item IN
  /\ req[r].phase \in {"addRevise", "addOther"}
  /\ scope[m] = 0
  /\ IF req[r].phase = "addRevise" /\ row[m].change # "modified"
     THEN StartRevision(m)
     ELSE ids' = ids + 1 /\ UNCHANGED <<row, copy, commits, shared>>
  /\ Lists(m)
  /\ facts' = {}
  /\ Done(r)
  /\ UNCHANGED <<branch, order, left>>

BeginRemove(r, u, m, discard) ==
  /\ ScopeOpen
  /\ scope[m] # 0
  /\ Begin(r, "remove", [Asks("remove", u, m) EXCEPT !.id = scope[m], !.discard = discard])

(* The DELETE of the scope row by its id, at the end of the transaction. *)
Unlist(r) == LET m == req[r].item IN
  /\ scope' = IF scope[m] = req[r].id THEN [scope EXCEPT ![m] = 0] ELSE scope
  /\ Done(r)
  /\ UNCHANGED <<copy, commits, shared, ids, branch, order, left>>

removeAffectedItem(r) == LET m == req[r].item IN
  /\ req[r].phase = "remove"
  /\ Tracked(m)
  /\ row[m].change = "none" \/ req[r].discard
  /\ row' = [row EXCEPT ![m] = NoRow]
  /\ facts' = FreedHolder(m)
  /\ Unlist(r)
  /\ UNCHANGED stray

(* The transaction finds no row of the item to lock. *)
RemoveUntracked(r) == /\ req[r].phase = "remove"
                      /\ ~Tracked(req[r].item)
                      /\ Moves(r, [req[r] EXCEPT !.phase = "removeScope"])

(* It takes the listing away from whoever has put a row there since. *)
RemoveScopeRow(r) == LET m == req[r].item IN
  /\ req[r].phase = "removeScope"
  /\ facts' = {}
  /\ Unlist(r)
  /\ stray' = IF Tracked(m) /\ scope[m] = req[r].id THEN stray \union {m} ELSE stray
  /\ UNCHANGED row

(* A transition out of the initial state locks the scope, rework back to it
   reopens it, and a final state completes the workflow; a cancellation has
   archived the branch by then. *)
Transition == /\ ~order.completed
              /\ \/ order' = [order EXCEPT !.scopeLocked = ~@]
                 \/ branch.archived /\ order' = [order EXCEPT !.completed = TRUE]
              /\ facts' = {}
              /\ UNCHANGED <<contentVars, stray, branch, req, left>>

(* lockBranch and unlockBranch. *)
ToggleLock == /\ branch' = [branch EXCEPT !.locked = ~@]
              /\ facts' = {}
              /\ UNCHANGED <<contentVars, stray, order, req, left>>

(* cancel, also when it is tried again: every lock is released, and the
   branch archived, in one transaction. *)
cancel == /\ ~order.completed
          /\ row' = [m \in Items |-> [row[m] EXCEPT !.holder = Nobody]]
          /\ facts' = UNION {FreedHolder(m) : m \in Items}
          /\ branch' = [branch EXCEPT !.archived = TRUE]
          /\ UNCHANGED <<copy, scope, commits, shared, ids, order, req, stray, left>>

-----------------------------------------------------------------------------
Arrive(r) == \E u \in Users, m \in Items :
  \/ BeginCheckout(r, u, m) \/ BeginEnsure(r, u, m) \/ BeginSave(r, u, m)
  \/ BeginCreate(r, u, m) \/ BeginDelete(r, u, m)
  \/ \E kind \in {"cancel", "checkin"} : BeginFree(r, kind, u, m)
  \/ \E action \in {"addRevise", "addOther"} : BeginAdd(r, u, m, action)
  \/ \E discard \in BOOLEAN : BeginRemove(r, u, m, discard)

CheckoutStep(r) == \/ ReadClaim(r) \/ Claim(r) \/ LoseClaim(r)
                   \/ InsertCheckout(r) \/ LoseInsert(r)
                   \/ \E finding \in Findings : RegisterCheckout(r, finding)
                   \/ cancelCheckout(r) \/ checkin(r)

ContentStep(r) == \/ SaveInPlace(r) \/ SaveFirst(r) \/ createOnBranch(r)
                  \/ DeleteAdded(r) \/ DeleteUntracked(r)
                  \/ \E finding \in Findings :
                       \/ ensureRevisionWorkingCopy(r, finding) \/ DeleteTracked(r, finding)
                       \/ InsertDeleted(r, finding) \/ DeleteWinner(r, finding)

ScopeStep(r) == \/ addAffectedItem(r) \/ removeAffectedItem(r)
                \/ RemoveUntracked(r) \/ RemoveScopeRow(r)

Next == \/ \E r \in Requests : \/ Arrive(r) \/ Drop(r)
                               \/ CheckoutStep(r) \/ ContentStep(r) \/ ScopeStep(r)
        \/ Transition \/ ToggleLock \/ cancel

Spec == Init /\ [][Next]_vars

-----------------------------------------------------------------------------
(* Properties *)

BranchTypeOK ==
  /\ row \in [Items -> Rows]
  /\ copy \in [Items -> {"none", "live", "deleted"}]
  /\ scope \in [Items -> Nat]
  /\ branch \in [archived: BOOLEAN, locked: BOOLEAN]
  /\ order \in [scopeLocked: BOOLEAN, completed: BOOLEAN]
  /\ commits \in Nat
  /\ shared \subseteq Items
  /\ facts \subseteq [kind: {"taken", "freed"}, item: Items, user: Users]
  /\ req \in [Requests -> {IdleReq} \union ReqRecords]
  /\ ids \in Nat
  /\ left \in Nat
  /\ stray \subseteq Items

(* A checkout is an exclusive lock, though every request decides by a row it
   read earlier: a claim that lost its race never takes the lock from whoever
   won it, and no write hands a lock from one user to another. *)
Holders == [m \in Items |-> row[m].holder]
Lock == INSTANCE ItemLocks WITH holder <- Holders
CheckoutIsExclusive == Lock!Spec

(* What the branch adds or modifies is a working copy of its own, and the
   copy exists: no interleaving of saves, revisions, deletions and removals
   leaves the merge to release a version that main already shows. *)
MergedContentIsACopy ==
  \A m \in Items : row[m].change \in {"added", "modified"}
                     => row[m].current = "copy" /\ copy[m] = "live"

(* The writers ask about the archive before their transaction, and one may
   come between: no commit lands on an archived branch all the same. *)
ArchivedTakesNoCommit == [][branch.archived => commits' = commits]_vars

(* What the branch changes, the change order lists, whatever else is under
   way: the release refuses branch content that is not listed, and leaves the
   user no way to list it.  The code breaks this in three ways, and here is
   shown that it does in no other.  A checkout has committed and not registered
   yet, or died before it did.  A removal found no row of the item and takes
   the listing from the one inserted since.  And a registration finds no
   version of the item, or no action its state implies, and passes it over: a
   save of such a checkout leaves content the release will refuse. *)
BeingRegistered(m) == \E r \in Requests : req[r].phase = "register" /\ req[r].item = m

ContentIsListed ==
  \A m \in Items : row[m].change # "none" =>
     scope[m] # 0 \/ m \in stray \/ BeingRegistered(m)
=============================================================================
