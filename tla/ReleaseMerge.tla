---------------------------- MODULE ReleaseMerge ----------------------------
(***************************************************************************)
(* Change orders releasing onto main: each design's branch is merged in a  *)
(* serializable transaction of its own, and then the listed items that no  *)
(* branch changed are revised.  Engineers go on saving on the branches, and*)
(* the executions of several change orders interleave on the same items.   *)
(*                                                                         *)
(* A thread is one execution of ChangeOrderMergeService.merge.  It reads on*)
(* the connection pool before every transaction; a transaction is one step,*)
(* since a serialization failure makes it start again on a fresh snapshot. *)
(* A revision is the index of its row in the lineage of its item.          *)
(***************************************************************************)
EXTENDS Naturals, Sequences, FiniteSets

CONSTANTS
  Orders, Nobody,
  Designs, Items, DesignOf,
  Existing,  \* items released on main when the model starts
  Contents,  \* what an item can say
  Retires,   \* whether the lifecycle names a state for superseded revisions
  Threads,
  MaxEdits,  \* bound: edits on the branches
  MaxFaults  \* bound: executions that die or outlive their claim

ASSUME OrdersAssumption == Nobody \notin Orders
ASSUME ItemsAssumption == DesignOf \in [Items -> Designs] /\ Existing \subseteq Items
ASSUME RetiresAssumption == Retires \in BOOLEAN
ASSUME BoundsAssumption == MaxEdits \in Nat /\ MaxFaults \in Nat

VARIABLES
  lineage,  \* lineage[i]: the released rows of i, in the order of revisions
  tracked,  \* tracked[i]: the revision main's branch_items names, 0 for none
  work,     \* work[o][i]: the branch_items row of i on the branch of o
  listed,   \* listed[o]: the affected items
  order,    \* order[o]: how far o has come
  thread,   \* thread[t]: the execution t runs
  overran,  \* history: orders an execution of which outlived its claim
  edits, faults  \* edits and faults still to come

mergeVars == <<lineage, tracked, work, listed, order, thread, overran, edits, faults>>

Changes == {"added", "modified", "deleted"}

(* by and on are histories: the order that released the row, and what its
   branch took the item to say. *)
Rows == [content: Contents, current: BOOLEAN, deleted: BOOLEAN,
         by: Orders \union {Nobody}, on: Contents]

(* formal: the revision the working copy was given when it was released.
   "dropped": the item was added on the branch and deleted there again, its row
   with it.  deleted: what isDeleted says of the working copy. *)
Work == [change: Changes \union {"untracked", "none", "dropped"}, base: Nat,
         content: Contents, formal: Nat, deleted: BOOLEAN]

(* todo: branches still to merge, of those not merged at the start.  merged:
   some branch is merged, earlier or by this execution.  remaining: listed
   items the last transaction is to revise. *)
Doings == [phase: {"idle", "branches", "read", "merge", "remaining"},
           order: Orders \union {Nobody}, todo: SUBSET Designs, merged: BOOLEAN,
           design: SUBSET Designs, read: [Items -> Changes \union {"none"}],
           remaining: SUBSET Items]

Idle == [phase |-> "idle", order |-> Nobody, todo |-> {}, merged |-> FALSE,
         design |-> {}, read |-> [i \in Items |-> "none"], remaining |-> {}]

MergeInit ==
  \E c \in Contents :
    /\ lineage = [i \in Items |->
                    IF i \in Existing
                    THEN <<[content |-> c, current |-> TRUE, deleted |-> FALSE,
                            by |-> Nobody, on |-> c]>>
                    ELSE <<>>]
    /\ tracked = [i \in Items |-> IF i \in Existing THEN 1 ELSE 0]
    /\ work = [o \in Orders |-> [i \in Items |->
                 [change |-> "untracked", base |-> 0, content |-> c, formal |-> 0,
                  deleted |-> FALSE]]]
    /\ listed = [o \in Orders |-> {}]
    /\ order = [o \in Orders |-> [scopeLocked |-> FALSE, implemented |-> FALSE,
                                  merged |-> {}, archived |-> {}]]
    /\ thread = [t \in Threads |-> Idle]
    /\ overran = {} /\ edits = MaxEdits /\ faults = MaxFaults

-----------------------------------------------------------------------------
Changed(o, d) == {i \in Items : DesignOf[i] = d /\ work[o][i].change \in Changes}

(* The row in service: isCurrent, deleted or not. *)
InService(i) == {r \in DOMAIN lineage[i] : lineage[i][r].current}

(* What version resolution and findById still return. *)
Live(i) == {r \in DOMAIN lineage[i] : ~lineage[i][r].deleted}

(* change_order_designs keeps the design of an item no longer listed. *)
DesignsOf(o) ==
  {DesignOf[i] : i \in {k \in Items : k \in listed[o] \/ work[o][k].change # "untracked"}}

Content(i, r) == lineage[i][r].content

(* Rows differ in what they say, or in the state a release moved one to. *)
Differ(i, r, s) == Retires \/ Content(i, r) # Content(i, s)

(* detectConcurrentModifications: main holds another row than the branch's
   base, and the two differ.  The revision alone is no conflict; an item main
   no longer holds is none either. *)
Conflicts(o, S) == {i \in S : /\ work[o][i].base # 0
                              /\ tracked[i] \notin {0, work[o][i].base}
                              /\ Differ(i, tracked[i], work[o][i].base)}

(* resolveModifiedRevision, and the initial revision of a new item.  A copy
   that carries a formal revision was released before. *)
NextRevision(o, i, change) ==
  CASE change = "added" -> 1
    [] change = "modified" /\ work[o][i].formal # 0 -> work[o][i].formal + 1
    [] change = "modified" /\ work[o][i].formal = 0 /\ tracked[i] # 0 -> tracked[i] + 1
    [] OTHER -> 2

(* Mutant: only the branch's base row goes out of service. *)
MutantSupersedeBase(o, i) ==
  [r \in DOMAIN lineage[i] |->
     [lineage[i][r] EXCEPT !.current = @ /\ r # work[o][i].base]]

(* supersedePriorVersions: whatever is in service, not only o's base. *)
Superseded(o, i) ==
  [r \in DOMAIN lineage[i] |-> [lineage[i][r] EXCEPT !.current = FALSE]]

NewRow(c, o, on, deleted) == [content |-> c, current |-> TRUE, deleted |-> deleted,
                              by |-> o, on |-> on]

(* The row a merge releases is read by its id and copied whole, isDeleted
   included. *)
CopyDeleted(o, i, change) ==
  IF change = "modified" /\ work[o][i].formal # 0
  THEN lineage[i][work[o][i].formal].deleted
  ELSE work[o][i].deleted

BaseContent(o, i) == IF work[o][i].base = 0 THEN work[o][i].content
                     ELSE Content(i, work[o][i].base)

(* Mutant: a released deletion removes the row instead of stamping it. *)
MutantHardDelete(o, i, change) ==
  CASE change = "none" -> lineage[i]
    [] change = "deleted" -> SubSeq(lineage[i], 1, work[o][i].base - 1)
    [] OTHER -> Append(Superseded(o, i),
                       NewRow(work[o][i].content, o, BaseContent(o, i),
                              CopyDeleted(o, i, change)))

(* The rows of i once o's change of it is on main. *)
Merged(o, i, change) ==
  CASE change = "none" -> lineage[i]
    [] change = "deleted" -> [lineage[i] EXCEPT ![work[o][i].base].deleted = TRUE]
    [] OTHER -> Append(Superseded(o, i),
                       NewRow(work[o][i].content, o, BaseContent(o, i),
                              CopyDeleted(o, i, change)))

(* The identity index of items: a revision is given out once. *)
Collides(o, i, change) == /\ change \in {"added", "modified"}
                          /\ NextRevision(o, i, change) # Len(lineage[i]) + 1

(* applyChangeAction "revise": a new revision of the row in service. *)
Revised(o, i) ==
  LET c == Content(i, CHOOSE r \in InService(i) : TRUE)
  IN Append(Superseded(o, i), NewRow(c, o, c, FALSE))

CanRevise(i) ==
  \E r \in InService(i) : ~lineage[i][r].deleted /\ r = Len(lineage[i])

-----------------------------------------------------------------------------
(* Engineers *)

Open(o, i) == DesignOf[i] \notin order[o].archived

Edit(o, i, w) == /\ edits > 0
                 /\ edits' = edits - 1
                 /\ work' = [work EXCEPT ![o][i] = w]
                 /\ UNCHANGED <<lineage, tracked, order, thread, overran, faults>>

(* The latest version that is not deleted, whatever main's row names. *)
Checkout(o, i) == /\ ~order[o].scopeLocked
                  /\ work[o][i].change = "untracked"
                  /\ \E r \in Live(i) :
                       /\ \A s \in Live(i) : s <= r
                       /\ work' = [work EXCEPT ![o][i] =
                            [change |-> "none", base |-> r, formal |-> 0,
                             content |-> Content(i, r), deleted |-> FALSE]]
                  /\ listed' = [listed EXCEPT ![o] = @ \union {i}]
                  /\ UNCHANGED <<lineage, tracked, order, thread, overran, edits, faults>>

(* An item listed without a branch row. *)
List(o, i) == /\ ~order[o].scopeLocked
              /\ Live(i) # {}
              /\ i \notin listed[o]
              /\ listed' = [listed EXCEPT ![o] = @ \union {i}]
              /\ UNCHANGED <<lineage, tracked, work, order, thread, overran, edits, faults>>

Create(o, i, c) == /\ ~order[o].scopeLocked
                   /\ lineage[i] = <<>>
                   /\ \A p \in Orders : work[p][i].change = "untracked"
                   /\ Edit(o, i, [change |-> "added", base |-> 0, content |-> c,
                                  formal |-> 0, deleted |-> FALSE])
                   /\ listed' = [listed EXCEPT ![o] = @ \union {i}]

(* Open during review: the scope is locked, the content is not.  The first
   save makes the working copy, a copy of the base row as it is by then. *)
Save(o, i, c) == /\ work[o][i].change \in {"none", "added", "modified"}
                 /\ Open(o, i)
                 /\ Edit(o, i, [work[o][i] EXCEPT
                       !.content = c,
                       !.change = IF @ = "added" THEN @ ELSE "modified",
                       !.deleted = IF work[o][i].change = "none"
                                   THEN lineage[i][work[o][i].base].deleted ELSE @])
                 /\ UNCHANGED listed

(* The deletion of an item the branch has no row of is a checkout and this. *)
Delete(o, i) == /\ work[o][i].change \in {"none", "modified"}
                /\ Open(o, i)
                /\ Edit(o, i, [work[o][i] EXCEPT !.change = "deleted"])
                /\ UNCHANGED listed

(* deleteOnBranch of an item the branch added: its row goes, its working copy
   is soft-deleted, and it is no longer listed, locked scope or not. *)
Drop(o, i) == /\ work[o][i].change = "added"
              /\ Open(o, i)
              /\ Edit(o, i, [work[o][i] EXCEPT !.change = "dropped", !.deleted = TRUE])
              /\ listed' = [listed EXCEPT ![o] = @ \ {i}]

LockScope(o) == /\ ~order[o].scopeLocked
                /\ listed[o] # {}
                /\ order' = [order EXCEPT ![o].scopeLocked = TRUE]
                /\ UNCHANGED <<lineage, tracked, work, listed, thread, overran, edits, faults>>

-----------------------------------------------------------------------------
(* Executions *)

Moves(t, doing) == thread' = [thread EXCEPT ![t] = doing]
Reads(t, doing) ==
  /\ Moves(t, doing)
  /\ UNCHANGED <<lineage, tracked, work, listed, order, overran, edits, faults>>

(* Mutant: a retry merges every branch, the merged ones too. *)
MutantMergeAgain(t, o) ==
  /\ thread[t].phase = "idle"
  /\ order[o].scopeLocked /\ ~order[o].implemented
  /\ \A u \in Threads : thread[u].order # o \/ o \in overran
  /\ Reads(t, [Idle EXCEPT !.phase = "branches", !.order = o,
                           !.todo = DesignsOf(o)])

(* The claim on the workflow keeps executions of one order apart, until one
   outlives it.  mergeStatus is read here, for every design at once. *)
BeginRelease(t, o) ==
  /\ thread[t].phase = "idle"
  /\ order[o].scopeLocked /\ ~order[o].implemented
  /\ \A u \in Threads : thread[u].order # o \/ o \in overran
  /\ \A d \in Designs : Changed(o, d) \subseteq listed[o]
  /\ Reads(t, [Idle EXCEPT !.phase = "branches", !.order = o,
                           !.todo = DesignsOf(o) \ order[o].merged,
                           !.merged = DesignsOf(o) \intersect order[o].merged # {}])

(* validateMerge, outside any transaction.  A conflict ends the execution. *)
Validate(t, d) ==
  LET o == thread[t].order IN
  /\ thread[t].phase = "branches"
  /\ d \in thread[t].todo
  /\ IF Conflicts(o, Changed(o, d)) # {} THEN Reads(t, Idle)
     ELSE IF Changed(o, d) = {}
          THEN Reads(t, [thread[t] EXCEPT !.todo = @ \ {d}])
          ELSE Reads(t, [thread[t] EXCEPT !.phase = "read", !.design = {d}])

(* mergeBranchToMain reads the changed rows before its transaction, and throws
   when the last of them was dropped since it was validated. *)
ReadChanges(t) ==
  LET o == thread[t].order
      changed == {i \in Items : \E d \in thread[t].design : i \in Changed(o, d)}
  IN /\ thread[t].phase = "read"
     /\ IF changed = {} THEN Reads(t, Idle)
        ELSE Reads(t, [thread[t] EXCEPT
               !.phase = "merge",
               !.read = [i \in Items |->
                           IF i \in changed THEN work[o][i].change ELSE "none"]])

(* Mutant: the check of validateMerge is not repeated in the transaction. *)
MutantTrustValidation(t) ==
  \E i \in Items : Collides(thread[t].order, i, thread[t].read[i])

(* Checked again inside the transaction, on the rows read before it. *)
MergeFails(t) ==
  LET o == thread[t].order
      read == thread[t].read
  IN \/ Conflicts(o, {i \in Items : read[i] # "none"}) # {}
     \/ \E i \in Items : Collides(o, i, read[i])

MergeBranch(t) ==
  LET o == thread[t].order
      read == thread[t].read
  IN /\ thread[t].phase = "merge"
     /\ ~MergeFails(t)
     /\ lineage' = [i \in Items |-> Merged(o, i, read[i])]
     /\ tracked' = [i \in Items |->
                      CASE read[i] = "none" -> tracked[i]
                        [] read[i] = "deleted" -> 0
                        [] OTHER -> NextRevision(o, i, read[i])]
     /\ work' = [work EXCEPT ![o] = [i \in Items |->
                   IF read[i] = "modified" /\ work[o][i].formal = 0
                   THEN [work[o][i] EXCEPT !.formal = NextRevision(o, i, read[i])]
                   ELSE work[o][i]]]
     /\ order' = [order EXCEPT ![o].merged = @ \union thread[t].design,
                               ![o].archived = @ \union thread[t].design]
     /\ Moves(t, [thread[t] EXCEPT !.phase = "branches", !.merged = TRUE,
                                   !.todo = @ \ thread[t].design, !.design = {},
                                   !.read = Idle.read])
     /\ UNCHANGED <<listed, overran, edits, faults>>

(* The transaction rolls back, and the execution throws. *)
RefuseMerge(t) == /\ thread[t].phase = "merge"
                  /\ MergeFails(t)
                  /\ Reads(t, Idle)

(* What the last transaction is to revise, read before it: the listed items
   with no change on any branch, or the whole list when no branch merged.  An
   empty list is nothing to release, and the execution throws. *)
ReadRemaining(t) ==
  LET o == thread[t].order
      handled == {i \in Items : work[o][i].change \in Changes}
  IN /\ thread[t].phase = "branches" /\ thread[t].todo = {}
     /\ IF ~thread[t].merged /\ listed[o] = {} THEN Reads(t, Idle)
        ELSE Reads(t, [thread[t] EXCEPT !.phase = "remaining",
               !.remaining = IF thread[t].merged THEN listed[o] \ handled ELSE listed[o]])

(* Either pass over the affected items, one transaction: every action applies,
   or all of it rolls back and the execution throws. *)
Apply(t, S) ==
  LET o == thread[t].order
      archived == IF thread[t].merged THEN {} ELSE DesignsOf(o)
  IN /\ IF \A i \in S : CanRevise(i)
        THEN /\ lineage' = [i \in Items |-> IF i \in S THEN Revised(o, i) ELSE lineage[i]]
             /\ tracked' = [i \in Items |-> IF i \in S THEN Len(lineage[i]) + 1 ELSE tracked[i]]
             /\ order' = [order EXCEPT ![o].implemented = TRUE,
                                       ![o].archived = @ \union archived]
        ELSE UNCHANGED <<lineage, tracked, order>>
     /\ Moves(t, Idle)
     /\ UNCHANGED <<work, listed, overran, edits, faults>>

(* An item is skipped when the row pinned on the list is deleted by now; which
   of its rows that is, the model does not keep. *)
ApplyRemaining(t) ==
  /\ thread[t].phase = "remaining"
  /\ \E skipped \in SUBSET {i \in thread[t].remaining : Live(i) # DOMAIN lineage[i]} :
       Apply(t, thread[t].remaining \ skipped)

-----------------------------------------------------------------------------
Crash(t) == /\ thread[t].phase # "idle"
            /\ faults > 0
            /\ faults' = faults - 1
            /\ Moves(t, Idle)
            /\ UNCHANGED <<lineage, tracked, work, listed, order, overran, edits>>

(* Fifteen minutes pass and the execution is still alive. *)
Overrun(t) == /\ thread[t].phase # "idle"
              /\ faults > 0
              /\ faults' = faults - 1
              /\ overran' = overran \union {thread[t].order}
              /\ UNCHANGED <<lineage, tracked, work, listed, order, thread, edits>>

Engineer(o, i) == \/ Checkout(o, i) \/ List(o, i) \/ Delete(o, i) \/ Drop(o, i)
                  \/ \E c \in Contents : Create(o, i, c) \/ Save(o, i, c)

Execution(t) == \/ \E o \in Orders : BeginRelease(t, o)
                \/ \E d \in Designs : Validate(t, d)
                \/ ReadChanges(t) \/ MergeBranch(t) \/ RefuseMerge(t)
                \/ ReadRemaining(t) \/ ApplyRemaining(t)
                \/ Crash(t) \/ Overrun(t)

MergeNext == \/ \E t \in Threads : Execution(t)
             \/ \E o \in Orders : \/ LockScope(o)
                                  \/ \E i \in Items : Engineer(o, i)

MergeSpec == MergeInit /\ [][MergeNext]_mergeVars

-----------------------------------------------------------------------------
(* Properties *)

MergeTypeOK ==
  /\ \A i \in Items : /\ lineage[i] \in Seq(Rows)
                      /\ tracked[i] \in 0 .. Len(lineage[i])
  /\ work \in [Orders -> [Items -> Work]]
  /\ \A o \in Orders, i \in Items : work[o][i].base <= Len(lineage[i])
  /\ listed \in [Orders -> SUBSET Items]
  /\ order \in [Orders -> [scopeLocked: BOOLEAN, implemented: BOOLEAN,
                            merged: SUBSET Designs, archived: SUBSET Designs]]
  /\ thread \in [Threads -> Doings]
  /\ overran \subseteq Orders /\ edits \in Nat /\ faults \in Nat

(* A revision that beat another one surfaces as a conflict instead of being
   silently overwritten: every revision was made from what the one before it
   says, although branches are based on revisions long superseded, and the
   check of validateMerge is stale by the time its branch merges.  Only an
   execution that overlaps another of its order can miss a revision, one whose
   item was deleted since.  A released deletion is no revision: main then has
   no row to compare, and a modification from before it is released after it. *)
ReleasesBuildOnEachOther ==
  \A i \in Items : \A r \in DOMAIN lineage[i] :
    r > 1 => \/ lineage[i][r].on = lineage[i][r - 1].content
             \/ lineage[i][r].by \in overran

(* A release that failed part way, at any design, is retried to completion
   without giving any item a second revision.  Only executions that overlap,
   one having outlived its claim, can release an item twice. *)
ReleasedOnce ==
  \A i \in Items : \A r, s \in DOMAIN lineage[i] :
    r # s /\ lineage[i][r].by = lineage[i][s].by
      => lineage[i][r].by \in overran \union {Nobody}

(* Readers take the one row that is current: there are never two, and main's
   structure resolves to it.  That row is deleted in three cases only: the item
   was added on the branch and deleted there after the merge had read its rows
   (the merge reads the copy by its id, and releases it); the copy was made
   from a base another order had released as deleted by then; or executions of
   one order overlapped. *)
OneInService ==
  \A i \in Items :
    /\ Cardinality(InService(i)) <= 1
    /\ tracked[i] # 0 =>
         /\ tracked[i] \in InService(i)
         /\ lineage[i][tracked[i]].deleted =>
              LET o == lineage[i][tracked[i]].by IN
              o \in overran \/ (o \in Orders /\ work[o][i].deleted)

(* ChangeOrderMergeService.ts: "whatever the branch merge did not handle, this
   does".  Not so for an item first saved between the reads of the merge and
   its transaction: the merge leaves it behind on a branch it archives, and
   the remaining actions take it for handled. *)
ListedItemsAreReleased ==
  \A o \in Orders : order[o].implemented =>
    \A i \in listed[o] : \/ work[o][i].change = "deleted"
                          \/ \E r \in DOMAIN lineage[i] : lineage[i][r].by = o
=============================================================================
