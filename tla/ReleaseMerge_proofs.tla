------------------------ MODULE ReleaseMerge_proofs ------------------------
(* Proofs about ReleaseMerge, for any orders, designs, items and executions:
   the types, and that every item goes through one line of revisions, each
   made from the one before it and by an order of its own. *)
EXTENDS ReleaseMerge, FiniteSetTheorems, TLAPS

(* A copy has a base unless it is of a new item, is made by the first save, and
   has a formal revision once its branch is merged. *)
CopiesAreBased ==
  \A o \in Orders, i \in Items :
    /\ work[o][i].change \in {"none", "modified", "deleted"} => work[o][i].base # 0
    /\ work[o][i].change \in {"untracked", "none"} => ~work[o][i].deleted
    /\ work[o][i].formal # 0 => DesignOf[i] \in order[o].merged

(* An item the branch of o changes, or one that was added there and dropped,
   and is not listed any more. *)
ChangedOrDropped(o, i) ==
  \/ work[o][i].change \in Changes
  \/ work[o][i].change = "dropped" /\ i \notin listed[o]

(* What an execution has read of the branch it merges is still there, except
   that a change may have become another, or an added item been dropped. *)
ReadsTrue(doing) ==
  /\ doing.phase # "idle" => /\ doing.order \in Orders
                             /\ order[doing.order].scopeLocked
  /\ doing.phase # "merge" => \A i \in Items : doing.read[i] = "none"
  /\ \A i \in Items : doing.read[i] # "none" =>
       /\ doing.order \in Orders
       /\ ChangedOrDropped(doing.order, i)
       /\ doing.read[i] # "added" => work[doing.order][i].base # 0
       /\ DesignOf[i] \in doing.design

ReadsStayTrue == \A t \in Threads : ReadsTrue(thread[t])

(* The orders whose claim held. *)
Claimed == Orders \ overran

ReleasedBy(o, i) == \E r \in DOMAIN lineage[i] : lineage[i][r].by = o

OneExecution ==
  \A t, u \in Threads :
    thread[t].order \in Claimed /\ thread[t].order = thread[u].order => t = u

(* An execution under a claim works on what its order has not released. *)
Fresh(doing) ==
  doing.order \in Claimed =>
    LET o == doing.order IN
    /\ order[o].scopeLocked /\ ~order[o].implemented
    /\ (doing.todo \union doing.design) \intersect order[o].merged = {}
    /\ ~doing.merged => \A i \in listed[o] : DesignOf[i] \notin order[o].merged
    /\ doing.phase = "remaining" =>
         \A i \in doing.remaining : ~ReleasedBy(o, i)

ExecutionsAreFresh == \A t \in Threads : Fresh(thread[t])

(* Until it is implemented, an order has released what its merged branches
   changed or dropped, and nothing else. *)
ReleasesAreRecorded ==
  \A o \in Claimed, i \in Items : ReleasedBy(o, i) =>
    \/ order[o].implemented
    \/ /\ order[o].scopeLocked /\ DesignOf[i] \in order[o].merged
       /\ ChangedOrDropped(o, i)

(* One item: its revisions are released one on the other, one at most is in
   service, and main's structure resolves to that one. *)
LineOK(i) ==
  /\ lineage[i] \in Seq(Rows)
  /\ tracked[i] \in 0 .. Len(lineage[i])
  /\ \A r, s \in InService(i) : r = s
  /\ tracked[i] # 0 => tracked[i] \in InService(i)
  /\ \A r \in 2 .. Len(lineage[i]) :
       \/ lineage[i][r].on = lineage[i][r - 1].content
       \/ lineage[i][r].by \in overran

(* Why main may name a deleted row. *)
Deleted(o, i) == o \in overran \/ (o \in Orders /\ work[o][i].deleted)

MainIsLive(i) ==
  tracked[i] # 0 /\ lineage[i][tracked[i]].deleted
    => Deleted(lineage[i][tracked[i]].by, i)

CopiesOK == /\ work \in [Orders -> [Items -> Work]]
            /\ \A o \in Orders, i \in Items : work[o][i].base <= Len(lineage[i])

RestOK ==
  /\ listed \in [Orders -> SUBSET Items]
  /\ order \in [Orders -> [scopeLocked: BOOLEAN, implemented: BOOLEAN,
                            merged: SUBSET Designs, archived: SUBSET Designs]]
  /\ thread \in [Threads -> Doings]
  /\ overran \subseteq Orders /\ edits \in Nat /\ faults \in Nat

MergeInv ==
  /\ \A i \in Items : LineOK(i) /\ MainIsLive(i)
  /\ CopiesOK /\ RestOK /\ CopiesAreBased /\ ReadsStayTrue
  /\ OneExecution /\ ExecutionsAreFresh /\ ReleasesAreRecorded /\ ReleasedOnce

-----------------------------------------------------------------------------
(* What a step does to the rows of one item. *)

Untouched(i) == lineage'[i] = lineage[i] /\ tracked'[i] = tracked[i]

Retired(i, b) == /\ b \in 1 .. Len(lineage[i])
                 /\ lineage'[i] = [lineage[i] EXCEPT ![b].deleted = TRUE]
                 /\ tracked'[i] = 0

Released(i, o, c, on, deleted) ==
  /\ lineage'[i] = Append(Superseded(o, i), NewRow(c, o, on, deleted))
  /\ tracked'[i] = Len(lineage[i]) + 1

LEMMA FunctionIsSequence ==
  ASSUME NEW S, NEW n \in Nat, NEW f \in [1 .. n -> S]
  PROVE  f \in Seq(S) /\ Len(f) = n
  BY DOMAIN f = 1 .. n

(* A released item keeps its rows, out of service, under one new row. *)
LEMMA ReleasedRows ==
  ASSUME NEW i, lineage[i] \in Seq(Rows), NEW o \in Orders, NEW c \in Contents,
         NEW on \in Contents, NEW deleted \in BOOLEAN, Released(i, o, c, on, deleted)
  PROVE  /\ lineage'[i] \in Seq(Rows)
         /\ Len(lineage'[i]) = Len(lineage[i]) + 1
         /\ DOMAIN lineage'[i] = 1 .. Len(lineage[i]) + 1
         /\ lineage'[i][Len(lineage[i]) + 1] = NewRow(c, o, on, deleted)
         /\ \A r \in 1 .. Len(lineage[i]) :
              lineage'[i][r] = [lineage[i][r] EXCEPT !.current = FALSE]
<1> DEFINE n == Len(lineage[i])
           old == [r \in 1 .. n |-> [lineage[i][r] EXCEPT !.current = FALSE]]
<1>1. n \in Nat /\ DOMAIN lineage[i] = 1 .. n
  OBVIOUS
<1>2. Superseded(o, i) = old
  BY <1>1 DEF Superseded
<1>3. \A r \in 1 .. n : old[r] \in Rows
  <2>1. \A r \in 1 .. n : lineage[i][r] \in Rows
    BY <1>1
  <2> QED BY <2>1 DEF Rows
<1>4. old \in Seq(Rows) /\ Len(old) = n
  <2>1. old \in [1 .. n -> Rows]
    BY <1>3
  <2> QED BY <2>1, <1>1, FunctionIsSequence
<1>5. NewRow(c, o, on, deleted) \in Rows
  BY DEF NewRow, Rows
<1>6. lineage'[i] = Append(old, NewRow(c, o, on, deleted))
  BY <1>2 DEF Released
<1> HIDE DEF old
<1>7. /\ lineage'[i] \in Seq(Rows) /\ Len(lineage'[i]) = n + 1
      /\ lineage'[i][n + 1] = NewRow(c, o, on, deleted)
      /\ \A r \in 1 .. n : lineage'[i][r] = old[r]
  BY <1>4, <1>5, <1>6
<1>8. DOMAIN lineage'[i] = 1 .. n + 1
  BY <1>7
<1>9. \A r \in 1 .. n : lineage'[i][r] = [lineage[i][r] EXCEPT !.current = FALSE]
  BY <1>7 DEF old
<1> QED BY <1>7, <1>8, <1>9

(* A released deletion keeps every row. *)
LEMMA RetiredRows ==
  ASSUME NEW i, lineage[i] \in Seq(Rows), NEW b, Retired(i, b)
  PROVE  /\ lineage'[i] \in Seq(Rows)
         /\ Len(lineage'[i]) = Len(lineage[i])
         /\ DOMAIN lineage'[i] = 1 .. Len(lineage[i])
         /\ \A r \in 1 .. Len(lineage[i]) :
              \/ lineage'[i][r] = lineage[i][r]
              \/ lineage'[i][r] = [lineage[i][r] EXCEPT !.deleted = TRUE]
<1> DEFINE n == Len(lineage[i])
           row == [lineage[i][b] EXCEPT !.deleted = TRUE]
           new == [r \in 1 .. n |-> IF r = b THEN row ELSE lineage[i][r]]
<1>1. n \in Nat /\ DOMAIN lineage[i] = 1 .. n /\ lineage[i][b] \in Rows
  BY DEF Retired
<1>2. lineage'[i] = new
  BY <1>1 DEF Retired
<1>3. new \in [1 .. n -> Rows]
  <2>1. row \in Rows
    BY <1>1 DEF Rows
  <2> QED BY <2>1, <1>1
<1>4. new \in Seq(Rows) /\ Len(new) = n
  <2> HIDE DEF new, n
  <2> QED BY <1>3, <1>1, FunctionIsSequence
<1> QED BY <1>1, <1>2, <1>4

-----------------------------------------------------------------------------
(* What any step does to the rows of one item. *)

ItemStep(i) ==
  \/ Untouched(i)
  \/ \E b \in Nat : Retired(i, b)
  \/ \E o \in Orders, c, on \in Contents, deleted \in BOOLEAN :
       /\ Released(i, o, c, on, deleted)
       /\ Len(lineage[i]) # 0 => \/ on = Content(i, Len(lineage[i]))
                                 \/ o \in overran
       /\ deleted => Deleted(o, i)

LEMMA LineStep ==
  ASSUME NEW i \in Items, LineOK(i), ItemStep(i), overran \subseteq overran'
  PROVE  /\ LineOK(i)'
         /\ Len(lineage[i]) \in Nat /\ Len(lineage'[i]) \in Nat
         /\ Len(lineage[i]) <= Len(lineage'[i])
<1> DEFINE n == Len(lineage[i])
<1>0. n \in Nat /\ DOMAIN lineage[i] = 1 .. n
  BY DEF LineOK
<1>1. CASE Untouched(i)
  <2>1. lineage'[i] = lineage[i] /\ tracked'[i] = tracked[i]
    BY <1>1 DEF Untouched
  <2>2. InService(i)' = InService(i)
    BY <2>1 DEF InService
  <2>3. LineOK(i)'
    BY <2>1, <2>2 DEF LineOK
  <2> QED BY <1>0, <2>1, <2>3
<1>2. ASSUME NEW b \in Nat, Retired(i, b)
      PROVE  LineOK(i)' /\ Len(lineage'[i]) = n
  <2>1. /\ lineage'[i] \in Seq(Rows)
        /\ Len(lineage'[i]) = n
        /\ DOMAIN lineage'[i] = 1 .. n
        /\ \A r \in 1 .. n : \/ lineage'[i][r] = lineage[i][r]
                              \/ lineage'[i][r] = [lineage[i][r] EXCEPT !.deleted = TRUE]
    BY <1>2, RetiredRows DEF LineOK
  <2>2. \A r \in 1 .. n : lineage[i][r] \in Rows
    BY <1>0 DEF LineOK
  <2>3. \A r \in 1 .. n : /\ lineage'[i][r].current = lineage[i][r].current
                          /\ lineage'[i][r].content = lineage[i][r].content
                          /\ lineage'[i][r].by = lineage[i][r].by
                          /\ lineage'[i][r].on = lineage[i][r].on
    BY <2>1, <2>2 DEF Rows
  <2>4. InService(i)' = InService(i)
    BY <1>0, <2>1, <2>3 DEF InService
  <2>5. \A r \in 2 .. n : \/ lineage'[i][r].on = lineage'[i][r - 1].content
                          \/ lineage'[i][r].by \in overran'
    <3>1. TAKE r \in 2 .. n
    <3>2. r \in 1 .. n /\ r - 1 \in 1 .. n
      BY <1>0
    <3> QED BY <2>3, <3>2 DEF LineOK
  <2>6. tracked'[i] = 0
    BY <1>2 DEF Retired
  <2> QED BY <2>1, <2>4, <2>5, <2>6, <1>0 DEF LineOK
<1>3. ASSUME NEW o \in Orders, NEW c \in Contents, NEW on \in Contents,
             NEW deleted \in BOOLEAN, Released(i, o, c, on, deleted),
             n # 0 => on = Content(i, n) \/ o \in overran
      PROVE  LineOK(i)' /\ Len(lineage'[i]) = n + 1
  <2>1. /\ lineage'[i] \in Seq(Rows)
        /\ Len(lineage'[i]) = n + 1
        /\ DOMAIN lineage'[i] = 1 .. n + 1
        /\ lineage'[i][n + 1] = NewRow(c, o, on, deleted)
        /\ \A r \in 1 .. n : lineage'[i][r] = [lineage[i][r] EXCEPT !.current = FALSE]
    BY <1>3, ReleasedRows DEF LineOK
  <2>2. \A r \in 1 .. n : lineage[i][r] \in Rows
    BY <1>0 DEF LineOK
  <2>3. \A r \in 1 .. n : /\ ~lineage'[i][r].current
                          /\ lineage'[i][r].content = lineage[i][r].content
                          /\ lineage'[i][r].by = lineage[i][r].by
                          /\ lineage'[i][r].on = lineage[i][r].on
    BY <2>1, <2>2 DEF Rows
  <2>4. InService(i)' = {n + 1}
    BY <1>0, <2>1, <2>3 DEF InService, NewRow
  <2>5. \A r \in 2 .. n + 1 : \/ lineage'[i][r].on = lineage'[i][r - 1].content
                              \/ lineage'[i][r].by \in overran'
    <3>1. TAKE r \in 2 .. n + 1
    <3>2. CASE r # n + 1
      <4>1. r \in 1 .. n /\ r - 1 \in 1 .. n /\ r \in 2 .. n
        BY <1>0, <3>2
      <4> QED BY <2>3, <4>1 DEF LineOK
    <3>3. CASE r = n + 1
      <4>1. n # 0 /\ n \in 1 .. n /\ r - 1 = n
        BY <1>0, <3>3
      <4> QED BY <1>3, <2>1, <2>3, <3>3, <4>1 DEF NewRow, Content
    <3> QED BY <3>2, <3>3
  <2>6. tracked'[i] = n + 1
    BY <1>3 DEF Released
  <2> QED BY <2>1, <2>4, <2>5, <2>6, <1>0 DEF LineOK
<1> QED BY <1>0, <1>1, <1>2, <1>3 DEF ItemStep

LEMMA LiveStep ==
  ASSUME NEW i \in Items, LineOK(i), MainIsLive(i), ItemStep(i),
         overran \subseteq overran',
         \A o \in Orders : work[o][i].deleted => work'[o][i].deleted
  PROVE  MainIsLive(i)'
<1>0. lineage[i] \in Seq(Rows) /\ \A o : Deleted(o, i) => Deleted(o, i)'
  BY DEF LineOK, Deleted
<1>1. CASE Untouched(i)
  <2>1. lineage'[i] = lineage[i] /\ tracked'[i] = tracked[i]
    BY <1>1 DEF Untouched
  <2> QED BY <1>0, <2>1 DEF MainIsLive
<1>2. CASE \E b \in Nat : Retired(i, b)
  BY <1>2 DEF MainIsLive, Retired
<1>3. ASSUME NEW o \in Orders, NEW c \in Contents, NEW on \in Contents,
             NEW deleted \in BOOLEAN, Released(i, o, c, on, deleted),
             deleted => Deleted(o, i)
      PROVE  MainIsLive(i)'
  <2>1. lineage'[i][tracked'[i]] = NewRow(c, o, on, deleted)
    BY <1>0, <1>3, ReleasedRows DEF Released
  <2>2. /\ lineage'[i][tracked'[i]].deleted = deleted
        /\ lineage'[i][tracked'[i]].by = o
    BY <2>1 DEF NewRow
  <2> QED BY <1>0, <1>3, <2>2 DEF MainIsLive
<1> QED BY <1>1, <1>2, <1>3 DEF ItemStep

-----------------------------------------------------------------------------
(* The rows of the items a merge or a pass over the affected items works on. *)

LEMMA MergeRows ==
  ASSUME MergeInv, NEW t \in Threads, MergeBranch(t), NEW i \in Items,
         NEW o, o = thread[t].order
  PROVE  /\ thread[t].read[i] = "none" => Untouched(i)
         /\ thread[t].read[i] = "deleted" => Retired(i, work[o][i].base)
         /\ thread[t].read[i] \in {"added", "modified"} =>
              /\ o \in Orders /\ i \in Items /\ work[o][i].content \in Contents
              /\ BaseContent(o, i) \in Contents
              /\ CopyDeleted(o, i, thread[t].read[i]) \in BOOLEAN
              /\ Released(i, o, work[o][i].content, BaseContent(o, i),
                          CopyDeleted(o, i, thread[t].read[i]))
<1> DEFINE change == thread[t].read[i]
           n == Len(lineage[i])
<1>1. n \in Nat /\ lineage[i] \in Seq(Rows) /\ DOMAIN lineage[i] = 1 .. n
  BY DEF MergeInv, LineOK
<1>2. /\ lineage'[i] = Merged(o, i, change)
      /\ tracked'[i] = CASE change = "none" -> tracked[i]
                         [] change = "deleted" -> 0
                         [] OTHER -> NextRevision(o, i, change)
      /\ ~Collides(o, i, change)
  BY DEF MergeBranch, MergeFails
<1>3. change # "none" =>
        /\ o \in Orders /\ work[o][i] \in Work /\ work[o][i].base <= n
        /\ change # "added" => work[o][i].base # 0
  BY DEF MergeInv, ReadsStayTrue, ReadsTrue, CopiesOK
<1>4. CASE change = "none"
  BY <1>2, <1>4 DEF Merged, Untouched
<1>5. CASE change = "deleted"
  <2>1. work[o][i].base \in 1 .. n
    BY <1>1, <1>3, <1>5 DEF Work
  <2>2. lineage'[i] = [lineage[i] EXCEPT ![work[o][i].base].deleted = TRUE]
    BY <1>2, <1>5 DEF Merged
  <2>3. tracked'[i] = 0
    BY <1>2, <1>5
  <2> QED BY <1>5, <2>1, <2>2, <2>3 DEF Retired
<1>6. CASE change \in {"added", "modified"}
  <2>1. tracked'[i] = n + 1
    BY <1>2, <1>6 DEF Collides
  <2>2. lineage'[i] = Append(Superseded(o, i),
                             NewRow(work[o][i].content, o, BaseContent(o, i),
                                    CopyDeleted(o, i, change)))
    BY <1>2, <1>6 DEF Merged
  <2>3. work[o][i].content \in Contents
    BY <1>3, <1>6 DEF Work
  <2>4. BaseContent(o, i) \in Contents
    <3>1. CASE work[o][i].base = 0
      BY <2>3, <3>1 DEF BaseContent
    <3>2. CASE work[o][i].base # 0
      <4>1. work[o][i].base \in 1 .. n
        BY <1>1, <1>3, <1>6, <3>2 DEF Work
      <4>2. lineage[i][work[o][i].base] \in Rows
        BY <1>1, <4>1
      <4> QED BY <3>2, <4>2 DEF BaseContent, Content, Rows
    <3> QED BY <3>1, <3>2
  <2>5. CopyDeleted(o, i, change) \in BOOLEAN
    <3>1. CASE change = "modified" /\ work[o][i].formal # 0
      <4>1. work[o][i].formal \in Nat /\ work[o][i].formal + 1 = n + 1
        BY <1>2, <1>3, <1>6, <3>1 DEF Collides, NextRevision, Work
      <4>2. work[o][i].formal \in 1 .. n
        BY <1>1, <3>1, <4>1
      <4>3. lineage[i][work[o][i].formal] \in Rows
        BY <1>1, <4>2
      <4> QED BY <3>1, <4>3 DEF CopyDeleted, Rows
    <3>2. CASE ~(change = "modified" /\ work[o][i].formal # 0)
      BY <1>3, <1>6, <3>2 DEF CopyDeleted, Work
    <3> QED BY <3>1, <3>2
  <2> QED BY <1>3, <1>6, <2>1, <2>2, <2>3, <2>4, <2>5 DEF Released
<1>7. change = "none" \/ change = "deleted" \/ change \in {"added", "modified"}
  <2>1. thread[t] \in Doings
    BY DEF MergeInv, RestOK
  <2> QED BY <2>1 DEF Doings, Changes
<1> QED BY <1>4, <1>5, <1>6, <1>7

(* A merge under a claim releases what was made from the last revision. *)
LEMMA MergeBuildsOn ==
  ASSUME MergeInv, NEW t \in Threads, MergeBranch(t), NEW i \in Items,
         NEW o, o = thread[t].order,
         thread[t].read[i] \in {"added", "modified"}, Len(lineage[i]) # 0
  PROVE  BaseContent(o, i) = Content(i, Len(lineage[i])) \/ o \in overran
<1> DEFINE change == thread[t].read[i]
           n == Len(lineage[i])
           w == work[o][i]
<1>1. n \in Nat
  BY DEF MergeInv, LineOK
<1>2. NextRevision(o, i, change) = n + 1
  BY DEF MergeBranch, MergeFails, Collides
<1>checked. i \notin Conflicts(o, {k \in Items : thread[t].read[k] # "none"})
  BY DEF MergeBranch, MergeFails
<1>3. o \in Orders /\ w \in Work /\ w.base <= n /\ (change # "added" => w.base # 0)
  BY DEF MergeInv, ReadsStayTrue, ReadsTrue, CopiesOK
<1>4. change = "modified"
  BY <1>1, <1>2 DEF NextRevision
<1>5. tracked[i] \in {0, w.base} \/ Content(i, tracked[i]) = Content(i, w.base)
  BY <1>checked, <1>3, <1>4 DEF Conflicts, Differ
<1>6. CASE w.formal # 0
  <2>1. DesignOf[i] \in order[o].merged /\ DesignOf[i] \in thread[t].design
    BY <1>3, <1>4, <1>6 DEF MergeInv, CopiesAreBased, ReadsStayTrue, ReadsTrue
  <2>2. o \in Claimed => thread[t].design \intersect order[o].merged = {}
    BY DEF MergeInv, ExecutionsAreFresh, Fresh
  <2> QED BY <1>3, <2>1, <2>2 DEF Claimed
<1>7. CASE w.formal = 0 /\ tracked[i] # 0
  <2>1. tracked[i] = n
    <3>1. tracked[i] \in Nat
      BY DEF MergeInv, LineOK
    <3> QED BY <1>1, <1>2, <1>4, <1>7, <3>1 DEF NextRevision
  <2> QED BY <1>3, <1>4, <1>5, <1>7, <2>1 DEF BaseContent
<1>8. CASE w.formal = 0 /\ tracked[i] = 0
  <2>1. n = 1
    <3>1. NextRevision(o, i, change) = 2
      BY <1>4, <1>8 DEF NextRevision
    <3>2. n + 1 = 2
      BY <1>2, <3>1
    <3>3. \A m \in Nat : m + 1 = 2 => m = 1
      OBVIOUS
    <3> QED BY <1>1, <3>2, <3>3
  <2>2. w.base = 1
    BY <1>3, <1>4, <2>1 DEF Work
  <2> QED BY <2>1, <2>2 DEF BaseContent
<1> QED BY <1>6, <1>7, <1>8

(* Under a claim, the row it releases is deleted only if the working copy is. *)
LEMMA MergeDeletes ==
  ASSUME MergeInv, NEW t \in Threads, MergeBranch(t), NEW i \in Items,
         NEW o, o = thread[t].order, thread[t].read[i] # "none",
         CopyDeleted(o, i, thread[t].read[i])
  PROVE  Deleted(o, i)
<1>1. o \in Orders
  BY DEF MergeInv, ReadsStayTrue, ReadsTrue
<1>2. CASE work[o][i].formal # 0
  <2>1. DesignOf[i] \in order[o].merged /\ DesignOf[i] \in thread[t].design
    BY <1>1, <1>2 DEF MergeInv, CopiesAreBased, ReadsStayTrue, ReadsTrue
  <2>2. o \in Claimed => thread[t].design \intersect order[o].merged = {}
    BY DEF MergeInv, ExecutionsAreFresh, Fresh
  <2> QED BY <1>1, <2>1, <2>2 DEF Claimed, Deleted
<1>3. CASE work[o][i].formal = 0
  BY <1>1, <1>3 DEF CopyDeleted, Deleted
<1> QED BY <1>2, <1>3

LEMMA ApplyRows ==
  ASSUME MergeInv, NEW t \in Threads, NEW S, Apply(t, S),
         NEW i \in Items, NEW o, o = thread[t].order
  PROVE  \/ Untouched(i)
         \/ /\ i \in S
            /\ Len(lineage[i]) # 0
            /\ Content(i, Len(lineage[i])) \in Contents
            /\ Released(i, o, Content(i, Len(lineage[i])), Content(i, Len(lineage[i])), FALSE)
<1> DEFINE n == Len(lineage[i])
<1>1. CASE ~(i \in S /\ \A k \in S : CanRevise(k))
  BY <1>1 DEF Apply, Untouched
<1>2. CASE i \in S /\ \A k \in S : CanRevise(k)
  <2>1. lineage'[i] = Revised(o, i) /\ tracked'[i] = n + 1
    BY <1>2 DEF Apply
  <2>2. n \in InService(i) /\ \A r, s \in InService(i) : r = s
    BY <1>2 DEF CanRevise, MergeInv, LineOK
  <2>3. (CHOOSE r \in InService(i) : TRUE) = n
    BY <2>2
  <2>4. n # 0 /\ lineage[i][n] \in Rows
    <3>1. n \in DOMAIN lineage[i] /\ lineage[i] \in Seq(Rows)
      BY <2>2 DEF InService, MergeInv, LineOK
    <3> QED BY <3>1
  <2>5. Content(i, n) \in Contents
    BY <2>4 DEF Content, Rows
  <2> QED BY <1>2, <2>1, <2>3, <2>4, <2>5 DEF Revised, Released
<1> QED BY <1>1, <1>2

-----------------------------------------------------------------------------
(* Reads, claims and crashes: a step that changes one execution only. *)

OneDoing(t, doing) ==
  /\ Moves(t, doing)
  /\ UNCHANGED <<lineage, tracked, work, listed, order, overran, edits>>
  /\ faults' \in Nat

LEMMA IdleIsNoExecution ==
  Idle \in Doings /\ ReadsTrue(Idle) /\ Fresh(Idle) /\ Idle.order \notin Claimed
  BY OrdersAssumption DEF Idle, Doings, ReadsTrue, Fresh, Claimed

LEMMA OneDoingStep ==
  ASSUME MergeInv, NEW t \in Threads, NEW doing \in Doings, OneDoing(t, doing),
         ReadsTrue(doing), Fresh(doing),
         doing.order \in Claimed =>
           \A u \in Threads : thread[u].order = doing.order => u = t
  PROVE  MergeInv'
<1>1. thread' = [thread EXCEPT ![t] = doing] /\ thread \in [Threads -> Doings]
  BY DEF OneDoing, Moves, MergeInv, RestOK
<1>2. UNCHANGED <<lineage, tracked, work, listed, order, overran, edits>> /\ faults' \in Nat
  BY DEF OneDoing
<1>3. \A u \in Threads : thread'[u] = IF u = t THEN doing ELSE thread[u]
  BY <1>1
<1>4. (\A i \in Items : LineOK(i) /\ MainIsLive(i))'
  BY <1>2 DEF MergeInv, LineOK, InService, MainIsLive, Deleted
<1>5. CopiesOK' /\ CopiesAreBased'
  BY <1>2 DEF MergeInv, CopiesOK, CopiesAreBased
<1>6. RestOK'
  BY <1>1, <1>2 DEF MergeInv, RestOK
<1>7. ReadsStayTrue'
  <2>1. ASSUME NEW d \in Doings, ReadsTrue(d) PROVE ReadsTrue(d)'
    BY <1>2, <2>1 DEF ReadsTrue, ChangedOrDropped
  <2> QED BY <1>1, <1>3, <2>1 DEF MergeInv, ReadsStayTrue, ReadsTrue, ChangedOrDropped
<1>8. OneExecution'
  BY <1>2, <1>3 DEF MergeInv, OneExecution, Claimed
<1>9. ExecutionsAreFresh'
  BY <1>2, <1>3 DEF MergeInv, ExecutionsAreFresh, Fresh, Claimed, ReleasedBy
<1>10. ReleasesAreRecorded' /\ ReleasedOnce'
  BY <1>2 DEF MergeInv, ReleasesAreRecorded, ReleasedOnce, Claimed, ReleasedBy,
              ChangedOrDropped
<1> QED BY <1>4, <1>5, <1>6, <1>7, <1>8, <1>9, <1>10 DEF MergeInv

LEMMA ReadsIsOneDoing ==
  ASSUME MergeInv, NEW t \in Threads, NEW doing, Reads(t, doing)
  PROVE  OneDoing(t, doing)
  BY DEF Reads, OneDoing, MergeInv, RestOK

LEMMA EndsStep ==
  ASSUME MergeInv, NEW t \in Threads, Reads(t, Idle) \/ Crash(t)
  PROVE  MergeInv'
<1>1. OneDoing(t, Idle)
  BY ReadsIsOneDoing DEF Crash, OneDoing, MergeInv, RestOK
<1> QED BY <1>1, OneDoingStep, IdleIsNoExecution

LEMMA BeginStep ==
  ASSUME MergeInv, NEW t \in Threads, NEW o \in Orders, BeginRelease(t, o)
  PROVE  MergeInv'
<1> DEFINE designs == DesignsOf(o)
           doing == [Idle EXCEPT !.phase = "branches", !.order = o,
                                 !.todo = designs \ order[o].merged,
                                 !.merged = designs \intersect order[o].merged # {}]
<1>1. /\ order[o].scopeLocked /\ ~order[o].implemented
      /\ \A u \in Threads : thread[u].order # o \/ o \in overran
      /\ Reads(t, doing)
  BY DEF BeginRelease
<1>2. /\ doing.phase = "branches" /\ doing.order = o /\ doing.design = {}
      /\ doing.todo = designs \ order[o].merged
      /\ doing.merged = (designs \intersect order[o].merged # {})
      /\ \A i \in Items : doing.read[i] = "none"
  BY DEF Idle
<1>3. doing \in Doings
  <2>1. designs \subseteq Designs
    BY ItemsAssumption DEF DesignsOf
  <2> QED BY <2>1, IdleIsNoExecution DEF Doings, Idle
<1> HIDE DEF doing
<1>4. ReadsTrue(doing)
  BY <1>1, <1>2 DEF ReadsTrue
<1>5. Fresh(doing)
  <2>1. (doing.todo \union doing.design) \intersect order[o].merged = {}
    BY <1>2
  <2>2. ~doing.merged => \A i \in listed[o] : DesignOf[i] \notin order[o].merged
    <3>1. \A i \in listed[o] : i \in Items /\ DesignOf[i] \in designs
      BY DEF DesignsOf, MergeInv, RestOK
    <3> HIDE DEF designs
    <3> QED BY <1>2, <3>1
  <2> QED BY <1>1, <1>2, <2>1, <2>2 DEF Fresh
<1>6. OneDoing(t, doing)
  BY <1>1, ReadsIsOneDoing
<1> QED BY <1>1, <1>2, <1>3, <1>4, <1>5, <1>6, OneDoingStep DEF Claimed

LEMMA ValidateStep ==
  ASSUME MergeInv, NEW t \in Threads, NEW d \in Designs, Validate(t, d)
  PROVE  MergeInv'
<1> DEFINE skip == [thread[t] EXCEPT !.todo = @ \ {d}]
           pick == [thread[t] EXCEPT !.phase = "read", !.design = {d}]
<1>1. /\ thread[t] \in Doings /\ ReadsTrue(thread[t]) /\ Fresh(thread[t])
      /\ thread[t].phase = "branches" /\ d \in thread[t].todo
  BY DEF MergeInv, RestOK, ReadsStayTrue, ExecutionsAreFresh, Validate
<1>2. /\ thread[t].order \in Claimed =>
           \A u \in Threads : thread[u].order = thread[t].order => u = t
      /\ thread[t].order \in Orders
      /\ \A i \in Items : thread[t].read[i] = "none"
  BY <1>1 DEF MergeInv, OneExecution, ReadsTrue
<1>3. CASE Reads(t, skip)
  <2>1. skip \in Doings /\ skip.order = thread[t].order
    BY <1>1 DEF Doings
  <2>2. skip.todo \subseteq thread[t].todo
    BY <1>1 DEF Doings
  <2>3. /\ skip.phase = thread[t].phase /\ skip.read = thread[t].read
        /\ skip.design = thread[t].design /\ skip.merged = thread[t].merged
        /\ skip.remaining = thread[t].remaining
    BY <1>1 DEF Doings
  <2> HIDE DEF skip
  <2>4. ReadsTrue(skip)
    BY <1>1, <2>1, <2>3 DEF ReadsTrue
  <2>5. Fresh(skip)
    BY <1>1, <2>1, <2>2, <2>3 DEF Fresh
  <2> QED BY <1>2, <1>3, <2>1, <2>4, <2>5, OneDoingStep, ReadsIsOneDoing
<1>4. CASE Reads(t, pick)
  <2>1. pick \in Doings /\ pick.order = thread[t].order
    BY <1>1 DEF Doings
  <2>2. /\ pick.phase = "read" /\ pick.design = {d} /\ pick.read = thread[t].read
        /\ pick.todo = thread[t].todo /\ pick.merged = thread[t].merged
    BY <1>1 DEF Doings
  <2> HIDE DEF pick
  <2>3. ReadsTrue(pick)
    BY <1>1, <1>2, <2>1, <2>2 DEF ReadsTrue
  <2>4. Fresh(pick)
    BY <1>1, <2>1, <2>2 DEF Fresh
  <2> QED BY <1>2, <1>4, <2>1, <2>3, <2>4, OneDoingStep, ReadsIsOneDoing
<1> QED BY <1>3, <1>4, EndsStep DEF Validate

LEMMA ReadChangesStep ==
  ASSUME MergeInv, NEW t \in Threads, ReadChanges(t)
  PROVE  MergeInv'
<1> DEFINE o == thread[t].order
           changed == {i \in Items : \E d \in thread[t].design : i \in Changed(o, d)}
           read == [i \in Items |-> IF i \in changed THEN work[o][i].change ELSE "none"]
           doing == [thread[t] EXCEPT !.phase = "merge", !.read = read]
<1>throws. CASE Reads(t, Idle)
  BY <1>throws, EndsStep
<1>reads. SUFFICES ASSUME Reads(t, doing) PROVE MergeInv'
  BY <1>throws DEF ReadChanges
<1>1. /\ thread[t] \in Doings /\ ReadsTrue(thread[t]) /\ Fresh(thread[t])
      /\ thread[t].phase = "read" /\ Reads(t, doing)
  BY <1>reads DEF MergeInv, RestOK, ReadsStayTrue, ExecutionsAreFresh, ReadChanges
<1>2. o \in Orders /\ (o \in Claimed => \A u \in Threads : thread[u].order = o => u = t)
  BY <1>1 DEF MergeInv, OneExecution, ReadsTrue
<1>3. \A i \in Items :
        \/ read[i] = "none"
        \/ /\ read[i] = work[o][i].change /\ work[o][i].change \in Changes
           /\ DesignOf[i] \in thread[t].design
  BY DEF Changed
<1>4. read \in [Items -> Changes \union {"none"}]
  BY <1>3
<1> HIDE DEF read
<1>5. doing \in Doings /\ doing.order = o
  BY <1>1, <1>4 DEF Doings
<1>6. /\ doing.phase = "merge" /\ doing.read = read /\ doing.design = thread[t].design
      /\ doing.todo = thread[t].todo /\ doing.merged = thread[t].merged
  BY <1>1 DEF Doings
<1>7. ReadsTrue(doing)
  <2>1. ASSUME NEW i \in Items, read[i] # "none", read[i] # "added"
        PROVE  work[o][i].base # 0
    BY <1>2, <1>3, <2>1 DEF MergeInv, CopiesAreBased, Changes
  <2> HIDE DEF doing
  <2> QED BY <1>1, <1>2, <1>3, <1>5, <1>6, <2>1 DEF ReadsTrue, ChangedOrDropped
<1>8. Fresh(doing)
  <2> HIDE DEF doing
  <2> QED BY <1>1, <1>5, <1>6 DEF Fresh
<1> QED BY <1>1, <1>2, <1>5, <1>7, <1>8, OneDoingStep, ReadsIsOneDoing

(* What remains, the order has not released: what it has released has a change
   on a branch of it, or is not listed. *)
LEMMA ReadRemainingStep ==
  ASSUME MergeInv, NEW t \in Threads, ReadRemaining(t)
  PROVE  MergeInv'
<1> DEFINE o == thread[t].order
           handled == {i \in Items : work[o][i].change \in Changes}
           remaining == IF thread[t].merged THEN listed[o] \ handled ELSE listed[o]
           doing == [thread[t] EXCEPT !.phase = "remaining", !.remaining = remaining]
<1>throws. CASE Reads(t, Idle)
  BY <1>throws, EndsStep
<1>reads. SUFFICES ASSUME Reads(t, doing) PROVE MergeInv'
  BY <1>throws DEF ReadRemaining
<1>1. /\ thread[t] \in Doings /\ ReadsTrue(thread[t]) /\ Fresh(thread[t])
      /\ thread[t].phase = "branches"
  BY DEF MergeInv, RestOK, ReadsStayTrue, ExecutionsAreFresh, ReadRemaining
<1>2. /\ o \in Orders /\ listed[o] \subseteq Items
      /\ o \in Claimed => \A u \in Threads : thread[u].order = o => u = t
  BY <1>1 DEF MergeInv, OneExecution, ReadsTrue, RestOK
<1>3. o \in Claimed => \A i \in remaining : ~ReleasedBy(o, i)
  <2>1. CASE thread[t].merged
    BY <1>1, <1>2, <2>1 DEF MergeInv, ReleasesAreRecorded, Fresh, ChangedOrDropped
  <2>2. CASE ~thread[t].merged
    BY <1>1, <1>2, <2>2 DEF MergeInv, ReleasesAreRecorded, Fresh
  <2> QED BY <2>1, <2>2
<1>4. remaining \subseteq Items
  BY <1>2
<1> HIDE DEF remaining
<1>5. doing \in Doings /\ doing.order = o
  BY <1>1, <1>4 DEF Doings
<1>6. /\ doing.phase = "remaining" /\ doing.read = thread[t].read
      /\ doing.design = thread[t].design /\ doing.todo = thread[t].todo
      /\ doing.merged = thread[t].merged /\ doing.remaining = remaining
  BY <1>1 DEF Doings
<1> HIDE DEF doing
<1>7. ReadsTrue(doing)
  BY <1>1, <1>2, <1>5, <1>6 DEF ReadsTrue
<1>8. Fresh(doing)
  BY <1>1, <1>3, <1>5, <1>6 DEF Fresh
<1> QED BY <1>reads, <1>2, <1>5, <1>7, <1>8, OneDoingStep, ReadsIsOneDoing

(* An execution that outlives its claim only leaves the orders under one. *)
LEMMA OverrunStep ==
  ASSUME MergeInv, NEW t \in Threads, Overrun(t)
  PROVE  MergeInv'
<1>1. /\ UNCHANGED <<lineage, tracked, work, listed, order, thread, edits>>
      /\ overran' \subseteq Orders /\ overran \subseteq overran' /\ faults' \in Nat
  BY DEF Overrun, MergeInv, RestOK, ReadsStayTrue, ReadsTrue
<1>2. Claimed' \subseteq Claimed
  BY <1>1 DEF Claimed
<1>3. (\A i \in Items : LineOK(i) /\ MainIsLive(i))'
  BY <1>1 DEF MergeInv, LineOK, InService, MainIsLive, Deleted
<1>4. CopiesOK' /\ CopiesAreBased' /\ RestOK'
  BY <1>1 DEF MergeInv, CopiesOK, CopiesAreBased, RestOK
<1>5. ReadsStayTrue'
  BY <1>1 DEF MergeInv, ReadsStayTrue, ReadsTrue, ChangedOrDropped
<1>6. OneExecution'
  BY <1>1, <1>2 DEF MergeInv, OneExecution
<1>7. ExecutionsAreFresh'
  BY <1>1, <1>2 DEF MergeInv, ExecutionsAreFresh, Fresh, ReleasedBy
<1>8. ReleasesAreRecorded' /\ ReleasedOnce'
  BY <1>1, <1>2 DEF MergeInv, ReleasesAreRecorded, ReleasedOnce, ReleasedBy,
                    ChangedOrDropped
<1> QED BY <1>3, <1>4, <1>5, <1>6, <1>7, <1>8 DEF MergeInv

-----------------------------------------------------------------------------
(* Engineers: a change stays a change, on the base it was made from, unless an
   added item is dropped, and unlisted with it. *)

CopyStep(o, i, w) ==
  /\ w \in Work /\ w.base <= Len(lineage[i])
  /\ w.change \in {"none", "modified", "deleted"} => w.base # 0
  /\ w.change \in {"untracked", "none"} => ~w.deleted
  /\ w.formal \in {0, work[o][i].formal}
  /\ work[o][i].deleted => w.deleted
  /\ work[o][i].change \in Changes =>
       /\ w.change \in Changes \/ (w.change = "dropped" /\ i \notin listed'[o])
       /\ w.base = work[o][i].base
  /\ work[o][i].change = "dropped" => w.change = "dropped" /\ w.base = work[o][i].base

EditStep ==
  /\ UNCHANGED <<lineage, tracked, order, thread, overran, faults>> /\ edits' \in Nat
  /\ work' \in [Orders -> [Items -> Work]]
  /\ \A o \in Orders, i \in Items : CopyStep(o, i, work'[o][i])
  /\ listed' \in [Orders -> SUBSET Items]
  /\ \A o \in Orders : order[o].scopeLocked => listed'[o] \subseteq listed[o]

LEMMA CopyStays ==
  ASSUME MergeInv, NEW o \in Orders, NEW i \in Items
  PROVE  work[o][i] \in Work /\ CopyStep(o, i, work[o][i])
  BY DEF MergeInv, CopiesOK, CopiesAreBased, CopyStep, Work

LEMMA OneCopyStep ==
  ASSUME MergeInv, NEW o \in Orders, NEW i \in Items, NEW w, CopyStep(o, i, w),
         work' = [work EXCEPT ![o][i] = w]
  PROVE  /\ work' \in [Orders -> [Items -> Work]]
         /\ \A p \in Orders, k \in Items : CopyStep(p, k, work'[p][k])
<1>1. work \in [Orders -> [Items -> Work]] /\ w \in Work
  BY DEF MergeInv, CopiesOK, CopyStep
<1>2. \A p \in Orders, k \in Items :
        work'[p][k] = IF p = o /\ k = i THEN w ELSE work[p][k]
  BY <1>1
<1>3. work' \in [Orders -> [Items -> Work]]
  BY <1>1
<1> QED BY <1>2, <1>3, CopyStays

LEMMA EngineerEdits ==
  ASSUME MergeInv, NEW o \in Orders, NEW i \in Items, Engineer(o, i)
  PROVE  EditStep
<1>1. /\ work \in [Orders -> [Items -> Work]]
      /\ listed \in [Orders -> SUBSET Items] /\ edits \in Nat
      /\ LineOK(i) /\ work[o][i] \in Work /\ CopyStep(o, i, work[o][i])
  BY CopyStays DEF MergeInv, CopiesOK, RestOK
<1>2. ASSUME NEW w, Edit(o, i, w), CopyStep(o, i, w),
             \/ UNCHANGED listed
             \/ listed' = [listed EXCEPT ![o] = @ \ {i}]
             \/ /\ ~order[o].scopeLocked
                /\ listed' = [listed EXCEPT ![o] = @ \union {i}]
      PROVE  EditStep
  <2>1. /\ work' = [work EXCEPT ![o][i] = w] /\ edits' \in Nat
        /\ UNCHANGED <<lineage, tracked, order, thread, overran, faults>>
    BY <1>1, <1>2 DEF Edit
  <2>2. /\ listed' \in [Orders -> SUBSET Items]
        /\ \A p \in Orders : order[p].scopeLocked => listed'[p] \subseteq listed[p]
    BY <1>1, <1>2
  <2> QED BY <1>2, <2>1, <2>2, OneCopyStep DEF EditStep
<1>3. CASE Checkout(o, i)
  <2>1. PICK r \in Live(i) : work' = [work EXCEPT ![o][i] =
               [change |-> "none", base |-> r, formal |-> 0,
                content |-> Content(i, r), deleted |-> FALSE]]
    BY <1>3 DEF Checkout
  <2> DEFINE w == [change |-> "none", base |-> r, formal |-> 0,
                   content |-> Content(i, r), deleted |-> FALSE]
  <2>2. /\ r \in 1 .. Len(lineage[i]) /\ lineage[i][r] \in Rows
        /\ ~order[o].scopeLocked /\ work[o][i].change = "untracked"
        /\ listed' = [listed EXCEPT ![o] = @ \union {i}]
        /\ UNCHANGED <<lineage, tracked, order, thread, overran, edits, faults>>
    BY <1>1, <1>3 DEF Checkout, LineOK, Live
  <2>3. w \in Work
    BY <2>2 DEF Work, Rows, Content
  <2>4. ~work[o][i].deleted
    BY <2>2 DEF MergeInv, CopiesAreBased
  <2>5. CopyStep(o, i, w)
    BY <2>2, <2>3, <2>4 DEF CopyStep, Changes
  <2> HIDE DEF w
  <2>6. work' = [work EXCEPT ![o][i] = w]
    BY <2>1 DEF w
  <2>7. /\ listed' \in [Orders -> SUBSET Items] /\ edits' \in Nat
        /\ \A p \in Orders : order[p].scopeLocked => listed'[p] \subseteq listed[p]
    BY <1>1, <2>2
  <2> QED BY <2>2, <2>5, <2>6, <2>7, OneCopyStep DEF EditStep
<1>4. CASE List(o, i)
  <2>1. /\ ~order[o].scopeLocked
        /\ listed' = [listed EXCEPT ![o] = @ \union {i}]
        /\ UNCHANGED <<lineage, tracked, work, order, thread, overran, edits, faults>>
    BY <1>4 DEF List
  <2>2. /\ listed' \in [Orders -> SUBSET Items] /\ edits' \in Nat
        /\ \A p \in Orders : order[p].scopeLocked => listed'[p] \subseteq listed[p]
    BY <1>1, <2>1
  <2> QED BY <1>1, <2>1, <2>2, CopyStays DEF EditStep
<1>5. ASSUME NEW c \in Contents, Create(o, i, c) PROVE EditStep
  <2> DEFINE w == [change |-> "added", base |-> 0, content |-> c, formal |-> 0,
                   deleted |-> FALSE]
  <2>1. /\ w \in Work /\ work[o][i].change = "untracked" /\ Len(lineage[i]) \in Nat
        /\ ~work[o][i].deleted
    BY <1>1, <1>5 DEF Create, Work, Changes, LineOK, MergeInv, CopiesAreBased
  <2>2. CopyStep(o, i, w)
    BY <2>1 DEF CopyStep, Changes
  <2> QED BY <1>2, <1>5, <2>2 DEF Create
<1>6. ASSUME NEW c \in Contents, Save(o, i, c) PROVE EditStep
  <2> DEFINE w == [work[o][i] EXCEPT
                     !.content = c,
                     !.change = IF @ = "added" THEN @ ELSE "modified",
                     !.deleted = IF work[o][i].change = "none"
                                 THEN lineage[i][work[o][i].base].deleted ELSE @]
  <2>1. /\ work[o][i].change \in {"none", "added", "modified"}
        /\ Edit(o, i, w) /\ UNCHANGED listed
    BY <1>6 DEF Save
  <2>2. /\ w.base = work[o][i].base /\ w.formal = work[o][i].formal
        /\ w.change = (IF work[o][i].change = "added" THEN "added" ELSE "modified")
        /\ w.deleted = IF work[o][i].change = "none"
                       THEN lineage[i][work[o][i].base].deleted ELSE work[o][i].deleted
    BY <1>1 DEF Work
  <2>copied. work[o][i].change = "none" => /\ ~work[o][i].deleted
                                          /\ lineage[i][work[o][i].base].deleted \in BOOLEAN
    <3> SUFFICES ASSUME work[o][i].change = "none"
                 PROVE  /\ ~work[o][i].deleted
                        /\ lineage[i][work[o][i].base].deleted \in BOOLEAN
      OBVIOUS
    <3>1. work[o][i].base \in 1 .. Len(lineage[i]) /\ ~work[o][i].deleted
      BY <1>1 DEF MergeInv, CopiesOK, CopiesAreBased, Work
    <3>2. lineage[i][work[o][i].base] \in Rows
      BY <1>1, <3>1 DEF LineOK
    <3> QED BY <3>1, <3>2 DEF Rows
  <2>typed. w \in Work
    BY <1>1, <2>copied DEF Work, Changes
  <2> HIDE DEF w
  <2>3. CopyStep(o, i, w)
    BY <1>1, <2>1, <2>2, <2>copied, <2>typed DEF CopyStep, Changes
  <2> QED BY <1>2, <2>1, <2>3
<1>7. CASE Delete(o, i)
  <2> DEFINE w == [work[o][i] EXCEPT !.change = "deleted"]
  <2>1. /\ work[o][i].change \in {"none", "modified"}
        /\ Edit(o, i, w) /\ UNCHANGED listed
    BY <1>7 DEF Delete
  <2>2. /\ w.base = work[o][i].base /\ w.formal = work[o][i].formal
        /\ w.change = "deleted" /\ w.deleted = work[o][i].deleted /\ w \in Work
    BY <1>1 DEF Work, Changes
  <2> HIDE DEF w
  <2>3. CopyStep(o, i, w)
    BY <1>1, <2>1, <2>2 DEF CopyStep, Changes
  <2> QED BY <1>2, <2>1, <2>3
<1>8. CASE Drop(o, i)
  <2> DEFINE w == [work[o][i] EXCEPT !.change = "dropped", !.deleted = TRUE]
  <2>1. /\ work[o][i].change = "added" /\ Edit(o, i, w)
        /\ listed' = [listed EXCEPT ![o] = @ \ {i}] /\ i \notin listed'[o]
    BY <1>1, <1>8 DEF Drop
  <2>2. /\ w.base = work[o][i].base /\ w.formal = work[o][i].formal
        /\ w.change = "dropped" /\ w.deleted /\ w \in Work
    BY <1>1 DEF Work, Changes
  <2> HIDE DEF w
  <2>3. CopyStep(o, i, w)
    BY <1>1, <2>1, <2>2 DEF CopyStep, Changes
  <2> QED BY <1>2, <2>1, <2>3
<1> QED BY <1>3, <1>4, <1>5, <1>6, <1>7, <1>8 DEF Engineer

LEMMA EditStepKeeps ==
  ASSUME MergeInv, EditStep
  PROVE  MergeInv'
<1>1. UNCHANGED <<lineage, tracked, order, thread, overran, faults>>
  BY DEF EditStep
<1>2. \A o \in Orders, i \in Items :
        /\ work'[o][i].base <= Len(lineage[i])
        /\ work'[o][i].change \in {"none", "modified", "deleted"} => work'[o][i].base # 0
        /\ work'[o][i].change \in {"untracked", "none"} => ~work'[o][i].deleted
        /\ work'[o][i].formal \in {0, work[o][i].formal}
        /\ work[o][i].deleted => work'[o][i].deleted
  BY DEF EditStep, CopyStep
<1>changed. \A o \in Orders, i \in Items :
              order[o].scopeLocked /\ ChangedOrDropped(o, i) =>
                ChangedOrDropped(o, i)' /\ work'[o][i].base = work[o][i].base
  BY DEF EditStep, CopyStep, ChangedOrDropped
<1>lines. (\A i \in Items : LineOK(i))'
  BY <1>1 DEF MergeInv, LineOK, InService
<1>3. (\A i \in Items : LineOK(i) /\ MainIsLive(i))'
  <2>1. ASSUME NEW i \in Items PROVE MainIsLive(i)'
    BY <1>1, <1>2, LiveStep DEF MergeInv, ItemStep, Untouched
  <2> QED BY <1>lines, <2>1
<1>4. CopiesOK' /\ CopiesAreBased' /\ RestOK'
  BY <1>1, <1>2 DEF EditStep, MergeInv, CopiesOK, CopiesAreBased, RestOK
<1>5. ReadsStayTrue'
  <2>1. ASSUME NEW t \in Threads PROVE ReadsTrue(thread[t])'
    <3>1. ReadsTrue(thread[t]) /\ thread'[t] = thread[t]
      BY <1>1 DEF MergeInv, ReadsStayTrue
    <3> QED BY <1>1, <1>changed, <3>1 DEF ReadsTrue
  <2> QED BY <2>1 DEF ReadsStayTrue
<1>6. OneExecution' /\ ReleasedOnce'
  BY <1>1 DEF MergeInv, OneExecution, ReleasedOnce, Claimed
<1>7. ExecutionsAreFresh'
  <2>1. ASSUME NEW t \in Threads PROVE Fresh(thread[t])'
    <3>1. Fresh(thread[t]) /\ (thread[t].order \in Claimed => thread[t].order \in Orders)
      BY DEF MergeInv, ExecutionsAreFresh, Claimed
    <3> QED BY <1>1, <3>1 DEF Fresh, Claimed, ReleasedBy, EditStep
  <2> QED BY <2>1 DEF ExecutionsAreFresh
<1>8. ReleasesAreRecorded'
  BY <1>1, <1>changed DEF MergeInv, ReleasesAreRecorded, Claimed, ReleasedBy
<1> QED BY <1>3, <1>4, <1>5, <1>6, <1>7, <1>8 DEF MergeInv

LEMMA LockStep ==
  ASSUME MergeInv, NEW o \in Orders, LockScope(o)
  PROVE  MergeInv'
<1>1. /\ UNCHANGED <<lineage, tracked, work, listed, thread, overran, edits, faults>>
      /\ order' = [order EXCEPT ![o].scopeLocked = TRUE]
  BY DEF LockScope
<1>2. \A p \in Orders : /\ order[p].scopeLocked => order'[p].scopeLocked
                        /\ order'[p].implemented = order[p].implemented
                        /\ order'[p].merged = order[p].merged
  BY <1>1 DEF MergeInv, RestOK
<1>3. (\A i \in Items : LineOK(i) /\ MainIsLive(i))'
  BY <1>1 DEF MergeInv, LineOK, InService, MainIsLive, Deleted
<1>4. CopiesOK' /\ CopiesAreBased' /\ RestOK'
  <2>1. CopiesOK'
    BY <1>1 DEF MergeInv, CopiesOK
  <2>2. CopiesAreBased'
    BY <1>1, <1>2 DEF MergeInv, CopiesAreBased
  <2>3. RestOK'
    BY <1>1 DEF MergeInv, RestOK
  <2> QED BY <2>1, <2>2, <2>3
<1>5. ReadsStayTrue' /\ OneExecution' /\ ReleasedOnce'
  <2>1. ReadsStayTrue'
    BY <1>1, <1>2 DEF MergeInv, ReadsStayTrue, ReadsTrue, ChangedOrDropped
  <2>2. OneExecution' /\ ReleasedOnce'
    BY <1>1 DEF MergeInv, OneExecution, ReleasedOnce, Claimed
  <2> QED BY <2>1, <2>2
<1>6. ExecutionsAreFresh'
  BY <1>1, <1>2 DEF MergeInv, ExecutionsAreFresh, Fresh, ReleasedBy, Claimed
<1>7. ReleasesAreRecorded'
  BY <1>1, <1>2 DEF MergeInv, ReleasesAreRecorded, Claimed, ReleasedBy, ChangedOrDropped
<1> QED BY <1>3, <1>4, <1>5, <1>6, <1>7 DEF MergeInv

-----------------------------------------------------------------------------
(* Releases *)

Once(i) == \A r, s \in DOMAIN lineage[i] :
             r # s /\ lineage[i][r].by = lineage[i][s].by
               => lineage[i][r].by \in overran \union {Nobody}

LEMMA ReleasersKept ==
  ASSUME NEW i \in Items, LineOK(i), Once(i), UNCHANGED overran,
         Untouched(i) \/ \E b \in Nat : Retired(i, b)
  PROVE  Once(i)' /\ \A p \in Orders : ReleasedBy(p, i)' <=> ReleasedBy(p, i)
<1>1. lineage[i] \in Seq(Rows) /\ DOMAIN lineage[i] = 1 .. Len(lineage[i])
  BY DEF LineOK
<1>2. /\ DOMAIN lineage'[i] = DOMAIN lineage[i]
      /\ \A r \in DOMAIN lineage[i] : lineage'[i][r].by = lineage[i][r].by
  <2>1. CASE Untouched(i)
    BY <2>1 DEF Untouched
  <2>2. ASSUME NEW b \in Nat, Retired(i, b) 
      PROVE  /\ DOMAIN lineage'[i] = DOMAIN lineage[i]
             /\ \A r \in DOMAIN lineage[i] : lineage'[i][r].by = lineage[i][r].by
    <3>1. \A r \in 1 .. Len(lineage[i]) : lineage[i][r] \in Rows
      BY <1>1
    <3>2. /\ DOMAIN lineage'[i] = 1 .. Len(lineage[i])
          /\ \A r \in 1 .. Len(lineage[i]) :
               \/ lineage'[i][r] = lineage[i][r]
               \/ lineage'[i][r] = [lineage[i][r] EXCEPT !.deleted = TRUE]
      BY <1>1, <2>2, RetiredRows
    <3>3. \A r \in 1 .. Len(lineage[i]) : lineage'[i][r].by = lineage[i][r].by
      BY <3>1, <3>2 DEF Rows
    <3> QED BY <1>1, <3>2, <3>3
  <2> QED BY <2>1, <2>2
<1> QED BY <1>2 DEF Once, ReleasedBy

LEMMA ReleasersGrow ==
  ASSUME NEW i \in Items, LineOK(i), Once(i), UNCHANGED overran,
         NEW o \in Orders, NEW c \in Contents, NEW on \in Contents,
         NEW deleted \in BOOLEAN, Released(i, o, c, on, deleted), o \in Claimed => ~ReleasedBy(o, i)
  PROVE  Once(i)' /\ \A p \in Orders : ReleasedBy(p, i)' => ReleasedBy(p, i) \/ p = o
<1> DEFINE n == Len(lineage[i])
<1>1. n \in Nat /\ lineage[i] \in Seq(Rows) /\ DOMAIN lineage[i] = 1 .. n
  BY DEF LineOK
<1>2. /\ DOMAIN lineage'[i] = 1 .. n + 1
      /\ lineage'[i][n + 1] = NewRow(c, o, on, deleted)
      /\ \A r \in 1 .. n : lineage'[i][r] = [lineage[i][r] EXCEPT !.current = FALSE]
  BY <1>1, ReleasedRows
<1>3. \A r \in 1 .. n : lineage[i][r] \in Rows
  BY <1>1
<1>4. /\ lineage'[i][n + 1].by = o
      /\ \A r \in 1 .. n : lineage'[i][r].by = lineage[i][r].by
  <2>1. lineage'[i][n + 1].by = o
    BY <1>2 DEF NewRow
  <2>2. \A r \in 1 .. n : lineage'[i][r].by = lineage[i][r].by
    BY <1>2, <1>3 DEF Rows
  <2> QED BY <2>1, <2>2
<1>5. \A r \in 1 .. n + 1 : r = n + 1 \/ r \in 1 .. n
  BY <1>1
<1>6. \A p \in Orders : ReleasedBy(p, i)' => ReleasedBy(p, i) \/ p = o
  BY <1>1, <1>2, <1>4, <1>5 DEF ReleasedBy
<1>7. o \in overran \/ \A r \in 1 .. n : lineage[i][r].by # o
  BY <1>1 DEF Claimed, ReleasedBy
<1>8. Once(i)'
  BY <1>1, <1>2, <1>4, <1>5, <1>7 DEF Once
<1> QED BY <1>6, <1>8

LEMMA OnceIsReleasedOnce == ReleasedOnce <=> \A i \in Items : Once(i)
  BY DEF ReleasedOnce, Once

LEMMA MergeBranchStep ==
  ASSUME MergeInv, NEW t \in Threads, MergeBranch(t)
  PROVE  MergeInv'
<1> DEFINE o == thread[t].order
           read == thread[t].read
           design == thread[t].design
           after == [thread[t] EXCEPT !.phase = "branches", !.merged = TRUE,
                                      !.todo = @ \ design, !.design = {},
                                      !.read = Idle.read]
<1>1. /\ thread[t] \in Doings /\ ReadsTrue(thread[t]) /\ Fresh(thread[t])
      /\ thread[t].phase = "merge" /\ thread \in [Threads -> Doings]
      /\ UNCHANGED <<listed, overran, edits, faults>>
      /\ thread' = [thread EXCEPT ![t] = after]
  BY DEF MergeInv, RestOK, ReadsStayTrue, ExecutionsAreFresh, MergeBranch, Moves
<1>2. o \in Orders /\ (o \in Claimed => \A u \in Threads : thread[u].order = o => u = t)
  BY <1>1 DEF MergeInv, OneExecution, ReadsTrue
<1>3. /\ after \in Doings /\ after.order = o /\ after.phase = "branches"
      /\ after.merged = TRUE /\ after.todo = thread[t].todo \ design
      /\ after.design = {} /\ \A i \in Items : after.read[i] = "none"
  BY <1>1 DEF Doings, Idle
<1> HIDE DEF after
<1>4. \A u \in Threads : thread'[u] = IF u = t THEN after ELSE thread[u]
  BY <1>1
(* The branch. *)
<1>5. /\ order' = [order EXCEPT ![o].merged = @ \union design,
                                ![o].archived = @ \union design]
      /\ order \in [Orders -> [scopeLocked: BOOLEAN, implemented: BOOLEAN,
                                merged: SUBSET Designs, archived: SUBSET Designs]]
      /\ design \subseteq Designs
  BY <1>1 DEF MergeBranch, MergeInv, RestOK, Doings
<1>6. /\ order' \in [Orders -> [scopeLocked: BOOLEAN, implemented: BOOLEAN,
                                 merged: SUBSET Designs, archived: SUBSET Designs]]
      /\ \A p \in Orders : p # o => order'[p] = order[p]
      /\ order'[o].merged = order[o].merged \union design
      /\ order'[o].scopeLocked = order[o].scopeLocked
      /\ order'[o].implemented = order[o].implemented
  BY <1>2, <1>5
(* The rows of the items. *)
<1>7. \A i \in Items :
        \/ Untouched(i)
        \/ \E b \in Nat : Retired(i, b)
        \/ /\ read[i] \in {"added", "modified"}
           /\ work[o][i].content \in Contents /\ BaseContent(o, i) \in Contents
           /\ CopyDeleted(o, i, read[i]) \in BOOLEAN
           /\ Released(i, o, work[o][i].content, BaseContent(o, i), CopyDeleted(o, i, read[i]))
           /\ CopyDeleted(o, i, read[i]) => Deleted(o, i)
           /\ Len(lineage[i]) # 0 => \/ BaseContent(o, i) = Content(i, Len(lineage[i]))
                                     \/ o \in overran
  <2>1. TAKE i \in Items
  <2>2. read[i] = "none" \/ read[i] = "deleted" \/ read[i] \in {"added", "modified"}
    BY <1>1 DEF Doings, Changes
  <2>3. CASE read[i] = "none"
    BY <2>3, MergeRows
  <2>4. CASE read[i] = "deleted"
    <3>1. Retired(i, work[o][i].base)
      BY <2>4, MergeRows
    <3>2. work[o][i].base \in Nat
      BY <1>2, CopyStays DEF Work
    <3> QED BY <3>1, <3>2
  <2>5. CASE read[i] \in {"added", "modified"}
    BY <2>5, MergeRows, MergeBuildsOn, MergeDeletes
  <2> QED BY <2>2, <2>3, <2>4, <2>5
<1>8. \A i \in Items : LineOK(i) /\ Once(i) /\ ItemStep(i)
  BY <1>2, <1>7, OnceIsReleasedOnce DEF MergeInv, ItemStep
<1>9. \A i \in Items : /\ LineOK(i)'
                       /\ Len(lineage[i]) \in Nat /\ Len(lineage'[i]) \in Nat
                       /\ Len(lineage[i]) <= Len(lineage'[i])
  BY <1>1, <1>8, LineStep
(* The copies of the branch. *)
<1>10. /\ work \in [Orders -> [Items -> Work]]
       /\ work' = [work EXCEPT ![o] = [i \in Items |->
                     IF read[i] = "modified" /\ work[o][i].formal = 0
                     THEN [work[o][i] EXCEPT !.formal = NextRevision(o, i, read[i])]
                     ELSE work[o][i]]]
  BY DEF MergeBranch, MergeInv, CopiesOK
<1>11. \A i \in Items : NextRevision(o, i, read[i]) \in Nat
  <2>1. TAKE i \in Items
  <2>2. work[o][i].formal \in Nat /\ tracked[i] \in Nat
    BY <1>2, <1>10 DEF MergeInv, LineOK, Work
  <2> QED BY <2>2 DEF NextRevision
<1>12. \A p \in Orders, i \in Items :
         \/ work'[p][i] = work[p][i]
         \/ /\ p = o /\ read[i] = "modified"
            /\ work'[p][i] = [work[p][i] EXCEPT !.formal = NextRevision(o, i, read[i])]
  BY <1>2, <1>10
<1>13. \A p \in Orders, i \in Items :
         /\ work'[p][i] \in Work
         /\ work'[p][i].base = work[p][i].base /\ work'[p][i].change = work[p][i].change
         /\ work'[p][i].deleted = work[p][i].deleted
         /\ work'[p][i].formal = work[p][i].formal \/ (p = o /\ read[i] = "modified")
  <2>1. TAKE p \in Orders, i \in Items
  <2>2. work[p][i] \in Work
    BY <1>10
  <2>3. ASSUME NEW n \in Nat, work'[p][i] = [work[p][i] EXCEPT !.formal = n]
        PROVE  /\ work'[p][i] \in Work
               /\ work'[p][i].base = work[p][i].base
               /\ work'[p][i].change = work[p][i].change
               /\ work'[p][i].deleted = work[p][i].deleted
    BY <2>2, <2>3 DEF Work
  <2> QED BY <1>11, <1>12, <2>2, <2>3
<1>14. work' \in [Orders -> [Items -> Work]]
  BY <1>10, <1>13
<1>15. \A i \in Items : read[i] # "none" =>
         ChangedOrDropped(o, i) /\ DesignOf[i] \in design
  BY <1>1 DEF ReadsTrue
<1>same. \A p \in Orders, i \in Items : ChangedOrDropped(p, i)' <=> ChangedOrDropped(p, i)
  BY <1>1, <1>13 DEF ChangedOrDropped
<1>live. \A i \in Items : MainIsLive(i)'
  BY <1>1, <1>8, <1>13, LiveStep DEF MergeInv
<1>16. CopiesOK'
  <2>1. ASSUME NEW p \in Orders, NEW i \in Items
        PROVE  work'[p][i].base <= Len(lineage'[i])
    <3>1. work[p][i].base \in Nat /\ work[p][i].base <= Len(lineage[i])
      BY <1>10 DEF MergeInv, CopiesOK, Work
    <3> QED BY <1>9, <1>13, <3>1
  <2> QED BY <1>14, <2>1 DEF CopiesOK
<1>17. CopiesAreBased'
  <2>1. \A p \in Orders : order[p].merged \subseteq order'[p].merged
    BY <1>6
  <2> QED BY <1>6, <1>13, <1>15, <2>1 DEF MergeInv, CopiesAreBased
<1>18. RestOK'
  BY <1>1, <1>3, <1>6 DEF MergeInv, RestOK
<1>19. ReadsStayTrue'
  <2>1. ReadsTrue(thread[t])'
    BY <1>1, <1>2, <1>3, <1>4, <1>6 DEF ReadsTrue
  <2>2. ASSUME NEW u \in Threads, u # t PROVE ReadsTrue(thread[u])'
    <3>1. ReadsTrue(thread[u]) /\ thread'[u] = thread[u]
      BY <1>4, <2>2 DEF MergeInv, ReadsStayTrue
    <3>2. \A p \in Orders : order'[p].scopeLocked = order[p].scopeLocked
      BY <1>6
    <3> QED BY <1>13, <1>same, <3>1, <3>2 DEF ReadsTrue
  <2> QED BY <2>1, <2>2 DEF ReadsStayTrue
<1>20. OneExecution'
  BY <1>1, <1>3, <1>4 DEF MergeInv, OneExecution, Claimed
(* What the order has released. *)
<1>21. ASSUME NEW i \in Items
       PROVE  /\ Once(i)'
              /\ \A p \in Orders : ReleasedBy(p, i)' =>
                   ReleasedBy(p, i) \/ (p = o /\ read[i] \in {"added", "modified"})
  <2>1. CASE Untouched(i) \/ \E b \in Nat : Retired(i, b)
    BY <1>1, <1>8, <2>1, ReleasersKept
  <2>2. CASE /\ read[i] \in {"added", "modified"}
             /\ work[o][i].content \in Contents /\ BaseContent(o, i) \in Contents
             /\ CopyDeleted(o, i, read[i]) \in BOOLEAN
             /\ Released(i, o, work[o][i].content, BaseContent(o, i), CopyDeleted(o, i, read[i]))
    <3>1. o \in Claimed => ~ReleasedBy(o, i)
      <4>1. SUFFICES ASSUME o \in Claimed, ReleasedBy(o, i) PROVE FALSE
        OBVIOUS
      <4>2. DesignOf[i] \in order[o].merged
        BY <1>1, <4>1 DEF MergeInv, ReleasesAreRecorded, Fresh
      <4>3. design \intersect order[o].merged = {}
        BY <1>1, <4>1 DEF Fresh
      <4> QED BY <1>15, <2>2, <4>2, <4>3
    <3> QED BY <1>1, <1>2, <1>8, <2>2, <3>1, ReleasersGrow
  <2> QED BY <1>7, <2>1, <2>2
<1>22. ReleasedOnce'
  <2>1. \A i \in Items : Once(i)'
    BY <1>21
  <2> QED BY <2>1 DEF ReleasedOnce, Once
<1>23. ReleasesAreRecorded'
  BY <1>1, <1>6, <1>15, <1>same, <1>21 DEF MergeInv, ReleasesAreRecorded, Claimed, ReadsTrue
<1>24. ExecutionsAreFresh'
  <2>1. ASSUME NEW u \in Threads, u # t PROVE Fresh(thread[u])'
    <3>1. Fresh(thread[u])
      BY DEF MergeInv, ExecutionsAreFresh
    <3>2. thread[u].order \in Claimed => thread[u].order \in Orders /\ thread[u].order # o
      BY <1>2, <2>1 DEF Claimed
    <3>3. thread[u].remaining \subseteq Items
      BY <1>1 DEF Doings
    <3> QED BY <1>1, <1>4, <1>6, <1>21, <2>1, <3>1, <3>2, <3>3 DEF Fresh, Claimed
  <2>2. Fresh(thread[t])'
    <3>1. o \in Claimed =>
            /\ order'[o].scopeLocked /\ ~order'[o].implemented
            /\ (after.todo \union after.design) \intersect order'[o].merged = {}
      BY <1>1, <1>3, <1>6 DEF Fresh
    <3> QED BY <1>1, <1>3, <1>4, <3>1 DEF Fresh, Claimed
  <2> QED BY <2>1, <2>2 DEF ExecutionsAreFresh
<1> QED BY <1>9, <1>live, <1>16, <1>17, <1>18, <1>19, <1>20, <1>22, <1>23, <1>24 DEF MergeInv

(* Either pass over the affected items, when the order has released none of
   those it revises. *)
LEMMA ApplyStep ==
  ASSUME MergeInv, NEW t \in Threads, NEW S, thread[t].phase # "idle", Apply(t, S),
         thread[t].order \in Claimed => \A i \in S : ~ReleasedBy(thread[t].order, i)
  PROVE  MergeInv'
<1> DEFINE o == thread[t].order
           done == \A i \in S : CanRevise(i)
           archived == IF thread[t].merged THEN {} ELSE DesignsOf(o)
<1>0. archived \subseteq Designs
  BY ItemsAssumption DEF DesignsOf
<1>1. /\ thread \in [Threads -> Doings] /\ thread' = [thread EXCEPT ![t] = Idle]
      /\ UNCHANGED <<work, listed, overran, edits, faults>>
  BY DEF MergeInv, RestOK, Apply, Moves
<1>2. o \in Orders /\ (o \in Claimed => \A u \in Threads : thread[u].order = o => u = t)
  BY DEF MergeInv, OneExecution, ReadsStayTrue, ReadsTrue
<1>3. \A u \in Threads : thread'[u] = IF u = t THEN Idle ELSE thread[u]
  BY <1>1
<1>types. order \in [Orders -> [scopeLocked: BOOLEAN, implemented: BOOLEAN,
                            merged: SUBSET Designs, archived: SUBSET Designs]]
  BY DEF MergeInv, RestOK
<1>4. /\ order' \in [Orders -> [scopeLocked: BOOLEAN, implemented: BOOLEAN,
                                 merged: SUBSET Designs, archived: SUBSET Designs]]
      /\ \A p \in Orders : p # o => order'[p] = order[p]
      /\ order'[o].merged = order[o].merged
      /\ order'[o].scopeLocked = order[o].scopeLocked
      /\ done => order'[o].implemented
  <2>1. CASE done
    <3>1. order' = [order EXCEPT ![o].implemented = TRUE, ![o].archived = @ \union archived]
      BY <2>1 DEF Apply
    <3> HIDE DEF archived
    <3> QED BY <1>types, <1>0, <1>2, <3>1
  <2>2. CASE ~done
    <3>1. order' = order
      BY <2>2 DEF Apply
    <3> QED BY <1>types, <2>2, <3>1
  <2> QED BY <2>1, <2>2
<1>merged. \A p \in Orders : /\ order'[p].merged = order[p].merged
                              /\ order'[p].scopeLocked = order[p].scopeLocked
  BY <1>4
<1>refused. ~done => order' = order
  BY DEF Apply
<1>5. \A i \in Items :
        \/ Untouched(i)
        \/ /\ i \in S /\ done /\ Len(lineage[i]) # 0
           /\ Content(i, Len(lineage[i])) \in Contents
           /\ Released(i, o, Content(i, Len(lineage[i])), Content(i, Len(lineage[i])), FALSE)
  <2>1. ~done => \A i \in Items : Untouched(i)
    BY DEF Apply, Untouched
  <2> QED BY <2>1, ApplyRows
<1>6. \A i \in Items : LineOK(i) /\ Once(i) /\ ItemStep(i)
  BY <1>2, <1>5, OnceIsReleasedOnce DEF MergeInv, ItemStep
<1>7. \A i \in Items : /\ LineOK(i)'
                       /\ Len(lineage[i]) \in Nat /\ Len(lineage'[i]) \in Nat
                       /\ Len(lineage[i]) <= Len(lineage'[i])
  BY <1>1, <1>6, LineStep
<1>live. \A i \in Items : MainIsLive(i)'
  BY <1>1, <1>6, LiveStep DEF MergeInv
<1>8. CopiesOK'
  <2>1. ASSUME NEW p \in Orders, NEW i \in Items
        PROVE  work'[p][i].base <= Len(lineage'[i])
    <3>1. work[p][i].base \in Nat /\ work[p][i].base <= Len(lineage[i])
      BY DEF MergeInv, CopiesOK, Work
    <3> QED BY <1>1, <1>7, <3>1
  <2> QED BY <1>1, <2>1 DEF MergeInv, CopiesOK
<1>9. CopiesAreBased'
  BY <1>1, <1>merged DEF MergeInv, CopiesAreBased
<1>10. RestOK'
  BY <1>1, <1>4, IdleIsNoExecution DEF MergeInv, RestOK
<1>11. ReadsStayTrue'
  <2>1. ReadsTrue(Idle)'
    BY DEF ReadsTrue, Idle
  <2>2. ASSUME NEW u \in Threads PROVE ReadsTrue(thread[u])'
    BY <1>1, <1>3, <1>merged, <2>1
       DEF MergeInv, ReadsStayTrue, ReadsTrue, ChangedOrDropped
  <2> QED BY <2>2 DEF ReadsStayTrue
<1>12. OneExecution'
  BY <1>1, <1>3, IdleIsNoExecution DEF MergeInv, OneExecution, Claimed
<1>13. ASSUME NEW i \in Items
       PROVE  /\ Once(i)'
              /\ \A p \in Orders : ReleasedBy(p, i)' =>
                   ReleasedBy(p, i) \/ (p = o /\ done)
  <2>1. CASE Untouched(i)
    BY <1>1, <1>6, <2>1, ReleasersKept
  <2>2. CASE /\ i \in S /\ done
             /\ Content(i, Len(lineage[i])) \in Contents
             /\ Released(i, o, Content(i, Len(lineage[i])), Content(i, Len(lineage[i])), FALSE)
    <3> HIDE DEF done
    <3> QED BY <1>1, <1>2, <1>6, <2>2, ReleasersGrow
  <2> QED BY <1>5, <2>1, <2>2
<1> HIDE DEF done
<1>14. ReleasedOnce'
  <2>1. \A i \in Items : Once(i)'
    BY <1>13
  <2> QED BY <2>1 DEF ReleasedOnce, Once
<1>15. ReleasesAreRecorded'
  <2>1. \A p \in Orders : p # o => order'[p] = order[p]
    BY <1>4
  <2>2. done => order'[o].implemented
    BY <1>4
  <2>3. ASSUME NEW p \in Claimed, NEW i \in Items, ReleasedBy(p, i)'
        PROVE  \/ order'[p].implemented
               \/ /\ order[p].scopeLocked /\ DesignOf[i] \in order[p].merged
                  /\ ChangedOrDropped(p, i)
    BY <1>13, <1>refused, <2>1, <2>2, <2>3 DEF MergeInv, ReleasesAreRecorded, Claimed
  <2> QED BY <1>1, <1>merged, <2>3 DEF ReleasesAreRecorded, Claimed, ChangedOrDropped
<1>16. ExecutionsAreFresh'
  <2>1. ASSUME NEW u \in Threads, u # t PROVE Fresh(thread[u])'
    <3>1. Fresh(thread[u])
      BY DEF MergeInv, ExecutionsAreFresh
    <3>2. thread[u].order \in Claimed => thread[u].order \in Orders /\ thread[u].order # o
      BY <1>2, <2>1 DEF Claimed
    <3>3. thread'[u] = thread[u] /\ Claimed' = Claimed
      BY <1>1, <1>3, <2>1 DEF Claimed
    <3>4. \A p \in Orders : p # o => order'[p] = order[p]
      BY <1>4
    <3>5. \A p \in Orders, i \in Items : p # o /\ ReleasedBy(p, i)' => ReleasedBy(p, i)
      BY <1>13
    <3>6. thread[u].remaining \subseteq Items
      BY <1>1 DEF Doings
    <3> QED BY <1>1, <3>1, <3>2, <3>3, <3>4, <3>5, <3>6 DEF Fresh
  <2>2. Fresh(thread[t])'
    BY <1>3, OrdersAssumption DEF Fresh, Claimed, Idle
  <2> QED BY <2>1, <2>2 DEF ExecutionsAreFresh
<1> QED BY <1>7, <1>live, <1>8, <1>9, <1>10, <1>11, <1>12, <1>14, <1>15, <1>16 DEF MergeInv

LEMMA ApplyRemainingStep ==
  ASSUME MergeInv, NEW t \in Threads, ApplyRemaining(t)
  PROVE  MergeInv'
<1>1. PICK skipped : Apply(t, thread[t].remaining \ skipped)
  BY DEF ApplyRemaining
<1>2. /\ thread[t].phase # "idle"
      /\ thread[t].order \in Claimed =>
           \A i \in thread[t].remaining : ~ReleasedBy(thread[t].order, i)
  BY DEF ApplyRemaining, MergeInv, ExecutionsAreFresh, Fresh
<1> QED BY <1>1, <1>2, ApplyStep

-----------------------------------------------------------------------------
LEMMA InitHolds ==
  ASSUME MergeInit
  PROVE  MergeInv
<1>0. PICK c \in Contents : MergeInit!(c)
  BY DEF MergeInit
<1>1. ASSUME NEW i \in Items PROVE LineOK(i) /\ MainIsLive(i) /\ Once(i) /\ Len(lineage[i]) \in Nat
  <2> DEFINE row == [content |-> c, current |-> TRUE, deleted |-> FALSE,
                     by |-> Nobody, on |-> c]
  <2>1. row \in Rows
    BY DEF Rows
  <2>2. CASE i \in Existing
    <3>1. lineage[i] = <<row>> /\ tracked[i] = 1
      BY <1>0, <2>2
    <3>2. lineage[i] \in Seq(Rows) /\ Len(lineage[i]) = 1 /\ DOMAIN lineage[i] = 1 .. 1
      BY <2>1, <3>1
    <3>3. \A r \in DOMAIN lineage[i] : r = 1
      BY <3>2
    <3>4. lineage[i][1] = row
      BY <3>1
    <3> QED BY <3>1, <3>2, <3>3, <3>4 DEF LineOK, MainIsLive, Once, InService
  <2>3. CASE i \notin Existing
    BY <1>0, <2>3 DEF LineOK, MainIsLive, Once, InService
  <2> QED BY <2>2, <2>3
<1>2. \A i \in Items, o \in Orders : ~ReleasedBy(o, i)
  <2>1. ASSUME NEW i \in Items, NEW r \in DOMAIN lineage[i] PROVE lineage[i][r].by = Nobody
    BY <1>0, <2>1
  <2> QED BY <2>1, OrdersAssumption DEF ReleasedBy
<1>3. CopiesOK /\ CopiesAreBased
  BY <1>0, <1>1 DEF CopiesOK, CopiesAreBased, Work
<1>4. RestOK
  BY <1>0, IdleIsNoExecution, BoundsAssumption DEF RestOK
<1>5. \A t \in Threads : thread[t] = Idle
  BY <1>0
<1>6. ReadsStayTrue /\ OneExecution /\ ExecutionsAreFresh
  BY <1>5, IdleIsNoExecution DEF ReadsStayTrue, OneExecution, ExecutionsAreFresh
<1>7. ReleasesAreRecorded
  BY <1>2 DEF ReleasesAreRecorded, Claimed
<1> QED BY <1>1, <1>3, <1>4, <1>6, <1>7, OnceIsReleasedOnce DEF MergeInv

LEMMA NextHolds ==
  ASSUME MergeInv, [MergeNext]_mergeVars
  PROVE  MergeInv'
<1>1. ASSUME NEW t \in Threads, Execution(t) PROVE MergeInv'
  <2>1. CASE \E o \in Orders : BeginRelease(t, o)
    BY <2>1, BeginStep
  <2>2. CASE \E d \in Designs : Validate(t, d)
    BY <2>2, ValidateStep
  <2>3. CASE ReadChanges(t)
    BY <2>3, ReadChangesStep
  <2>4. CASE MergeBranch(t)
    BY <2>4, MergeBranchStep
  <2>5. CASE RefuseMerge(t)
    BY <2>5, EndsStep DEF RefuseMerge
  <2>6. CASE ReadRemaining(t)
    BY <2>6, ReadRemainingStep
  <2>7. CASE ApplyRemaining(t)
    BY <2>7, ApplyRemainingStep
  <2>8. CASE Crash(t)
    BY <2>8, EndsStep
  <2>9. CASE Overrun(t)
    BY <2>9, OverrunStep
  <2> QED BY <1>1, <2>1, <2>2, <2>3, <2>4, <2>5, <2>6, <2>7, <2>8, <2>9 DEF Execution
<1>2. ASSUME NEW o \in Orders, LockScope(o) PROVE MergeInv'
  BY <1>2, LockStep
<1>3. ASSUME NEW o \in Orders, NEW i \in Items, Engineer(o, i) PROVE MergeInv'
  BY <1>3, EngineerEdits, EditStepKeeps
<1>4. CASE UNCHANGED mergeVars
  <2>1. UNCHANGED <<lineage, tracked, order, thread, overran, faults, work, listed, edits>>
    BY <1>4 DEF mergeVars
  <2>2. EditStep
    BY <2>1, CopyStays DEF EditStep, MergeInv, CopiesOK, RestOK
  <2> QED BY <2>2, EditStepKeeps
<1> QED BY <1>1, <1>2, <1>3, <1>4 DEF MergeNext

LEMMA InvHolds == MergeSpec => []MergeInv
<1>1. MergeInit => MergeInv
  BY InitHolds
<1>2. MergeInv /\ [MergeNext]_mergeVars => MergeInv'
  BY NextHolds
<1> QED BY <1>1, <1>2, PTL DEF MergeSpec

(* The types of the state, and the bounds a row's number keeps: main and every
   branch name revisions that exist. *)
THEOREM MergeTyping == MergeSpec => []MergeTypeOK
<1>1. MergeInv => MergeTypeOK
  BY DEF MergeInv, LineOK, CopiesOK, RestOK, MergeTypeOK
<1> QED BY <1>1, InvHolds, PTL

(* However many change orders, branches and executions there are, an item has
   one row in service at most, main's structure resolves to it, and it is a
   deleted row only if the working copy it was released from was deleted (its
   item dropped after the merge had read it, or its base deleted by another
   order before the first save), or executions of its order overlapped. *)
THEOREM OneRowInService == MergeSpec => []OneInService
<1>1. ASSUME MergeInv, NEW i \in Items
      PROVE  Cardinality(InService(i)) <= 1
  <2>1. \A r, s \in InService(i) : r = s
    BY <1>1 DEF MergeInv, LineOK
  <2>2. CASE InService(i) = {}
    <3>1. Cardinality(InService(i)) = 0
      BY <2>2, FS_EmptySet
    <3> QED BY <3>1
  <2>3. CASE InService(i) # {}
    <3>1. PICK r \in InService(i) : TRUE
      BY <2>3
    <3>2. InService(i) = {r}
      BY <2>1, <3>1
    <3>3. Cardinality(InService(i)) = 1
      BY <3>2, FS_Singleton
    <3> QED BY <3>3
  <2> QED BY <2>2, <2>3
<1>2. MergeInv => OneInService
  BY <1>1 DEF MergeInv, LineOK, MainIsLive, Deleted, OneInService
<1> QED BY <1>2, InvHolds, PTL

(* No revision is overwritten by one that did not see it: for any number of
   orders, every revision was made from what the one before it says, unless
   its order had an execution that outlived its claim. *)
THEOREM NoReleaseIsLost == MergeSpec => []ReleasesBuildOnEachOther
<1>1. ASSUME MergeInv, NEW i \in Items, NEW r \in DOMAIN lineage[i], r > 1
      PROVE  \/ lineage[i][r].on = lineage[i][r - 1].content
             \/ lineage[i][r].by \in overran
  <2>1. r \in 2 .. Len(lineage[i])
    BY <1>1 DEF MergeInv, LineOK
  <2> QED BY <1>1, <2>1 DEF MergeInv, LineOK
<1>2. MergeInv => ReleasesBuildOnEachOther
  BY <1>1 DEF ReleasesBuildOnEachOther
<1> QED BY <1>2, InvHolds, PTL

(* However an order's executions fail, are refused or are started again, it
   gives an item one revision, as long as each died within its claim. *)
THEOREM RetriesReleaseOnce == MergeSpec => []ReleasedOnce
<1>1. MergeInv => ReleasedOnce
  BY DEF MergeInv
<1> QED BY <1>1, InvHolds, PTL
=============================================================================
