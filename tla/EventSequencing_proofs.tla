----------------------- MODULE EventSequencing_proofs -----------------------
(***************************************************************************)
(* Proofs about the outbox, for any number of events and processes: seq    *)
(* order is commit order, and a process that is up leaves nothing behind.  *)
(***************************************************************************)
EXTENDS EventSequencing, FiniteSetTheorems, TLAPS

(* One transaction at a time holds the sequencing lock, and the rows a boot
   is repairing belong to the boot that holds it. *)
LockInv == /\ \A d, e \in Events : row[d] = "sequencing" /\ row[e] = "sequencing" => d = e
           /\ \A p, q \in Procs : boot[p] = "repairing" /\ boot[q] = "repairing" => p = q
           /\ \A e \in Events, p \in Procs : ~(row[e] = "sequencing" /\ boot[p] = "repairing")
           /\ \A e \in Events : row[e] = "repairing" => \E p \in Procs : boot[p] = "repairing"

(* A row that has a seq, committed or about to be. *)
HasSeq(e) == row[e] \in {"sequencing", "repairing", "visible"}

(* Seqs are distinct and handed out, and those of the lock's holder lie above
   all that readers see. *)
OrderInv == /\ \A e \in Events : HasSeq(e) => seq[e] <= nextSeq
            /\ \A d, e \in Events : HasSeq(d) /\ HasSeq(e) /\ seq[d] = seq[e] => d = e
            /\ \A d, e \in Events :
                 row[d] = "visible" /\ row[e] \in {"sequencing", "repairing"} => seq[d] < seq[e]

(* The trigger is in place before a boot sequences what is stranded, and from
   then on nothing new is. *)
TriggerInv == /\ \A p \in Procs : boot[p] \in {"ensured", "repairing", "ready"} => trigger
              /\ \A e \in Events : trigger => row[e] # "unarmed"
              /\ \A p \in Procs, e \in Events : boot[p] = "repairing" => row[e] # "stranded"
              /\ \A p \in Procs, e \in Events :
                   boot[p] = "ready" => row[e] \notin {"stranded", "repairing"}

SeqInv == SeqTypeOK /\ LockInv /\ OrderInv /\ TriggerInv

-----------------------------------------------------------------------------
(* The invariant holds in every new database, with the trigger or without. *)
LEMMA SeqInvInit == SeqInit => SeqInv
  BY DEF SeqInit, EmptyLog, SeqInv, SeqTypeOK, RowStates, BootStates, LockInv,
         OrderInv, HasSeq, TriggerInv

(* The steps of a publishing transaction keep it. *)
LEMMA PublishStepInv == ASSUME SeqInv, PublishStep
                        PROVE  SeqInv'
<1> USE DEF SeqInv, SeqTypeOK, RowStates, Open
<1>1. PICK e \in Events : Publish(e) \/ FireTrigger(e) \/ Commit(e) \/ Abort(e)
  BY DEF PublishStep
<1>2. CASE Publish(e)
  BY <1>2 DEF Publish, LockInv, OrderInv, HasSeq, TriggerInv
<1>3. CASE FireTrigger(e)
  <2>1. SeqTypeOK' /\ LockInv' /\ TriggerInv'
    BY <1>3 DEF FireTrigger, LockFree, LockInv, TriggerInv
  <2>2. OrderInv'
    BY <1>3 DEF FireTrigger, LockFree, LockInv, OrderInv, HasSeq
  <2> QED  BY <2>1, <2>2
<1>4. CASE CommitSequenced(e)
  <2>1. SeqTypeOK' /\ LockInv' /\ TriggerInv'
    BY <1>4 DEF CommitSequenced, LockInv, TriggerInv
  <2>2. OrderInv'
    BY <1>4 DEF CommitSequenced, LockInv, OrderInv, HasSeq
  <2> QED  BY <2>1, <2>2
<1>5. CASE CommitStranded(e)
  BY <1>5 DEF CommitStranded, LockInv, OrderInv, HasSeq, TriggerInv
<1>6. CASE Abort(e)
  BY <1>6 DEF Abort, LockInv, OrderInv, HasSeq, TriggerInv
<1> QED  BY <1>1, <1>2, <1>3, <1>4, <1>5, <1>6 DEF Commit

(* The rows a boot sequences: each takes a value above all handed out. *)
LEMMA StrandedAbove ==
  ASSUME NEW p \in Procs, SeqInv, SequenceStranded(p)
  PROVE  /\ nextSeq' \in Nat /\ nextSeq <= nextSeq'
         /\ seq' \in [Events -> Nat]
         /\ \A e \in Stranded : nextSeq < seq'[e] /\ seq'[e] <= nextSeq'
         /\ \A d, e \in Stranded : d # e => seq'[d] # seq'[e]
         /\ \A e \in Events \ Stranded : seq'[e] = seq[e]
<1> DEFINE n == Cardinality(Stranded)
<1>1. n \in Nat
  BY EventsAssumption, FS_Subset, FS_CardinalityType DEF Stranded
<1>2. PICK order \in [Stranded -> nextSeq + 1 .. nextSeq + n] :
        /\ \A d, e \in Stranded : d # e => order[d] # order[e]
        /\ seq' = [e \in Events |-> IF e \in Stranded THEN order[e] ELSE seq[e]]
  BY DEF SequenceStranded
<1>3. nextSeq' = nextSeq + n /\ nextSeq \in Nat /\ seq \in [Events -> Nat]
  BY DEF SequenceStranded, SeqInv, SeqTypeOK
<1>4. \A e \in Stranded : order[e] \in Nat /\ nextSeq < order[e] /\ order[e] <= nextSeq + n
  BY <1>1, <1>2, <1>3
<1>5. Stranded \subseteq Events
  BY DEF Stranded
<1> HIDE DEF n
<1> QED  BY <1>1, <1>2, <1>3, <1>4, <1>5

(* Booting and dying processes keep it. *)
LEMMA BootStepInv == ASSUME NEW p \in Procs, SeqInv, BootStep(p) \/ Crash(p)
                     PROVE  SeqInv'
<1> USE DEF SeqInv, SeqTypeOK, RowStates, BootStates, Open
<1>1. CASE Start(p)
  BY <1>1 DEF Start, LockInv, OrderInv, HasSeq, TriggerInv
<1>2. CASE EnsureSequencing(p)
  BY <1>2 DEF EnsureSequencing, LockInv, OrderInv, HasSeq, TriggerInv
<1>3. CASE SequenceStranded(p)
  <2> DEFINE newRow == [e \in Events |-> IF e \in Stranded THEN "repairing" ELSE row[e]]
  <2>1. /\ row' = newRow
        /\ boot' = [boot EXCEPT ![p] = "repairing"] /\ boot[p] = "ensured"
        /\ trigger' = trigger /\ LockFree
    BY <1>3 DEF SequenceStranded
  <2>2. nextSeq' \in Nat /\ seq' \in [Events -> Nat]
    BY <1>3, StrandedAbove
  <2>3. SeqTypeOK' /\ LockInv' /\ TriggerInv'
    BY <2>1, <2>2 DEF LockFree, LockInv, TriggerInv, Stranded
  <2>4. OrderInv'
    <3>1. \A e \in Events : e \in Stranded <=> row[e] = "stranded"
      BY DEF Stranded
    <3>2. \A e \in Events : HasSeq(e)' <=> HasSeq(e) \/ e \in Stranded
      BY <2>1, <3>1 DEF HasSeq
    <3>3. \A e \in Events : row'[e] = "visible" <=> row[e] = "visible"
      BY <2>1, <3>1
    <3>4. \A e \in Events : row'[e] \in {"sequencing", "repairing"} => e \in Stranded
      BY <2>1, <3>1 DEF LockFree, LockInv
    <3>5. \A e \in Events : HasSeq(e) => e \notin Stranded /\ seq'[e] = seq[e] /\ seq[e] <= nextSeq
      BY <1>3, <3>1, StrandedAbove DEF HasSeq, OrderInv
    <3>6. /\ nextSeq <= nextSeq'
          /\ \A e \in Stranded : nextSeq < seq'[e] /\ seq'[e] <= nextSeq'
          /\ \A d, e \in Stranded : d # e => seq'[d] # seq'[e]
      BY <1>3, StrandedAbove
    <3>7. \A e \in Events : HasSeq(e)' => seq'[e] <= nextSeq'
      BY <2>2, <3>2, <3>5, <3>6
    <3>8. \A d, e \in Events : HasSeq(d)' /\ HasSeq(e)' /\ seq'[d] = seq'[e] => d = e
      BY <2>2, <3>2, <3>5, <3>6 DEF OrderInv
    <3>9. \A d, e \in Events :
            row'[d] = "visible" /\ row'[e] \in {"sequencing", "repairing"} => seq'[d] < seq'[e]
      BY <2>2, <3>3, <3>4, <3>5, <3>6 DEF HasSeq
    <3> QED  BY <3>7, <3>8, <3>9 DEF OrderInv
  <2> QED  BY <2>3, <2>4
<1>4. CASE FinishBoot(p)
  <2>1. SeqTypeOK' /\ LockInv' /\ TriggerInv'
    BY <1>4 DEF FinishBoot, LockInv, TriggerInv
  <2>2. OrderInv'
    BY <1>4 DEF FinishBoot, LockInv, OrderInv, HasSeq
  <2> QED  BY <2>1, <2>2
<1>5. CASE Crash(p)
  <2>1. CASE boot[p] = "repairing"
    <3>1. SeqTypeOK' /\ LockInv' /\ TriggerInv'
      BY <1>5, <2>1 DEF Crash, LockInv, TriggerInv
    <3>2. OrderInv'
      BY <1>5, <2>1 DEF Crash, LockInv, OrderInv, HasSeq
    <3> QED  BY <3>1, <3>2
  <2>2. CASE boot[p] # "repairing"
    BY <1>5, <2>2 DEF Crash, LockInv, OrderInv, HasSeq, TriggerInv
  <2> QED  BY <2>1, <2>2
<1> QED  BY <1>1, <1>2, <1>3, <1>4, <1>5 DEF BootStep

(* The inductive invariant holds of every behaviour. *)
LEMMA SeqInvariant == SeqSpec => []SeqInv
<1>1. SeqInv /\ [SeqNext]_seqVars => SeqInv'
  <2> SUFFICES ASSUME SeqInv, [SeqNext]_seqVars  PROVE SeqInv'
    OBVIOUS
  <2>1. CASE PublishStep
    BY <2>1, PublishStepInv
  <2>2. ASSUME NEW p \in Procs, BootStep(p) \/ Crash(p)  PROVE SeqInv'
    BY <2>2, BootStepInv
  <2>3. CASE UNCHANGED seqVars
    BY <2>3 DEF seqVars, SeqInv, SeqTypeOK, LockInv, OrderInv, HasSeq, TriggerInv
  <2> QED  BY <2>1, <2>2, <2>3 DEF SeqNext
<1> QED  BY <1>1, SeqInvInit, PTL DEF SeqSpec

-----------------------------------------------------------------------------
(* Every variable keeps its type. *)
THEOREM SeqTyping == SeqSpec => []SeqTypeOK
  BY SeqInvariant, PTL DEF SeqInv

(* A process that has booted has left no committed event without a seq. *)
THEOREM NoneStranded == SeqSpec => []ReadyMeansNoneStranded
<1>1. SeqInv => ReadyMeansNoneStranded
  BY DEF SeqInv, TriggerInv, ReadyMeansNoneStranded, Stranded
<1> QED  BY <1>1, SeqInvariant, PTL

(* The rows readers see grow only at their end: the outbox implements the
   append-only log its consumers are written against. *)
THEOREM OutboxImplementsAppendLog == SeqSpec => SeqOrderIsCommitOrder
<1>1. SeqInit => Reader!Init
  BY DEF SeqInit, EmptyLog, Reader!Init, ReadLog, Visible
<1>2. SeqInv /\ SeqInv' /\ [SeqNext]_seqVars => [Reader!Append]_ReadLog
  <2> SUFFICES ASSUME SeqInv, SeqInv', [SeqNext]_seqVars
               PROVE  [Reader!Append]_ReadLog
    OBVIOUS
  <2>1. ASSUME NEW e \in Events, row[e] = "visible"
        PROVE  row'[e] = "visible" /\ seq'[e] = seq[e]
    <3>1. CASE PublishStep
      BY <2>1, <3>1 DEF PublishStep, Publish, FireTrigger, Commit, CommitSequenced,
           CommitStranded, Abort, Open, SeqInv, SeqTypeOK
    <3>2. ASSUME NEW p \in Procs, Start(p) \/ EnsureSequencing(p) \/ FinishBoot(p) \/ Crash(p)
          PROVE  row'[e] = "visible" /\ seq'[e] = seq[e]
      BY <2>1, <3>2 DEF Start, EnsureSequencing, FinishBoot, Crash, SeqInv, SeqTypeOK
    <3>3. ASSUME NEW p \in Procs, SequenceStranded(p)
          PROVE  row'[e] = "visible" /\ seq'[e] = seq[e]
      BY <2>1, <3>3, StrandedAbove DEF SequenceStranded, Stranded
    <3>4. CASE UNCHANGED seqVars
      BY <2>1, <3>4 DEF seqVars
    <3> QED  BY <3>1, <3>2, <3>3, <3>4 DEF SeqNext, BootStep
  <2>2. ASSUME NEW d \in Events, row[d] = "visible",
               NEW e \in Events, row[e] # "visible", row'[e] = "visible"
        PROVE  seq[d] < seq'[e]
    <3>1. row[e] \in {"sequencing", "repairing"} /\ seq'[e] = seq[e]
      <4>1. CASE PublishStep
        BY <2>2, <4>1 DEF PublishStep, Publish, FireTrigger, Commit, CommitSequenced,
             CommitStranded, Abort, SeqInv, SeqTypeOK
      <4>2. CASE \E p \in Procs : BootStep(p) \/ Crash(p)
        BY <2>2, <4>2 DEF BootStep, Start, EnsureSequencing, SequenceStranded,
             FinishBoot, Crash, SeqInv, SeqTypeOK
      <4>3. CASE UNCHANGED seqVars
        BY <2>2, <4>3 DEF seqVars
      <4> QED  BY <4>1, <4>2, <4>3 DEF SeqNext
    <3> QED  BY <2>2, <3>1 DEF SeqInv, OrderInv
  <2>3. ReadLog \subseteq ReadLog'
    BY <2>1 DEF ReadLog, Visible
  <2>4. ASSUME NEW x \in ReadLog, NEW y \in ReadLog' \ ReadLog
        PROVE  x[2] < y[2]
    <3>1. PICK d \in Events : row[d] = "visible" /\ x = <<d, seq[d]>>
      BY <2>4 DEF ReadLog, Visible
    <3>2. PICK e \in Events : row'[e] = "visible" /\ y = <<e, seq'[e]>>
      BY <2>4 DEF ReadLog, Visible
    <3>3. row[e] # "visible"
      BY <2>1, <2>4, <3>2 DEF ReadLog, Visible
    <3> QED  BY <2>2, <3>1, <3>2, <3>3
  <2>5. ASSUME NEW x \in ReadLog', NEW y \in ReadLog', x[1] = y[1] \/ x[2] = y[2]
        PROVE  x = y
    <3>1. PICK d \in Events : row'[d] = "visible" /\ x = <<d, seq'[d]>>
      BY <2>5 DEF ReadLog, Visible
    <3>2. PICK e \in Events : row'[e] = "visible" /\ y = <<e, seq'[e]>>
      BY <2>5 DEF ReadLog, Visible
    <3>3. seq'[d] = seq'[e] => d = e
      BY <3>1, <3>2 DEF SeqInv, OrderInv, HasSeq
    <3> QED  BY <2>5, <3>1, <3>2, <3>3
  <2> QED  BY <2>3, <2>4, <2>5 DEF Reader!Append
<1> QED  BY <1>1, <1>2, SeqInvariant, PTL DEF SeqSpec, SeqOrderIsCommitOrder, Reader!Spec
=============================================================================
