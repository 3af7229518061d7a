----------------------- MODULE EventConsumers_proofs -----------------------
(* Proofs about EventConsumers, for any events, processes, consumers, batch
   sizes and budgets: a cursor is the truth about what was delivered, a parked
   consumer stays put, and retention deletes nothing that is still owed. *)
EXTENDS EventConsumers, EventSequencing_proofs, WellFoundedInduction

(* A row readers have seen; its seq is final. *)
Shown(e) == row[e] \in {"visible", "pruned"}

(* A position below whatever will become visible. *)
Past(n) == /\ n <= nextSeq
           /\ \A e \in Events : row[e] \in {"sequencing", "repairing"} => n < seq[e]

PositionsArePast ==
  /\ Past(0)
  /\ \A e \in Events : Shown(e) => Past(seq[e])
  /\ \A d, e \in Events : Shown(d) /\ Shown(e) /\ seq[d] = seq[e] => d = e
  /\ \A c \in Consumers : Past(cursor[c].lastSeq) /\ Past(cursor[c].errSeq)
  /\ \A p \in Procs : Past(run[p].from) /\ Past(run[p].at) /\ Past(run[p].head)

Holds(p) == run[p].phase \in {"claimed", "running"}

(* A run has its consumer's cursor to itself, where it found it. *)
RunsAreAlone ==
  \A p \in Procs : Holds(p) =>
    LET c == run[p].consumer IN
    /\ \A q \in Procs : Holds(q) /\ run[q].consumer = c => p = q
    /\ cursor[c].exists = ~run[p].fresh
    /\ cursor[c].exists => cursor[c].lastSeq = run[p].from /\ cursor[c].parked = "no"

WantedBy(c) == {e \in Visible : e \in Wants[c]}

(* What a run has handled, and what is still in its batch: all that its
   consumer wants up to where the run has come, and no gap beyond. *)
RunOK(r) ==
  /\ r.from <= r.at
  /\ r.phase = "claimed" => r.at = r.from
  /\ \A e \in r.ok : Shown(e) /\ r.from < seq[e] /\ seq[e] <= r.at
  /\ \A e \in r.batch : Shown(e) /\ r.at < seq[e]
  /\ \A e \in WantedBy(r.consumer) :
       /\ r.from < seq[e] /\ seq[e] <= r.at => e \in r.ok
       /\ \A d \in r.batch : r.at < seq[e] /\ seq[e] <= seq[d] => e \in r.batch
       /\ r.phase = "running" /\ r.consumer \notin Wildcards /\ ~r.full
            => (r.at < seq[e] /\ seq[e] <= r.head => e \in r.batch)

RunsKeepUp == \A p \in Procs : Holds(p) => RunOK(run[p])

(* Nothing happens to an event before it is visible, and an administrator
   skips only what the cursor then leaves behind. *)
HistoryIsPast ==
  \A c \in Consumers :
    /\ \A e \in Events : ~Shown(e) => hist[c].applied[e] = 0 /\ e \notin hist[c].skipped
    /\ cursor[c].exists =>
         /\ hist[c].start <= cursor[c].lastSeq
         /\ \A e \in hist[c].skipped : seq[e] <= cursor[c].lastSeq

ConInv == /\ SeqInv /\ ConTypeOK /\ PositionsArePast /\ RunsAreAlone
          /\ RunsKeepUp /\ HistoryIsPast /\ CursorTellsTheTruth

-----------------------------------------------------------------------------
(* Least and greatest seqs *)

LEMMA LeastNatural ==
  ASSUME NEW S \in SUBSET Nat, S # {}
  PROVE  \E n \in S : \A m \in S : n <= m
<1> DEFINE R == OpToRel(<, Nat)
<1>1. IsWellFoundedOn(R, Nat)
  BY NatLessThanWellFounded
<1>2. \A x, y \in Nat : <<x, y>> \in R <=> x < y
  BY DEF OpToRel
<1> HIDE DEF R
<1>3. PICK n \in S : \A m \in S : ~(<<m, n>> \in R)
  BY <1>1, WFMin
<1>4. ASSUME NEW m \in S PROVE n <= m
  <2>1. m \in Nat /\ n \in Nat /\ ~(m < n)
    BY <1>2, <1>3
  <2> QED BY <2>1
<1> QED BY <1>4

LEMMA GreatestNatural ==
  ASSUME NEW S \in SUBSET Nat, S # {}, NEW b \in Nat, \A n \in S : n <= b
  PROVE  \E n \in S : \A m \in S : m <= n
<1> DEFINE T == {b - n : n \in S}
<1>1. T \in SUBSET Nat /\ T # {}
  <2>1. \A n \in S : b - n \in Nat
    OBVIOUS
  <2> QED BY <2>1
<1>2. PICK t \in T : \A u \in T : t <= u
  BY <1>1, LeastNatural
<1>3. PICK n \in S : t = b - n
  BY <1>2
<1>4. ASSUME NEW m \in S PROVE m <= n
  <2>1. b - n <= b - m
    BY <1>2, <1>3
  <2>2. m \in Nat /\ n \in Nat
    OBVIOUS
  <2> QED BY <2>1, <2>2
<1> QED BY <1>4

LEMMA FirstExists ==
  ASSUME seq \in [Events -> Nat], NEW S \in SUBSET Events, S # {}
  PROVE  FirstOf(S) \in S /\ \A d \in S : seq[FirstOf(S)] <= seq[d]
<1> DEFINE N == {seq[e] : e \in S}
<1>1. N \in SUBSET Nat /\ N # {}
  OBVIOUS
<1>2. PICK n \in N : \A m \in N : n <= m
  BY <1>1, LeastNatural
<1>3. \E e \in S : \A d \in S : seq[e] <= seq[d]
  BY <1>2
<1> QED BY <1>3 DEF FirstOf

(* The head a run reads is a position of the log. *)
LEMMA HeadIsPast ==
  ASSUME SeqInv, PositionsArePast
  PROVE  HeadSeq \in Nat /\ Past(HeadSeq) /\ \A e \in Visible : seq[e] <= HeadSeq
<1> DEFINE N == {0} \union {seq[e] : e \in Visible}
<1>1. N \in SUBSET Nat /\ N # {}
  BY DEF SeqInv, SeqTypeOK, Visible
<1>2. \A n \in N : Past(n)
  BY DEF PositionsArePast, Shown, Visible
<1>3. nextSeq \in Nat /\ \A n \in N : n <= nextSeq
  BY <1>2 DEF SeqInv, SeqTypeOK, Past
<1>4. PICK n \in N : \A m \in N : m <= n
  BY <1>1, <1>3, GreatestNatural
<1>5. HeadSeq \in N /\ \A e \in Visible : seq[e] <= HeadSeq
  BY <1>4 DEF HeadSeq
<1> QED BY <1>1, <1>2, <1>5

-----------------------------------------------------------------------------
(* The log moves: what was shown stays, and what appears lies beyond every
   position anybody holds. *)

LogMoves ==
  /\ nextSeq \in Nat /\ nextSeq' \in Nat /\ nextSeq <= nextSeq'
  /\ \A e \in Events :
       /\ Shown(e) => /\ Shown(e)' /\ seq'[e] = seq[e]
                      /\ row'[e] = "visible" => row[e] = "visible"
       /\ ~Shown(e) /\ Shown(e)' => /\ row[e] \in {"sequencing", "repairing"}
                                    /\ row'[e] = "visible" /\ seq'[e] = seq[e]
       /\ row'[e] \in {"sequencing", "repairing"} =>
            \/ row[e] \in {"sequencing", "repairing"} /\ seq'[e] = seq[e]
            \/ nextSeq < seq'[e]

LEMMA PublishMovesLog == ASSUME SeqInv, PublishStep PROVE LogMoves
<1>1. PICK e \in Events : Publish(e) \/ FireTrigger(e) \/ Commit(e) \/ Abort(e)
  BY DEF PublishStep
<1> USE DEF SeqInv, SeqTypeOK, LogMoves, Shown
<1>2. CASE Publish(e)
  BY <1>2 DEF Publish
<1>3. CASE FireTrigger(e)
  BY <1>3 DEF FireTrigger
<1>4. CASE CommitSequenced(e)
  BY <1>4 DEF CommitSequenced
<1>5. CASE CommitStranded(e)
  BY <1>5 DEF CommitStranded
<1>6. CASE Abort(e)
  BY <1>6 DEF Abort, Open
<1> QED BY <1>1, <1>2, <1>3, <1>4, <1>5, <1>6 DEF Commit

LEMMA BootMovesLog ==
  ASSUME SeqInv, NEW p \in Procs, BootStep(p) \/ Crash(p)
  PROVE  LogMoves
<1> USE DEF SeqInv, SeqTypeOK
<1>1. CASE Start(p) \/ EnsureSequencing(p)
  BY <1>1 DEF Start, EnsureSequencing, LogMoves, Shown
<1>2. CASE SequenceStranded(p)
  <2>1. /\ nextSeq' \in Nat /\ nextSeq <= nextSeq'
        /\ \A e \in Stranded : nextSeq < seq'[e]
        /\ \A e \in Events \ Stranded : seq'[e] = seq[e]
        /\ row' = [e \in Events |-> IF e \in Stranded THEN "repairing" ELSE row[e]]
    BY <1>2, StrandedAbove DEF SequenceStranded
  <2> QED BY <2>1 DEF LogMoves, Shown, Stranded
<1>3. CASE FinishBoot(p)
  BY <1>3 DEF FinishBoot, LogMoves, Shown
<1>4. CASE Crash(p)
  BY <1>4 DEF Crash, LogMoves, Shown
<1> QED BY <1>1, <1>2, <1>3, <1>4 DEF BootStep

LEMMA StillLogMoves == ASSUME SeqInv, UNCHANGED seqVars PROVE LogMoves /\ SeqInv'
  BY DEF SeqInv, SeqTypeOK, LockInv, OrderInv, HasSeq, TriggerInv, seqVars, LogMoves, Shown

LEMMA PastStays ==
  ASSUME SeqInv', LogMoves, NEW n \in Nat, Past(n)
  PROVE  Past(n)'
<1>1. /\ n <= nextSeq /\ nextSeq \in Nat /\ nextSeq' \in Nat /\ nextSeq <= nextSeq'
  BY DEF Past, LogMoves
<1>2. ASSUME NEW e \in Events, row'[e] \in {"sequencing", "repairing"}
      PROVE  n < seq'[e]
  <2>1. seq'[e] \in Nat
    BY DEF SeqInv, SeqTypeOK
  <2> QED BY <1>1, <1>2, <2>1 DEF Past, LogMoves
<1> QED BY <1>1, <1>2 DEF Past

-----------------------------------------------------------------------------
(* Steps that move no cursor and let no run go on: the log's, the prune job's,
   a backoff, a resume, a run that ends without committing. *)

QuietCursor(c) ==
  /\ cursor'[c].exists = cursor[c].exists
  /\ cursor'[c].lastSeq = cursor[c].lastSeq
  /\ Past(cursor'[c].errSeq)
  /\ Unlocked(c) \/ (cursor[c].parked = "no" => cursor'[c].parked = "no")
  /\ hist'[c].start = hist[c].start
  /\ hist'[c].applied = hist[c].applied
  /\ hist'[c].skipped = hist[c].skipped

QuietRun(p) ==
  \/ run'[p] = run[p]
  \/ /\ run'[p].phase \notin {"claimed", "running"}
     /\ Past(run'[p].from) /\ Past(run'[p].at) /\ Past(run'[p].head)

Quiet == /\ \A c \in Consumers : QuietCursor(c)
         /\ \A p \in Procs : QuietRun(p)

(* What a moving log leaves true of a run's batch. *)
LEMMA RunStaysOK ==
  ASSUME SeqInv, SeqInv', PositionsArePast, LogMoves, NEW r \in Runs, RunOK(r),
         Past(r.at), Past(r.head), Past(r.from)
  PROVE  RunOK(r)'
<1>1. /\ r.from \in Nat /\ r.at \in Nat /\ r.head \in Nat
      /\ r.ok \subseteq Events /\ r.batch \subseteq Events
      /\ seq \in [Events -> Nat]
  BY DEF Runs, SeqInv, SeqTypeOK
<1>2. \A e \in r.ok \union r.batch : Shown(e)' /\ seq'[e] = seq[e]
  BY <1>1 DEF RunOK, LogMoves
<1>3. ASSUME NEW e \in WantedBy(r.consumer)'
      PROVE  \/ e \in WantedBy(r.consumer) /\ seq'[e] = seq[e]
             \/ /\ r.from < seq'[e] /\ r.at < seq'[e] /\ r.head < seq'[e]
                /\ \A d \in r.batch : seq[d] < seq'[e]
  <2>1. e \in Events /\ row'[e] = "visible" /\ e \in Wants[r.consumer]
    BY <1>3 DEF WantedBy, Visible
  <2>2. CASE Shown(e)
    BY <2>1, <2>2 DEF LogMoves, WantedBy, Visible
  <2>3. CASE ~Shown(e)
    <3>1. row[e] \in {"sequencing", "repairing"} /\ seq'[e] = seq[e]
      BY <2>1, <2>3 DEF LogMoves, Shown
    <3>2. \A d \in r.batch : Past(seq[d])
      BY <1>1 DEF RunOK, PositionsArePast
    <3> QED BY <2>1, <3>1, <3>2 DEF Past
  <2> QED BY <2>2, <2>3
<1>4. \A e \in Events : seq'[e] \in Nat
  BY DEF SeqInv, SeqTypeOK
<1>5. \A e \in WantedBy(r.consumer)' : e \in Events
  BY DEF WantedBy, Visible
<1>6. \A e \in r.ok : r.from < seq'[e] /\ seq'[e] <= r.at
  BY <1>1, <1>2 DEF RunOK
<1>7. \A e \in r.batch : r.at < seq'[e]
  BY <1>1, <1>2 DEF RunOK
<1>8. ASSUME NEW e \in WantedBy(r.consumer)'
      PROVE  /\ r.from < seq'[e] /\ seq'[e] <= r.at => e \in r.ok
             /\ \A d \in r.batch : r.at < seq'[e] /\ seq'[e] <= seq'[d] => e \in r.batch
             /\ r.phase = "running" /\ r.consumer \notin Wildcards /\ ~r.full
                  => (r.at < seq'[e] /\ seq'[e] <= r.head => e \in r.batch)
  <2>1. CASE e \in WantedBy(r.consumer) /\ seq'[e] = seq[e]
    BY <1>1, <1>2, <2>1 DEF RunOK
  <2>2. CASE /\ r.from < seq'[e] /\ r.at < seq'[e] /\ r.head < seq'[e]
             /\ \A d \in r.batch : seq[d] < seq'[e]
    <3>1. seq'[e] \in Nat /\ \A d \in r.batch : seq'[d] = seq[d] /\ seq[d] \in Nat
      BY <1>1, <1>2, <1>4, <1>5
    <3> QED BY <1>1, <2>2, <3>1
  <2> QED BY <1>3, <2>1, <2>2
<1>9. r.from <= r.at /\ (r.phase = "claimed" => r.at = r.from)
  BY DEF RunOK
<1> QED BY <1>2, <1>6, <1>7, <1>8, <1>9 DEF RunOK

LEMMA QuietStep ==
  ASSUME ConInv, SeqInv', ConTypeOK', LogMoves, Quiet
  PROVE  ConInv'
<1>1. /\ SeqInv /\ PositionsArePast
      /\ seq \in [Events -> Nat] /\ seq' \in [Events -> Nat]
      /\ cursor \in [Consumers -> CursorRows] /\ cursor' \in [Consumers -> CursorRows]
      /\ run \in [Procs -> Runs] /\ run' \in [Procs -> Runs]
      /\ hist \in [Consumers -> Histories] /\ hist' \in [Consumers -> Histories]
  BY DEF ConInv, ConTypeOK, SeqTypeOK
<1>2. \A n \in Nat : Past(n) =>
        /\ n <= nextSeq'
        /\ \A e \in Events : row'[e] \in {"sequencing", "repairing"} => n < seq'[e]
  BY <1>1, PastStays DEF Past
<1>3. \A c \in Consumers :
        /\ cursor'[c].lastSeq \in Nat /\ cursor'[c].errSeq \in Nat
        /\ Past(cursor'[c].lastSeq) /\ Past(cursor'[c].errSeq)
  BY <1>1 DEF CursorRows, Quiet, QuietCursor, PositionsArePast
<1>4. \A p \in Procs :
        /\ run'[p].from \in Nat /\ run'[p].at \in Nat /\ run'[p].head \in Nat
        /\ Past(run'[p].from) /\ Past(run'[p].at) /\ Past(run'[p].head)
  BY <1>1 DEF Runs, Quiet, QuietRun, PositionsArePast
<1>5. PositionsArePast'
  <2>1. Past(0)'
    BY <1>1, <1>2 DEF PositionsArePast, Past
  <2>2. ASSUME NEW e \in Events, Shown(e)' PROVE Past(seq[e])'
    <3>1. seq'[e] = seq[e] /\ seq[e] \in Nat
      BY <1>1, <2>2 DEF LogMoves
    <3>2. CASE Shown(e)
      BY <1>1, <1>2, <3>1, <3>2 DEF PositionsArePast, Past
    <3>3. CASE ~Shown(e)
      <4>1. row'[e] = "visible"
        BY <2>2, <3>3 DEF LogMoves, Shown
      <4> QED BY <4>1 DEF SeqInv, OrderInv, HasSeq, Past
    <3> QED BY <3>2, <3>3
  <2>3. ASSUME NEW d \in Events, NEW e \in Events, Shown(d)', Shown(e)', seq'[d] = seq'[e]
        PROVE  d = e
    <3>1. seq[d] \in Nat /\ seq[e] \in Nat /\ seq[d] = seq[e]
      BY <1>1, <2>3 DEF LogMoves
    <3>2. CASE Shown(d) /\ Shown(e)
      BY <1>1, <3>1, <3>2 DEF PositionsArePast
    <3>3. CASE ~Shown(d) /\ Shown(e)
      <4>1. row[d] \in {"sequencing", "repairing"}
        BY <2>3, <3>3 DEF LogMoves
      <4>2. seq[e] < seq[d]
        BY <1>1, <3>3, <4>1 DEF PositionsArePast, Past
      <4> QED BY <3>1, <4>2
    <3>4. CASE Shown(d) /\ ~Shown(e)
      <4>1. row[e] \in {"sequencing", "repairing"}
        BY <2>3, <3>4 DEF LogMoves
      <4>2. seq[d] < seq[e]
        BY <1>1, <3>4, <4>1 DEF PositionsArePast, Past
      <4> QED BY <3>1, <4>2
    <3>5. CASE ~Shown(d) /\ ~Shown(e)
      <4>1. /\ row[d] \in {"sequencing", "repairing"}
            /\ row[e] \in {"sequencing", "repairing"}
        BY <2>3, <3>5 DEF LogMoves
      <4> QED BY <1>1, <3>1, <4>1 DEF SeqInv, OrderInv, HasSeq
    <3> QED BY <3>2, <3>3, <3>4, <3>5
  <2>4. \A c \in Consumers : (Past(cursor[c].lastSeq) /\ Past(cursor[c].errSeq))'
    BY <1>2, <1>3 DEF Past
  <2>5. \A p \in Procs : (Past(run[p].from) /\ Past(run[p].at) /\ Past(run[p].head))'
    BY <1>2, <1>4 DEF Past
  <2> QED BY <2>1, <2>2, <2>3, <2>4, <2>5 DEF PositionsArePast
<1>6. \A p \in Procs : Holds(p)' => Holds(p) /\ run'[p] = run[p]
  BY DEF Holds, Quiet, QuietRun
<1>7. RunsAreAlone'
  <2>1. ASSUME NEW p \in Procs, Holds(p)', NEW c, c = run[p].consumer
        PROVE  /\ \A q \in Procs : Holds(q)' /\ run'[q].consumer = c => p = q
               /\ cursor'[c].exists = ~run'[p].fresh
               /\ cursor'[c].exists =>
                    cursor'[c].lastSeq = run'[p].from /\ cursor'[c].parked = "no"
    <3>1. Holds(p) /\ run'[p] = run[p] /\ c \in Consumers
      BY <1>1, <1>6, <2>1 DEF Runs
    <3>2. QuietCursor(c) /\ ~Unlocked(c)
      BY <2>1, <3>1 DEF Quiet, Unlocked, Holds
    <3>3. /\ \A q \in Procs : Holds(q) /\ run[q].consumer = c => p = q
          /\ cursor[c].exists = ~run[p].fresh
          /\ cursor[c].exists =>
               cursor[c].lastSeq = run[p].from /\ cursor[c].parked = "no"
      BY <2>1, <3>1 DEF ConInv, RunsAreAlone
    <3> QED BY <1>6, <3>1, <3>2, <3>3 DEF QuietCursor
  <2>2. ASSUME NEW p \in Procs, Holds(p)' PROVE run'[p].consumer = run[p].consumer
    BY <1>6, <2>2
  <2> QED BY <2>1, <2>2 DEF RunsAreAlone
<1>8. RunsKeepUp'
  <2>1. ASSUME NEW p \in Procs, Holds(p)' PROVE RunOK(run[p])'
    <3>1. Holds(p) /\ run'[p] = run[p] /\ run[p] \in Runs
      BY <1>1, <1>6, <2>1
    <3>2. RunOK(run[p]) /\ Past(run[p].at) /\ Past(run[p].head) /\ Past(run[p].from)
      BY <1>1, <3>1 DEF ConInv, RunsKeepUp, PositionsArePast
    <3>3. ASSUME NEW r \in Runs, r = run[p] PROVE RunOK(r)'
      BY <1>1, <3>2, <3>3, RunStaysOK
    <3>4. ASSUME NEW r \in Runs, r = run[p] PROVE RunOK(run[p])'
      BY <3>1, <3>3, <3>4 DEF RunOK
    <3> QED BY <3>1, <3>4
  <2> QED BY <2>1 DEF RunsKeepUp
<1>9. HistoryIsPast'
  <2>1. ASSUME NEW c \in Consumers, NEW e \in Events, ~Shown(e)'
        PROVE  hist'[c].applied[e] = 0 /\ e \notin hist'[c].skipped
    BY <2>1 DEF ConInv, HistoryIsPast, LogMoves, Quiet, QuietCursor
  <2>2. ASSUME NEW c \in Consumers, cursor'[c].exists
        PROVE  /\ hist'[c].start <= cursor'[c].lastSeq
               /\ \A e \in hist'[c].skipped : seq'[e] <= cursor'[c].lastSeq
    <3>1. /\ cursor[c].exists /\ cursor'[c].lastSeq = cursor[c].lastSeq
          /\ hist'[c].start = hist[c].start /\ hist'[c].skipped = hist[c].skipped
      BY <2>2 DEF Quiet, QuietCursor
    <3>2. \A e \in hist[c].skipped : e \in Events /\ Shown(e) /\ seq'[e] = seq[e]
      BY <1>1 DEF ConInv, HistoryIsPast, LogMoves, Histories
    <3> QED BY <3>1, <3>2 DEF ConInv, HistoryIsPast
  <2> QED BY <2>1, <2>2 DEF HistoryIsPast
<1>10. CursorTellsTheTruth'
  <2>1. ASSUME NEW c \in Consumers, NEW e \in Visible', cursor'[c].exists, e \in Wants[c]
        PROVE  hist'[c].applied[e] =
                 IF /\ hist'[c].start < seq'[e] /\ seq'[e] <= cursor'[c].lastSeq
                    /\ e \notin hist'[c].skipped
                 THEN 1 ELSE 0
    <3>1. e \in Events /\ row'[e] = "visible"
      BY DEF Visible
    <3>2. /\ cursor[c].exists /\ cursor'[c].lastSeq = cursor[c].lastSeq
          /\ hist'[c].start = hist[c].start /\ hist'[c].skipped = hist[c].skipped
          /\ hist'[c].applied = hist[c].applied
      BY <2>1 DEF Quiet, QuietCursor
    <3>3. seq'[e] = seq[e] /\ seq[e] \in Nat /\ cursor[c].lastSeq \in Nat
      BY <1>1, <3>1 DEF LogMoves, Shown, CursorRows
    <3>4. CASE Shown(e)
      <4>1. e \in Visible
        BY <3>1, <3>4 DEF LogMoves, Visible
      <4> QED BY <2>1, <3>2, <3>3, <4>1 DEF ConInv, CursorTellsTheTruth
    <3>5. CASE ~Shown(e)
      <4>1. hist[c].applied[e] = 0
        BY <3>1, <3>5 DEF ConInv, HistoryIsPast
      <4>2. row[e] \in {"sequencing", "repairing"}
        BY <3>1, <3>5 DEF LogMoves, Shown
      <4>3. cursor[c].lastSeq < seq[e]
        BY <1>1, <3>1, <4>2 DEF PositionsArePast, Past
      <4> QED BY <3>2, <3>3, <4>1, <4>3
    <3> QED BY <3>4, <3>5
  <2> QED BY <2>1 DEF CursorTellsTheTruth
<1> QED BY <1>5, <1>7, <1>8, <1>9, <1>10 DEF ConInv

-----------------------------------------------------------------------------
(* A run commits: what its cursor then claims was delivered is what it and
   its predecessors handled. *)

LEMMA NewHistoryIs ==
  ASSUME NEW p \in Procs, run[p].from \in Nat
  PROVE  /\ NewHistory(p) \in Histories
         /\ NewHistory(p).start = run[p].from
         /\ NewHistory(p).skipped = {} /\ NewHistory(p).lost = {}
         /\ NewHistory(p).applied = [e \in Events |-> 0]
         /\ NewHistory(p).exposed <=> /\ run[p].consumer \notin HeadStarters
                                     /\ prune.phase = "floored"
<1> DEFINE exposed == run[p].consumer \notin HeadStarters /\ prune.phase = "floored"
<1>1. NewHistory(p) = [HistoryFrom(run[p].from) EXCEPT !.exposed = exposed]
  BY DEF NewHistory
<1>2. exposed \in BOOLEAN
  OBVIOUS
<1> HIDE DEF exposed
<1>3. /\ NewHistory(p) \in Histories
      /\ NewHistory(p).start = run[p].from
      /\ NewHistory(p).skipped = {} /\ NewHistory(p).lost = {}
      /\ NewHistory(p).applied = [e \in Events |-> 0]
      /\ NewHistory(p).exposed = exposed
  BY <1>1, <1>2 DEF HistoryFrom, Histories
<1> QED BY <1>3 DEF exposed

LEMMA CommitStep ==
  ASSUME ConInv, ConTypeOK', UNCHANGED seqVars, NEW p \in Procs, Holds(p),
         NEW r \in CursorRows, CommitRun(p, r),
         r.exists, run[p].at <= r.lastSeq, Past(r.lastSeq), Past(r.errSeq),
         \A e \in WantedBy(run[p].consumer) : run[p].at < seq[e] => r.lastSeq < seq[e]
  PROVE  ConInv'
<1> DEFINE c == run[p].consumer
           from == run[p].from
           at == run[p].at
           n == r.lastSeq
           h == IF run[p].fresh THEN NewHistory(p) ELSE hist[c]
<1>1. /\ SeqInv /\ SeqInv' /\ PositionsArePast
      /\ seq \in [Events -> Nat]
      /\ cursor \in [Consumers -> CursorRows]
      /\ run \in [Procs -> Runs] /\ hist \in [Consumers -> Histories]
      /\ row' = row /\ seq' = seq /\ nextSeq' = nextSeq
  BY StillLogMoves DEF ConInv, ConTypeOK, SeqTypeOK, seqVars
<1>2. /\ c \in Consumers /\ from \in Nat /\ at \in Nat /\ n \in Nat /\ r.errSeq \in Nat
      /\ run[p].ok \subseteq Events
  BY <1>1 DEF Runs, CursorRows
<1>3. /\ cursor' = [cursor EXCEPT ![c] = r]
      /\ run' = [run EXCEPT ![p] = IdleRun]
      /\ hist' = [hist EXCEPT ![c] =
                    [h EXCEPT !.applied =
                       [e \in Events |-> IF e \in run[p].ok
                                         THEN Least(h.applied[e] + 1, 2)
                                         ELSE h.applied[e]]]]
  BY DEF CommitRun
<1>4. RunOK(run[p])
  BY DEF ConInv, RunsKeepUp
(* Where the run found the consumer. *)
<1>5. /\ h \in Histories /\ h.start <= from
      /\ \A e \in h.skipped : seq[e] <= from
      /\ \A e \in Events : ~Shown(e) => h.applied[e] = 0 /\ e \notin h.skipped
      /\ \A e \in WantedBy(c) :
           h.applied[e] = IF h.start < seq[e] /\ seq[e] <= from /\ e \notin h.skipped
                          THEN 1 ELSE 0
  <2>1. CASE run[p].fresh
    <3>1. /\ NewHistory(p).start = from /\ NewHistory(p).skipped = {}
          /\ \A e \in Events : NewHistory(p).applied[e] = 0
          /\ NewHistory(p) \in Histories
      BY <1>2, NewHistoryIs
    <3>2. \A e \in WantedBy(c) : e \in Events /\ seq[e] \in Nat
      BY <1>1 DEF WantedBy, Visible
    <3>3. \A e \in WantedBy(c) : ~(from < seq[e] /\ seq[e] <= from)
      BY <1>2, <3>2
    <3> QED BY <1>2, <2>1, <3>1, <3>2, <3>3
  <2>2. CASE ~run[p].fresh
    <3>1. cursor[c].exists /\ cursor[c].lastSeq = from
      <4>1. cursor[c].exists = TRUE
        BY <2>2 DEF ConInv, RunsAreAlone
      <4> QED BY <4>1 DEF ConInv, RunsAreAlone
    <3>2. \A e \in WantedBy(c) : e \in Visible /\ e \in Wants[c]
      BY DEF WantedBy
    <3>3. h = hist[c] /\ hist[c] \in Histories
      BY <1>1, <1>2, <2>2
    <3>4. HistoryIsPast /\ CursorTellsTheTruth
      BY DEF ConInv
    <3> HIDE DEF h
    <3>5. /\ hist[c].start <= from
          /\ \A e \in hist[c].skipped : seq[e] <= from
          /\ \A e \in Events : ~Shown(e) => hist[c].applied[e] = 0 /\ e \notin hist[c].skipped
      BY <1>2, <3>1, <3>4 DEF HistoryIsPast
    <3>6. \A e \in WantedBy(c) :
            hist[c].applied[e] = IF hist[c].start < seq[e] /\ seq[e] <= from /\ e \notin hist[c].skipped
                                 THEN 1 ELSE 0
      BY <1>2, <3>1, <3>2, <3>4 DEF CursorTellsTheTruth
    <3> QED BY <3>3, <3>5, <3>6
  <2> QED BY <2>1, <2>2
<1> HIDE DEF h
<1>6. /\ hist'[c].start = h.start /\ hist'[c].skipped = h.skipped
      /\ \A e \in Events : hist'[c].applied[e] = IF e \in run[p].ok
                                                THEN Least(h.applied[e] + 1, 2)
                                                ELSE h.applied[e]
      /\ \A d \in Consumers : d # c => hist'[d] = hist[d] /\ cursor'[d] = cursor[d]
      /\ cursor'[c] = r
  BY <1>1, <1>2, <1>3, <1>5 DEF Histories
<1>7. \A q \in Procs : run'[q] = IF q = p THEN IdleRun ELSE run[q]
  BY <1>1, <1>3
<1>8. /\ IdleRun.phase = "idle" /\ IdleRun.from = 0 /\ IdleRun.at = 0 /\ IdleRun.head = 0
  BY DEF IdleRun
<1>9. PositionsArePast'
  <2>1. \A d \in Consumers : Past(cursor'[d].lastSeq) /\ Past(cursor'[d].errSeq)
    BY <1>1, <1>6 DEF PositionsArePast
  <2>2. \A q \in Procs : Past(run'[q].from) /\ Past(run'[q].at) /\ Past(run'[q].head)
    BY <1>1, <1>7, <1>8 DEF PositionsArePast
  <2> QED BY <1>1, <2>1, <2>2 DEF PositionsArePast, Past, Shown
<1>10. \A q \in Procs : Holds(q)' => q # p /\ Holds(q) /\ run'[q] = run[q]
  BY <1>7, <1>8 DEF Holds
<1>11. \A q \in Procs : q # p /\ Holds(q) => run[q].consumer # c
  BY DEF ConInv, RunsAreAlone
<1>12. RunsAreAlone'
  <2>1. ASSUME NEW q \in Procs, Holds(q)', NEW d, d = run[q].consumer
        PROVE  /\ run'[q] = run[q]
               /\ \A u \in Procs : Holds(u)' /\ run'[u].consumer = d => q = u
               /\ cursor'[d].exists = ~run'[q].fresh
               /\ cursor'[d].exists =>
                    cursor'[d].lastSeq = run'[q].from /\ cursor'[d].parked = "no"
    <3>1. Holds(q) /\ run'[q] = run[q] /\ d \in Consumers /\ d # c
      BY <1>1, <1>10, <1>11, <2>1 DEF Runs
    <3>2. cursor'[d] = cursor[d]
      BY <1>6, <3>1
    <3>3. /\ \A u \in Procs : Holds(u) /\ run[u].consumer = d => q = u
          /\ cursor[d].exists = ~run[q].fresh
          /\ cursor[d].exists =>
               cursor[d].lastSeq = run[q].from /\ cursor[d].parked = "no"
      BY <2>1, <3>1 DEF ConInv, RunsAreAlone
    <3> QED BY <1>10, <3>1, <3>2, <3>3
  <2> QED BY <2>1 DEF RunsAreAlone
<1>13. RunsKeepUp'
  BY <1>1, <1>10 DEF ConInv, RunsKeepUp, RunOK, WantedBy, Visible, Shown
<1>14. HistoryIsPast'
  <2>1. ASSUME NEW d \in Consumers, d # c
        PROVE  /\ \A e \in Events : ~Shown(e)' => hist'[d].applied[e] = 0 /\ e \notin hist'[d].skipped
               /\ cursor'[d].exists =>
                    /\ hist'[d].start <= cursor'[d].lastSeq
                    /\ \A e \in hist'[d].skipped : seq'[e] <= cursor'[d].lastSeq
    BY <1>1, <1>6, <2>1 DEF ConInv, HistoryIsPast, Shown
  <2>2. \A e \in Events : ~Shown(e)' => hist'[c].applied[e] = 0 /\ e \notin hist'[c].skipped
    <3>1. \A e \in Events : ~Shown(e)' => ~Shown(e) /\ e \notin run[p].ok
      BY <1>1, <1>4 DEF RunOK, Shown
    <3> QED BY <1>5, <1>6, <3>1
  <2>3. hist'[c].start <= n /\ \A e \in hist'[c].skipped : seq'[e] <= n
    <3>1. from <= at /\ at <= n
      BY <1>4 DEF RunOK
    <3>2. h.start \in Nat /\ \A e \in h.skipped : seq[e] \in Nat
      BY <1>1, <1>5 DEF Histories
    <3> QED BY <1>1, <1>2, <1>5, <1>6, <3>1, <3>2
  <2> QED BY <1>6, <2>1, <2>2, <2>3 DEF HistoryIsPast
<1>15. CursorTellsTheTruth'
  <2>1. ASSUME NEW d \in Consumers, d # c, NEW e \in Visible', cursor'[d].exists, e \in Wants[d]
        PROVE  hist'[d].applied[e] =
                 IF /\ hist'[d].start < seq'[e] /\ seq'[e] <= cursor'[d].lastSeq
                    /\ e \notin hist'[d].skipped
                 THEN 1 ELSE 0
    BY <1>1, <1>6, <2>1 DEF ConInv, CursorTellsTheTruth, Visible
  <2>2. ASSUME NEW e \in Visible', e \in Wants[c]
        PROVE  hist'[c].applied[e] =
                 IF h.start < seq[e] /\ seq[e] <= n /\ e \notin h.skipped THEN 1 ELSE 0
    <3>1. e \in Events /\ e \in WantedBy(c) /\ seq[e] \in Nat /\ h.start \in Nat
      BY <1>1, <1>5, <2>2 DEF WantedBy, Visible, Histories
    <3>2. /\ h.applied[e] = IF h.start < seq[e] /\ seq[e] <= from /\ e \notin h.skipped
                            THEN 1 ELSE 0
          /\ hist'[c].applied[e] = IF e \in run[p].ok THEN Least(h.applied[e] + 1, 2)
                                   ELSE h.applied[e]
      BY <1>5, <1>6, <3>1
    <3>3. from <= at /\ at <= n /\ (e \in run[p].ok <=> from < seq[e] /\ seq[e] <= at)
      BY <1>4, <3>1 DEF RunOK
    <3>4. e \in h.skipped => seq[e] <= from
      BY <1>5
    <3>5. CASE seq[e] <= from
      BY <1>2, <3>1, <3>2, <3>3, <3>5
    <3>6. CASE from < seq[e] /\ seq[e] <= at
      <4>1. e \in run[p].ok /\ h.applied[e] = 0 /\ e \notin h.skipped
        BY <1>2, <3>1, <3>2, <3>3, <3>4, <3>6
      <4>2. h.start < seq[e] /\ seq[e] <= n
        BY <1>2, <1>5, <3>1, <3>3, <3>6
      <4> QED BY <3>2, <4>1, <4>2 DEF Least
    <3>7. CASE at < seq[e]
      <4>1. n < seq[e] /\ e \notin run[p].ok /\ h.applied[e] = 0
        BY <1>2, <3>1, <3>2, <3>3, <3>7
      <4> QED BY <1>2, <3>1, <3>2, <4>1
    <3> QED BY <1>2, <3>1, <3>5, <3>6, <3>7
  <2> QED BY <1>1, <1>6, <2>1, <2>2 DEF CursorTellsTheTruth
<1> QED BY <1>1, <1>9, <1>12, <1>13, <1>14, <1>15 DEF ConInv

-----------------------------------------------------------------------------
(* What a scan returns: the first of what it may, all of it if that is less
   than a batch. *)

LEMMA LimitTakesTheFirst ==
  ASSUME SeqInv, NEW S \in SUBSET Events,
         \A d, e \in S : seq[d] = seq[e] => d = e,
         \A e \in S : seq[e] <= nextSeq
  PROVE  /\ Limit(S) \subseteq S
         /\ \A e \in S, d \in Limit(S) : seq[e] <= seq[d] => e \in Limit(S)
         /\ Cardinality(Limit(S)) # BatchSize => Limit(S) = S
<1> DEFINE Below(e) == {d \in S : seq[d] < seq[e]}
<1>1. /\ seq \in [Events -> Nat] /\ nextSeq \in Nat
      /\ BatchSize \in Nat /\ BatchSize # 0 /\ IsFiniteSet(S)
  BY LimitsAssumption, EventsAssumption, FS_Subset DEF SeqInv, SeqTypeOK
<1>2. \A e \in S : IsFiniteSet(Below(e)) /\ Cardinality(Below(e)) \in Nat
  <2>1. TAKE e \in S
  <2>2. Below(e) \in SUBSET S
    OBVIOUS
  <2> HIDE DEF Below
  <2> QED BY <1>1, <2>2, FS_Subset, FS_CardinalityType
<1>3. \A e \in S : e \in Limit(S) <=> Cardinality(Below(e)) < BatchSize
  BY DEF Limit
<1>4. Limit(S) \subseteq S
  BY DEF Limit
<1>5. ASSUME NEW e \in S, NEW d \in Limit(S), seq[e] <= seq[d]
      PROVE  e \in Limit(S)
  <2>1. Below(e) \in SUBSET Below(d)
    BY <1>1, <1>4, <1>5
  <2>2. Cardinality(Below(e)) <= Cardinality(Below(d))
    <3> HIDE DEF Below
    <3> QED BY <1>2, <1>4, <2>1, FS_Subset
  <2>3. Cardinality(Below(d)) < BatchSize
    BY <1>3, <1>4
  <2> HIDE DEF Below
  <2> QED BY <1>1, <1>2, <1>3, <1>4, <2>2, <2>3
<1>6. ASSUME Limit(S) # S PROVE Cardinality(Limit(S)) = BatchSize
  <2>1. IsFiniteSet(Limit(S)) /\ Cardinality(Limit(S)) \in Nat
    BY <1>1, <1>4, FS_Subset, FS_CardinalityType
  <2>2. PICK x \in S \ Limit(S) : \A d \in S \ Limit(S) : seq[x] <= seq[d]
    <3>1. S \ Limit(S) \in SUBSET Events /\ S \ Limit(S) # {}
      BY <1>4, <1>6
    <3> QED BY <1>1, <3>1, FirstExists
  <2>3. BatchSize <= Cardinality(Below(x))
    <3> HIDE DEF Below
    <3> QED BY <1>1, <1>2, <1>3
  <2>4. Below(x) \in SUBSET Limit(S)
    <3>1. ASSUME NEW d \in S, seq[d] < seq[x] PROVE d \in Limit(S)
      BY <1>1, <2>2, <3>1
    <3> QED BY <3>1
  <2>5. BatchSize <= Cardinality(Limit(S))
    <3>1. Cardinality(Below(x)) <= Cardinality(Limit(S))
      <4> HIDE DEF Below
      <4> QED BY <2>1, <2>4, FS_Subset
    <3>2. Cardinality(Below(x)) \in Nat
      <4> HIDE DEF Below
      <4> QED BY <1>2
    <3> HIDE DEF Below
    <3> QED BY <1>1, <2>1, <2>3, <3>1, <3>2
  <2>6. Limit(S) # {}
    BY <1>1, <2>1, <2>5, FS_EmptySet
  <2>7. PICK m \in Limit(S) : \A d \in Limit(S) : seq[d] <= seq[m]
    <3> DEFINE N == {seq[d] : d \in Limit(S)}
    <3>1. N \in SUBSET Nat /\ N # {} /\ \A n \in N : n <= nextSeq
      BY <1>1, <1>4, <2>6
    <3>2. PICK n \in N : \A k \in N : k <= n
      BY <1>1, <3>1, GreatestNatural
    <3> QED BY <3>2
  <2>8. Limit(S) \in SUBSET (Below(m) \union {m})
    <3>1. ASSUME NEW d \in Limit(S), d # m PROVE d \in S /\ seq[d] < seq[m]
      <4>1. d \in S /\ m \in S /\ seq[d] \in Nat /\ seq[m] \in Nat
        BY <1>1, <1>4
      <4>2. seq[d] # seq[m]
        BY <3>1, <4>1
      <4> QED BY <2>7, <4>1, <4>2
    <3> QED BY <3>1
  <2>9. Cardinality(Limit(S)) <= BatchSize
    <3>1. /\ Cardinality(Below(m)) < BatchSize
          /\ IsFiniteSet(Below(m)) /\ Cardinality(Below(m)) \in Nat
      <4> HIDE DEF Below
      <4> QED BY <1>2, <1>3, <1>4
    <3> HIDE DEF Below
    <3>2. /\ IsFiniteSet(Below(m) \union {m})
          /\ Cardinality(Below(m) \union {m}) <= Cardinality(Below(m)) + 1
      <4>1. /\ IsFiniteSet(Below(m) \union {m})
            /\ Cardinality(Below(m) \union {m}) =
                 IF m \in Below(m) THEN Cardinality(Below(m)) ELSE Cardinality(Below(m)) + 1
        BY <3>1, FS_AddElement
      <4> QED BY <3>1, <4>1
    <3>3. Cardinality(Limit(S)) <= Cardinality(Below(m) \union {m})
      BY <2>8, <3>2, FS_Subset
    <3>4. Cardinality(Below(m) \union {m}) \in Nat
      BY <3>2, FS_CardinalityType
    <3> QED BY <1>1, <2>1, <3>1, <3>2, <3>3, <3>4
  <2> QED BY <1>1, <2>1, <2>5, <2>9
<1> QED BY <1>4, <1>5, <1>6

-----------------------------------------------------------------------------
(* The steps of a run *)

LEMMA OneRunStep ==
  ASSUME ConInv, NEW p \in Procs, NEW r \in Runs,
         run' = [run EXCEPT ![p] = r],
         UNCHANGED <<seqVars, cursor, prune, hist, left>>,
         r.phase \in {"claimed", "running"}, RunOK(r),
         Past(r.from), Past(r.at), Past(r.head),
         \A q \in Procs : Holds(q) /\ run[q].consumer = r.consumer => q = p,
         cursor[r.consumer].exists = ~r.fresh,
         cursor[r.consumer].exists =>
           cursor[r.consumer].lastSeq = r.from /\ cursor[r.consumer].parked = "no"
  PROVE  ConInv'
<1>1. /\ row' = row /\ seq' = seq /\ nextSeq' = nextSeq /\ cursor' = cursor
      /\ hist' = hist /\ SeqInv' /\ run \in [Procs -> Runs]
  BY StillLogMoves DEF ConInv, ConTypeOK, seqVars
<1>2. \A q \in Procs : run'[q] = IF q = p THEN r ELSE run[q]
  BY <1>1
<1>3. ConTypeOK'
  BY <1>1 DEF ConInv, ConTypeOK, SeqInv
<1>4. PositionsArePast'
  BY <1>1, <1>2 DEF ConInv, PositionsArePast, Past, Shown
<1>5. RunsAreAlone'
  BY <1>1, <1>2 DEF ConInv, RunsAreAlone, Holds
<1>6. RunsKeepUp'
  <2>1. ASSUME NEW q \in Procs, Holds(q)' PROVE RunOK(run[q])'
    <3>1. CASE q = p
      BY <1>1, <1>2, <3>1 DEF RunOK, WantedBy, Visible, Shown
    <3>2. CASE q # p
      BY <1>1, <1>2, <2>1, <3>2 DEF ConInv, RunsKeepUp, Holds, RunOK, WantedBy, Visible, Shown
    <3> QED BY <3>1, <3>2
  <2> QED BY <2>1 DEF RunsKeepUp
<1>7. HistoryIsPast' /\ CursorTellsTheTruth'
  BY <1>1 DEF ConInv, HistoryIsPast, CursorTellsTheTruth, Visible, Shown
<1> QED BY <1>1, <1>3, <1>4, <1>5, <1>6, <1>7 DEF ConInv

LEMMA IdleRunTypes == IdleRun \in Runs
<1>1. (CHOOSE c \in Consumers : TRUE) \in Consumers
  BY ConsumersAssumption
<1> QED BY <1>1, LimitsAssumption DEF IdleRun, Runs

LEMMA ClaimStep ==
  ASSUME ConInv, NEW p \in Procs, NEW c \in Consumers, Claim(p, c)
  PROVE  ConInv'
<1> DEFINE r == IF cursor[c].exists THEN cursor[c]
                ELSE RowAt(IF c \in HeadStarters THEN HeadSeq ELSE 0)
           new == [IdleRun EXCEPT !.phase = "claimed", !.consumer = c,
                     !.fresh = ~cursor[c].exists, !.from = r.lastSeq,
                     !.failures = r.failures, !.at = r.lastSeq,
                     !.head = IF c \in Wildcards THEN 0 ELSE HeadSeq]
<1>1. /\ Unlocked(c) /\ r.parked = "no"
      /\ run' = [run EXCEPT ![p] = new]
      /\ UNCHANGED <<seqVars, cursor, prune, hist, left>>
  BY DEF Claim
<1>2. /\ cursor[c] \in CursorRows /\ HeadSeq \in Nat /\ Past(HeadSeq) /\ Past(0)
      /\ Past(cursor[c].lastSeq)
  BY HeadIsPast DEF ConInv, ConTypeOK, PositionsArePast
<1>3. \A n \in Nat : /\ RowAt(n).lastSeq = n /\ RowAt(n).failures = 0
                     /\ RowAt(n).parked = "no"
  BY DEF RowAt, NoRow
<1>4. /\ r.lastSeq \in Nat /\ r.failures \in 0 .. ParkAfter /\ Past(r.lastSeq)
      /\ cursor[c].exists => cursor[c].lastSeq = r.lastSeq /\ cursor[c].parked = "no"
  <2>1. CASE cursor[c].exists
    BY <1>1, <1>2, <2>1 DEF CursorRows
  <2>2. CASE ~cursor[c].exists
    BY <1>2, <1>3, <2>2, LimitsAssumption
  <2> QED BY <2>1, <2>2
<1> HIDE DEF r
<1>5. /\ new.phase = "claimed" /\ new.consumer = c /\ new.fresh = ~cursor[c].exists
      /\ new.from = r.lastSeq /\ new.at = r.lastSeq
      /\ new.head = (IF c \in Wildcards THEN 0 ELSE HeadSeq)
      /\ new.ok = {} /\ new.batch = {}
  BY DEF IdleRun
<1>6. new \in Runs
  <2>1. (~cursor[c].exists) \in BOOLEAN
    BY <1>2 DEF CursorRows
  <2>2. (IF c \in Wildcards THEN 0 ELSE HeadSeq) \in Nat
    BY <1>2
  <2>3. ASSUME NEW x \in Runs, NEW fresh \in BOOLEAN, NEW n \in Nat,
               NEW k \in 0 .. ParkAfter, NEW head \in Nat
        PROVE  [x EXCEPT !.phase = "claimed", !.consumer = c, !.fresh = fresh, !.from = n,
                         !.failures = k, !.at = n, !.head = head] \in Runs
    BY DEF Runs
  <2> QED BY <1>4, <2>1, <2>2, <2>3, IdleRunTypes
<1> HIDE DEF new
<1>7. RunOK(new)
  <2>1. \A e \in WantedBy(c) : seq[e] \in Nat
    BY DEF ConInv, SeqInv, SeqTypeOK, WantedBy, Visible
  <2>2. \A e \in WantedBy(c) : ~(new.from < seq[e] /\ seq[e] <= new.at)
    BY <1>4, <1>5, <2>1
  <2> QED BY <1>4, <1>5, <2>2 DEF RunOK
<1>8. \A q \in Procs : ~(Holds(q) /\ run[q].consumer = c)
  BY <1>1 DEF Unlocked, Holds
<1>9. Past(new.from) /\ Past(new.at) /\ Past(new.head)
  BY <1>2, <1>4, <1>5
<1>10. /\ cursor[new.consumer].exists = ~new.fresh
       /\ cursor[new.consumer].exists =>
            cursor[new.consumer].lastSeq = new.from /\ cursor[new.consumer].parked = "no"
  <2>1. cursor[c].exists \in BOOLEAN
    BY <1>2 DEF CursorRows
  <2> QED BY <1>4, <1>5, <2>1
<1>11. \A q \in Procs : Holds(q) /\ run[q].consumer = new.consumer => q = p
  BY <1>5, <1>8
<1>12. new.phase \in {"claimed", "running"}
  BY <1>5
<1> QED BY <1>1, <1>6, <1>7, <1>9, <1>10, <1>11, <1>12, OneRunStep

(* The row a run commits. *)
LEMMA ClaimedRowIs ==
  ASSUME ConInv, NEW p \in Procs, Holds(p)
  PROVE  /\ ClaimedRow(p) \in CursorRows
         /\ ClaimedRow(p).exists /\ ClaimedRow(p).lastSeq = run[p].from
         /\ Past(ClaimedRow(p).errSeq)
<1> DEFINE c == run[p].consumer
<1>1. /\ c \in Consumers /\ run[p].from \in Nat /\ cursor[c] \in CursorRows
      /\ Past(cursor[c].errSeq) /\ Past(0)
  BY DEF ConInv, ConTypeOK, Runs, PositionsArePast
<1>2. CASE run[p].fresh
  <2>1. ClaimedRow(p) = [exists |-> TRUE, lastSeq |-> run[p].from, failures |-> 0,
                         errSeq |-> 0, waiting |-> FALSE, parked |-> "no",
                         abandoned |-> FALSE]
    BY <1>2 DEF ClaimedRow, RowAt, NoRow
  <2> QED BY <1>1, <2>1, LimitsAssumption DEF CursorRows
<1>3. CASE ~run[p].fresh
  <2>1. ClaimedRow(p) = cursor[c]
    BY <1>3 DEF ClaimedRow
  <2>2. cursor[c].exists = TRUE
    BY <1>3 DEF ConInv, RunsAreAlone
  <2>3. cursor[c].lastSeq = run[p].from
    BY <2>2 DEF ConInv, RunsAreAlone
  <2> QED BY <1>1, <2>1, <2>2, <2>3
<1> QED BY <1>2, <1>3

LEMMA CommitTypes ==
  ASSUME ConInv, NEW p \in Procs, NEW r \in CursorRows, CommitRun(p, r)
  PROVE  /\ cursor' \in [Consumers -> CursorRows]
         /\ run' \in [Procs -> Runs] /\ hist' \in [Consumers -> Histories]
<1> DEFINE c == run[p].consumer
           h == IF run[p].fresh THEN NewHistory(p) ELSE hist[c]
           applied == [e \in Events |-> IF e \in run[p].ok THEN Least(h.applied[e] + 1, 2)
                                        ELSE h.applied[e]]
<1>1. /\ cursor \in [Consumers -> CursorRows] /\ run \in [Procs -> Runs]
      /\ hist \in [Consumers -> Histories] /\ c \in Consumers /\ run[p].from \in Nat
  BY DEF ConInv, ConTypeOK, Runs
<1>2. h \in Histories
  BY <1>1, NewHistoryIs
<1>3. /\ cursor' = [cursor EXCEPT ![c] = r]
      /\ run' = [run EXCEPT ![p] = IdleRun]
      /\ hist' = [hist EXCEPT ![c] = [h EXCEPT !.applied = applied]]
  BY DEF CommitRun
<1> HIDE DEF h
<1>4. applied \in [Events -> 0 .. 2]
  BY <1>2 DEF Histories, Least
<1> HIDE DEF applied
<1>5. [h EXCEPT !.applied = applied] \in Histories
  BY <1>2, <1>4 DEF Histories
<1>6. IdleRun \in Runs
  BY IdleRunTypes
<1> QED BY <1>1, <1>3, <1>5, <1>6

(* What markProgress makes of a row. *)
LEMMA MarkProgressIs ==
  ASSUME NEW r \in CursorRows, NEW n \in Nat
  PROVE  /\ MarkProgress(r, n) \in CursorRows
         /\ MarkProgress(r, n).exists = r.exists
         /\ MarkProgress(r, n).lastSeq = n /\ MarkProgress(r, n).errSeq = 0
         /\ MarkProgress(r, n).parked = r.parked
<1>1. 0 \in Nat /\ 0 \in 0 .. ParkAfter
  BY LimitsAssumption
<1>2. MarkProgress(r, n) \in CursorRows
  BY <1>1 DEF MarkProgress, CursorRows
<1>3. /\ MarkProgress(r, n).lastSeq = n /\ MarkProgress(r, n).errSeq = 0
      /\ MarkProgress(r, n).parked = r.parked
  BY DEF MarkProgress, CursorRows
<1>4. MarkProgress(r, n).exists = r.exists
  BY DEF MarkProgress, CursorRows
<1> QED BY <1>2, <1>3, <1>4

LEMMA ScanStep ==
  ASSUME ConInv, NEW p \in Procs, Scan(p)
  PROVE  ConInv'
<1> DEFINE r == run[p]
           S == Scannable(r)
           batch == Limit(S)
<1>1. /\ r \in Runs /\ Holds(p) /\ RunOK(r) /\ r.phase = "claimed"
      /\ SeqInv /\ PositionsArePast /\ seq \in [Events -> Nat]
      /\ Past(r.from) /\ Past(r.at) /\ Past(r.head)
  BY DEF Scan, Holds, ConInv, ConTypeOK, RunsKeepUp, SeqTypeOK, PositionsArePast
<1>2. /\ r.consumer \in Consumers /\ r.from \in Nat /\ r.head \in Nat /\ r.at = r.from
      /\ r.ok \subseteq Events
  BY <1>1 DEF Runs, RunOK
<1>3. /\ S \in SUBSET Events
      /\ \A e \in S : Shown(e) /\ r.from < seq[e] /\ seq[e] <= nextSeq
      /\ \A d, e \in S : seq[d] = seq[e] => d = e
  BY <1>1 DEF Scannable, Visible, Shown, PositionsArePast, Past
<1>4. \A e \in WantedBy(r.consumer) :
        e \in Events /\ seq[e] \in Nat /\ e \in Visible /\ e \in Wants[r.consumer]
  BY <1>1 DEF WantedBy, Visible
<1>5. \A e \in WantedBy(r.consumer) :
        r.from < seq[e] /\ (r.consumer \in Wildcards \/ seq[e] <= r.head) => e \in S
  BY <1>4 DEF Scannable
<1>6. /\ batch \subseteq S
      /\ \A e \in S, d \in batch : seq[e] <= seq[d] => e \in batch
      /\ Cardinality(batch) # BatchSize => batch = S
  <2> HIDE DEF S
  <2> QED BY <1>1, <1>3, LimitTakesTheFirst
<1>7. CASE batch = {}
  <2> DEFINE n == IF r.consumer \notin Wildcards /\ r.head > r.from THEN r.head ELSE r.from
             new == IF r.consumer \notin Wildcards /\ r.head > r.from
                    THEN MarkProgress(ClaimedRow(p), r.head) ELSE ClaimedRow(p)
  <2>1. CommitRun(p, new) /\ UNCHANGED <<seqVars, prune, left>>
    BY <1>7 DEF Scan
  <2>2. /\ ClaimedRow(p) \in CursorRows /\ ClaimedRow(p).exists
        /\ ClaimedRow(p).lastSeq = r.from /\ Past(ClaimedRow(p).errSeq)
    BY <1>1, ClaimedRowIs
  <2>3. /\ new \in CursorRows /\ new.exists /\ new.lastSeq = n /\ Past(new.errSeq)
    <3>1. /\ MarkProgress(ClaimedRow(p), r.head) \in CursorRows
          /\ MarkProgress(ClaimedRow(p), r.head).exists
          /\ MarkProgress(ClaimedRow(p), r.head).lastSeq = r.head
          /\ MarkProgress(ClaimedRow(p), r.head).errSeq = 0
      BY <1>2, <2>2, MarkProgressIs
    <3> QED BY <1>1, <2>2, <3>1 DEF PositionsArePast
  <2>4. S = {}
    <3>1. 0 \in Nat /\ BatchSize # 0 /\ Cardinality({}) = 0
      BY LimitsAssumption, FS_EmptySet
    <3> HIDE DEF S
    <3> QED BY <1>6, <1>7, <3>1
  <2>5. n \in Nat /\ Past(n) /\ r.from <= n
    BY <1>1, <1>2
  <2>6. \A e \in WantedBy(r.consumer) : r.at < seq[e] => n < seq[e]
    BY <1>2, <1>4, <1>5, <2>4
  <2> HIDE DEF new, n
  <2>7. ConTypeOK'
    BY <2>1, <2>3, CommitTypes, StillLogMoves DEF ConInv, ConTypeOK, SeqInv
  <2> QED BY <1>1, <1>2, <2>1, <2>3, <2>5, <2>6, <2>7, CommitStep
<1>8. CASE batch # {}
  <2> DEFINE full == Cardinality(batch) = BatchSize
             new == [r EXCEPT !.phase = "running", !.batch = batch, !.full = full]
  <2>1. /\ run' = [run EXCEPT ![p] = new]
        /\ UNCHANGED <<seqVars, cursor, prune, hist, left>>
    BY <1>8 DEF Scan
  <2>2. batch \in SUBSET Events /\ full \in BOOLEAN
    BY <1>3, <1>6
  <2> HIDE DEF batch, full
  <2>3. /\ new \in Runs /\ new.phase = "running" /\ new.batch = batch /\ new.full = full
        /\ new.from = r.from /\ new.at = r.at /\ new.head = r.head /\ new.ok = r.ok
        /\ new.consumer = r.consumer /\ new.fresh = r.fresh
    BY <1>1, <2>2 DEF Runs
  <2> HIDE DEF new
  <2>4. RunOK(new)
    <3>1. \A e \in r.ok : Shown(e) /\ r.from < seq[e] /\ seq[e] <= r.at
      BY <1>1 DEF RunOK
    <3>2. \A e \in batch : Shown(e) /\ r.at < seq[e]
      <4> HIDE DEF S
      <4> QED BY <1>2, <1>3, <1>6
    <3>3. ASSUME NEW e \in WantedBy(r.consumer)
          PROVE  /\ ~(r.from < seq[e] /\ seq[e] <= r.at)
                 /\ \A d \in batch : r.at < seq[e] /\ seq[e] <= seq[d] => e \in batch
                 /\ r.consumer \notin Wildcards /\ ~full
                      => (r.at < seq[e] /\ seq[e] <= r.head => e \in batch)
      <4>1. ~(r.from < seq[e] /\ seq[e] <= r.at)
        BY <1>2, <1>4
      <4>2. ASSUME NEW d \in batch, r.at < seq[e], seq[e] <= seq[d] PROVE e \in batch
        <5>1. r.consumer \in Wildcards \/ seq[d] <= r.head
          BY <1>6 DEF Scannable
        <5>2. seq[d] \in Nat /\ seq[e] \in Nat
          BY <1>1, <1>4, <2>2
        <5>3. e \in S
          BY <1>2, <1>5, <4>2, <5>1, <5>2
        <5> HIDE DEF S
        <5> QED BY <1>6, <4>2, <5>3
      <4>3. ASSUME ~full, r.at < seq[e], seq[e] <= r.head PROVE e \in batch
        <5>1. e \in S
          BY <1>2, <1>5, <4>3
        <5> HIDE DEF S
        <5> QED BY <1>6, <4>3, <5>1 DEF full
      <4> QED BY <4>1, <4>2, <4>3
    <3> QED BY <1>2, <2>3, <3>1, <3>2, <3>3 DEF RunOK
  <2>5. /\ \A q \in Procs : Holds(q) /\ run[q].consumer = r.consumer => q = p
        /\ cursor[r.consumer].exists = ~r.fresh
        /\ cursor[r.consumer].exists =>
             cursor[r.consumer].lastSeq = r.from /\ cursor[r.consumer].parked = "no"
    BY <1>1 DEF ConInv, RunsAreAlone
  <2>6. Past(new.from) /\ Past(new.at) /\ Past(new.head) /\ new.phase \in {"claimed", "running"}
    BY <1>1, <2>3
  <2>7. /\ \A q \in Procs : Holds(q) /\ run[q].consumer = new.consumer => q = p
        /\ cursor[new.consumer].exists = ~new.fresh
        /\ cursor[new.consumer].exists =>
             cursor[new.consumer].lastSeq = new.from /\ cursor[new.consumer].parked = "no"
    BY <2>3, <2>5
  <2> QED BY <2>1, <2>3, <2>4, <2>6, <2>7, OneRunStep
<1> QED BY <1>7, <1>8

LEMMA HandlerReturnsStep ==
  ASSUME ConInv, NEW p \in Procs, HandlerReturns(p)
  PROVE  ConInv'
<1> DEFINE r == run[p]
           e == FirstOf(r.batch)
           new == [r EXCEPT !.batch = @ \ {e}, !.at = seq[e], !.ok = @ \union {e}]
<1>1. /\ r \in Runs /\ Holds(p) /\ RunOK(r) /\ r.phase = "running" /\ r.batch # {}
      /\ PositionsArePast /\ seq \in [Events -> Nat] /\ Past(r.from) /\ Past(r.head)
      /\ run' = [run EXCEPT ![p] = new]
      /\ UNCHANGED <<seqVars, cursor, prune, hist, left>>
  BY DEF HandlerReturns, Holds, ConInv, ConTypeOK, SeqTypeOK, RunsKeepUp, PositionsArePast
<1>2. /\ r.from \in Nat /\ r.at \in Nat /\ r.head \in Nat
      /\ r.ok \subseteq Events /\ r.batch \in SUBSET Events
  BY <1>1 DEF Runs
<1>3. e \in r.batch /\ \A d \in r.batch : seq[e] <= seq[d]
  BY <1>1, <1>2, FirstExists
<1> HIDE DEF e
<1>4. e \in Events /\ seq[e] \in Nat /\ Shown(e) /\ r.at < seq[e] /\ r.from <= r.at
  BY <1>1, <1>2, <1>3 DEF RunOK
<1>5. /\ new \in Runs /\ new.phase = "running" /\ new.batch = r.batch \ {e}
      /\ new.at = seq[e] /\ new.ok = r.ok \union {e} /\ new.full = r.full
      /\ new.from = r.from /\ new.head = r.head
      /\ new.consumer = r.consumer /\ new.fresh = r.fresh
  BY <1>1, <1>4 DEF Runs
<1> HIDE DEF new
<1>6. RunOK(new)
  <2>1. ASSUME NEW d \in r.ok \union {e}
        PROVE  Shown(d) /\ r.from < seq[d] /\ seq[d] <= seq[e]
    <3>1. CASE d \in r.ok
      <4>1. Shown(d) /\ r.from < seq[d] /\ seq[d] <= r.at /\ seq[d] \in Nat
        BY <1>1, <1>2, <3>1 DEF RunOK
      <4> QED BY <1>2, <1>4, <4>1
    <3>2. CASE d = e
      BY <1>2, <1>4, <3>2
    <3> QED BY <3>1, <3>2
  <2>2. ASSUME NEW d \in r.batch \ {e} PROVE Shown(d) /\ seq[e] < seq[d]
    <3>1. Shown(d) /\ seq[e] <= seq[d] /\ d \in Events /\ seq[d] \in Nat
      BY <1>1, <1>2, <1>3 DEF RunOK
    <3>2. seq[d] # seq[e]
      BY <1>1, <1>4, <3>1 DEF PositionsArePast
    <3> QED BY <1>4, <3>1, <3>2
  <2>3. ASSUME NEW x \in WantedBy(r.consumer)
        PROVE  /\ r.from < seq[x] /\ seq[x] <= seq[e] => x \in r.ok \union {e}
               /\ \A d \in r.batch \ {e} :
                    seq[e] < seq[x] /\ seq[x] <= seq[d] => x \in r.batch \ {e}
               /\ r.consumer \notin Wildcards /\ ~r.full
                    => (seq[e] < seq[x] /\ seq[x] <= r.head => x \in r.batch \ {e})
    <3>1. x \in Events /\ seq[x] \in Nat /\ Shown(x)
      BY <1>1 DEF WantedBy, Visible, Shown
    <3>2. /\ r.from < seq[x] /\ seq[x] <= r.at => x \in r.ok
          /\ \A d \in r.batch : r.at < seq[x] /\ seq[x] <= seq[d] => x \in r.batch
          /\ r.consumer \notin Wildcards /\ ~r.full
               => (r.at < seq[x] /\ seq[x] <= r.head => x \in r.batch)
      BY <1>1 DEF RunOK
    <3>3. ASSUME r.from < seq[x], seq[x] <= seq[e], x \notin r.ok PROVE x = e
      <4>1. r.at < seq[x]
        BY <1>2, <3>1, <3>2, <3>3
      <4>2. x \in r.batch
        BY <1>3, <3>2, <3>3, <4>1
      <4>3. seq[x] = seq[e]
        BY <1>3, <1>4, <3>1, <3>3, <4>2
      <4> QED BY <1>1, <1>4, <3>1, <4>3 DEF PositionsArePast
    <3>4. seq[e] < seq[x] => r.at < seq[x] /\ x # e
      BY <1>2, <1>4, <3>1
    <3> QED BY <3>2, <3>3, <3>4
  <2> QED BY <1>2, <1>4, <1>5, <2>1, <2>2, <2>3 DEF RunOK
<1>7. /\ \A q \in Procs : Holds(q) /\ run[q].consumer = r.consumer => q = p
      /\ cursor[r.consumer].exists = ~r.fresh
      /\ cursor[r.consumer].exists =>
           cursor[r.consumer].lastSeq = r.from /\ cursor[r.consumer].parked = "no"
  BY <1>1 DEF ConInv, RunsAreAlone
<1>8. Past(new.from) /\ Past(new.at) /\ Past(new.head) /\ new.phase \in {"claimed", "running"}
  BY <1>1, <1>4, <1>5 DEF PositionsArePast
<1>9. /\ \A q \in Procs : Holds(q) /\ run[q].consumer = new.consumer => q = p
      /\ cursor[new.consumer].exists = ~new.fresh
      /\ cursor[new.consumer].exists =>
           cursor[new.consumer].lastSeq = new.from /\ cursor[new.consumer].parked = "no"
  BY <1>5, <1>7
<1> QED BY <1>1, <1>5, <1>6, <1>8, <1>9, OneRunStep

(* What recordFailure makes of a row. *)
LEMMA RecordFailureIs ==
  ASSUME NEW r \in CursorRows, NEW previous \in Nat, NEW failed \in Nat, NEW n \in Nat,
         NEW transient
  PROVE  /\ RecordFailure(r, previous, failed, n, transient) \in CursorRows
         /\ RecordFailure(r, previous, failed, n, transient).exists = r.exists
         /\ RecordFailure(r, previous, failed, n, transient).lastSeq = n
         /\ RecordFailure(r, previous, failed, n, transient).errSeq = failed
<1>1. Least(previous + 1, ParkAfter) \in 0 .. ParkAfter
  BY LimitsAssumption DEF Least
<1> QED BY <1>1 DEF RecordFailure, CursorRows

LEMMA HandlerThrowsStep ==
  ASSUME ConInv, NEW p \in Procs, NEW transient \in BOOLEAN, HandlerThrows(p, transient)
  PROVE  ConInv'
<1> DEFINE r == run[p]
           e == FirstOf(r.batch)
           new == RecordFailure(ClaimedRow(p), r.failures, seq[e], r.at, transient)
<1>1. /\ r \in Runs /\ Holds(p) /\ RunOK(r) /\ r.batch # {}
      /\ PositionsArePast /\ seq \in [Events -> Nat] /\ Past(r.at)
      /\ CommitRun(p, new) /\ UNCHANGED <<seqVars, prune>>
  BY DEF HandlerThrows, Holds, ConInv, ConTypeOK, SeqTypeOK, RunsKeepUp, PositionsArePast
<1>2. /\ r.at \in Nat /\ r.failures \in Nat /\ r.batch \in SUBSET Events
  BY <1>1, LimitsAssumption DEF Runs
<1>3. e \in r.batch
  BY <1>1, <1>2, FirstExists
<1> HIDE DEF e
<1>4. seq[e] \in Nat /\ Past(seq[e])
  BY <1>1, <1>2, <1>3 DEF RunOK, PositionsArePast
<1>5. ClaimedRow(p) \in CursorRows /\ ClaimedRow(p).exists
  BY <1>1, ClaimedRowIs
<1>6. new \in CursorRows /\ new.exists /\ new.lastSeq = r.at /\ new.errSeq = seq[e]
  BY <1>2, <1>4, <1>5, RecordFailureIs
<1> HIDE DEF new
<1>7. left' \in [{"faults", "admin", "giveUps", "prunes"} -> Nat]
  BY DEF HandlerThrows, Spend, ConInv, ConTypeOK
<1>8. ConTypeOK'
  BY <1>1, <1>6, <1>7, CommitTypes, StillLogMoves DEF ConInv, ConTypeOK, SeqInv
<1>9. run[p].at <= new.lastSeq /\ Past(new.lastSeq) /\ Past(new.errSeq)
  BY <1>1, <1>2, <1>4, <1>6
<1>10. \A x \in WantedBy(r.consumer) : r.at < seq[x] => new.lastSeq < seq[x]
  BY <1>6
<1> QED BY <1>1, <1>6, <1>8, <1>9, <1>10, CommitStep

LEMMA FinishBatchStep ==
  ASSUME ConInv, NEW p \in Procs, FinishBatch(p)
  PROVE  ConInv'
<1> DEFINE r == run[p]
           n == AdvancedTo(r)
           new == MarkProgress(ClaimedRow(p), n)
<1>1. /\ r \in Runs /\ Holds(p) /\ RunOK(r) /\ r.phase = "running" /\ r.batch = {}
      /\ PositionsArePast /\ seq \in [Events -> Nat] /\ Past(r.at) /\ Past(r.head)
      /\ CommitRun(p, new) /\ UNCHANGED <<seqVars, prune, left>>
  BY DEF FinishBatch, Holds, ConInv, ConTypeOK, SeqTypeOK, RunsKeepUp, PositionsArePast
<1>2. /\ r.at \in Nat /\ r.head \in Nat
  BY <1>1 DEF Runs
<1>3. /\ n \in Nat /\ r.at <= n /\ Past(n)
      /\ n = r.at \/ (n = r.head /\ r.consumer \notin Wildcards /\ ~r.full)
  BY <1>1, <1>2 DEF AdvancedTo, Greatest
<1>4. \A e \in WantedBy(r.consumer) : r.at < seq[e] => n < seq[e]
  <2>1. \A e \in WantedBy(r.consumer) : seq[e] \in Nat
    BY <1>1 DEF WantedBy, Visible
  <2>2. \A e \in WantedBy(r.consumer) :
          r.consumer \notin Wildcards /\ ~r.full => ~(r.at < seq[e] /\ seq[e] <= r.head)
    BY <1>1 DEF RunOK
  <2> QED BY <1>2, <1>3, <2>1, <2>2
<1> HIDE DEF n
<1>5. ClaimedRow(p) \in CursorRows /\ ClaimedRow(p).exists
  BY <1>1, ClaimedRowIs
<1>6. new \in CursorRows /\ new.exists /\ new.lastSeq = n /\ new.errSeq = 0
  BY <1>3, <1>5, MarkProgressIs
<1> HIDE DEF new
<1>7. ConTypeOK'
  BY <1>1, <1>6, CommitTypes, StillLogMoves DEF ConInv, ConTypeOK, SeqInv
<1>8. Past(new.errSeq) /\ Past(new.lastSeq) /\ run[p].at <= new.lastSeq
  BY <1>1, <1>3, <1>6 DEF PositionsArePast
<1>9. \A e \in WantedBy(r.consumer) : r.at < seq[e] => new.lastSeq < seq[e]
  BY <1>4, <1>6
<1> QED BY <1>1, <1>6, <1>7, <1>8, <1>9, CommitStep

-----------------------------------------------------------------------------
(* The steps that are quiet *)

(* What does not move is quiet. *)
LEMMA UnmovedIsQuiet ==
  ASSUME ConInv
  PROVE  /\ \A c \in Consumers : cursor'[c] = cursor[c] /\ hist'[c] = hist[c] => QuietCursor(c)
         /\ \A p \in Procs : run'[p] = run[p] => QuietRun(p)
  BY DEF ConInv, PositionsArePast, QuietCursor, QuietRun

LEMMA LogStep ==
  ASSUME ConInv, PublishStep \/ \E p \in Procs : BootStep(p), UNCHANGED conVars
  PROVE  ConInv'
<1>1. SeqInv' /\ LogMoves
  BY PublishStepInv, BootStepInv, PublishMovesLog, BootMovesLog DEF ConInv
<1>2. ConTypeOK'
  BY <1>1 DEF ConInv, ConTypeOK, SeqInv, conVars
<1>3. Quiet
  BY UnmovedIsQuiet DEF Quiet, conVars
<1> QED BY <1>1, <1>2, <1>3, QuietStep

LEMMA CrashStep ==
  ASSUME ConInv, NEW p \in Procs, CrashPoller(p)
  PROVE  ConInv'
<1>1. SeqInv' /\ LogMoves
  BY BootStepInv, BootMovesLog DEF ConInv, CrashPoller
<1>2. ConTypeOK'
  BY <1>1, IdleRunTypes DEF ConInv, ConTypeOK, SeqInv, CrashPoller, Spend
<1>3. Quiet
  <2>1. \A c \in Consumers : QuietCursor(c)
    BY UnmovedIsQuiet DEF CrashPoller
  <2>2. ASSUME NEW q \in Procs PROVE QuietRun(q)
    <3>1. CASE q = p
      BY <3>1 DEF CrashPoller, ConInv, ConTypeOK, PositionsArePast, IdleRun, QuietRun
    <3>2. CASE q # p
      BY <3>2, UnmovedIsQuiet DEF CrashPoller, ConInv, ConTypeOK
    <3> QED BY <3>1, <3>2
  <2> QED BY <2>1, <2>2 DEF Quiet
<1> QED BY <1>1, <1>2, <1>3, QuietStep

LEMMA HandlerOverrunsStep ==
  ASSUME ConInv, NEW p \in Procs, HandlerOverruns(p)
  PROVE  ConInv'
<1> DEFINE e == FirstOf(run[p].batch)
           new == [IdleRun EXCEPT !.phase = "overrun", !.consumer = run[p].consumer, !.at = seq[e]]
<1>1. /\ run \in [Procs -> Runs] /\ Holds(p) /\ RunOK(run[p]) /\ run[p].batch # {}
      /\ PositionsArePast /\ seq \in [Events -> Nat]
      /\ run' = [run EXCEPT ![p] = new]
      /\ UNCHANGED <<seqVars, cursor, prune, hist, left>>
  BY DEF HandlerOverruns, Holds, ConInv, ConTypeOK, SeqTypeOK, RunsKeepUp
<1>2. run[p].consumer \in Consumers /\ run[p].batch \in SUBSET Events
  BY <1>1 DEF Runs
<1>3. e \in run[p].batch
  BY <1>1, <1>2, FirstExists
<1> HIDE DEF e
<1>4. seq[e] \in Nat /\ Past(seq[e])
  BY <1>1, <1>2, <1>3 DEF RunOK, PositionsArePast
<1>5. new \in Runs
  BY <1>2, <1>4, IdleRunTypes DEF Runs
<1>6. new.phase = "overrun" /\ new.from = 0 /\ new.at = seq[e] /\ new.head = 0
  BY DEF IdleRun
<1> HIDE DEF new
<1>7. SeqInv' /\ LogMoves
  BY <1>1, StillLogMoves DEF ConInv
<1>8. ConTypeOK'
  BY <1>1, <1>5, <1>7 DEF ConInv, ConTypeOK, SeqInv
<1>9. Quiet
  <2>1. \A q \in Procs : QuietRun(q)
    BY <1>1, <1>4, <1>6, UnmovedIsQuiet DEF QuietRun, PositionsArePast
  <2> QED BY <1>1, <2>1, UnmovedIsQuiet DEF Quiet
<1> QED BY <1>7, <1>8, <1>9, QuietStep

LEMMA RecordTimedOutRunStep ==
  ASSUME ConInv, NEW p \in Procs, RecordTimedOutRun(p)
  PROVE  ConInv'
<1> DEFINE c == run[p].consumer
           r == cursor[c]
           new == RecordFailure(r, r.failures, run[p].at, r.lastSeq, FALSE)
<1>1. /\ run \in [Procs -> Runs] /\ cursor \in [Consumers -> CursorRows]
      /\ PositionsArePast
      /\ cursor' = IF r.exists /\ Unlocked(c) THEN [cursor EXCEPT ![c] = new] ELSE cursor
      /\ run' = [run EXCEPT ![p] = IdleRun]
      /\ UNCHANGED <<seqVars, prune, hist, left>>
  BY DEF RecordTimedOutRun, ConInv, ConTypeOK
<1>2. /\ c \in Consumers /\ r \in CursorRows /\ run[p].at \in Nat /\ Past(run[p].at)
      /\ r.failures \in Nat /\ r.lastSeq \in Nat
  BY <1>1, LimitsAssumption DEF Runs, CursorRows, PositionsArePast
<1>3. /\ new \in CursorRows /\ new.exists = r.exists
      /\ new.lastSeq = r.lastSeq /\ new.errSeq = run[p].at
  <2>1. Least(r.failures + 1, ParkAfter) \in 0 .. ParkAfter
    BY <1>2, LimitsAssumption DEF Least
  <2> QED BY <1>2, <2>1 DEF RecordFailure, CursorRows
<1> HIDE DEF new
<1>4. SeqInv' /\ LogMoves
  BY <1>1, StillLogMoves DEF ConInv
<1>5. ConTypeOK'
  BY <1>1, <1>2, <1>3, <1>4, IdleRunTypes DEF ConInv, ConTypeOK, SeqInv
<1>6. \A d \in Consumers : QuietCursor(d)
  <2>1. CASE r.exists /\ Unlocked(c)
    <3>1. QuietCursor(c)
      BY <1>1, <1>2, <1>3, <2>1 DEF QuietCursor
    <3>2. ASSUME NEW d \in Consumers, d # c PROVE QuietCursor(d)
      BY <1>1, <2>1, <3>2, UnmovedIsQuiet
    <3> QED BY <3>1, <3>2
  <2>2. CASE ~(r.exists /\ Unlocked(c))
    BY <1>1, <2>2, UnmovedIsQuiet
  <2> QED BY <2>1, <2>2
<1>7. \A q \in Procs : QuietRun(q)
  <2>1. QuietRun(p)
    BY <1>1 DEF IdleRun, QuietRun, PositionsArePast
  <2> QED BY <1>1, <2>1, UnmovedIsQuiet
<1> QED BY <1>4, <1>5, <1>6, <1>7, QuietStep DEF Quiet

(* A row that keeps its position and its errSeq, and is parked only when
   nobody holds it. *)
LEMMA KeptPlaceIsQuiet ==
  ASSUME ConInv, NEW c \in Consumers,
         hist'[c].start = hist[c].start, hist'[c].applied = hist[c].applied,
         hist'[c].skipped = hist[c].skipped,
         cursor'[c].exists = cursor[c].exists, cursor'[c].lastSeq = cursor[c].lastSeq,
         cursor'[c].errSeq = cursor[c].errSeq,
         cursor'[c].parked = "no" \/ cursor[c].parked # "no"
  PROVE  QuietCursor(c)
  BY DEF QuietCursor, ConInv, PositionsArePast

LEMMA BackoffElapsesStep ==
  ASSUME ConInv, NEW c \in Consumers, BackoffElapses(c)
  PROVE  ConInv'
<1>1. /\ cursor \in [Consumers -> CursorRows] /\ cursor[c] \in CursorRows
      /\ cursor' = [cursor EXCEPT ![c].waiting = FALSE]
      /\ UNCHANGED <<seqVars, run, prune, hist, left>>
  BY DEF BackoffElapses, ConInv, ConTypeOK
<1>2. SeqInv' /\ LogMoves
  BY <1>1, StillLogMoves DEF ConInv
<1>3. [cursor[c] EXCEPT !.waiting = FALSE] \in CursorRows
  BY <1>1 DEF CursorRows
<1>4. ConTypeOK'
  BY <1>1, <1>2, <1>3 DEF ConInv, ConTypeOK, SeqInv
<1>5. \A d \in Consumers : /\ cursor'[d].exists = cursor[d].exists
                           /\ cursor'[d].lastSeq = cursor[d].lastSeq
                           /\ cursor'[d].errSeq = cursor[d].errSeq
                           /\ cursor'[d].parked = cursor[d].parked
  BY <1>1 DEF CursorRows
<1>6. Quiet
  BY <1>1, <1>5, KeptPlaceIsQuiet, UnmovedIsQuiet DEF Quiet
<1> QED BY <1>2, <1>4, <1>6, QuietStep

LEMMA ResumeStep ==
  ASSUME ConInv, NEW c \in Consumers, resumeEventConsumer(c)
  PROVE  ConInv'
<1> DEFINE new == [cursor[c] EXCEPT !.failures = 0, !.waiting = FALSE, !.parked = "no"]
           h == [hist[c] EXCEPT !.exposed = Exposes(c)]
<1>1. /\ cursor \in [Consumers -> CursorRows] /\ cursor[c] \in CursorRows
      /\ cursor' = [cursor EXCEPT ![c] = new]
      /\ hist \in [Consumers -> Histories] /\ hist' = [hist EXCEPT ![c] = h]
      /\ UNCHANGED <<seqVars, run, prune>>
      /\ left' \in [{"faults", "admin", "giveUps", "prunes"} -> Nat]
  <2>1. /\ cursor \in [Consumers -> CursorRows] /\ cursor[c] \in CursorRows
        /\ hist \in [Consumers -> Histories]
    BY DEF ConInv, ConTypeOK
  <2>2. cursor' = [cursor EXCEPT ![c] = new] /\ UNCHANGED <<seqVars, run, prune>>
    BY <2>1 DEF resumeEventConsumer, CursorRows
  <2>4. hist' = [hist EXCEPT ![c] = h]
    BY <2>1 DEF resumeEventConsumer
  <2>3. left' \in [{"faults", "admin", "giveUps", "prunes"} -> Nat]
    BY DEF resumeEventConsumer, Spend, ConInv, ConTypeOK
  <2> QED BY <2>1, <2>2, <2>3, <2>4
<1>2. SeqInv' /\ LogMoves
  BY <1>1, StillLogMoves DEF ConInv
<1>3. new \in CursorRows
  <2>1. 0 \in 0 .. ParkAfter
    BY LimitsAssumption
  <2> QED BY <1>1, <2>1 DEF CursorRows
<1>7. /\ h \in Histories /\ h.start = hist[c].start
      /\ h.applied = hist[c].applied /\ h.skipped = hist[c].skipped
  <2>1. Exposes(c) \in BOOLEAN
    BY DEF Exposes
  <2> QED BY <1>1, <2>1 DEF Histories
<1> HIDE DEF h
<1>8. hist' \in [Consumers -> Histories]
  BY <1>1, <1>7
<1>4. ConTypeOK'
  BY <1>1, <1>2, <1>3, <1>8 DEF ConInv, ConTypeOK, SeqInv
<1>5. /\ new.exists = cursor[c].exists /\ new.lastSeq = cursor[c].lastSeq
      /\ new.errSeq = cursor[c].errSeq /\ new.parked = "no"
  BY <1>1 DEF CursorRows
<1> HIDE DEF new
<1>6. Quiet
  <2>1. QuietCursor(c)
    BY <1>1, <1>5, <1>7, KeptPlaceIsQuiet
  <2>2. \A d \in Consumers : d # c => cursor'[d] = cursor[d] /\ hist'[d] = hist[d]
    BY <1>1
  <2> QED BY <1>1, <2>1, <2>2, UnmovedIsQuiet DEF Quiet
<1> QED BY <1>2, <1>4, <1>6, QuietStep

LEMMA GiveUpHorizonStep ==
  ASSUME ConInv, NEW c \in Consumers, GiveUpHorizonPasses(c)
  PROVE  ConInv'
<1>1. /\ cursor \in [Consumers -> CursorRows] /\ cursor[c] \in CursorRows
      /\ cursor' = [cursor EXCEPT ![c].parked = "overdue"] /\ cursor[c].parked = "parked"
      /\ UNCHANGED <<seqVars, run, prune, hist>>
      /\ left' \in [{"faults", "admin", "giveUps", "prunes"} -> Nat]
  BY DEF GiveUpHorizonPasses, Spend, ConInv, ConTypeOK
<1>2. SeqInv' /\ LogMoves
  BY <1>1, StillLogMoves DEF ConInv
<1>3. [cursor[c] EXCEPT !.parked = "overdue"] \in CursorRows
  BY <1>1 DEF CursorRows
<1>4. ConTypeOK'
  BY <1>1, <1>2, <1>3 DEF ConInv, ConTypeOK, SeqInv
<1>5. \A d \in Consumers : /\ cursor'[d].exists = cursor[d].exists
                           /\ cursor'[d].lastSeq = cursor[d].lastSeq
                           /\ cursor'[d].errSeq = cursor[d].errSeq
                           /\ cursor'[d].parked = "no" \/ cursor[d].parked # "no"
  BY <1>1 DEF CursorRows
<1>6. Quiet
  BY <1>1, <1>5, KeptPlaceIsQuiet, UnmovedIsQuiet DEF Quiet
<1> QED BY <1>2, <1>4, <1>6, QuietStep

LEMMA PruneStep ==
  ASSUME ConInv, EventsAge \/ StartPrune \/ ReadFloor \/ StopPrune
  PROVE  ConInv'
<1>1. /\ cursor \in [Consumers -> CursorRows] /\ SeqInv
      /\ prune \in [phase: {"idle", "between", "floored"}, old: SUBSET Events, floors: SUBSET Nat]
      /\ UNCHANGED <<seqVars, run, hist>>
  BY DEF EventsAge, StartPrune, ReadFloor, StopPrune, ConInv, ConTypeOK
<1>2. SeqInv' /\ LogMoves
  BY <1>1, StillLogMoves
<1>3. /\ prune' \in [phase: {"idle", "between", "floored"}, old: SUBSET Events, floors: SUBSET Nat]
      /\ cursor' \in [Consumers -> CursorRows]
      /\ \A c \in Consumers : /\ cursor'[c].exists = cursor[c].exists
                              /\ cursor'[c].lastSeq = cursor[c].lastSeq
                              /\ cursor'[c].errSeq = cursor[c].errSeq
                              /\ cursor'[c].parked = cursor[c].parked
      /\ left' \in [{"faults", "admin", "giveUps", "prunes"} -> Nat]
  <2>1. CASE EventsAge
    <3>1. PICK old \in SUBSET (Visible \union Stranded) \ {{}} :
            prune' = [prune EXCEPT !.old = @ \union old]
      BY <2>1 DEF EventsAge
    <3>2. old \in SUBSET Events
      BY <3>1 DEF Visible, Stranded
    <3> QED BY <1>1, <2>1, <3>1, <3>2 DEF EventsAge, ConInv, ConTypeOK
  <2>2. CASE StartPrune
    <3>1. ASSUME NEW r \in CursorRows PROVE [r EXCEPT !.abandoned = TRUE] \in CursorRows
      BY DEF CursorRows
    <3>2. cursor' \in [Consumers -> CursorRows]
      BY <1>1, <2>2, <3>1 DEF StartPrune
    <3>3. \A c \in Consumers : /\ cursor'[c].exists = cursor[c].exists
                               /\ cursor'[c].lastSeq = cursor[c].lastSeq
                               /\ cursor'[c].errSeq = cursor[c].errSeq
                               /\ cursor'[c].parked = cursor[c].parked
      BY <1>1, <2>2 DEF StartPrune, CursorRows
    <3>4. left' \in [{"faults", "admin", "giveUps", "prunes"} -> Nat]
      BY <2>2 DEF StartPrune, Spend, ConInv, ConTypeOK
    <3>5. prune' \in [phase: {"idle", "between", "floored"}, old: SUBSET Events, floors: SUBSET Nat]
      BY <1>1, <2>2 DEF StartPrune
    <3> QED BY <3>2, <3>3, <3>4, <3>5
  <2>3. CASE ReadFloor
    <3>1. {cursor[c].lastSeq : c \in Counted} \in SUBSET Nat
      BY <1>1 DEF Counted, CursorRows
    <3> QED BY <1>1, <2>3, <3>1 DEF ReadFloor, ConInv, ConTypeOK
  <2>4. CASE StopPrune
    BY <1>1, <2>4 DEF StopPrune, ConInv, ConTypeOK
  <2> QED BY <2>1, <2>2, <2>3, <2>4
<1>4. ConTypeOK'
  BY <1>1, <1>2, <1>3 DEF ConInv, ConTypeOK, SeqInv
<1>5. Quiet
  BY <1>1, <1>3, KeptPlaceIsQuiet, UnmovedIsQuiet DEF Quiet
<1> QED BY <1>2, <1>4, <1>5, QuietStep

(* Retention deletes rows readers have seen, whatever their floor. *)
LEMMA DeleteBatchStep == ASSUME ConInv, DeleteBatch PROVE ConInv'
<1>1. /\ SeqInv /\ Doomed \subseteq Visible /\ hist \in [Consumers -> Histories]
      /\ row' = [e \in Events |-> IF e \in Doomed THEN "pruned" ELSE row[e]]
      /\ UNCHANGED <<seq, nextSeq, trigger, boot, cursor, run, left>>
  BY DEF DeleteBatch, Doomed, Prunable, ConInv, ConTypeOK
<1>2. \A e \in Events : row'[e] = row[e] \/ (row[e] = "visible" /\ row'[e] = "pruned")
  BY <1>1 DEF Visible
<1>3. row' \in [Events -> RowStates]
  BY <1>1 DEF SeqInv, SeqTypeOK, RowStates
<1>4. SeqInv'
  <2>1. SeqTypeOK'
    BY <1>1, <1>3 DEF SeqInv, SeqTypeOK
  <2>2. LockInv'
    BY <1>1, <1>2 DEF SeqInv, LockInv
  <2>3. OrderInv'
    BY <1>1, <1>2 DEF SeqInv, OrderInv, HasSeq
  <2>4. TriggerInv'
    BY <1>1, <1>2 DEF SeqInv, TriggerInv
  <2> QED BY <2>1, <2>2, <2>3, <2>4 DEF SeqInv
<1>5. LogMoves
  BY <1>1, <1>2 DEF LogMoves, Shown, SeqInv, SeqTypeOK
<1>6. /\ hist' \in [Consumers -> Histories]
      /\ \A c \in Consumers : /\ hist'[c].start = hist[c].start
                              /\ hist'[c].applied = hist[c].applied
                              /\ hist'[c].skipped = hist[c].skipped
  <2> DEFINE gone(c) == IF cursor[c].exists
                        THEN {e \in Doomed \intersect Wants[c] : seq[e] > cursor[c].lastSeq}
                        ELSE {}
  <2>1. hist' = [c \in Consumers |-> [hist[c] EXCEPT !.lost = @ \union gone(c)]]
    BY DEF DeleteBatch
  <2>2. \A c \in Consumers : gone(c) \in SUBSET Events
    BY <1>1 DEF Visible
  <2> HIDE DEF gone
  <2>3. ASSUME NEW h \in Histories, NEW g \in SUBSET Events
        PROVE  /\ [h EXCEPT !.lost = @ \union g] \in Histories
               /\ [h EXCEPT !.lost = @ \union g].start = h.start
               /\ [h EXCEPT !.lost = @ \union g].applied = h.applied
               /\ [h EXCEPT !.lost = @ \union g].skipped = h.skipped
    BY DEF Histories
  <2> QED BY <1>1, <2>1, <2>2, <2>3
<1>7. ConTypeOK'
  <2>1. prune' \in [phase: {"idle", "between", "floored"}, old: SUBSET Events, floors: SUBSET Nat]
    BY DEF DeleteBatch, ConInv, ConTypeOK
  <2> QED BY <1>1, <1>4, <1>6, <2>1 DEF ConInv, ConTypeOK, SeqInv
<1>8. Quiet
  <2>1. \A c \in Consumers : QuietCursor(c)
    BY <1>1, <1>6 DEF ConInv, PositionsArePast, QuietCursor
  <2> QED BY <1>1, <2>1, UnmovedIsQuiet DEF Quiet
<1> QED BY <1>4, <1>5, <1>7, <1>8, QuietStep

-----------------------------------------------------------------------------
(* An administrator moves a row nobody holds. *)

LEMMA OneRowStep ==
  ASSUME ConInv, NEW c \in Consumers, Unlocked(c), NEW r \in CursorRows, NEW h \in Histories,
         UNCHANGED <<seqVars, run, prune>>,
         left' \in [{"faults", "admin", "giveUps", "prunes"} -> Nat],
         cursor' = [cursor EXCEPT ![c] = r], hist' = [hist EXCEPT ![c] = h],
         Past(r.lastSeq), Past(r.errSeq),
         \A e \in Events : ~Shown(e) => h.applied[e] = 0 /\ e \notin h.skipped,
         r.exists => /\ h.start <= r.lastSeq
                     /\ \A e \in h.skipped : seq[e] <= r.lastSeq
                     /\ \A e \in WantedBy(c) :
                          h.applied[e] = IF /\ h.start < seq[e] /\ seq[e] <= r.lastSeq
                                            /\ e \notin h.skipped
                                         THEN 1 ELSE 0
  PROVE  ConInv'
<1>1. /\ row' = row /\ seq' = seq /\ nextSeq' = nextSeq /\ run' = run /\ SeqInv'
      /\ cursor \in [Consumers -> CursorRows] /\ hist \in [Consumers -> Histories]
      /\ run \in [Procs -> Runs]
  BY StillLogMoves DEF ConInv, ConTypeOK, seqVars
<1>2. /\ cursor'[c] = r /\ hist'[c] = h
      /\ \A d \in Consumers : d # c => cursor'[d] = cursor[d] /\ hist'[d] = hist[d]
  BY <1>1
<1>3. ConTypeOK'
  BY <1>1 DEF ConInv, ConTypeOK, SeqInv
<1>4. PositionsArePast'
  BY <1>1, <1>2 DEF ConInv, PositionsArePast, Past, Shown
<1>5. RunsAreAlone'
  <2>1. \A p \in Procs : Holds(p) => run[p].consumer \in Consumers \ {c}
    BY <1>1 DEF Unlocked, Holds, Runs
  <2> QED BY <1>1, <1>2, <2>1 DEF ConInv, RunsAreAlone, Holds
<1>6. RunsKeepUp'
  BY <1>1 DEF ConInv, RunsKeepUp, Holds, RunOK, WantedBy, Visible, Shown
<1>7. HistoryIsPast'
  <2>1. ASSUME NEW d \in Consumers
        PROVE  /\ \A e \in Events : ~Shown(e)' => hist'[d].applied[e] = 0 /\ e \notin hist'[d].skipped
               /\ cursor'[d].exists =>
                    /\ hist'[d].start <= cursor'[d].lastSeq
                    /\ \A e \in hist'[d].skipped : seq'[e] <= cursor'[d].lastSeq
    <3>1. CASE d = c
      BY <1>1, <1>2, <3>1 DEF Shown
    <3>2. CASE d # c
      BY <1>1, <1>2, <3>2 DEF ConInv, HistoryIsPast, Shown
    <3> QED BY <3>1, <3>2
  <2> QED BY <2>1 DEF HistoryIsPast
<1>8. CursorTellsTheTruth'
  <2>1. ASSUME NEW d \in Consumers, NEW e \in Visible', cursor'[d].exists, e \in Wants[d]
        PROVE  hist'[d].applied[e] =
                 IF /\ hist'[d].start < seq'[e] /\ seq'[e] <= cursor'[d].lastSeq
                    /\ e \notin hist'[d].skipped
                 THEN 1 ELSE 0
    <3>1. e \in Visible
      BY <1>1 DEF Visible
    <3>2. CASE d = c
      BY <1>1, <1>2, <2>1, <3>1, <3>2 DEF WantedBy
    <3>3. CASE d # c
      BY <1>1, <1>2, <2>1, <3>1, <3>3 DEF ConInv, CursorTellsTheTruth
    <3> QED BY <3>2, <3>3
  <2> QED BY <2>1 DEF CursorTellsTheTruth
<1> QED BY <1>1, <1>3, <1>4, <1>5, <1>6, <1>7, <1>8 DEF ConInv

LEMMA SkipStep ==
  ASSUME ConInv, NEW c \in Consumers, skipPoisonEvent(c)
  PROVE  ConInv'
<1> DEFINE old == cursor[c]
           n == Greatest(old.lastSeq, old.errSeq)
           r == [MarkProgress(old, n) EXCEPT !.parked = "no"]
           h == [hist[c] EXCEPT !.skipped = @ \union PassedOver(c, n), !.exposed = Exposes(c)]
<1>1. /\ cursor \in [Consumers -> CursorRows] /\ hist \in [Consumers -> Histories]
      /\ seq \in [Events -> Nat] /\ PositionsArePast
      /\ old \in CursorRows /\ hist[c] \in Histories
  BY DEF ConInv, ConTypeOK, SeqTypeOK
<1>2. /\ old.exists /\ Unlocked(c)
      /\ cursor' = [cursor EXCEPT ![c] = r] /\ hist' = [hist EXCEPT ![c] = h]
      /\ UNCHANGED <<seqVars, run, prune>>
  BY <1>1 DEF skipPoisonEvent
<1>3. left' \in [{"faults", "admin", "giveUps", "prunes"} -> Nat]
  BY DEF skipPoisonEvent, Spend, ConInv, ConTypeOK
<1>4. old.lastSeq \in Nat /\ old.errSeq \in Nat
  BY <1>1 DEF CursorRows
<1>5. n \in Nat /\ old.lastSeq <= n /\ Past(n)
  BY <1>1, <1>4 DEF Greatest, PositionsArePast
<1> HIDE DEF n
<1>6. /\ MarkProgress(old, n) \in CursorRows
      /\ MarkProgress(old, n).exists = old.exists
      /\ MarkProgress(old, n).lastSeq = n /\ MarkProgress(old, n).errSeq = 0
  BY <1>1, <1>5, MarkProgressIs
<1>7. ASSUME NEW x \in CursorRows
      PROVE  /\ [x EXCEPT !.parked = "no"] \in CursorRows
             /\ [x EXCEPT !.parked = "no"].exists = x.exists
             /\ [x EXCEPT !.parked = "no"].lastSeq = x.lastSeq
             /\ [x EXCEPT !.parked = "no"].errSeq = x.errSeq
  BY DEF CursorRows
<1>8. r \in CursorRows /\ r.exists = old.exists /\ r.lastSeq = n /\ r.errSeq = 0
  BY <1>6, <1>7
<1> HIDE DEF r
<1>9. PassedOver(c, n) = {e \in WantedBy(c) : old.lastSeq < seq[e] /\ seq[e] <= n}
  BY ConsumersAssumption DEF PassedOver, WantedBy, Visible
<1>10. PassedOver(c, n) \in SUBSET Events
  BY <1>9 DEF WantedBy, Visible
<1>11. /\ h \in Histories /\ h.start = hist[c].start /\ h.applied = hist[c].applied
       /\ h.skipped = hist[c].skipped \union PassedOver(c, n)
  <2> DEFINE over == PassedOver(c, n)
             exposed == Exposes(c)
  <2>1. over \in SUBSET Events /\ exposed \in BOOLEAN
    BY <1>10 DEF Exposes
  <2>2. h = [hist[c] EXCEPT !.skipped = @ \union over, !.exposed = exposed]
    OBVIOUS
  <2> HIDE DEF over, exposed, h
  <2>3. h \in Histories
    BY <1>1, <2>1, <2>2 DEF Histories
  <2>4. h.start = hist[c].start /\ h.applied = hist[c].applied
    BY <1>1, <2>2 DEF Histories
  <2>5. h.skipped = hist[c].skipped \union over
    BY <1>1, <2>2 DEF Histories
  <2> QED BY <2>3, <2>4, <2>5 DEF over
<1> HIDE DEF h
<1>12. /\ hist[c].start <= old.lastSeq /\ hist[c].start \in Nat
       /\ \A e \in hist[c].skipped : e \in Events /\ seq[e] <= old.lastSeq
       /\ \A e \in Events : ~Shown(e) => hist[c].applied[e] = 0 /\ e \notin hist[c].skipped
  BY <1>1, <1>2 DEF ConInv, HistoryIsPast, Histories
<1>13. \A e \in Events : ~Shown(e) => h.applied[e] = 0 /\ e \notin h.skipped
  BY <1>9, <1>11, <1>12 DEF WantedBy, Visible, Shown
<1>14. h.start <= n /\ \A e \in h.skipped : seq[e] <= n
  BY <1>1, <1>4, <1>5, <1>9, <1>11, <1>12
<1>15. ASSUME NEW e \in WantedBy(c)
       PROVE  h.applied[e] = IF h.start < seq[e] /\ seq[e] <= n /\ e \notin h.skipped
                             THEN 1 ELSE 0
  <2>1. e \in Visible /\ e \in Wants[c] /\ seq[e] \in Nat
    BY <1>1 DEF WantedBy, Visible
  <2>2. hist[c].applied[e] =
          IF hist[c].start < seq[e] /\ seq[e] <= old.lastSeq /\ e \notin hist[c].skipped
          THEN 1 ELSE 0
    BY <1>2, <2>1 DEF ConInv, CursorTellsTheTruth
  <2>3. CASE seq[e] <= old.lastSeq
    BY <1>4, <1>5, <1>9, <1>11, <2>1, <2>2, <2>3
  <2>4. CASE old.lastSeq < seq[e]
    BY <1>4, <1>5, <1>9, <1>11, <2>1, <2>2, <2>4
  <2> QED BY <1>4, <2>1, <2>3, <2>4
<1>16. Past(r.lastSeq) /\ Past(r.errSeq)
  BY <1>1, <1>5, <1>8 DEF PositionsArePast
<1>17. /\ h.start <= r.lastSeq
       /\ \A e \in h.skipped : seq[e] <= r.lastSeq
       /\ \A e \in WantedBy(c) :
            h.applied[e] = IF /\ h.start < seq[e] /\ seq[e] <= r.lastSeq
                              /\ e \notin h.skipped
                           THEN 1 ELSE 0
  BY <1>8, <1>14, <1>15
<1> QED BY <1>2, <1>3, <1>8, <1>11, <1>13, <1>16, <1>17, OneRowStep

LEMMA ForgetStep ==
  ASSUME ConInv, NEW c \in Consumers, forgetEventConsumer(c)
  PROVE  ConInv'
<1>1. /\ Unlocked(c) /\ PositionsArePast
      /\ cursor' = [cursor EXCEPT ![c] = NoRow]
      /\ hist' = [hist EXCEPT ![c] = HistoryFrom(0)]
      /\ UNCHANGED <<seqVars, run, prune>>
  BY DEF forgetEventConsumer, ConInv
<1>2. left' \in [{"faults", "admin", "giveUps", "prunes"} -> Nat]
  BY DEF forgetEventConsumer, Spend, ConInv, ConTypeOK
<1>3. /\ NoRow \in CursorRows /\ NoRow.exists = FALSE
      /\ NoRow.lastSeq = 0 /\ NoRow.errSeq = 0
  BY LimitsAssumption DEF NoRow, CursorRows
<1>4. /\ HistoryFrom(0) \in Histories /\ HistoryFrom(0).skipped = {}
      /\ \A e \in Events : HistoryFrom(0).applied[e] = 0
  BY DEF HistoryFrom, Histories
<1>5. Past(NoRow.lastSeq) /\ Past(NoRow.errSeq)
  BY <1>1, <1>3 DEF PositionsArePast
<1> QED BY <1>1, <1>2, <1>3, <1>4, <1>5, OneRowStep

-----------------------------------------------------------------------------
(* The invariant *)

LEMMA ConInvInit == Init => ConInv
<1> SUFFICES ASSUME Init PROVE ConInv
  OBVIOUS
<1>1. /\ row = [e \in Events |-> "none"] /\ seq = [e \in Events |-> 0] /\ nextSeq = 0
      /\ trigger = TRUE /\ boot = [p \in Procs |-> "ready"]
      /\ cursor = [c \in Consumers |-> NoRow] /\ run = [p \in Procs |-> IdleRun]
      /\ prune = IdlePrune /\ hist = [c \in Consumers |-> HistoryFrom(0)] /\ left \in Budgets
  BY DEF Init, EmptyLog, ConInit
<1>2. SeqInv
  BY <1>1 DEF SeqInv, SeqTypeOK, RowStates, BootStates, LockInv, OrderInv, HasSeq, TriggerInv
<1>3. /\ NoRow \in CursorRows /\ ~NoRow.exists /\ NoRow.lastSeq = 0 /\ NoRow.errSeq = 0
  BY LimitsAssumption DEF NoRow, CursorRows
<1>4. /\ HistoryFrom(0) \in Histories /\ HistoryFrom(0).skipped = {}
      /\ \A e \in Events : HistoryFrom(0).applied[e] = 0
  BY DEF HistoryFrom, Histories
<1>5. IdleRun.phase = "idle" /\ IdleRun.from = 0 /\ IdleRun.at = 0 /\ IdleRun.head = 0
  BY DEF IdleRun
<1>6. ConTypeOK
  BY <1>1, <1>2, <1>3, <1>4, IdleRunTypes, LimitsAssumption DEF ConTypeOK, SeqInv, IdlePrune
<1>7. \A e \in Events : ~Shown(e) /\ row[e] \notin {"sequencing", "repairing"}
  BY <1>1 DEF Shown
<1>8. PositionsArePast
  BY <1>1, <1>3, <1>5, <1>7 DEF PositionsArePast, Past
<1>9. \A p \in Procs : ~Holds(p)
  BY <1>1, <1>5 DEF Holds
<1>10. RunsAreAlone /\ RunsKeepUp
  BY <1>9 DEF RunsAreAlone, RunsKeepUp
<1>11. HistoryIsPast
  BY <1>1, <1>3, <1>4 DEF HistoryIsPast
<1>12. CursorTellsTheTruth
  BY <1>1, <1>3 DEF CursorTellsTheTruth
<1> QED BY <1>2, <1>6, <1>8, <1>10, <1>11, <1>12 DEF ConInv

LEMMA ConInvariant == Spec => []ConInv
<1>1. ConInv /\ [Next]_vars => ConInv'
  <2> SUFFICES ASSUME ConInv, [Next]_vars PROVE ConInv'
    OBVIOUS
  <2>1. CASE (PublishStep \/ \E p \in Procs : BootStep(p)) /\ UNCHANGED conVars
    BY <2>1, LogStep
  <2>2. ASSUME NEW p \in Procs, NEW c \in Consumers, Claim(p, c) PROVE ConInv'
    BY <2>2, ClaimStep
  <2>3. ASSUME NEW p \in Procs, RunStep(p) PROVE ConInv'
    BY <2>3, ScanStep, HandlerReturnsStep, HandlerOverrunsStep, HandlerThrowsStep,
       FinishBatchStep DEF RunStep
  <2>4. ASSUME NEW p \in Procs, RecordTimedOutRun(p) \/ CrashPoller(p) PROVE ConInv'
    BY <2>4, RecordTimedOutRunStep, CrashStep
  <2>5. ASSUME NEW c \in Consumers,
               BackoffElapses(c) \/ AdminStep(c) \/ GiveUpHorizonPasses(c)
        PROVE  ConInv'
    BY <2>5, BackoffElapsesStep, GiveUpHorizonStep, ResumeStep, SkipStep, ForgetStep DEF AdminStep
  <2>6. CASE EventsAge \/ StartPrune \/ ReadFloor \/ DeleteBatch \/ StopPrune
    BY <2>6, PruneStep, DeleteBatchStep
  <2>7. CASE UNCHANGED vars
    <3>1. SeqInv' /\ LogMoves
      BY <2>7, StillLogMoves DEF ConInv, vars
    <3>2. ConTypeOK'
      BY <2>7, <3>1 DEF ConInv, ConTypeOK, SeqInv, vars, conVars
    <3>3. Quiet
      BY <2>7, UnmovedIsQuiet DEF Quiet, vars, conVars
    <3> QED BY <3>1, <3>2, <3>3, QuietStep
  <2> QED BY <2>1, <2>2, <2>3, <2>4, <2>5, <2>6, <2>7 DEF Next
<1> QED BY <1>1, ConInvInit, PTL DEF Spec

(* Cursors, runs, histories and the prune job stay what they are meant to
   be, in every interleaving. *)
THEOREM ConTyping == Spec => []ConTypeOK
<1>1. ConInv => ConTypeOK
  BY DEF ConInv
<1> QED BY <1>1, ConInvariant, PTL

(* What a cursor has passed since it started was delivered exactly once, or
   skipped by an administrator, and nothing else was: whatever rival pollers,
   throwing or overrunning handlers, crashes and retention do. *)
THEOREM DeliveredExactlyOnce == Spec => []CursorTellsTheTruth
<1>1. ConInv => CursorTellsTheTruth
  BY DEF ConInv
<1> QED BY <1>1, ConInvariant, PTL

-----------------------------------------------------------------------------
(* Parking *)

NoRowIsParked == \A c \in Consumers : ~cursor[c].exists => cursor[c].parked = "no"

(* What a step makes of a row: it keeps its place and its history, or it is
   not parked any more, or nobody had parked it. *)
RowMoves(c) ==
  \/ /\ cursor'[c].exists = cursor[c].exists /\ cursor'[c].lastSeq = cursor[c].lastSeq
     /\ hist'[c].applied = hist[c].applied
     /\ cursor[c].exists \/ cursor'[c].parked = cursor[c].parked
  \/ cursor'[c].parked = "no"
  \/ /\ cursor'[c].exists
     /\ cursor[c].exists => cursor[c].parked = "no"

LEMMA UnmovedRow ==
  ASSUME NEW c \in Consumers, cursor'[c] = cursor[c], hist'[c].applied = hist[c].applied
  PROVE  RowMoves(c)
  BY DEF RowMoves

LEMMA CommitMovesRow ==
  ASSUME ConInv, NEW p \in Procs, Holds(p), NEW r, r.exists, CommitRun(p, r),
         NEW c \in Consumers
  PROVE  RowMoves(c)
<1>1. /\ cursor \in [Consumers -> CursorRows] /\ hist \in [Consumers -> Histories]
      /\ \A d \in Consumers : d # run[p].consumer => cursor'[d] = cursor[d] /\ hist'[d] = hist[d]
      /\ cursor' = [cursor EXCEPT ![run[p].consumer] = r]
  BY DEF ConInv, ConTypeOK, CommitRun
<1>2. CASE c = run[p].consumer
  <2>1. cursor'[c] = r
    BY <1>1, <1>2
  <2>2. cursor[c].exists => cursor[c].parked = "no"
    BY <1>2 DEF ConInv, RunsAreAlone
  <2> QED BY <2>1, <2>2 DEF RowMoves
<1>3. CASE c # run[p].consumer
  BY <1>1, <1>3, UnmovedRow
<1> QED BY <1>2, <1>3

LEMMA RunMovesRow ==
  ASSUME ConInv, NEW p \in Procs, RunStep(p), NEW c \in Consumers
  PROVE  RowMoves(c)
<1>1. Holds(p)
  BY DEF RunStep, Scan, HandlerReturns, HandlerOverruns, HandlerThrows, FinishBatch, Holds
<1>2. /\ ClaimedRow(p) \in CursorRows /\ ClaimedRow(p).exists
      /\ run[p].at \in Nat /\ run[p].head \in Nat
  BY <1>1, ClaimedRowIs DEF ConInv, ConTypeOK, Runs
<1>3. \A n \in Nat : MarkProgress(ClaimedRow(p), n).exists
  BY <1>2, MarkProgressIs
<1>4. CASE Scan(p)
  <2>1. CASE UNCHANGED <<cursor, hist>>
    BY <2>1, UnmovedRow
  <2>2. CASE CommitRun(p, MarkProgress(ClaimedRow(p), run[p].head))
    BY <1>1, <1>2, <1>3, <2>2, CommitMovesRow
  <2>3. CASE CommitRun(p, ClaimedRow(p))
    BY <1>1, <1>2, <2>3, CommitMovesRow
  <2> QED BY <1>4, <2>1, <2>2, <2>3 DEF Scan
<1>5. CASE HandlerReturns(p) \/ HandlerOverruns(p)
  BY <1>5, UnmovedRow DEF HandlerReturns, HandlerOverruns
<1>6. ASSUME NEW transient \in BOOLEAN, HandlerThrows(p, transient)
      PROVE  RowMoves(c)
  <2> DEFINE new == RecordFailure(ClaimedRow(p), run[p].failures,
                                  seq[FirstOf(run[p].batch)], run[p].at, transient)
  <2>1. CommitRun(p, new)
    BY <1>6 DEF HandlerThrows
  <2>2. new.exists
    BY <1>2 DEF RecordFailure, CursorRows
  <2> HIDE DEF new
  <2> QED BY <1>1, <2>1, <2>2, CommitMovesRow
<1>7. CASE FinishBatch(p)
  <2>1. AdvancedTo(run[p]) \in Nat
    BY <1>2 DEF AdvancedTo, Greatest
  <2> QED BY <1>1, <1>3, <1>7, <2>1, CommitMovesRow DEF FinishBatch
<1> QED BY <1>4, <1>5, <1>6, <1>7 DEF RunStep

LEMMA StepMovesRow ==
  ASSUME ConInv, NoRowIsParked, [Next]_vars, NEW c \in Consumers
  PROVE  RowMoves(c)
<1>1. cursor \in [Consumers -> CursorRows] /\ hist \in [Consumers -> Histories]
  BY DEF ConInv, ConTypeOK
<1>2. CASE UNCHANGED <<cursor, hist>>
  BY <1>2, UnmovedRow
<1>3. ASSUME NEW p \in Procs, RunStep(p) PROVE RowMoves(c)
  BY <1>3, RunMovesRow
<1>4. ASSUME NEW p \in Procs, RecordTimedOutRun(p) PROVE RowMoves(c)
  <2> DEFINE d == run[p].consumer
             new == RecordFailure(cursor[d], cursor[d].failures, run[p].at, cursor[d].lastSeq, FALSE)
  <2>1. CASE cursor' = [cursor EXCEPT ![d] = new] /\ cursor[d].exists /\ c = d
    <3>1. cursor'[c] = new /\ hist'[c] = hist[c] /\ cursor[c] \in CursorRows
      BY <1>1, <1>4, <2>1 DEF RecordTimedOutRun
    <3>2. new.exists = cursor[c].exists /\ new.lastSeq = cursor[c].lastSeq
      BY <2>1, <3>1 DEF RecordFailure, CursorRows
    <3> HIDE DEF new
    <3> QED BY <2>1, <3>1, <3>2 DEF RowMoves
  <2>2. CASE cursor'[c] = cursor[c]
    BY <1>4, <2>2, UnmovedRow DEF RecordTimedOutRun
  <2> QED BY <1>1, <1>4, <2>1, <2>2 DEF RecordTimedOutRun
<1>5. ASSUME NEW d \in Consumers, BackoffElapses(d) PROVE RowMoves(c)
  BY <1>1, <1>5 DEF BackoffElapses, RowMoves, CursorRows
<1>6. ASSUME NEW d \in Consumers, AdminStep(d) PROVE RowMoves(c)
  <2>1. CASE c # d
    BY <1>1, <1>6, <2>1, UnmovedRow
       DEF AdminStep, resumeEventConsumer, skipPoisonEvent, forgetEventConsumer
  <2>2. CASE c = d
    <3>1. CASE resumeEventConsumer(d)
      BY <1>1, <2>2, <3>1 DEF resumeEventConsumer, RowMoves, CursorRows
    <3>2. CASE skipPoisonEvent(d)
      BY <1>1, <2>2, <3>2 DEF skipPoisonEvent, MarkProgress, RowMoves, CursorRows
    <3>3. CASE forgetEventConsumer(d)
      BY <1>1, <2>2, <3>3 DEF forgetEventConsumer, NoRow, RowMoves
    <3> QED BY <1>6, <3>1, <3>2, <3>3 DEF AdminStep
  <2> QED BY <2>1, <2>2
<1>7. ASSUME NEW d \in Consumers, GiveUpHorizonPasses(d) PROVE RowMoves(c)
  BY <1>1, <1>7 DEF GiveUpHorizonPasses, NoRowIsParked, RowMoves, CursorRows
<1>8. CASE StartPrune
  BY <1>1, <1>8 DEF StartPrune, RowMoves, CursorRows
<1>9. CASE DeleteBatch
  BY <1>1, <1>9 DEF DeleteBatch, RowMoves, Histories
<1>10. ASSUME NEW p \in Procs, CrashPoller(p) PROVE RowMoves(c)
  BY <1>10, UnmovedRow DEF CrashPoller
<1>11. ASSUME NEW p \in Procs, NEW d \in Consumers, Claim(p, d) PROVE RowMoves(c)
  BY <1>11, UnmovedRow DEF Claim
<1>12. CASE EventsAge \/ ReadFloor \/ StopPrune \/ UNCHANGED conVars
  BY <1>12, UnmovedRow DEF EventsAge, ReadFloor, StopPrune, conVars
<1> QED BY <1>3, <1>4, <1>5, <1>6, <1>7, <1>8, <1>9, <1>10, <1>11, <1>12 DEF Next, vars, conVars

(* While a consumer stays parked, no poller touches its cursor or commits its
   handlers' work. *)
THEOREM ParkingHolds == Spec => ParkedStaysPut
<1>1. NoRowIsParked /\ (\A c \in Consumers : RowMoves(c)) => NoRowIsParked'
  BY DEF NoRowIsParked, RowMoves
<1>2. Init => NoRowIsParked
  BY DEF Init, ConInit, NoRow, NoRowIsParked
<1>3. ConInv /\ NoRowIsParked /\ [Next]_vars => NoRowIsParked'
  BY <1>1, StepMovesRow
<1>4. ConInv /\ NoRowIsParked /\ [Next]_vars =>
        [\A c \in Consumers :
           cursor[c].parked # "no" /\ cursor'[c].parked # "no"
             => /\ cursor'[c].lastSeq = cursor[c].lastSeq
                /\ hist'[c].applied = hist[c].applied]_vars
  BY StepMovesRow DEF NoRowIsParked, RowMoves
<1> QED BY <1>2, <1>3, <1>4, ConInvariant, PTL DEF Spec, ParkedStaysPut

-----------------------------------------------------------------------------
(* Retention *)

(* Every process was up before the first event: each row has its seq. *)
SequencedOnly ==
  trigger /\ \A e \in Events : row[e] \notin {"unarmed", "stranded", "repairing"}

OldIsShown == \A e \in prune.old : Shown(e)

(* A position that a batch deletes nothing beyond: it is past all that is old
   enough, or the batch has read a floor that is no higher. *)
OldReached(n) == \A e \in prune.old \intersect Visible : seq[e] <= n
FloorReached(n) == \E m \in prune.floors : m <= n
OutOfReach(n) == prune.phase = "floored" => OldReached(n) \/ FloorReached(n)

Owed(c) == cursor[c].exists /\ cursor[c].parked # "overdue" /\ ~hist[c].exposed
Kept(c) == hist[c].lost = {} /\ OutOfReach(cursor[c].lastSeq)

(* No run is in flight on a consumer that has crossed the give-up horizon. *)
InFlight(p) == run[p].phase # "idle"
GivenUpIsIdle ==
  \A c \in Consumers :
    /\ cursor[c].abandoned => cursor[c].parked = "overdue"
    /\ cursor[c].parked = "overdue" =>
         \A p \in Procs : ~(InFlight(p) /\ run[p].consumer = c)

(* A run that is about to create a row at the head is past all that is old. *)
HeadsAreFresh ==
  \A p \in Procs :
    Holds(p) /\ run[p].fresh /\ run[p].consumer \in HeadStarters => OldReached(run[p].from)

KeepInv == /\ SequencedOnly /\ OldIsShown /\ NoRowIsParked /\ GivenUpIsIdle /\ HeadsAreFresh
           /\ \A c \in Consumers : Owed(c) => Kept(c)

LEMMA SequencedStays ==
  ASSUME SeqInv, SequencedOnly,
         PublishStep \/ \E p \in Procs : BootStep(p) \/ Crash(p)
  PROVE  SequencedOnly'
<1> USE DEF SequencedOnly, SeqInv, SeqTypeOK
<1>1. CASE PublishStep
  BY <1>1 DEF PublishStep, Publish, FireTrigger, Commit, CommitSequenced, CommitStranded, Abort
<1>2. ASSUME NEW p \in Procs, BootStep(p) PROVE SequencedOnly'
  <2>1. Stranded = {}
    BY DEF Stranded
  <2>2. CASE Start(p) \/ EnsureSequencing(p)
    BY <2>2 DEF Start, EnsureSequencing
  <2>3. CASE SequenceStranded(p)
    <3>1. row' = [e \in Events |-> IF e \in Stranded THEN "repairing" ELSE row[e]]
      BY <2>3 DEF SequenceStranded
    <3>2. trigger' = trigger
      BY <2>3 DEF SequenceStranded
    <3> QED BY <2>1, <3>1, <3>2
  <2>4. CASE FinishBoot(p)
    BY <2>4 DEF FinishBoot
  <2> QED BY <1>2, <2>2, <2>3, <2>4 DEF BootStep
<1>3. ASSUME NEW p \in Procs, Crash(p) PROVE SequencedOnly'
  BY <1>3 DEF Crash
<1> QED BY <1>1, <1>2, <1>3

(* A moving log adds nothing to what is old. *)
LEMMA OldStays ==
  ASSUME OldIsShown, LogMoves, prune'.old = prune.old, prune.old \subseteq Events
  PROVE  /\ OldIsShown'
         /\ \A n : OldReached(n) => OldReached(n)'
<1>1. \A e \in prune.old : Shown(e)' /\ seq'[e] = seq[e] /\ (row'[e] = "visible" => row[e] = "visible")
  BY DEF OldIsShown, LogMoves
<1> QED BY <1>1 DEF OldIsShown, OldReached, Visible

LEMMA ReachIsUpward ==
  ASSUME ConTypeOK, NEW m \in Nat, NEW n \in Nat, m <= n
  PROVE  /\ OldReached(m) => OldReached(n)
         /\ FloorReached(m) => FloorReached(n)
         /\ OutOfReach(m) => OutOfReach(n)
<1>1. OldReached(m) => OldReached(n)
  <2>1. \A e \in Visible : seq[e] \in Nat
    BY DEF ConTypeOK, SeqTypeOK, Visible
  <2> QED BY <2>1 DEF OldReached
<1>2. FloorReached(m) => FloorReached(n)
  <2>1. prune.floors \subseteq Nat
    BY DEF ConTypeOK
  <2> QED BY <2>1 DEF FloorReached
<1> QED BY <1>1, <1>2 DEF OutOfReach

-----------------------------------------------------------------------------
(* Steps between which the prune job sleeps *)

(* What such a step may make of a consumer's row, its parking and a run. *)
RowKeeps(c) ==
  \/ ~Owed(c)'
  \/ /\ Owed(c) /\ hist'[c].lost = hist[c].lost
     /\ cursor[c].lastSeq <= cursor'[c].lastSeq
  \/ hist'[c].lost = {} /\ (prune.phase = "floored" => OldReached(cursor'[c].lastSeq))

ParkKeeps(c) ==
  /\ cursor'[c].abandoned => cursor'[c].parked = "overdue"
  /\ cursor'[c].parked = "overdue" =>
       \/ cursor[c].parked = "overdue"
       \/ \A p \in Procs : ~(InFlight(p)' /\ run'[p].consumer = c)

RunKeeps(p) ==
  /\ InFlight(p)' => \/ InFlight(p) /\ run'[p].consumer = run[p].consumer
                     \/ cursor'[run'[p].consumer].parked # "overdue"
  /\ Holds(p)' => \/ /\ Holds(p) /\ run'[p].consumer = run[p].consumer
                     /\ run'[p].fresh = run[p].fresh /\ run'[p].from = run[p].from
                  \/ run'[p].fresh /\ run'[p].consumer \in HeadStarters
                       => OldReached(run'[p].from)

Keeping == /\ \A c \in Consumers : RowKeeps(c) /\ ParkKeeps(c)
           /\ \A p \in Procs : RunKeeps(p)

LEMMA KeepingKeeps ==
  ASSUME ConInv, ConInv', KeepInv, LogMoves, SequencedOnly', NoRowIsParked',
         prune' = prune, Keeping
  PROVE  KeepInv'
<1>1. /\ ConTypeOK /\ ConTypeOK' /\ prune.old \subseteq Events
      /\ cursor \in [Consumers -> CursorRows] /\ cursor' \in [Consumers -> CursorRows]
  BY DEF ConInv, ConTypeOK
<1>2. OldIsShown' /\ \A n : OldReached(n) => OldReached(n)'
  BY <1>1, OldStays DEF KeepInv
<1>3. GivenUpIsIdle'
  <2>1. ASSUME NEW c \in Consumers, cursor'[c].parked = "overdue",
               NEW p \in Procs, InFlight(p)', run'[p].consumer = c
        PROVE  FALSE
    <3>1. cursor[c].parked = "overdue"
      BY <2>1 DEF Keeping, ParkKeeps
    <3>2. InFlight(p) /\ run[p].consumer = c
      BY <2>1 DEF Keeping, RunKeeps
    <3> QED BY <3>1, <3>2 DEF KeepInv, GivenUpIsIdle
  <2> QED BY <2>1 DEF GivenUpIsIdle, Keeping, ParkKeeps
<1>4. HeadsAreFresh'
  <2>1. ASSUME NEW p \in Procs, Holds(p)', run'[p].fresh, run'[p].consumer \in HeadStarters
        PROVE  OldReached(run'[p].from)
    BY <2>1 DEF Keeping, RunKeeps, KeepInv, HeadsAreFresh
  <2>2. ASSUME NEW p \in Procs, Holds(p)', run'[p].fresh, run'[p].consumer \in HeadStarters
        PROVE  OldReached(run[p].from)'
    <3>1. PICK n : n = run'[p].from
      OBVIOUS
    <3>2. OldReached(n)'
      BY <1>2, <2>1, <2>2, <3>1
    <3> QED BY <3>1, <3>2 DEF OldReached
  <2> QED BY <2>2 DEF HeadsAreFresh
<1>5. ASSUME NEW c \in Consumers, Owed(c)' PROVE Kept(c)'
  <2>0. PICK n : n = cursor'[c].lastSeq
    OBVIOUS
  <2>1. n \in Nat /\ cursor[c].lastSeq \in Nat
    BY <1>1, <2>0 DEF CursorRows
  <2>2. hist'[c].lost = {} /\ OutOfReach(n)
    <3>1. CASE Owed(c) /\ hist'[c].lost = hist[c].lost /\ cursor[c].lastSeq <= n
      <4>1. Kept(c)
        BY <3>1 DEF KeepInv
      <4> QED BY <1>1, <2>1, <3>1, <4>1, ReachIsUpward DEF Kept
    <3>2. CASE hist'[c].lost = {} /\ (prune.phase = "floored" => OldReached(n))
      BY <3>2 DEF OutOfReach
    <3> QED BY <1>5, <2>0, <3>1, <3>2 DEF Keeping, RowKeeps
  <2>3. OutOfReach(n)'
    BY <1>2, <2>2 DEF OutOfReach, FloorReached
  <2> QED BY <2>0, <2>2, <2>3 DEF Kept, OutOfReach, OldReached, FloorReached
<1> QED BY <1>2, <1>3, <1>4, <1>5 DEF KeepInv

(* Log steps, backoffs and runs that stop without committing leave every
   consumer where it is. *)
LEMMA StillRowsKeep ==
  ASSUME KeepInv, ConInv, NEW c \in Consumers,
         cursor'[c].exists = cursor[c].exists, cursor'[c].lastSeq = cursor[c].lastSeq,
         cursor'[c].parked = cursor[c].parked, cursor'[c].abandoned = cursor[c].abandoned,
         hist'[c].lost = hist[c].lost, hist'[c].exposed = hist[c].exposed
  PROVE  RowKeeps(c) /\ ParkKeeps(c)
<1>1. cursor[c].lastSeq \in Nat
  BY DEF ConInv, ConTypeOK, CursorRows
<1> QED BY <1>1 DEF KeepInv, GivenUpIsIdle, RowKeeps, ParkKeeps, Owed

LEMMA StillRunsKeep ==
  ASSUME NEW p \in Procs, ~InFlight(p)' \/ run'[p] = run[p]
  PROVE  RunKeeps(p)
  BY DEF RunKeeps, InFlight, Holds

(* A claimed row is not parked. *)
LEMMA ClaimedRowIsOpen ==
  ASSUME ConInv, KeepInv, NEW p \in Procs, Holds(p)
  PROVE  ClaimedRow(p).parked = "no" /\ ~ClaimedRow(p).abandoned
<1> DEFINE c == run[p].consumer
<1>1. c \in Consumers /\ cursor[c] \in CursorRows
  BY DEF ConInv, ConTypeOK, Runs
<1>2. CASE run[p].fresh
  BY <1>2 DEF ClaimedRow, RowAt, NoRow
<1>3. CASE ~run[p].fresh
  <2>1. ClaimedRow(p) = cursor[c] /\ cursor[c].exists
    BY <1>3 DEF ClaimedRow, ConInv, RunsAreAlone
  <2>2. cursor[c].parked = "no"
    BY <2>1 DEF ConInv, RunsAreAlone
  <2> QED BY <1>1, <2>1, <2>2 DEF KeepInv, GivenUpIsIdle
<1> QED BY <1>2, <1>3

LEMMA CommitKeeps ==
  ASSUME ConInv, ConInv', KeepInv, NEW p \in Procs, Holds(p), NEW r \in CursorRows,
         CommitRun(p, r), r.exists, run[p].from <= r.lastSeq,
         r.parked \in {"no", "parked"}, ~r.abandoned
  PROVE  Keeping
<1>0. PICK c : c = run[p].consumer
  OBVIOUS
<1> DEFINE from == run[p].from
           h == IF run[p].fresh THEN NewHistory(p) ELSE hist[c]
           applied == [e \in Events |-> IF e \in run[p].ok THEN Least(h.applied[e] + 1, 2)
                                        ELSE h.applied[e]]
           new == [h EXCEPT !.applied = applied]
<1>1. /\ cursor \in [Consumers -> CursorRows] /\ run \in [Procs -> Runs]
      /\ hist \in [Consumers -> Histories] /\ c \in Consumers /\ from \in Nat
      /\ ConTypeOK /\ r.lastSeq \in Nat
  BY <1>0 DEF ConInv, ConTypeOK, Runs, CursorRows
<1>2. /\ cursor' = [cursor EXCEPT ![c] = r]
      /\ run' = [run EXCEPT ![p] = IdleRun]
      /\ hist' = [hist EXCEPT ![c] = new]
  BY <1>0 DEF CommitRun
<1>3. h \in Histories
  BY <1>1, NewHistoryIs
<1>4. /\ run[p].fresh => /\ h.lost = {}
                         /\ h.exposed <=> c \notin HeadStarters /\ prune.phase = "floored"
      /\ ~run[p].fresh => h = hist[c]
  BY <1>0, <1>1, NewHistoryIs
<1> HIDE DEF h
<1>5. new.lost = h.lost /\ new.exposed = h.exposed
  BY <1>3 DEF Histories
<1> HIDE DEF new
<1>6. RowKeeps(c)
  <2>1. CASE run[p].fresh
    <3>1. hist'[c].lost = {} /\ cursor'[c].lastSeq = r.lastSeq
      BY <1>1, <1>2, <1>4, <1>5, <2>1
    <3>2. ASSUME Owed(c)', prune.phase = "floored" PROVE OldReached(r.lastSeq)
      <4>1. ~hist'[c].exposed
        BY <3>2 DEF Owed
      <4>2. c \in HeadStarters
        BY <1>1, <1>2, <1>4, <1>5, <2>1, <3>2, <4>1
      <4>3. OldReached(from)
        BY <1>0, <2>1, <4>2 DEF KeepInv, HeadsAreFresh
      <4> QED BY <1>1, <4>3, ReachIsUpward
    <3> QED BY <3>1, <3>2 DEF RowKeeps
  <2>2. CASE ~run[p].fresh
    <3>1. cursor[c].exists /\ cursor[c].lastSeq = from /\ cursor[c].parked = "no"
      BY <1>0, <2>2 DEF ConInv, RunsAreAlone
    <3>2. /\ cursor'[c].lastSeq = r.lastSeq
          /\ hist'[c].lost = hist[c].lost /\ hist'[c].exposed = hist[c].exposed
      BY <1>1, <1>2, <1>4, <1>5, <2>2
    <3> QED BY <3>1, <3>2 DEF RowKeeps, Owed
  <2> QED BY <2>1, <2>2
<1>7. ParkKeeps(c)
  BY <1>1, <1>2 DEF ParkKeeps
<1>8. ASSUME NEW d \in Consumers, d # c PROVE RowKeeps(d) /\ ParkKeeps(d)
  BY <1>1, <1>2, <1>8, StillRowsKeep
<1>9. \A q \in Procs : RunKeeps(q)
  BY <1>1, <1>2, StillRunsKeep DEF IdleRun, InFlight
<1> QED BY <1>6, <1>7, <1>8, <1>9 DEF Keeping

(* What recordFailure makes of a row's parking. *)
LEMMA FailureParks ==
  ASSUME NEW r \in CursorRows, NEW previous, NEW failed, NEW n, NEW transient
  PROVE  /\ RecordFailure(r, previous, failed, n, transient).parked \in {"no", "parked"}
         /\ RecordFailure(r, previous, failed, n, transient).abandoned = r.abandoned
  BY DEF RecordFailure, CursorRows

LEMMA ProgressParks ==
  ASSUME NEW r \in CursorRows, NEW n
  PROVE  /\ MarkProgress(r, n).parked = r.parked
         /\ MarkProgress(r, n).abandoned = r.abandoned
  BY DEF MarkProgress, CursorRows

LEMMA ClaimKeeps ==
  ASSUME ConInv, KeepInv, NEW p \in Procs, NEW c \in Consumers, Claim(p, c)
  PROVE  Keeping
<1> DEFINE r == IF cursor[c].exists THEN cursor[c]
                ELSE RowAt(IF c \in HeadStarters THEN HeadSeq ELSE 0)
           new == [IdleRun EXCEPT !.phase = "claimed", !.consumer = c,
                     !.fresh = ~cursor[c].exists, !.from = r.lastSeq,
                     !.failures = r.failures, !.at = r.lastSeq,
                     !.head = IF c \in Wildcards THEN 0 ELSE HeadSeq]
<1>1. /\ r.parked = "no" /\ run' = [run EXCEPT ![p] = new] /\ run \in [Procs -> Runs]
      /\ UNCHANGED <<seqVars, cursor, prune, hist, left>>
  BY DEF Claim, ConInv, ConTypeOK
<1>2. cursor[c].exists \in BOOLEAN
  BY DEF ConInv, ConTypeOK, CursorRows
<1>3. cursor[c].parked # "overdue"
  <2>1. CASE cursor[c].exists
    BY <1>1, <2>1
  <2>2. CASE ~cursor[c].exists
    BY <2>2 DEF KeepInv, NoRowIsParked
  <2> QED BY <1>2, <2>1, <2>2
<1>4. ~cursor[c].exists /\ c \in HeadStarters => r.lastSeq = HeadSeq
  BY DEF RowAt, NoRow
<1> HIDE DEF r
<1>5. new.consumer = c /\ new.fresh = ~cursor[c].exists /\ new.from = r.lastSeq
  BY DEF IdleRun
<1> HIDE DEF new
<1>6. OldReached(HeadSeq)
  BY HeadIsPast DEF ConInv, OldReached
<1>7. RunKeeps(p)
  BY <1>1, <1>2, <1>3, <1>4, <1>5, <1>6 DEF RunKeeps
<1>8. \A q \in Procs : q # p => RunKeeps(q)
  BY <1>1, StillRunsKeep
<1>9. \A d \in Consumers : RowKeeps(d) /\ ParkKeeps(d)
  BY <1>1, StillRowsKeep
<1> QED BY <1>7, <1>8, <1>9 DEF Keeping

LEMMA RunKeepsOn ==
  ASSUME ConInv, ConInv', KeepInv, NEW p \in Procs, RunStep(p)
  PROVE  Keeping
<1> DEFINE old == ClaimedRow(p)
<1>1. /\ Holds(p) /\ RunOK(run[p]) /\ run \in [Procs -> Runs] /\ run[p] \in Runs
      /\ seq \in [Events -> Nat]
  BY DEF RunStep, Scan, HandlerReturns, HandlerOverruns, HandlerThrows, FinishBatch, Holds,
         ConInv, ConTypeOK, SeqTypeOK, RunsKeepUp
<1>2. /\ old \in CursorRows /\ old.exists /\ old.lastSeq = run[p].from
      /\ old.parked = "no" /\ ~old.abandoned
  BY <1>1, ClaimedRowIs, ClaimedRowIsOpen
<1>3. /\ run[p].from \in Nat /\ run[p].at \in Nat /\ run[p].head \in Nat
      /\ run[p].from <= run[p].at /\ run[p].failures \in Nat /\ run[p].batch \in SUBSET Events
  BY <1>1, LimitsAssumption DEF Runs, RunOK
<1>4. ASSUME NEW n \in Nat, run[p].from <= n, CommitRun(p, MarkProgress(old, n))
      PROVE  Keeping
  <2> DEFINE new == MarkProgress(old, n)
  <2>1. new \in CursorRows /\ new.exists /\ new.lastSeq = n
    BY <1>2, <1>4, MarkProgressIs
  <2>2. new.parked = "no" /\ ~new.abandoned
    BY <1>2, ProgressParks
  <2> HIDE DEF new
  <2>3. CommitRun(p, new)
    BY <1>4 DEF new
  <2> QED BY <1>1, <1>4, <2>1, <2>2, <2>3, CommitKeeps
<1>5. CASE Scan(p)
  <2>1. CASE CommitRun(p, MarkProgress(old, run[p].head)) /\ run[p].head > run[p].from
    BY <1>3, <1>4, <2>1
  <2>2. CASE CommitRun(p, old)
    BY <1>1, <1>2, <1>3, <2>2, CommitKeeps
  <2> DEFINE batch == Limit(Scannable(run[p]))
             new == [run[p] EXCEPT !.phase = "running", !.batch = batch,
                                   !.full = (Cardinality(batch) = BatchSize)]
  <2>3. CASE run' = [run EXCEPT ![p] = new] /\ UNCHANGED <<cursor, hist>>
    <3> HIDE DEF batch
    <3>1. new.consumer = run[p].consumer /\ new.fresh = run[p].fresh /\ new.from = run[p].from
      BY <1>1 DEF Runs
    <3> HIDE DEF new
    <3>2. RunKeeps(p)
      BY <1>1, <2>3, <3>1 DEF RunKeeps, InFlight, Holds
    <3>3. \A q \in Procs : q # p => RunKeeps(q)
      BY <1>1, <2>3, StillRunsKeep
    <3> QED BY <2>3, <3>2, <3>3, StillRowsKeep DEF Keeping
  <2> QED BY <1>5, <2>1, <2>2, <2>3 DEF Scan
<1>6. CASE HandlerReturns(p)
  <2>1. /\ run' = [run EXCEPT ![p] = [run[p] EXCEPT !.batch = @ \ {FirstOf(run[p].batch)},
                             !.at = seq[FirstOf(run[p].batch)],
                             !.ok = @ \union {FirstOf(run[p].batch)}]]
        /\ UNCHANGED <<cursor, hist>>
    BY <1>6 DEF HandlerReturns
  <2>2. /\ run'[p].consumer = run[p].consumer /\ run'[p].fresh = run[p].fresh
        /\ run'[p].from = run[p].from
    BY <1>1, <2>1 DEF Runs
  <2>3. RunKeeps(p)
    BY <1>1, <2>2 DEF RunKeeps, InFlight, Holds
  <2>4. \A q \in Procs : q # p => RunKeeps(q)
    BY <1>1, <2>1, StillRunsKeep
  <2> QED BY <2>1, <2>3, <2>4, StillRowsKeep DEF Keeping
<1>7. CASE HandlerOverruns(p)
  <2>1. /\ run'[p].phase = "overrun" /\ run'[p].consumer = run[p].consumer
        /\ \A q \in Procs : q # p => run'[q] = run[q]
        /\ UNCHANGED <<cursor, hist>>
    BY <1>1, <1>7 DEF HandlerOverruns, IdleRun
  <2>2. RunKeeps(p)
    BY <1>1, <2>1 DEF RunKeeps, InFlight, Holds
  <2> QED BY <2>1, <2>2, StillRunsKeep, StillRowsKeep DEF Keeping
<1>8. ASSUME NEW transient \in BOOLEAN, HandlerThrows(p, transient) PROVE Keeping
  <2> DEFINE e == FirstOf(run[p].batch)
             new == RecordFailure(old, run[p].failures, seq[e], run[p].at, transient)
  <2>1. CommitRun(p, new) /\ run[p].batch # {}
    BY <1>8 DEF HandlerThrows
  <2>2. seq[e] \in Nat
    BY <1>1, <1>3, <2>1, FirstExists
  <2> HIDE DEF e
  <2>3. new \in CursorRows /\ new.exists /\ new.lastSeq = run[p].at
    BY <1>2, <1>3, <2>2, RecordFailureIs
  <2>4. new.parked \in {"no", "parked"} /\ ~new.abandoned
    BY <1>2, FailureParks
  <2> HIDE DEF new
  <2> QED BY <1>1, <1>3, <2>1, <2>3, <2>4, CommitKeeps
<1>9. CASE FinishBatch(p)
  <2>1. CommitRun(p, MarkProgress(old, AdvancedTo(run[p])))
    BY <1>9 DEF FinishBatch
  <2>2. AdvancedTo(run[p]) \in Nat /\ run[p].from <= AdvancedTo(run[p])
    BY <1>3 DEF AdvancedTo, Greatest
  <2> QED BY <1>4, <2>1, <2>2
<1> QED BY <1>5, <1>6, <1>7, <1>8, <1>9 DEF RunStep

LEMMA RecordTimedOutRunKeeps ==
  ASSUME ConInv, KeepInv, NEW p \in Procs, RecordTimedOutRun(p)
  PROVE  Keeping
<1>0. PICK c : c = run[p].consumer
  OBVIOUS
<1> DEFINE r == cursor[c]
           new == RecordFailure(r, r.failures, run[p].at, r.lastSeq, FALSE)
<1>1. /\ run \in [Procs -> Runs] /\ cursor \in [Consumers -> CursorRows] /\ c \in Consumers
      /\ run' = [run EXCEPT ![p] = IdleRun] /\ hist' = hist /\ InFlight(p)
      /\ \/ cursor' = cursor
         \/ r.exists /\ cursor' = [cursor EXCEPT ![c] = new]
  BY <1>0 DEF RecordTimedOutRun, ConInv, ConTypeOK, Runs, InFlight
<1>2. r.parked # "overdue" /\ ~r.abandoned
  BY <1>0, <1>1 DEF KeepInv, GivenUpIsIdle
<1>3. new.parked \in {"no", "parked"} /\ new.abandoned = r.abandoned
  <2>1. r \in CursorRows
    BY <1>1
  <2> QED BY <2>1 DEF RecordFailure, CursorRows
<1>4. new.lastSeq = r.lastSeq /\ r.lastSeq \in Nat
  BY <1>1 DEF RecordFailure, CursorRows
<1> HIDE DEF new
<1>5. \A q \in Procs : RunKeeps(q)
  BY <1>1, StillRunsKeep DEF IdleRun, InFlight
<1>6. CASE cursor' = cursor
  BY <1>1, <1>5, <1>6, StillRowsKeep DEF Keeping
<1>7. CASE r.exists /\ cursor' = [cursor EXCEPT ![c] = new]
  <2>1. RowKeeps(c) /\ ParkKeeps(c)
    BY <1>1, <1>2, <1>3, <1>4, <1>7 DEF RowKeeps, ParkKeeps, Owed
  <2>2. \A d \in Consumers : d # c => RowKeeps(d) /\ ParkKeeps(d)
    BY <1>1, <1>7, StillRowsKeep
  <2> QED BY <1>5, <2>1, <2>2 DEF Keeping
<1> QED BY <1>1, <1>6, <1>7

LEMMA RowStepKeeps ==
  ASSUME ConInv, KeepInv, NEW c \in Consumers,
         BackoffElapses(c) \/ AdminStep(c) \/ GiveUpHorizonPasses(c)
  PROVE  Keeping
<1>1. /\ cursor \in [Consumers -> CursorRows] /\ hist \in [Consumers -> Histories]
      /\ cursor[c] \in CursorRows /\ hist[c] \in Histories
      /\ cursor[c].lastSeq \in Nat /\ cursor[c].errSeq \in Nat
  BY DEF ConInv, ConTypeOK, CursorRows
<1>2. /\ run' = run
      /\ \A d \in Consumers : d # c => cursor'[d] = cursor[d] /\ hist'[d] = hist[d]
  BY <1>1 DEF BackoffElapses, AdminStep, resumeEventConsumer, skipPoisonEvent,
              forgetEventConsumer, GiveUpHorizonPasses
<1>3. RowKeeps(c) /\ ParkKeeps(c)
  <2>1. CASE BackoffElapses(c)
    BY <1>1, <2>1, StillRowsKeep DEF BackoffElapses, CursorRows
  <2>2. CASE resumeEventConsumer(c)
    <3>1. /\ cursor'[c].exists = cursor[c].exists /\ cursor'[c].lastSeq = cursor[c].lastSeq
          /\ cursor'[c].parked = "no" /\ ~cursor'[c].abandoned /\ cursor[c].exists
      BY <1>1, <2>2 DEF resumeEventConsumer, CursorRows
    <3>2. hist'[c].lost = hist[c].lost /\ hist'[c].exposed = Exposes(c)
      BY <1>1, <2>2 DEF resumeEventConsumer, Histories
    <3>3. ~hist'[c].exposed => ~hist[c].exposed /\ cursor[c].parked # "overdue"
      BY <3>2 DEF Exposes
    <3>4. cursor[c].lastSeq <= cursor'[c].lastSeq
      BY <1>1, <3>1
    <3> QED BY <3>1, <3>2, <3>3, <3>4 DEF RowKeeps, ParkKeeps, Owed
  <2>3. CASE skipPoisonEvent(c)
    <3> DEFINE n == Greatest(cursor[c].lastSeq, cursor[c].errSeq)
               x == MarkProgress(cursor[c], n)
    <3>1. /\ cursor' = [cursor EXCEPT ![c] = [x EXCEPT !.parked = "no"]]
          /\ hist' = [hist EXCEPT ![c] = [hist[c] EXCEPT !.skipped = @ \union PassedOver(c, n),
                                                         !.exposed = Exposes(c)]]
          /\ cursor[c].exists /\ ~cursor[c].abandoned
      BY <2>3 DEF skipPoisonEvent
    <3>2. n \in Nat /\ cursor[c].lastSeq <= n
      BY <1>1 DEF Greatest
    <3> HIDE DEF n
    <3>3. x \in CursorRows /\ x.lastSeq = n /\ ~x.abandoned
      BY <1>1, <3>1, <3>2, MarkProgressIs, ProgressParks
    <3> HIDE DEF x
    <3>4. cursor'[c].lastSeq = n /\ cursor'[c].parked = "no" /\ ~cursor'[c].abandoned
      BY <1>1, <3>1, <3>3 DEF CursorRows
    <3>5. hist'[c].lost = hist[c].lost /\ hist'[c].exposed = Exposes(c)
      BY <1>1, <3>1 DEF Histories
    <3> QED BY <3>1, <3>2, <3>4, <3>5 DEF RowKeeps, ParkKeeps, Owed, Exposes
  <2>4. CASE forgetEventConsumer(c)
    BY <1>1, <2>4 DEF forgetEventConsumer, NoRow, RowKeeps, ParkKeeps, Owed
  <2>5. CASE GiveUpHorizonPasses(c)
    <3>1. /\ cursor'[c].parked = "overdue"
          /\ \A p \in Procs : ~(InFlight(p)' /\ run'[p].consumer = c)
      BY <1>1, <1>2, <2>5 DEF GiveUpHorizonPasses, CursorRows, InFlight
    <3> QED BY <3>1 DEF RowKeeps, ParkKeeps, Owed
  <2> QED BY <2>1, <2>2, <2>3, <2>4, <2>5 DEF AdminStep
<1>4. \A p \in Procs : RunKeeps(p)
  BY <1>2, StillRunsKeep
<1>5. \A d \in Consumers : d # c => RowKeeps(d) /\ ParkKeeps(d)
  BY <1>2, StillRowsKeep
<1> QED BY <1>3, <1>4, <1>5 DEF Keeping

-----------------------------------------------------------------------------
(* The steps of the prune job *)

(* A step of the job runs nobody's events and moves no cursor: it may only
   declare the overdue abandoned. *)
LEMMA JobLeavesTheRest ==
  ASSUME ConInv, EventsAge \/ StartPrune \/ ReadFloor \/ DeleteBatch \/ StopPrune
  PROVE  /\ run' = run /\ seq' = seq /\ trigger' = trigger
         /\ \A c \in Consumers :
              /\ cursor'[c].exists = cursor[c].exists
              /\ cursor'[c].lastSeq = cursor[c].lastSeq
              /\ cursor'[c].parked = cursor[c].parked
              /\ cursor'[c].abandoned =>
                   cursor[c].abandoned \/ cursor[c].parked = "overdue"
              /\ hist'[c].exposed = hist[c].exposed
<1>1. cursor \in [Consumers -> CursorRows] /\ hist \in [Consumers -> Histories]
  BY DEF ConInv, ConTypeOK
<1>2. CASE EventsAge \/ ReadFloor \/ StopPrune
  BY <1>2 DEF EventsAge, ReadFloor, StopPrune, seqVars
<1>3. CASE StartPrune
  BY <1>1, <1>3 DEF StartPrune, seqVars, CursorRows
<1>4. CASE DeleteBatch
  BY <1>1, <1>4 DEF DeleteBatch, Histories
<1> QED BY <1>2, <1>3, <1>4

LEMMA JobKeepsParking ==
  ASSUME ConInv, KeepInv, EventsAge \/ StartPrune \/ ReadFloor \/ DeleteBatch \/ StopPrune
  PROVE  GivenUpIsIdle' /\ NoRowIsParked'
  BY JobLeavesTheRest DEF KeepInv, GivenUpIsIdle, NoRowIsParked, InFlight

LEMMA JobKeepsHeads ==
  ASSUME ConInv, KeepInv, LogMoves, prune'.old = prune.old, run' = run
  PROVE  OldIsShown' /\ HeadsAreFresh'
<1>1. OldIsShown' /\ \A n : OldReached(n) => OldReached(n)'
  BY OldStays DEF KeepInv, ConInv, ConTypeOK
<1>2. ASSUME NEW p \in Procs, Holds(p)', run'[p].fresh, run'[p].consumer \in HeadStarters
      PROVE  OldReached(run[p].from)'
  <2>1. PICK n : n = run[p].from
    OBVIOUS
  <2>2. OldReached(n)
    BY <1>2, <2>1 DEF KeepInv, HeadsAreFresh, Holds
  <2>3. OldReached(n)'
    BY <1>1, <2>2
  <2>4. run'[p].from = n
    BY <2>1
  <2> QED BY <2>3, <2>4 DEF OldReached
<1> QED BY <1>1, <1>2 DEF HeadsAreFresh

LEMMA DeleteMovesLog == ASSUME ConInv, DeleteBatch PROVE LogMoves
<1>1. \A e \in Events : row'[e] = row[e] \/ (row[e] = "visible" /\ row'[e] = "pruned")
  BY DEF DeleteBatch, Doomed, Prunable, Visible
<1> QED BY <1>1 DEF DeleteBatch, LogMoves, Shown, ConInv, SeqInv, SeqTypeOK

(* Events age while no run is in flight, and only those that have been shown. *)
LEMMA EventsAgeKeeps == ASSUME ConInv, KeepInv, EventsAge PROVE KeepInv'
<1>1. PICK old \in SUBSET (Visible \union Stranded) : prune' = [prune EXCEPT !.old = @ \union old]
  BY DEF EventsAge
<1>2. /\ prune'.old = prune.old \union old /\ prune'.phase = "idle" /\ \A p \in Procs : ~Holds(p)
      /\ UNCHANGED <<seqVars, cursor, run, hist>>
  BY <1>1 DEF EventsAge, Holds, ConInv, ConTypeOK
<1>3. Stranded = {}
  BY DEF KeepInv, SequencedOnly, Stranded
<1>4. SequencedOnly' /\ OldIsShown'
  BY <1>2, <1>3 DEF KeepInv, SequencedOnly, OldIsShown, Shown, Visible, seqVars
<1>5. HeadsAreFresh'
  BY <1>2 DEF HeadsAreFresh, Holds
<1>6. \A c \in Consumers : Owed(c)' => Kept(c)'
  BY <1>2 DEF KeepInv, Owed, Kept, OutOfReach
<1> QED BY <1>4, <1>5, <1>6, JobKeepsParking DEF KeepInv

LEMMA StartAndStopKeep == ASSUME ConInv, KeepInv, StartPrune \/ StopPrune PROVE KeepInv'
<1>1. /\ prune'.old = prune.old /\ prune'.phase # "floored" /\ hist' = hist
      /\ UNCHANGED seqVars
  BY DEF StartPrune, StopPrune, ConInv, ConTypeOK
<1>2. LogMoves
  BY <1>1, StillLogMoves DEF ConInv
<1>3. SequencedOnly'
  BY <1>1 DEF KeepInv, SequencedOnly, seqVars
<1>4. OldIsShown' /\ HeadsAreFresh'
  BY <1>1, <1>2, JobKeepsHeads, JobLeavesTheRest
<1>5. \A c \in Consumers : Owed(c)' => Kept(c)'
  BY <1>1, JobLeavesTheRest DEF KeepInv, Owed, Kept, OutOfReach
<1> QED BY <1>3, <1>4, <1>5, JobKeepsParking DEF KeepInv

(* The floor is read: it is no higher than any consumer that counts. *)
LEMMA ReadFloorKeeps == ASSUME ConInv, KeepInv, ReadFloor PROVE KeepInv'
<1>1. /\ prune'.old = prune.old /\ prune'.floors = {cursor[c].lastSeq : c \in Counted}
      /\ UNCHANGED <<seqVars, cursor, run, hist>>
  BY DEF ReadFloor, ConInv, ConTypeOK
<1>2. LogMoves
  BY <1>1, StillLogMoves DEF ConInv
<1>3. SequencedOnly'
  BY <1>1 DEF KeepInv, SequencedOnly, seqVars
<1>4. OldIsShown' /\ HeadsAreFresh'
  BY <1>1, <1>2, JobKeepsHeads
<1>5. ASSUME NEW c \in Consumers, Owed(c)' PROVE Kept(c)'
  <2>1. Owed(c)
    BY <1>1, <1>5 DEF Owed
  <2>2. c \in Counted
    BY <2>1 DEF Owed, Counted, KeepInv, GivenUpIsIdle
  <2>3. cursor[c].lastSeq \in prune'.floors /\ cursor[c].lastSeq \in Nat
    BY <1>1, <2>2 DEF ConInv, ConTypeOK, CursorRows
  <2>4. FloorReached(cursor[c].lastSeq)'
    <3>1. PICK n \in Nat : n = cursor[c].lastSeq /\ n \in prune'.floors
      BY <2>3
    <3>2. n <= n /\ cursor'[c].lastSeq = n
      BY <1>1, <3>1
    <3> QED BY <3>1, <3>2 DEF FloorReached
  <2>5. hist'[c].lost = {}
    BY <1>1, <2>1 DEF KeepInv, Kept
  <2> QED BY <2>4, <2>5 DEF Kept, OutOfReach
<1> QED BY <1>3, <1>4, <1>5, JobKeepsParking DEF KeepInv

(* A batch deletes nothing that lies beyond a position out of its reach. *)
LEMMA NothingBeyondIsDoomed ==
  ASSUME ConTypeOK, prune.phase = "floored", NEW n \in Nat, OutOfReach(n), NEW e \in Doomed
  PROVE  ~(seq[e] > n)
<1>1. e \in prune.old \intersect Visible /\ seq[e] \in Nat /\ \A m \in prune.floors : seq[e] <= m
  BY DEF Doomed, Prunable, Visible, ConTypeOK, SeqTypeOK
<1>2. CASE OldReached(n)
  BY <1>1, <1>2 DEF OldReached
<1>3. CASE FloorReached(n)
  <2>1. PICK m \in prune.floors : m <= n
    BY <1>3 DEF FloorReached
  <2>2. m \in Nat
    BY DEF ConTypeOK
  <2> QED BY <1>1, <2>1, <2>2
<1> QED BY <1>2, <1>3 DEF OutOfReach

LEMMA DeleteBatchKeeps == ASSUME ConInv, KeepInv, DeleteBatch PROVE KeepInv'
<1>1. /\ prune.phase = "floored" /\ prune'.phase # "floored" /\ prune'.old = prune.old
      /\ hist \in [Consumers -> Histories] /\ cursor \in [Consumers -> CursorRows] /\ ConTypeOK
      /\ cursor' = cursor
  BY DEF DeleteBatch, ConInv, ConTypeOK
<1>2. SequencedOnly'
  BY DEF DeleteBatch, KeepInv, SequencedOnly
<1>3. OldIsShown' /\ HeadsAreFresh'
  BY <1>1, DeleteMovesLog, JobKeepsHeads, JobLeavesTheRest
<1>4. ASSUME NEW c \in Consumers, Owed(c)' PROVE Kept(c)'
  <2> DEFINE gone == IF cursor[c].exists
                     THEN {e \in Doomed \intersect Wants[c] : seq[e] > cursor[c].lastSeq}
                     ELSE {}
  <2>1. Owed(c)
    BY <1>1, <1>4, JobLeavesTheRest DEF Owed
  <2>2. hist[c].lost = {} /\ OutOfReach(cursor[c].lastSeq) /\ cursor[c].lastSeq \in Nat
    BY <1>1, <2>1 DEF KeepInv, Kept, CursorRows
  <2>3. gone = {}
    BY <1>1, <2>2, NothingBeyondIsDoomed
  <2>4. hist'[c] = [hist[c] EXCEPT !.lost = @ \union gone]
    BY DEF DeleteBatch
  <2> HIDE DEF gone
  <2>5. hist'[c].lost = {}
    BY <1>1, <2>2, <2>3, <2>4 DEF Histories
  <2> QED BY <1>1, <2>5 DEF Kept, OutOfReach
<1> QED BY <1>2, <1>3, <1>4, JobKeepsParking DEF KeepInv

LEMMA KeepInvInit == Init => KeepInv
<1> SUFFICES ASSUME Init PROVE KeepInv
  OBVIOUS
<1>1. /\ row = [e \in Events |-> "none"] /\ trigger = TRUE
      /\ cursor = [c \in Consumers |-> NoRow] /\ run = [p \in Procs |-> IdleRun]
      /\ prune = IdlePrune
  BY DEF Init, EmptyLog, ConInit
<1>2. \A p \in Procs : ~InFlight(p) /\ ~Holds(p)
  BY <1>1 DEF IdleRun, InFlight, Holds
<1>3. \A c \in Consumers : ~cursor[c].exists /\ ~cursor[c].abandoned /\ cursor[c].parked = "no"
  BY <1>1 DEF NoRow
<1>4. SequencedOnly
  BY <1>1 DEF SequencedOnly
<1>5. OldIsShown
  BY <1>1 DEF IdlePrune, OldIsShown
<1> QED BY <1>2, <1>3, <1>4, <1>5
        DEF KeepInv, NoRowIsParked, GivenUpIsIdle, HeadsAreFresh, Owed

LEMMA KeepInvStep ==
  ASSUME ConInv, ConInv', KeepInv, [Next]_vars
  PROVE  KeepInv'
<1>1. NoRowIsParked'
  BY StepMovesRow DEF KeepInv, NoRowIsParked, RowMoves
<1>2. CASE (PublishStep \/ \E p \in Procs : BootStep(p)) /\ UNCHANGED conVars
  <2>1. LogMoves /\ SequencedOnly'
    BY <1>2, PublishMovesLog, BootMovesLog, SequencedStays DEF ConInv, KeepInv
  <2>2. Keeping /\ prune' = prune
    BY <1>2, StillRowsKeep, StillRunsKeep DEF Keeping, conVars
  <2> QED BY <1>1, <2>1, <2>2, KeepingKeeps
<1>3. ASSUME NEW p \in Procs, CrashPoller(p) PROVE KeepInv'
  <2>1. LogMoves /\ SequencedOnly'
    BY <1>3, BootMovesLog, SequencedStays DEF ConInv, KeepInv, CrashPoller
  <2>2. /\ ~InFlight(p)' /\ \A q \in Procs : q # p => run'[q] = run[q]
        /\ UNCHANGED <<cursor, prune, hist>>
    BY <1>3 DEF CrashPoller, InFlight, IdleRun, ConInv, ConTypeOK
  <2>3. Keeping
    BY <2>2, StillRowsKeep, StillRunsKeep DEF Keeping
  <2> QED BY <1>1, <2>1, <2>2, <2>3, KeepingKeeps
<1>4. ASSUME UNCHANGED <<seqVars, prune>>, Keeping PROVE KeepInv'
  <2>1. LogMoves /\ SequencedOnly'
    BY <1>4, StillLogMoves DEF ConInv, KeepInv, SequencedOnly, seqVars
  <2> QED BY <1>1, <1>4, <2>1, KeepingKeeps
<1>5. ASSUME NEW p \in Procs, NEW c \in Consumers, Claim(p, c) PROVE KeepInv'
  BY <1>4, <1>5, ClaimKeeps DEF Claim
<1>6. ASSUME NEW p \in Procs, RunStep(p) PROVE KeepInv'
  <2>1. UNCHANGED <<seqVars, prune>>
    BY <1>6 DEF RunStep, Scan, HandlerReturns, HandlerOverruns, HandlerThrows, FinishBatch
  <2> QED BY <1>4, <1>6, <2>1, RunKeepsOn
<1>7. ASSUME NEW p \in Procs, RecordTimedOutRun(p) PROVE KeepInv'
  BY <1>4, <1>7, RecordTimedOutRunKeeps DEF RecordTimedOutRun
<1>8. ASSUME NEW c \in Consumers,
             BackoffElapses(c) \/ AdminStep(c) \/ GiveUpHorizonPasses(c)
      PROVE  KeepInv'
  <2>1. UNCHANGED <<seqVars, prune>>
    BY <1>8 DEF BackoffElapses, AdminStep, resumeEventConsumer, skipPoisonEvent,
                forgetEventConsumer, GiveUpHorizonPasses
  <2> QED BY <1>4, <1>8, <2>1, RowStepKeeps
<1>9. CASE EventsAge \/ StartPrune \/ ReadFloor \/ DeleteBatch \/ StopPrune
  BY <1>9, EventsAgeKeeps, StartAndStopKeep, ReadFloorKeeps, DeleteBatchKeeps
<1>10. CASE UNCHANGED vars
  <2>1. UNCHANGED <<seqVars, prune>> /\ Keeping
    BY <1>10, StillRowsKeep, StillRunsKeep DEF Keeping, vars, conVars
  <2> QED BY <1>4, <2>1
<1> QED BY <1>2, <1>3, <1>5, <1>6, <1>7, <1>8, <1>9, <1>10 DEF Next

(* Retention deletes nothing that a consumer with a promise is still owed.  The
   promise ends, for good, when an administrator reopens a consumer that had
   crossed the give-up horizon, and is never made to one that starts at the
   origin while a batch has its floor.  For the others, the floor a batch has
   read is no higher than their cursor, cursors only go up, and a row made
   after the floor was read starts past all that is old. *)
THEOREM NothingOwedIsPruned == Spec => []OwedEventsAreKept
<1>1. KeepInv => OwedEventsAreKept
  BY DEF KeepInv, Owed, Kept, OwedEventsAreKept
<1> QED BY <1>1, KeepInvInit, KeepInvStep, ConInvariant, PTL DEF Spec
=============================================================================
