-------------------------- MODULE EventSequencing --------------------------
(***************************************************************************)
(* The transactional outbox: how a row of domain_events gets its seq.      *)
(*                                                                         *)
(* publishDomainEvent inserts a row with a null seq inside the caller's    *)
(* transaction.  A deferred constraint trigger, run inside COMMIT, takes   *)
(* the sequencing lock and assigns the next value of a sequence; the lock  *)
(* is released only once the commit is visible.  A database without the    *)
(* trigger commits rows with a null seq ("stranded"); every process        *)
(* installs the trigger and then sequences the stranded rows at boot.      *)
(*                                                                         *)
(* Each event is published by one transaction, so the state of the row and *)
(* of its transaction are one value, row[e].                               *)
(***************************************************************************)
EXTENDS Naturals, FiniteSets

CONSTANTS
  Events,     \* the events that may be published, one transaction each
  Procs,      \* the processes that boot: app servers and job workers
  MaxSeq      \* bound: a repair crashes only while nextSeq is below this

ASSUME EventsAssumption == IsFiniteSet(Events)
ASSUME MaxSeqAssumption == MaxSeq \in Nat

VARIABLES
  row,        \* row[e]: the row of e and the transaction that inserts it
  seq,        \* seq[e]: the seq assigned to e, 0 for NULL
  nextSeq,    \* the last value domain_events_sequence handed out
  trigger,    \* domain_events_assign_seq is installed
  boot        \* boot[p]: how far process p has come with its boot

seqVars == <<row, seq, nextSeq, trigger, boot>>

(* "none": not published; "armed" and "unarmed": inserted, its transaction at
   work, with and without the trigger queued for its COMMIT; "sequencing":
   its COMMIT has run the trigger and holds the lock; "visible": committed
   with a seq; "stranded": committed with a null seq; "repairing": being
   sequenced by a boot, which holds the lock; "aborted": its transaction
   rolled back; "pruned": deleted by retention. *)
RowStates == {"none", "armed", "unarmed", "sequencing", "visible", "stranded",
              "repairing", "aborted", "pruned"}

(* "down"; "up": started; "ensured": the trigger is installed;
   "repairing": inside the transaction that sequences the stranded rows;
   "ready": may publish and poll. *)
BootStates == {"down", "up", "ensured", "repairing", "ready"}

Open == {"armed", "unarmed"}
Visible == {e \in Events : row[e] = "visible"}
Stranded == {e \in Events : row[e] = "stranded"}

(* Mutants: the trigger's transactions do not hold the lock; a rollback gives
   the value back; CREATE TRIGGER does not wait; nothing is repaired. *)
MutantTriggerTakesNoLock == \A p \in Procs : boot[p] # "repairing"

(* The advisory lock DOMAIN_EVENT_SEQ_LOCK_KEY is held to the end of the
   transaction that took it: a commit in its tail, or a boot's repair. *)
LockFree == /\ \A e \in Events : row[e] # "sequencing"
            /\ \A p \in Procs : boot[p] # "repairing"

EmptyLog == /\ row = [e \in Events |-> "none"]
            /\ seq = [e \in Events |-> 0]
            /\ nextSeq = 0

(* A new database, pushed without the trigger or migrated with it. *)
SeqInit == /\ EmptyLog
           /\ trigger \in BOOLEAN
           /\ boot = [p \in Procs |-> "down"]

-----------------------------------------------------------------------------
(* Publishing *)

(* The insert of publishDomainEvent: a null seq, and nothing locked.  An
   installed trigger is queued for the COMMIT of the transaction. *)
Publish(e) == /\ row[e] = "none"
              /\ row' = [row EXCEPT ![e] = IF trigger THEN "armed" ELSE "unarmed"]
              /\ UNCHANGED <<seq, nextSeq, trigger, boot>>

(* COMMIT runs the deferred trigger: take the lock, assign the next seq. *)
FireTrigger(e) == /\ row[e] = "armed"
                  /\ LockFree
                  /\ nextSeq' = nextSeq + 1
                  /\ seq' = [seq EXCEPT ![e] = nextSeq + 1]
                  /\ row' = [row EXCEPT ![e] = "sequencing"]
                  /\ UNCHANGED <<trigger, boot>>

(* The commit becomes visible and releases the lock. *)
CommitSequenced(e) == /\ row[e] = "sequencing"
                      /\ row' = [row EXCEPT ![e] = "visible"]
                      /\ UNCHANGED <<seq, nextSeq, trigger, boot>>

(* Without the trigger the row commits with a null seq. *)
CommitStranded(e) == /\ row[e] = "unarmed"
                     /\ row' = [row EXCEPT ![e] = "stranded"]
                     /\ UNCHANGED <<seq, nextSeq, trigger, boot>>

(* The caller's transaction rolls back, also after its trigger has run: the
   sequence value it drew stays used, and is a hole. *)
Abort(e) == /\ row[e] \in Open \union {"sequencing"}
            /\ row' = [row EXCEPT ![e] = "aborted"]
            /\ seq' = [seq EXCEPT ![e] = 0]
            /\ UNCHANGED <<nextSeq, trigger, boot>>

-----------------------------------------------------------------------------
(* Booting a process *)

Start(p) == /\ boot[p] = "down"
            /\ boot' = [boot EXCEPT ![p] = "up"]
            /\ UNCHANGED <<row, seq, nextSeq, trigger>>

MutantTriggerWithoutWaiting(p) == /\ boot[p] = "up"
                                  /\ trigger' = TRUE
                                  /\ boot' = [boot EXCEPT ![p] = "ensured"]
                                  /\ UNCHANGED <<row, seq, nextSeq>>

(* ensureDomainEventSequencing.  CREATE TRIGGER locks the table against
   writers, so it waits for the transactions that already inserted; an
   installed trigger is left alone. *)
EnsureSequencing(p) == /\ boot[p] = "up"
                       /\ trigger \/ \A e \in Events : row[e] \notin Open
                       /\ trigger' = TRUE
                       /\ boot' = [boot EXCEPT ![p] = "ensured"]
                       /\ UNCHANGED <<row, seq, nextSeq>>

MutantNothingSequenced(p) == /\ boot[p] = "ensured"
                             /\ boot' = [boot EXCEPT ![p] = "repairing"]
                             /\ UNCHANGED <<row, seq, nextSeq, trigger>>

(* sequenceUnsequencedEvents, its lock and its one UPDATE: every stranded
   row takes a seq above all handed out.  occurred_at orders them among
   themselves and bears no relation to anything else kept here. *)
SequenceStranded(p) ==
  /\ boot[p] = "ensured"
  /\ LockFree
  /\ LET n == Cardinality(Stranded)
     IN /\ nextSeq' = nextSeq + n
        /\ \E order \in [Stranded -> nextSeq + 1 .. nextSeq + n] :
             /\ \A d, e \in Stranded : d # e => order[d] # order[e]
             /\ seq' = [e \in Events |->
                          IF e \in Stranded THEN order[e] ELSE seq[e]]
  /\ row' = [e \in Events |->
               IF e \in Stranded THEN "repairing" ELSE row[e]]
  /\ boot' = [boot EXCEPT ![p] = "repairing"]
  /\ UNCHANGED trigger

FinishBoot(p) ==
  /\ boot[p] = "repairing"
  /\ boot' = [boot EXCEPT ![p] = "ready"]
  /\ row' = [e \in Events |->
               IF row[e] = "repairing" THEN "visible" ELSE row[e]]
  /\ UNCHANGED <<seq, nextSeq, trigger>>

(* A process may die anywhere; a repair it was in rolls back. *)
Crash(p) ==
  /\ boot[p] # "down"
  /\ boot[p] = "repairing" => nextSeq < MaxSeq
  /\ boot' = [boot EXCEPT ![p] = "down"]
  /\ IF boot[p] = "repairing"
     THEN /\ row' = [e \in Events |->
                       IF row[e] = "repairing" THEN "stranded" ELSE row[e]]
          /\ seq' = [e \in Events |->
                       IF row[e] = "repairing" THEN 0 ELSE seq[e]]
     ELSE UNCHANGED <<row, seq>>
  /\ UNCHANGED <<nextSeq, trigger>>

-----------------------------------------------------------------------------
Commit(e) == CommitSequenced(e) \/ CommitStranded(e)

PublishStep == \E e \in Events :
                 Publish(e) \/ FireTrigger(e) \/ Commit(e) \/ Abort(e)

BootStep(p) == \/ Start(p) \/ EnsureSequencing(p)
               \/ SequenceStranded(p) \/ FinishBoot(p)

SeqNext == \/ PublishStep
           \/ \E p \in Procs : BootStep(p) \/ Crash(p)

(* A started transaction ends: its client commits, or the pool rolls it
   back.  A process that is started over and over eventually comes up:
   Crash is a fault, and it does not strike every boot forever. *)
SeqFairness == /\ \A e \in Events : WF_seqVars(FireTrigger(e) \/ Commit(e))
               /\ \A p \in Procs : /\ WF_seqVars(Start(p))
                                   /\ SF_seqVars(EnsureSequencing(p))
                                   /\ SF_seqVars(SequenceStranded(p))
                                   /\ SF_seqVars(FinishBoot(p))

SeqSpec == SeqInit /\ [][SeqNext]_seqVars
FairSeqSpec == SeqSpec /\ SeqFairness

-----------------------------------------------------------------------------
(* Properties *)

SeqTypeOK == /\ row \in [Events -> RowStates]
             /\ seq \in [Events -> Nat]
             /\ nextSeq \in Nat
             /\ trigger \in BOOLEAN
             /\ boot \in [Procs -> BootStates]

(* A reader that has seen seq n has been shown every event it will ever be
   shown below n: the rows a scan can see change only by appending at the
   end, whoever sequenced them and whatever else was committing. *)
ReadLog == {<<e, seq[e]>> : e \in Visible}
Reader == INSTANCE AppendLog WITH log <- ReadLog
SeqOrderIsCommitOrder == Reader!Spec

(* A process that has finished its boot leaves no committed event without a
   seq: whatever was stranded before it came up has been sequenced. *)
ReadyMeansNoneStranded ==
  (\E p \in Procs : boot[p] = "ready") => Stranded = {}

(* No committed event stays invisible to the consumers: a stranded one is
   sequenced by a later boot. *)
StrandedIsDelivered ==
  \A e \in Events : row[e] = "stranded" ~> row[e] = "visible"
=============================================================================
