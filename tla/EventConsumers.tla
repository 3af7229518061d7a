--------------------------- MODULE EventConsumers ---------------------------
(***************************************************************************)
(* Consumers of the event log, the administrator who unblocks them, and    *)
(* the retention job that prunes the log behind them, over the outbox of   *)
(* EventSequencing.                                                        *)
(*                                                                         *)
(* A run (runEventConsumerOnce) is one read-committed transaction that     *)
(* holds the lock of the consumer's cursor row from the claim to the end;  *)
(* its statements see what other transactions commit meanwhile, and what   *)
(* it writes is seen only once it commits.  cursor[c] is the committed     *)
(* row; run[p] is what the run of process p holds in memory.               *)
(***************************************************************************)
EXTENDS EventSequencing

CONSTANTS
  Consumers,    \* ids of the registered consumers
  Wildcards,    \* those whose eventTypes is '*'
  HeadStarters, \* those whose startAt is 'head'
  Wants,        \* Wants[c]: the events whose type the consumer c handles
  BatchSize,    \* consumer.batchSize
  ParkAfter,    \* EVENT_CONSUMER_PARK_AFTER
  PruneBatch,   \* batchSize of pruneDomainEvents
  Budgets       \* bounds: how many faults, admin actions, give-ups, prunes

ASSUME ConsumersAssumption ==
  /\ IsFiniteSet(Consumers) /\ Consumers # {}
  /\ Wildcards \subseteq Consumers
  /\ HeadStarters \subseteq Consumers
  /\ Wants \in [Consumers -> SUBSET Events]
  /\ \A c \in Wildcards : Wants[c] = Events
ASSUME LimitsAssumption ==
  /\ BatchSize \in Nat \ {0}
  /\ ParkAfter \in Nat \ {0}
  /\ PruneBatch \in Nat \ {0}
  /\ Budgets \subseteq [{"faults", "admin", "giveUps", "prunes"} -> Nat]

VARIABLES
  cursor,   \* cursor[c]: the event_consumers row of c
  run,      \* run[p]: the run process p has in flight
  prune,    \* the prune job, and the events older than its cutoff
  hist,     \* hist[c]: what has become of each event since the row was made
  left      \* what is left of the budget

conVars == <<cursor, run, prune, hist, left>>
vars == <<seqVars, conVars>>

(* parked: "no", "parked", or "overdue" once parkedAt is older than the
   give-up horizon.  waiting: nextAttemptAt lies in the future.  errSeq is 0
   for NULL.  failures saturates at ParkAfter, all it is compared with. *)
CursorRows == [exists: BOOLEAN, lastSeq: Nat, failures: 0 .. ParkAfter,
               errSeq: Nat, waiting: BOOLEAN,
               parked: {"no", "parked", "overdue"}, abandoned: BOOLEAN]

(* at: lastSeq of the run so far.  fresh: the run inserted the row itself.
   batch: the scanned events not handled yet, in memory even if pruned
   meanwhile.  full: the scan filled the batch.  ok: events whose handler's
   savepoint was released. *)
Runs == [phase: {"idle", "claimed", "running", "overrun"},
         consumer: Consumers, fresh: BOOLEAN, from: Nat, failures: 0 .. ParkAfter,
         head: Nat, batch: SUBSET Events, at: Nat, full: BOOLEAN,
         ok: SUBSET Events]

(* start: the position the row was created at.  applied[e]: how often the
   effects of handling e were committed (2: more than once).  skipped:
   passed over by an administrator.  lost: deleted ahead of the cursor.
   exposed: retention has read a floor without the row, though its consumer
   is at work again. *)
Histories == [start: Nat, applied: [Events -> 0 .. 2],
              skipped: SUBSET Events, lost: SUBSET Events, exposed: BOOLEAN]

Least(m, n) == IF m < n THEN m ELSE n
Greatest(m, n) == IF m < n THEN n ELSE m

NoRow == [exists |-> FALSE, lastSeq |-> 0, failures |-> 0, errSeq |-> 0,
          waiting |-> FALSE, parked |-> "no", abandoned |-> FALSE]
RowAt(n) == [NoRow EXCEPT !.exists = TRUE, !.lastSeq = n]
HistoryFrom(n) == [start |-> n, applied |-> [e \in Events |-> 0],
                   skipped |-> {}, lost |-> {}, exposed |-> FALSE]
IdleRun == [phase |-> "idle", consumer |-> CHOOSE c \in Consumers : TRUE,
            fresh |-> FALSE, from |-> 0, failures |-> 0, head |-> 0,
            batch |-> {}, at |-> 0, full |-> FALSE, ok |-> {}]
IdlePrune == [phase |-> "idle", old |-> {}, floors |-> {}]

(* Mutant: max(seq) without the coalesce is a position below every seq. *)
MutantHeadOfEmptyLog == IF Visible = {} THEN 0 - 1
                        ELSE CHOOSE n \in {seq[e] : e \in Visible} :
                               \A e \in Visible : seq[e] <= n

(* readHead: max(seq), which is never beyond a seq still to be committed. *)
HeadSeq == CHOOSE n \in {0} \union {seq[e] : e \in Visible} :
             \A e \in Visible : seq[e] <= n

(* A cursor row is locked by the run that claimed or created it. *)
Unlocked(c) == \A p \in Procs :
                 run[p].phase \in {"claimed", "running"} => run[p].consumer # c

ConInit == /\ cursor = [c \in Consumers |-> NoRow]
           /\ run = [p \in Procs |-> IdleRun]
           /\ prune = IdlePrune
           /\ hist = [c \in Consumers |-> HistoryFrom(0)]
           /\ left \in Budgets

(* A deployment that is up: EventSequencing checks how it comes up. *)
Init == /\ EmptyLog
        /\ trigger = TRUE
        /\ boot = [p \in Procs |-> "ready"]
        /\ ConInit

Spend(kind) == /\ left[kind] > 0
               /\ left' = [left EXCEPT ![kind] = @ - 1]

-----------------------------------------------------------------------------
(* A run *)

(* Mutant: a parked or abandoned row is claimed. *)
MutantClaimsParked(p, c) ==
  LET r == IF cursor[c].exists THEN cursor[c]
           ELSE RowAt(IF c \in HeadStarters THEN HeadSeq ELSE 0)
  IN /\ boot[p] = "ready"
     /\ run[p].phase = "idle"
     /\ Unlocked(c)
     /\ ~r.waiting
     /\ run' = [run EXCEPT ![p] =
                  [IdleRun EXCEPT !.phase = "claimed", !.consumer = c,
                     !.fresh = ~cursor[c].exists, !.from = r.lastSeq,
                     !.failures = r.failures, !.at = r.lastSeq,
                     !.head = IF c \in Wildcards THEN 0 ELSE HeadSeq]]
     /\ UNCHANGED <<seqVars, cursor, prune, hist, left>>

(* claimCursor, and the head a filtered run reads before it scans.  An
   absent row is created at the head of the log or at its origin; a row that
   is locked, parked, abandoned or backing off ends the run unchanged.  (The
   code reads the head in a statement of its own, which may see a little more
   than the claim did.) *)
Claim(p, c) ==
  LET r == IF cursor[c].exists THEN cursor[c]
           ELSE RowAt(IF c \in HeadStarters THEN HeadSeq ELSE 0)
  IN /\ boot[p] = "ready"
     /\ run[p].phase = "idle"
     /\ Unlocked(c)
     /\ r.parked = "no" /\ ~r.abandoned
     /\ ~r.waiting
     /\ run' = [run EXCEPT ![p] =
                  [IdleRun EXCEPT !.phase = "claimed", !.consumer = c,
                     !.fresh = ~cursor[c].exists, !.from = r.lastSeq,
                     !.failures = r.failures, !.at = r.lastSeq,
                     !.head = IF c \in Wildcards THEN 0 ELSE HeadSeq]]
     /\ UNCHANGED <<seqVars, cursor, prune, hist, left>>

(* The history of a new row: at the origin, a prune batch that has read its
   floor may delete what the row is about to reach. *)
NewHistory(p) == [HistoryFrom(run[p].from) EXCEPT
                    !.exposed = /\ run[p].consumer \notin HeadStarters
                                /\ prune.phase = "floored"]

(* The run's COMMIT: its cursor position and its handlers' writes together. *)
CommitRun(p, r) ==
  LET c == run[p].consumer
      h == IF run[p].fresh THEN NewHistory(p) ELSE hist[c]
  IN /\ cursor' = [cursor EXCEPT ![c] = r]
     /\ hist' = [hist EXCEPT ![c] =
                   [h EXCEPT !.applied =
                      [e \in Events |-> IF e \in run[p].ok
                                        THEN Least(h.applied[e] + 1, 2)
                                        ELSE h.applied[e]]]]
     /\ run' = [run EXCEPT ![p] = IdleRun]

(* The row the run locked, or inserted. *)
ClaimedRow(p) == IF run[p].fresh THEN RowAt(run[p].from)
                 ELSE cursor[run[p].consumer]

MarkProgress(r, n) == [r EXCEPT !.lastSeq = n, !.failures = 0,
                                !.errSeq = 0, !.waiting = FALSE]

(* Mutant: no failure ever parks. *)
MutantNeverParks(r, previous, failed, n, transient) ==
  [r EXCEPT !.lastSeq = n, !.failures = Least(previous + 1, ParkAfter),
            !.errSeq = failed, !.waiting = TRUE]

RecordFailure(r, previous, failed, n, transient) ==
  LET failures == Least(previous + 1, ParkAfter)
      parks == ~transient /\ failures >= ParkAfter
  IN [r EXCEPT !.lastSeq = n, !.failures = failures, !.errSeq = failed,
               !.waiting = ~parks, !.parked = IF parks THEN "parked" ELSE "no"]

(* The events past the cursor a scan returns, before its limit: a filtered
   one never looks past the head it read. *)
Scannable(r) == {e \in Visible : /\ seq[e] > r.from
                                 /\ \/ r.consumer \in Wildcards
                                    \/ seq[e] <= r.head /\ e \in Wants[r.consumer]}

FirstOf(S) == CHOOSE e \in S : \A d \in S : seq[e] <= seq[d]
Limit(S) == {e \in S : Cardinality({d \in S : seq[d] < seq[e]}) < BatchSize}

Scan(p) ==
  LET r == run[p]
      batch == Limit(Scannable(r))
  IN /\ r.phase = "claimed"
     /\ IF batch = {}
        THEN CommitRun(p, IF r.consumer \notin Wildcards /\ r.head > r.from
                          THEN MarkProgress(ClaimedRow(p), r.head)
                          ELSE ClaimedRow(p))
        ELSE /\ run' = [run EXCEPT ![p].phase = "running", ![p].batch = batch,
                                   ![p].full = (Cardinality(batch) = BatchSize)]
             /\ UNCHANGED <<cursor, hist>>
     /\ UNCHANGED <<seqVars, prune, left>>

(* The handler of the next event returns; its savepoint is released. *)
HandlerReturns(p) ==
  LET e == FirstOf(run[p].batch)
  IN /\ run[p].phase = "running"
     /\ run[p].batch # {}
     /\ run' = [run EXCEPT ![p].batch = @ \ {e}, ![p].at = seq[e],
                           ![p].ok = @ \union {e}]
     /\ UNCHANGED <<seqVars, cursor, prune, hist, left>>

(* The handler throws: its savepoint rolls back, and the run commits just
   before the event, with a backoff or, for poison past the threshold, the
   parked state.  Transient failures count, and never park. *)
HandlerThrows(p, transient) ==
  /\ run[p].phase = "running"
  /\ run[p].batch # {}
  /\ CommitRun(p, RecordFailure(ClaimedRow(p), run[p].failures,
                                seq[FirstOf(run[p].batch)], run[p].at, transient))
  /\ IF transient THEN Spend("faults") ELSE UNCHANGED left
  /\ UNCHANGED <<seqVars, prune>>

(* The handler overruns its deadline: the whole run rolls back, a row it
   created included, and the failure is still to be recorded. *)
HandlerOverruns(p) ==
  /\ run[p].phase = "running"
  /\ run[p].batch # {}
  /\ run' = [run EXCEPT ![p] =
               [IdleRun EXCEPT !.phase = "overrun", !.consumer = run[p].consumer,
                               !.at = seq[FirstOf(run[p].batch)]]]
  /\ UNCHANGED <<seqVars, cursor, prune, hist, left>>

(* recordTimedOutRun, in a transaction of its own: nothing is recorded on a
   row another run holds by then, or on one that is gone. *)
RecordTimedOutRun(p) ==
  LET c == run[p].consumer
      r == cursor[c]
  IN /\ run[p].phase = "overrun"
     /\ cursor' = IF r.exists /\ Unlocked(c)
                  THEN [cursor EXCEPT ![c] =
                          RecordFailure(r, r.failures, run[p].at, r.lastSeq, FALSE)]
                  ELSE cursor
     /\ run' = [run EXCEPT ![p] = IdleRun]
     /\ UNCHANGED <<seqVars, prune, hist, left>>

(* Mutant: the head is read after the batch. *)
MutantHeadReadLate(r) == IF r.consumer \notin Wildcards /\ ~r.full
                         THEN Greatest(r.at, HeadSeq) ELSE r.at

(* Every event of the batch was handled.  A short filtered batch has seen
   all the consumer wants up to the head, and moves there. *)
AdvancedTo(r) == IF r.consumer \notin Wildcards /\ ~r.full
                 THEN Greatest(r.at, r.head) ELSE r.at

FinishBatch(p) ==
  /\ run[p].phase = "running"
  /\ run[p].batch = {}
  /\ CommitRun(p, MarkProgress(ClaimedRow(p), AdvancedTo(run[p])))
  /\ UNCHANGED <<seqVars, prune, left>>

(* A process dies, with its boot or with its run, which rolls back. *)
CrashPoller(p) == /\ Crash(p)
                  /\ run' = [run EXCEPT ![p] = IdleRun]
                  /\ Spend("faults")
                  /\ UNCHANGED <<cursor, prune, hist>>

BackoffElapses(c) == /\ cursor[c].waiting
                     /\ cursor' = [cursor EXCEPT ![c].waiting = FALSE]
                     /\ UNCHANGED <<seqVars, run, prune, hist, left>>

-----------------------------------------------------------------------------
(* The administrator: each locks the row, so it waits for a run *)

(* A consumer is reopened whose backlog the prune had stopped counting. *)
Exposes(c) == hist[c].exposed \/ cursor[c].parked = "overdue"

resumeEventConsumer(c) ==
  /\ cursor[c].exists /\ Unlocked(c) /\ ~cursor[c].abandoned
  /\ cursor' = [cursor EXCEPT ![c].failures = 0, ![c].waiting = FALSE,
                              ![c].parked = "no"]
  /\ hist' = [hist EXCEPT ![c].exposed = Exposes(c)]
  /\ Spend("admin")
  /\ UNCHANGED <<seqVars, run, prune>>

(* The wanted events the cursor moves over without handling them. *)
PassedOver(c, n) == {e \in Wants[c] : /\ row[e] = "visible"
                                      /\ cursor[c].lastSeq < seq[e]
                                      /\ seq[e] <= n}

skipPoisonEvent(c) ==
  LET n == Greatest(cursor[c].lastSeq, cursor[c].errSeq)
  IN /\ cursor[c].exists /\ Unlocked(c) /\ ~cursor[c].abandoned
     /\ cursor[c].errSeq # 0
     /\ cursor' = [cursor EXCEPT ![c] = [MarkProgress(@, n) EXCEPT !.parked = "no"]]
     /\ hist' = [hist EXCEPT ![c].skipped = @ \union PassedOver(c, n),
                             ![c].exposed = Exposes(c)]
     /\ Spend("admin")
     /\ UNCHANGED <<seqVars, run, prune>>

forgetEventConsumer(c) ==
  /\ cursor[c].exists /\ Unlocked(c)
  /\ cursor' = [cursor EXCEPT ![c] = NoRow]
  /\ hist' = [hist EXCEPT ![c] = HistoryFrom(0)]
  /\ Spend("admin")
  /\ UNCHANGED <<seqVars, run, prune>>

-----------------------------------------------------------------------------
(* The prune job *)

(* parkedAt falls behind the give-up horizon: every run of the consumer that
   began before it was parked ended long ago. *)
GiveUpHorizonPasses(c) == /\ cursor[c].parked = "parked"
                          /\ \A p \in Procs :
                               run[p].phase = "idle" \/ run[p].consumer # c
                          /\ cursor' = [cursor EXCEPT ![c].parked = "overdue"]
                          /\ Spend("giveUps")
                          /\ UNCHANGED <<seqVars, run, prune, hist>>

(* Days pass, and events fall out of the retention window; occurred_at is
   the start of a transaction, so they need not do so in seq order.  No run
   lasts that long, and the cutoff is fixed for the whole of a prune. *)
EventsAge ==
  /\ prune.phase = "idle" /\ left["prunes"] > 0
  /\ \A p \in Procs : run[p].phase = "idle"
  /\ \E old \in SUBSET (Visible \union Stranded) \ {{}} :
       prune' = [prune EXCEPT !.old = @ \union old]
  /\ prune' # prune
  /\ UNCHANGED <<seqVars, cursor, run, hist, left>>

(* abandonLongParkedConsumers, the first step of the job. *)
StartPrune ==
  /\ prune.phase = "idle"
  /\ prune' = [prune EXCEPT !.phase = "between"]
  /\ cursor' = [c \in Consumers |->
                  IF cursor[c].parked = "overdue"
                  THEN [cursor[c] EXCEPT !.abandoned = TRUE] ELSE cursor[c]]
  /\ Spend("prunes")
  /\ UNCHANGED <<seqVars, run, hist>>

(* Mutant: a parked consumer no longer holds the floor. *)
MutantParkedNotCounted == {c \in Consumers : cursor[c].exists /\ cursor[c].parked = "no"}

(* computeRetentionHorizon, read again by each batch: the committed rows of
   the consumers it has not given up on.  No row at all bounds nothing. *)
Counted == {c \in Consumers : /\ cursor[c].exists
                              /\ ~cursor[c].abandoned
                              /\ cursor[c].parked # "overdue"}

ReadFloor == /\ prune.phase = "between"
             /\ prune' = [prune EXCEPT !.phase = "floored",
                            !.floors = {cursor[c].lastSeq : c \in Counted}]
             /\ UNCHANGED <<seqVars, cursor, run, hist, left>>

Prunable == {e \in prune.old \intersect Visible :
               \A n \in prune.floors : seq[e] <= n}
Doomed == {e \in Prunable :
             Cardinality({d \in Prunable : seq[d] < seq[e]}) < PruneBatch}

(* The rest of the batch's transaction.  A full batch is followed by
   another. *)
DeleteBatch ==
  /\ prune.phase = "floored"
  /\ row' = [e \in Events |-> IF e \in Doomed THEN "pruned" ELSE row[e]]
  /\ hist' = [c \in Consumers |->
                [hist[c] EXCEPT !.lost = @ \union
                   IF cursor[c].exists
                   THEN {e \in Doomed \intersect Wants[c] : seq[e] > cursor[c].lastSeq}
                   ELSE {}]]
  /\ prune' = [prune EXCEPT !.floors = {},
                 !.phase = IF Cardinality(Doomed) = PruneBatch
                           THEN "between" ELSE "idle"]
  /\ UNCHANGED <<seq, nextSeq, trigger, boot, cursor, run, left>>

(* The job is cancelled, or its worker dies: between two batches, or in one,
   which rolls back. *)
StopPrune == /\ prune.phase # "idle"
             /\ prune' = [prune EXCEPT !.phase = "idle", !.floors = {}]
             /\ UNCHANGED <<seqVars, cursor, run, hist, left>>

-----------------------------------------------------------------------------
RunStep(p) == \/ Scan(p) \/ HandlerReturns(p) \/ HandlerOverruns(p)
              \/ \E transient \in BOOLEAN : HandlerThrows(p, transient)
              \/ FinishBatch(p)

AdminStep(c) == \/ resumeEventConsumer(c)
                \/ skipPoisonEvent(c)
                \/ forgetEventConsumer(c)

Next == \/ (PublishStep \/ \E p \in Procs : BootStep(p)) /\ UNCHANGED conVars
        \/ \E p \in Procs, c \in Consumers : Claim(p, c)
        \/ \E p \in Procs : RunStep(p) \/ RecordTimedOutRun(p) \/ CrashPoller(p)
        \/ \E c \in Consumers : \/ BackoffElapses(c)
                                \/ AdminStep(c)
                                \/ GiveUpHorizonPasses(c)
        \/ EventsAge
        \/ StartPrune \/ ReadFloor \/ DeleteBatch \/ StopPrune

(* Pollers tick, backoffs run out and boots are retried for ever.  A timed
   out run loses its record only to a poller that claims the cursor in the
   instant between its rollback and its record; that does not happen every
   time.  Nothing is assumed of handlers, which may fail for ever, nor of the
   administrator, nor of the prune job. *)
Fairness ==
  /\ \A e \in Events : WF_vars((FireTrigger(e) \/ Commit(e)) /\ UNCHANGED conVars)
  /\ \A p \in Procs : /\ WF_vars(BootStep(p) /\ UNCHANGED conVars)
                      /\ WF_vars(RunStep(p))
                      /\ WF_vars(RecordTimedOutRun(p))
                      /\ SF_vars(RecordTimedOutRun(p) /\ cursor' # cursor)
  /\ \A c \in Consumers : /\ WF_vars(BackoffElapses(c))
                          /\ SF_vars(\E p \in Procs : Claim(p, c))

Spec == Init /\ [][Next]_vars
FairSpec == Spec /\ Fairness

-----------------------------------------------------------------------------
(* Properties *)

ConTypeOK == /\ SeqTypeOK
             /\ cursor \in [Consumers -> CursorRows]
             /\ run \in [Procs -> Runs]
             /\ prune \in [phase: {"idle", "between", "floored"},
                           old: SUBSET Events, floors: SUBSET Nat]
             /\ hist \in [Consumers -> Histories]
             /\ left \in [{"faults", "admin", "giveUps", "prunes"} -> Nat]

(* The cursor is the truth about what was delivered: of the events still in
   the log that a consumer wants, those between where it started and its
   cursor had their effects committed exactly once, unless an administrator
   skipped them, and no other event had any.  So no run, retry, timeout,
   crash or rival poller loses an event or commits one twice. *)
CursorTellsTheTruth ==
  \A c \in Consumers, e \in Visible :
    cursor[c].exists /\ e \in Wants[c] =>
      hist[c].applied[e] =
        IF /\ hist[c].start < seq[e] /\ seq[e] <= cursor[c].lastSeq
           /\ e \notin hist[c].skipped
        THEN 1 ELSE 0

(* Parking is the end of retrying: while a consumer is parked no poller
   touches its cursor or commits its handlers; only an administrator ends it. *)
ParkedStaysPut ==
  [][\A c \in Consumers :
       cursor[c].parked # "no" /\ cursor'[c].parked # "no"
         => /\ cursor'[c].lastSeq = cursor[c].lastSeq
            /\ hist'[c].applied = hist[c].applied]_vars

(* A consumer that runs, or that an administrator may still reopen, is owed
   nothing retention has deleted: whatever cursor moves, is created or is
   forgotten between the batches of a prune and inside one.  Two consumers
   have no such promise: one reopened after it crossed the give-up horizon,
   and one that starts at the origin in the middle of a batch. *)
OwedEventsAreKept ==
  \A c \in Consumers :
    cursor[c].exists /\ cursor[c].parked # "overdue" /\ ~hist[c].exposed
      => hist[c].lost = {}

(* A visible event does not wait for ever on a consumer: its cursor passes
   the event, or the consumer is parked where an administrator sees it, or
   retention has deleted the event. *)
Settled(c, e) == \/ cursor[c].exists /\ seq[e] <= cursor[c].lastSeq
                 \/ cursor[c].parked # "no"
                 \/ row[e] = "pruned"
EveryEventIsSettled ==
  \A c \in Consumers, e \in Events : row[e] = "visible" ~> Settled(c, e)
=============================================================================
