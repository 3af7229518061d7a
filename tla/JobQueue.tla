------------------------------ MODULE JobQueue ------------------------------
(***************************************************************************)
(* Background jobs: the rows of one dedupe key, the messages that wake     *)
(* them, and the threads that submit, deliver, execute, sweep and reap.    *)
(*                                                                         *)
(* A row moves only by UPDATEs guarded on its status, the broker promises  *)
(* at-least-once delivery at best, and no lock is held between a read and  *)
(* the write it leads to.  A thread is one of whatever runs this code: a   *)
(* request of the API, a slot of a worker, a tick of a sweep.              *)
(* thread[t].phase names the statement it executes next.                   *)
(*                                                                         *)
(* Times are one flag: a row is due when the sweep that looks at rows of   *)
(* its status would take it.                                               *)
(***************************************************************************)
EXTENDS Naturals, FiniteSets

CONSTANTS
  Jobs,        \* rows that may be submitted, all under one dedupe key
  Threads,
  NoJob,
  MaxAttempts, \* max_attempts of the type
  MaxFaults,   \* bound: crashes, failed statements, lost messages, delays, timeouts
  MaxOrders    \* bound: cancels and retries by an operator

ASSUME JobsAssumption == NoJob \notin Jobs
ASSUME ThreadsAssumption == IsFiniteSet(Threads)
ASSUME LimitsAssumption ==
  MaxAttempts \in Nat \ {0} /\ MaxFaults \in Nat /\ MaxOrders \in Nat

VARIABLES
  job,      \* job[j]: the row of j
  queue,    \* queue[j]: messages of j the broker has ready
  thread,   \* thread[t]: what t is doing
  adrift,   \* adrift[j]: handlers of j that run on, let go by their worker
  overran,  \* history: jobs whose lease passed while their execution lived
  crossed,  \* history: jobs marked on behalf of an earlier execution
  retried,  \* history: jobs retried, their attempts at 0 again, with a handler at work
  faults,   \* faults that may still strike
  orders    \* orders the operator may still give

jobVars == <<job, queue, thread, adrift, overran, crossed, retried, faults, orders>>

Waiting == {"pending", "queued"}
Released == {"none", "failed", "cancelled"}  \* statuses that hold no dedupe key
Statuses == Waiting \union Released \union {"running", "completed"}
Publishing == {"submit", "retry", "sweep"}
Kinds == Publishing \union {"none", "work", "reap"}
Marking == {"fail", "mark"}
Phases == {"idle", "publish", "flip", "unsubmit", "claim", "pause", "execute", "ack"}
            \union Marking

Rows == [status: Statuses, attempts: Nat, due: BOOLEAN]

(* message: the thread holds an unacknowledged delivery on a live channel.
   final: what markFailed read.  late, a history: the job has been claimed
   since the execution it runs or reaps. *)
Doings == [phase: Phases, kind: Kinds, job: Jobs \union {NoJob},
           message: BOOLEAN, final: BOOLEAN, late: BOOLEAN]

Idle == [phase |-> "idle", kind |-> "none", job |-> NoJob, message |-> FALSE,
         final |-> FALSE, late |-> FALSE]

JobInit ==
  /\ job = [j \in Jobs |-> [status |-> "none", attempts |-> 0, due |-> FALSE]]
  /\ queue = [j \in Jobs |-> 0]
  /\ thread = [t \in Threads |-> Idle]
  /\ adrift = [j \in Jobs |-> 0]
  /\ overran = {} /\ crossed = {} /\ retried = {}
  /\ faults = MaxFaults /\ orders = MaxOrders

Status(j) == job[j].status

(* The partial unique index: some row holds the key. *)
KeyFree == \A j \in Jobs : Status(j) \in Released

(* A worker attends to its execution until it has marked it.  Whether the
   handler goes on beyond that is a matter of its own: see LetGo. *)
Executing(t) == /\ thread[t].kind = "work"
                /\ thread[t].phase \in {"execute"} \union Marking

(* The handlers of j that run: with a worker waiting for them, or let go. *)
Attending(j) == {t \in Threads : thread[t].phase = "execute" /\ thread[t].job = j}
AtWork(j) == Cardinality(Attending(j)) + adrift[j]

Awake(j) == \/ queue[j] > 0
            \/ \E t \in Threads :
                  thread[t].job = j /\ thread[t].phase \in {"claim", "pause"}

-----------------------------------------------------------------------------
Begin(t, j, kind, phase) ==
  /\ thread[t].phase = "idle"
  /\ thread' = [thread EXCEPT ![t] = [Idle EXCEPT !.phase = phase, !.kind = kind,
                                                  !.job = j]]

At(t, phase) == thread[t].phase = phase
Goto(t, phase) == thread' = [thread EXCEPT ![t].phase = phase]
End(t) == thread' = [thread EXCEPT ![t] = Idle]
Fault == faults > 0 /\ faults' = faults - 1

(* Every change of status is an UPDATE that leaves the row not yet due. *)
Set(j, status) == job' = [job EXCEPT ![j].status = status, ![j].due = FALSE]
SetIf(j, from, status) ==
  IF Status(j) \in from THEN Set(j, status) ELSE UNCHANGED job

(* Ready messages: one more, and the one a lost delivery gives back. *)
Send(j) == queue' = [queue EXCEPT ![j] = @ + 1]
GiveBack(t) ==
  IF thread[t].message THEN Send(thread[t].job) ELSE UNCHANGED queue

-----------------------------------------------------------------------------
(* Publishers: submit, retry and the retry sweep *)

(* submit, with the broker reached; a key that is held answers with its
   holder and changes nothing.  The row is a new one: rows that are not there
   yet differ in nothing, so any choice among them will do. *)
NewRow == CHOOSE j \in Jobs : Status(j) = "none"

Submit(t, j) ==
  /\ Status(j) = "none" /\ j = NewRow /\ KeyFree
  /\ Set(j, "pending")
  /\ Begin(t, j, "submit", "publish")
  /\ UNCHANGED <<queue, overran, crossed, faults, orders, adrift, retried>>

Retry(t, j) ==
  /\ orders > 0
  /\ Status(j) = "failed" /\ KeyFree
  /\ job' = [job EXCEPT ![j] = [status |-> "pending", attempts |-> 0, due |-> FALSE]]
  /\ Begin(t, j, "retry", "publish")
  /\ orders' = orders - 1
  /\ retried' = IF AtWork(j) > 0 THEN retried \union {j} ELSE retried
  /\ UNCHANGED <<queue, overran, crossed, faults, adrift>>

(* Mutant: the sweep republishes pending rows only. *)
MutantSweepPending(t, j) ==
  /\ Status(j) = "pending" /\ job[j].due
  /\ Begin(t, j, "sweep", "publish")
  /\ UNCHANGED <<job, queue, overran, crossed, faults, orders, adrift, retried>>

(* sweepRetryableJobs chooses the row; what happens to it before the publish
   is not looked at again. *)
SweepDue(t, j) ==
  /\ Status(j) \in Waiting /\ job[j].due
  /\ Begin(t, j, "sweep", "publish")
  /\ UNCHANGED <<job, queue, overran, crossed, faults, orders, adrift, retried>>

Publish(t) == /\ At(t, "publish")
              /\ Send(thread[t].job)
              /\ Goto(t, "flip")
              /\ UNCHANGED <<job, overran, crossed, faults, orders, adrift, retried>>

(* The channel confirms nothing: the broker may never get the message. *)
PublishLost(t) == /\ At(t, "publish")
                  /\ Fault
                  /\ Goto(t, "flip")
                  /\ UNCHANGED <<job, queue, overran, crossed, orders, adrift, retried>>

(* What a thread does next when publish or flip throws: only submit catches. *)
Recover(t) == IF thread[t].kind = "submit" THEN Goto(t, "unsubmit") ELSE End(t)

(* A publish that throws may still have sent: the buffer was full. *)
PublishThrows(t, sent) ==
  /\ At(t, "publish")
  /\ Fault
  /\ IF sent THEN Send(thread[t].job) ELSE UNCHANGED queue
  /\ Recover(t)
  /\ UNCHANGED <<job, overran, crossed, orders, adrift, retried>>

FlipRow(t) ==
  SetIf(thread[t].job,
        IF thread[t].kind = "sweep" THEN Waiting ELSE {"pending"}, "queued")

Flip(t) == /\ At(t, "flip")
           /\ FlipRow(t)
           /\ End(t)
           /\ UNCHANGED <<queue, overran, crossed, faults, orders, adrift, retried>>

FlipThrows(t, landed) ==
  /\ At(t, "flip")
  /\ Fault
  /\ IF landed THEN FlipRow(t) ELSE UNCHANGED job
  /\ Recover(t)
  /\ UNCHANGED <<queue, overran, crossed, orders, adrift, retried>>

(* The catch of submit. *)
Unsubmit(t) == /\ At(t, "unsubmit")
               /\ SetIf(thread[t].job, {"pending"}, "failed")
               /\ End(t)
               /\ UNCHANGED <<queue, overran, crossed, faults, orders, adrift, retried>>

-----------------------------------------------------------------------------
(* Workers *)

Deliver(t, j) ==
  /\ queue[j] > 0
  /\ thread[t].phase = "idle"
  /\ queue' = [queue EXCEPT ![j] = @ - 1]
  /\ thread' = [thread EXCEPT ![t] = [Idle EXCEPT !.phase = "claim", !.kind = "work",
                                                  !.job = j, !.message = TRUE]]
  /\ UNCHANGED <<job, overran, crossed, faults, orders, adrift, retried>>

(* The delivery is acknowledged; the reaper has none. *)
Finish(t) ==
  thread' = [thread EXCEPT ![t] =
               IF thread[t].message
               THEN [Idle EXCEPT !.phase = "ack", !.kind = "work",
                                 !.job = thread[t].job, !.message = TRUE]
               ELSE Idle]

(* claimJob: the UPDATE that takes the row counts the attempt. *)
TakeRow(j) == job' = [job EXCEPT ![j] = [status |-> "running", due |-> FALSE,
                                         attempts |-> @.attempts + 1]]

(* The execution of t begins; whoever marks for an earlier one is late. *)
BeginsExecution(t, doing) ==
  thread' = [u \in Threads |->
               IF u = t THEN doing
               ELSE IF /\ thread[u].job = thread[t].job
                       /\ thread[u].phase \in {"execute"} \union Marking
                    THEN [thread[u] EXCEPT !.late = TRUE]
                    ELSE thread[u]]

(* Mutant: the claim takes a running row too. *)
MutantClaimRunning(t) ==
  LET j == thread[t].job IN
  /\ At(t, "claim")
  /\ IF Status(j) \in Waiting \union {"running"}
     THEN TakeRow(j) /\ BeginsExecution(t, [thread[t] EXCEPT !.phase = "execute"])
     ELSE Finish(t) /\ UNCHANGED job
  /\ UNCHANGED <<queue, overran, crossed, faults, orders, adrift, retried>>

Claim(t) ==
  LET j == thread[t].job IN
  /\ At(t, "claim")
  /\ IF Status(j) \in Waiting
     THEN TakeRow(j) /\ BeginsExecution(t, [thread[t] EXCEPT !.phase = "execute"])
     ELSE Finish(t) /\ UNCHANGED job
  /\ UNCHANGED <<queue, overran, crossed, faults, orders, adrift, retried>>

(* The UPDATE may have landed all the same.  The worker holds on to the
   delivery for a pause, then requeues it. *)
ClaimThrows(t, landed) ==
  LET j == thread[t].job IN
  /\ At(t, "claim")
  /\ Fault
  /\ IF landed /\ Status(j) \in Waiting
     THEN TakeRow(j) /\ BeginsExecution(t, [thread[t] EXCEPT !.phase = "pause"])
     ELSE Goto(t, "pause") /\ UNCHANGED job
  /\ UNCHANGED <<queue, overran, crossed, orders, adrift, retried>>

Requeue(t) == /\ At(t, "pause")
              /\ GiveBack(t)
              /\ End(t)
              /\ UNCHANGED <<job, overran, crossed, faults, orders, adrift, retried>>

(* The guard of a mark is the status alone: it cannot tell its own execution
   from a later one. *)
Mark(t, status) ==
  LET j == thread[t].job IN
  /\ SetIf(j, {"running"}, status)
  /\ crossed' = IF Status(j) = "running" /\ thread[t].late
                THEN crossed \union {j} ELSE crossed

(* Mutant: the completion does not ask for a running row. *)
MutantCompleteAnyway(t) ==
  /\ At(t, "execute")
  /\ Set(thread[t].job, "completed")
  /\ Finish(t)
  /\ UNCHANGED <<queue, overran, crossed, faults, orders, adrift, retried>>

(* The handler returns. *)
MarkCompleted(t) == /\ At(t, "execute")
                    /\ Mark(t, "completed")
                    /\ Finish(t)
                    /\ UNCHANGED <<queue, overran, faults, orders, adrift, retried>>

MarkCompletedThrows(t, landed) ==
  /\ At(t, "execute")
  /\ Fault
  /\ IF landed THEN Mark(t, "completed") ELSE UNCHANGED <<job, crossed>>
  /\ Goto(t, "fail")
  /\ UNCHANGED <<queue, overran, orders, adrift, retried>>

(* Mutant: one attempt more than max_attempts. *)
MutantReadOneMore(t) ==
  /\ thread[t].phase \in {"execute", "fail"}
  /\ thread' = [thread EXCEPT ![t].phase = "mark",
                              ![t].final = job[thread[t].job].attempts > MaxAttempts]
  /\ UNCHANGED <<job, queue, overran, crossed, faults, orders, adrift, retried>>

(* The handler has thrown, or the worker has let it go, or the reaper has
   chosen its row.  markFailed reads the row, then writes it. *)
ReadForMark(t) ==
  /\ thread[t].phase \in {"execute", "fail"}
  /\ thread' = [thread EXCEPT ![t].phase = "mark",
                              ![t].final = job[thread[t].job].attempts >= MaxAttempts]
  /\ UNCHANGED <<job, queue, overran, crossed, faults, orders, adrift, retried>>

(* Mutant: what the worker lets go costs no attempt. *)
MutantLetGoUncounted(t) ==
  /\ At(t, "execute")
  /\ Fault
  /\ Goto(t, "fail")
  /\ adrift' = [adrift EXCEPT ![thread[t].job] = @ + 1]
  /\ job' = [job EXCEPT ![thread[t].job].attempts = @ - 1]
  /\ UNCHANGED <<queue, overran, crossed, retried, orders>>

(* The timeout, a cancel seen by the checkpoint or the shutdown of the worker:
   executeWithTimeout raises the abort signal and rejects.  It waits for no
   one: a handler that has not looked at the signal runs on. *)
LetGo(t) == /\ At(t, "execute")
            /\ Fault
            /\ Goto(t, "fail")
            /\ adrift' = [adrift EXCEPT ![thread[t].job] = @ + 1]
            /\ UNCHANGED <<job, queue, overran, crossed, retried, orders>>

(* It looks at the signal, ends of its own, or goes with its process; what it
   returns or throws is dropped. *)
HandlerStops(j) == /\ adrift[j] > 0
                   /\ adrift' = [adrift EXCEPT ![j] = @ - 1]
                   /\ UNCHANGED <<job, queue, thread, overran, crossed, retried,
                                  faults, orders>>

MarkFailed(t) == /\ At(t, "mark")
                 /\ Mark(t, IF thread[t].final THEN "failed" ELSE "pending")
                 /\ Finish(t)
                 /\ UNCHANGED <<queue, overran, faults, orders, adrift, retried>>

MarkFailedThrows(t) == /\ thread[t].phase \in Marking
                       /\ Fault
                       /\ Finish(t)
                       /\ UNCHANGED <<job, queue, overran, crossed, orders, adrift, retried>>

(* On a superseded channel the acknowledgement is dropped. *)
Ack(t) == /\ At(t, "ack")
          /\ End(t)
          /\ UNCHANGED <<job, queue, overran, crossed, faults, orders, adrift, retried>>

(* sweepStaleRunningJobs *)
Reap(t, j) ==
  /\ Status(j) = "running" /\ job[j].due
  /\ Begin(t, j, "reap", "fail")
  /\ UNCHANGED <<job, queue, overran, crossed, faults, orders, adrift, retried>>

-----------------------------------------------------------------------------
(* The broker requeues what was not acknowledged when a channel dies. *)

LoseChannel(t) ==
  /\ thread[t].message
  /\ Fault
  /\ GiveBack(t)
  /\ IF At(t, "ack") THEN End(t)
     ELSE thread' = [thread EXCEPT ![t].message = FALSE]
  /\ UNCHANGED <<job, overran, crossed, orders, adrift, retried>>

Crash(t) == /\ thread[t].phase # "idle"
            /\ Fault
            /\ GiveBack(t)
            /\ End(t)
            /\ UNCHANGED <<job, overran, crossed, orders, adrift, retried>>

Cancel(j) == /\ Status(j) \in Waiting \union {"running"}
             /\ orders > 0
             /\ Set(j, "cancelled")
             /\ orders' = orders - 1
             /\ UNCHANGED <<queue, thread, overran, crossed, faults, adrift, retried>>

-----------------------------------------------------------------------------
(* Time *)

Attended(j) == \E t \in Threads : Executing(t) /\ thread[t].job = j

(* A backoff or the grace of a submit, a queued row with nothing to wake it,
   a running row that no one executes. *)
TimePasses(j) ==
  /\ ~job[j].due
  /\ \/ Status(j) = "pending"
     \/ Status(j) = "queued" /\ ~Awake(j)
     \/ Status(j) = "running" /\ ~Attended(j)
  /\ job' = [job EXCEPT ![j].due = TRUE]
  /\ UNCHANGED <<queue, thread, overran, crossed, faults, orders, adrift, retried>>

(* A backlog deeper than the grace, an execution past its timeout: no worker
   in Python enforces one. *)
Delay(j) ==
  /\ ~job[j].due
  /\ Fault
  /\ \/ Status(j) = "queued" /\ Awake(j) /\ UNCHANGED overran
     \/ Status(j) = "running" /\ Attended(j) /\ overran' = overran \union {j}
  /\ job' = [job EXCEPT ![j].due = TRUE]
  /\ UNCHANGED <<queue, thread, crossed, orders, adrift, retried>>

-----------------------------------------------------------------------------
Step(t) ==
  \/ Publish(t) \/ Flip(t) \/ Unsubmit(t)
  \/ Claim(t) \/ MarkCompleted(t) \/ ReadForMark(t) \/ MarkFailed(t)
  \/ Requeue(t) \/ Ack(t)

FaultyStep(t) ==
  \/ PublishLost(t) \/ LetGo(t) \/ MarkFailedThrows(t) \/ LoseChannel(t) \/ Crash(t)
  \/ \E ambiguous \in BOOLEAN :
       \/ PublishThrows(t, ambiguous) \/ FlipThrows(t, ambiguous)
       \/ ClaimThrows(t, ambiguous) \/ MarkCompletedThrows(t, ambiguous)

Turn(t, j) == \/ Submit(t, j) \/ Retry(t, j) \/ SweepDue(t, j)
              \/ Deliver(t, j) \/ Reap(t, j)

JobNext == \/ \E t \in Threads : \/ Step(t) \/ FaultyStep(t)
                                 \/ \E j \in Jobs : Turn(t, j)
           \/ \E j \in Jobs : \/ Cancel(j) \/ TimePasses(j) \/ Delay(j)
                             \/ HandlerStops(j)

(* A thread's statements return, time passes, and the threads that are free
   do not leave every delivery and every tick of the sweeps undone. *)
JobFairness ==
  /\ \A t \in Threads : WF_jobVars(Step(t))
  /\ WF_jobVars(\E j \in Jobs : TimePasses(j))
  /\ WF_jobVars(\E t \in Threads, j \in Jobs : Deliver(t, j) \/ SweepDue(t, j) \/ Reap(t, j))

JobSpec == JobInit /\ [][JobNext]_jobVars
FairJobSpec == JobSpec /\ JobFairness

-----------------------------------------------------------------------------
(* Properties *)

JobTypeOK == /\ job \in [Jobs -> Rows]
             /\ queue \in [Jobs -> Nat]
             /\ thread \in [Threads -> Doings]
             /\ adrift \in [Jobs -> Nat]
             /\ overran \subseteq Jobs /\ crossed \subseteq Jobs /\ retried \subseteq Jobs
             /\ faults \in Nat /\ orders \in Nat

(* The work of a key is attended to by one worker at a time, whatever is
   redelivered, republished, reaped or retried: no second one has a handler it
   waits for or has yet to mark.  Three things excuse a second: an execution
   that outlived its lease, a mark that hit a later execution than its own, and
   a cancel, which frees the key before the worker sees it at its next
   checkpoint.  This is not said of a handler that was let go: it may run on
   beside the retry of its job, and beside the next job of the key. *)
Excused(t) == \/ thread[t].job \in overran \union crossed
              \/ job[thread[t].job].status = "cancelled"

OneExecution ==
  \A s, t \in Threads :
    s # t /\ Executing(s) /\ Executing(t) => Excused(s) \/ Excused(t)

(* An execution is an attempt however it ends, and attempts run out: also when
   claims are redelivered, throw after they landed, or are lost by a crash.
   Only a mark that crossed into a later execution can park a job whose
   attempts are spent. *)
AttemptsAreBudgeted ==
  \A j \in Jobs : job[j].attempts > MaxAttempts => j \in crossed

(* What runs on is bounded all the same: the handlers of a job at work at one
   moment, attended to or let go, are at most the attempts its row has counted,
   so at most max_attempts where AttemptsAreBudgeted keeps the count.  A claim
   that landed is counted however its execution ends, and a timeout that leaves
   its handler behind gives nothing back.  Excused is a job that was retried by
   an operator, and so counts from 0 again, beside a handler still at work. *)
HandlersAreCounted == \A j \in Jobs \ retried : AtWork(j) <= job[j].attempts

(* The status guards of flips, marks and sweeps let nothing reopen a
   job that completed or was cancelled; a failed one restarts its count. *)
SettledStands ==
  [][\A j \in Jobs :
       /\ Status(j) \in {"completed", "cancelled"} => job'[j] = job[j]
       /\ Status(j) = "failed" =>
            \/ job'[j] = job[j]
            \/ job'[j].status = "pending" /\ job'[j].attempts = 0]_jobVars

(* Whatever is lost, crashes or throws, a submitted job is settled. *)
JobsAreSettled ==
  \A j \in Jobs : Status(j) \in Waiting \union {"running"}
                    ~> Status(j) \in {"completed", "failed", "cancelled"}
=============================================================================
