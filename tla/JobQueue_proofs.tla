-------------------------- MODULE JobQueue_proofs --------------------------
(* Proofs about JobQueue, for any rows, threads and limits: the types, what a
   settled job keeps, and that a key is worked on by one thread at a time. *)
EXTENDS JobQueue, FiniteSetTheorems, TLAPS

(* The types of what the actions are made of. *)
LEMMA SetTypes ==
  ASSUME job \in [Jobs -> Rows], NEW j, NEW status \in Statuses, NEW from,
         Set(j, status) \/ SetIf(j, from, status)
  PROVE  job' \in [Jobs -> Rows]
<1>1. CASE Set(j, status)
  BY <1>1 DEF Set, Rows
<1>2. CASE UNCHANGED job
  BY <1>2
<1> QED BY <1>1, <1>2 DEF SetIf

LEMMA SendTypes ==
  ASSUME queue \in [Jobs -> Nat], NEW j, NEW t,
         Send(j) \/ GiveBack(t) \/ UNCHANGED queue
  PROVE  queue' \in [Jobs -> Nat]
  BY DEF Send, GiveBack

LEMMA IdleTypes == Idle \in Doings
  BY DEF Idle, Doings, Phases, Kinds

LEMMA GotoTypes ==
  ASSUME thread \in [Threads -> Doings], NEW t \in Threads, NEW phase \in Phases,
         Goto(t, phase)
  PROVE  thread' \in [Threads -> Doings]
  BY DEF Goto, Doings

LEMMA DoingTypes ==
  ASSUME NEW d \in Doings, NEW b \in BOOLEAN
  PROVE  /\ [d EXCEPT !.message = b] \in Doings
         /\ [d EXCEPT !.phase = "mark", !.final = b] \in Doings
  BY DEF Doings, Phases, Marking

LEMMA EndTypes ==
  ASSUME thread \in [Threads -> Doings], NEW t \in Threads,
         End(t) \/ Recover(t) \/ Finish(t)
  PROVE  thread' \in [Threads -> Doings]
<1>1. CASE End(t)
  BY <1>1, IdleTypes DEF End
<1>2. CASE Goto(t, "unsubmit")
  BY <1>2, GotoTypes DEF Phases
<1>3. CASE Finish(t)
  BY <1>3, IdleTypes DEF Finish, Idle, Doings, Phases, Kinds
<1> QED BY <1>1, <1>2, <1>3 DEF Recover

LEMMA BeginTypes ==
  ASSUME thread \in [Threads -> Doings], NEW t \in Threads, NEW j \in Jobs,
         NEW kind \in Kinds, NEW phase \in Phases, Begin(t, j, kind, phase)
  PROVE  thread' \in [Threads -> Doings]
  BY DEF Begin, Idle, Doings

LEMMA BeginsExecutionTypes ==
  ASSUME thread \in [Threads -> Doings], NEW t \in Threads, NEW doing \in Doings,
         BeginsExecution(t, doing)
  PROVE  thread' \in [Threads -> Doings]
<1>1. ASSUME NEW u \in Threads
      PROVE  [thread[u] EXCEPT !.late = TRUE] \in Doings
  BY DEF Doings
<1> QED BY <1>1 DEF BeginsExecution

LEMMA TakeRowTypes ==
  ASSUME job \in [Jobs -> Rows], NEW j \in Jobs, TakeRow(j)
  PROVE  job' \in [Jobs -> Rows]
  BY DEF TakeRow, Rows, Statuses

LEMMA MarkTypes ==
  ASSUME job \in [Jobs -> Rows], crossed \subseteq Jobs, NEW t,
         thread[t].job \in Jobs, NEW status \in Statuses, Mark(t, status)
  PROVE  job' \in [Jobs -> Rows] /\ crossed' \subseteq Jobs
<1>1. SetIf(thread[t].job, {"running"}, status)
  BY DEF Mark
<1>2. job' \in [Jobs -> Rows]
  BY <1>1, SetTypes
<1>3. crossed' \subseteq Jobs
  BY DEF Mark
<1> QED BY <1>2, <1>3

LEMMA FaultTypes == faults \in Nat /\ Fault => faults' \in Nat
  BY DEF Fault

(* A thread that does something does it to a job. *)
Busy == \A t \in Threads : thread[t].phase # "idle" => thread[t].job \in Jobs

LEMMA TypeInit == JobInit => JobTypeOK /\ Busy
  BY LimitsAssumption, IdleTypes
     DEF JobInit, JobTypeOK, Busy, Idle, Rows, Statuses, Released

LEMMA PublisherTypes ==
  ASSUME JobTypeOK, Busy, NEW t \in Threads,
         \/ Publish(t) \/ PublishLost(t) \/ Flip(t) \/ Unsubmit(t)
         \/ \E b \in BOOLEAN : PublishThrows(t, b) \/ FlipThrows(t, b)
  PROVE  JobTypeOK'
<1> USE DEF JobTypeOK, Phases, Statuses, Waiting, Released
<1>1. CASE Publish(t)
  BY <1>1, GotoTypes, SendTypes DEF Publish
<1>2. CASE PublishLost(t)
  BY <1>2, GotoTypes, FaultTypes DEF PublishLost
<1>3. CASE Flip(t)
  BY <1>3, SetTypes, EndTypes DEF Flip, FlipRow
<1>4. CASE Unsubmit(t)
  BY <1>4, SetTypes, EndTypes DEF Unsubmit
<1>5. ASSUME NEW b \in BOOLEAN, PublishThrows(t, b)
      PROVE  JobTypeOK'
  BY <1>5, SendTypes, EndTypes, FaultTypes DEF PublishThrows
<1>6. ASSUME NEW b \in BOOLEAN, FlipThrows(t, b)
      PROVE  JobTypeOK'
  <2>1. job' \in [Jobs -> Rows]
    BY <1>6, SetTypes DEF FlipThrows, FlipRow
  <2> QED BY <1>6, <2>1, EndTypes, FaultTypes DEF FlipThrows
<1> QED BY <1>1, <1>2, <1>3, <1>4, <1>5, <1>6

LEMMA WorkerTypes ==
  ASSUME JobTypeOK, Busy, NEW t \in Threads,
         \/ Claim(t) \/ MarkCompleted(t) \/ ReadForMark(t) \/ MarkFailed(t)
         \/ MarkFailedThrows(t) \/ Ack(t) \/ LoseChannel(t) \/ Crash(t)
         \/ Requeue(t) \/ LetGo(t)
         \/ \E b \in BOOLEAN : ClaimThrows(t, b) \/ MarkCompletedThrows(t, b)
  PROVE  JobTypeOK'
<1> USE DEF JobTypeOK, Phases, Marking, Statuses, Waiting, Released
<1>1. thread[t].phase # "idle" => thread[t].job \in Jobs
  BY DEF Busy
<1>2. CASE Claim(t)
  <2>1. [thread[t] EXCEPT !.phase = "execute"] \in Doings
    BY DEF Doings
  <2>2. CASE Status(thread[t].job) \in Waiting
    BY <1>1, <1>2, <2>1, <2>2, TakeRowTypes, BeginsExecutionTypes DEF Claim, At
  <2>3. CASE Status(thread[t].job) \notin Waiting
    BY <1>2, <2>3, EndTypes DEF Claim
  <2> QED BY <2>2, <2>3
<1>3. CASE MarkCompleted(t)
  <2>1. thread[t].job \in Jobs /\ Mark(t, "completed")
    BY <1>1, <1>3 DEF MarkCompleted, At
  <2>2. job' \in [Jobs -> Rows] /\ crossed' \subseteq Jobs
    BY <2>1, MarkTypes
  <2> QED BY <1>3, <2>2, EndTypes DEF MarkCompleted
<1>4. CASE ReadForMark(t)
  <2>1. (job[thread[t].job].attempts >= MaxAttempts) \in BOOLEAN
    OBVIOUS
  <2>2. thread' = [thread EXCEPT ![t] =
                     [thread[t] EXCEPT !.phase = "mark",
                        !.final = job[thread[t].job].attempts >= MaxAttempts]]
    BY <1>4 DEF ReadForMark
  <2>3. thread' \in [Threads -> Doings]
    BY <2>1, <2>2, DoingTypes
  <2> QED BY <1>4, <2>3 DEF ReadForMark
<1>5. CASE MarkFailed(t)
  <2>1. thread[t].job \in Jobs
    BY <1>1, <1>5 DEF MarkFailed, At
  <2>2. job' \in [Jobs -> Rows] /\ crossed' \subseteq Jobs
    BY <1>5, <2>1, MarkTypes DEF MarkFailed
  <2> QED BY <1>5, <2>2, EndTypes DEF MarkFailed
<1>6. CASE MarkFailedThrows(t)
  BY <1>6, EndTypes, FaultTypes DEF MarkFailedThrows
<1>7. CASE Ack(t)
  BY <1>7, EndTypes DEF Ack
<1>12. CASE Requeue(t)
  BY <1>12, EndTypes, SendTypes DEF Requeue
<1>13. CASE LetGo(t)
  BY <1>1, <1>13, GotoTypes, FaultTypes DEF LetGo, At
<1>8. CASE LoseChannel(t)
  <2>1. \/ End(t)
        \/ thread' = [thread EXCEPT ![t] = [thread[t] EXCEPT !.message = FALSE]]
    BY <1>8 DEF LoseChannel
  <2>2. thread' \in [Threads -> Doings]
    BY <2>1, EndTypes, DoingTypes
  <2> QED BY <1>8, <2>2, SendTypes, FaultTypes DEF LoseChannel
<1>9. CASE Crash(t)
  BY <1>9, EndTypes, SendTypes, FaultTypes DEF Crash
<1>10. ASSUME NEW b \in BOOLEAN, ClaimThrows(t, b)
       PROVE  JobTypeOK'
  <2>1. [thread[t] EXCEPT !.phase = "pause"] \in Doings
    BY DEF Doings
  <2>2. job' \in [Jobs -> Rows] /\ thread' \in [Threads -> Doings]
    BY <1>1, <1>10, <2>1, TakeRowTypes, BeginsExecutionTypes, GotoTypes
       DEF ClaimThrows, At
  <2> QED BY <1>10, <2>2, FaultTypes DEF ClaimThrows
<1>11. ASSUME NEW b \in BOOLEAN, MarkCompletedThrows(t, b)
       PROVE  JobTypeOK'
  <2>1. job' \in [Jobs -> Rows] /\ crossed' \subseteq Jobs
    BY <1>1, <1>11, MarkTypes DEF MarkCompletedThrows, At
  <2> QED BY <1>11, <2>1, GotoTypes, FaultTypes DEF MarkCompletedThrows
<1> QED BY <1>2, <1>3, <1>4, <1>5, <1>6, <1>7, <1>8, <1>9, <1>10, <1>11, <1>12, <1>13

LEMMA TurnTypes ==
  ASSUME JobTypeOK, NEW t \in Threads, NEW j \in Jobs, Turn(t, j)
  PROVE  JobTypeOK'
<1> USE DEF JobTypeOK, Phases, Kinds, Publishing, Marking, Statuses, Waiting
<1>1. CASE Submit(t, j)
  BY <1>1, SetTypes, BeginTypes DEF Submit
<1>2. CASE Retry(t, j)
  <2>1. job' \in [Jobs -> Rows] /\ orders' \in Nat /\ retried' \subseteq Jobs
    BY <1>2 DEF Retry, Rows
  <2> QED BY <1>2, <2>1, BeginTypes DEF Retry
<1>3. CASE SweepDue(t, j)
  BY <1>3, BeginTypes DEF SweepDue
<1>4. CASE Deliver(t, j)
  <2>1. queue' \in [Jobs -> Nat]
    BY <1>4 DEF Deliver
  <2>2. thread' \in [Threads -> Doings]
    BY <1>4 DEF Deliver, Idle, Doings
  <2> QED BY <1>4, <2>1, <2>2 DEF Deliver
<1>5. CASE Reap(t, j)
  BY <1>5, BeginTypes DEF Reap
<1> QED BY <1>1, <1>2, <1>3, <1>4, <1>5 DEF Turn

LEMMA TypeStep == JobTypeOK /\ Busy /\ [JobNext]_jobVars => JobTypeOK'
<1> SUFFICES ASSUME JobTypeOK, Busy, [JobNext]_jobVars PROVE JobTypeOK'
  OBVIOUS
<1>1. ASSUME NEW t \in Threads, Step(t) \/ FaultyStep(t)
      PROVE  JobTypeOK'
  BY <1>1, PublisherTypes, WorkerTypes DEF Step, FaultyStep
<1>2. ASSUME NEW j \in Jobs, Cancel(j)
      PROVE  JobTypeOK'
  BY <1>2, SetTypes DEF Cancel, JobTypeOK, Statuses, Released
<1>3. ASSUME NEW j \in Jobs, TimePasses(j) \/ Delay(j)
      PROVE  JobTypeOK'
  <2>1. job' \in [Jobs -> Rows]
    BY <1>3 DEF TimePasses, Delay, JobTypeOK, Rows
  <2> QED BY <1>3, <2>1, FaultTypes DEF TimePasses, Delay, JobTypeOK
<1>4. CASE UNCHANGED jobVars
  BY <1>4 DEF JobTypeOK, jobVars
<1>5. ASSUME NEW j \in Jobs, HandlerStops(j)
      PROVE  JobTypeOK'
  BY <1>5 DEF HandlerStops, JobTypeOK
<1> QED BY <1>1, <1>2, <1>3, <1>4, <1>5, TurnTypes DEF JobNext

(* What a step does to the threads: only its own thread turns to a job, and
   the others at most learn that they are late. *)
LEMMA OtherThreads ==
  ASSUME JobTypeOK, NEW t \in Threads,
         Step(t) \/ FaultyStep(t) \/ \E j \in Jobs : Turn(t, j),
         NEW u \in Threads, u # t
  PROVE  \/ thread'[u] = thread[u]
         \/ /\ thread[u].phase \in {"execute"} \union Marking
            /\ thread'[u] = [thread[u] EXCEPT !.late = TRUE]
<1>1. thread \in [Threads -> Doings]
  BY DEF JobTypeOK
<1>2. ASSUME NEW doing, BeginsExecution(t, doing)
      PROVE  \/ thread'[u] = thread[u]
             \/ /\ thread[u].phase \in {"execute"} \union Marking
                /\ thread'[u] = [thread[u] EXCEPT !.late = TRUE]
  BY <1>2 DEF BeginsExecution
<1>3. CASE Step(t)
  BY <1>1, <1>2, <1>3
     DEF Step, Publish, Flip, Unsubmit, Claim, MarkCompleted, ReadForMark,
         MarkFailed, Requeue, Ack, Goto, End, Finish
<1>4. CASE FaultyStep(t)
  BY <1>1, <1>2, <1>4
     DEF FaultyStep, PublishLost, PublishThrows, FlipThrows, Recover, ClaimThrows,
         LetGo, MarkCompletedThrows, MarkFailedThrows, LoseChannel, Crash, Goto, End, Finish
<1>5. ASSUME NEW j \in Jobs, Turn(t, j)
      PROVE  thread'[u] = thread[u]
  BY <1>1, <1>5 DEF Turn, Submit, Retry, SweepDue, Deliver, Reap, Begin
<1> QED BY <1>3, <1>4, <1>5

(* Which threads have a job, and of which kind they are where. *)
Shape ==
  \A t \in Threads :
    /\ thread[t].phase # "idle" => thread[t].job \in Jobs
    /\ thread[t].message => thread[t].phase # "idle"
    /\ thread[t].phase \in {"claim", "pause", "execute"} => thread[t].kind = "work"
    /\ thread[t].phase \in Marking => thread[t].kind \in {"work", "reap"}
    /\ thread[t].late => thread[t].phase \in {"execute"} \union Marking

KeyInv == \A i, j \in Jobs :
            Status(i) \notin Released /\ Status(j) \notin Released => i = j

(* A job on which no mark has crossed and whose lease held while it was
   executed. *)
Regular(j) == j \notin overran \union crossed

(* An execution is of the last claim, and no one has reopened its row. *)
AliveInv ==
  \A t \in Threads :
    Executing(t) /\ Regular(thread[t].job) =>
      /\ ~thread[t].late
      /\ Status(thread[t].job) \in {"running", "cancelled", "completed"}

(* A running row is due once its execution has ended. *)
DueInv ==
  \A j \in Jobs, t \in Threads :
    Status(j) = "running" /\ job[j].due /\ j \notin overran
      => ~(Executing(t) /\ thread[t].job = j)

(* So the reaper has no execution to strike. *)
Reaping(t) == thread[t].kind = "reap" /\ thread[t].phase \in Marking

ReapInv ==
  \A s, t \in Threads :
    Reaping(s) /\ ~thread[s].late /\ Regular(thread[s].job)
      => ~(Executing(t) /\ thread[t].job = thread[s].job)

UniqueInv ==
  \A s, t \in Threads :
    /\ Executing(s) /\ Executing(t) /\ thread[s].job = thread[t].job
    /\ Regular(thread[s].job)
    => s = t

Alone == KeyInv /\ AliveInv /\ DueInv /\ ReapInv /\ UniqueInv

-----------------------------------------------------------------------------
LEMMA ShapeBusy == Shape => Busy
  BY DEF Shape, Busy

LEMMA ShapeStep == JobTypeOK /\ Shape /\ [JobNext]_jobVars => Shape'
<1> SUFFICES ASSUME JobTypeOK, Shape, [JobNext]_jobVars PROVE Shape'
  OBVIOUS
<1>1. thread \in [Threads -> Doings]
  BY DEF JobTypeOK
<1> DEFINE Fits(d) == /\ d.phase # "idle" => d.job \in Jobs
                      /\ d.message => d.phase # "idle"
                      /\ d.phase \in {"claim", "pause", "execute"} => d.kind = "work"
                      /\ d.phase \in Marking => d.kind \in {"work", "reap"}
                      /\ d.late => d.phase \in {"execute"} \union Marking
<1>2. \A u \in Threads : Fits(thread[u])
  BY DEF Shape
<1>3. ASSUME NEW d \in Doings, Fits(d), d.phase \in {"execute"} \union Marking
      PROVE  Fits([d EXCEPT !.late = TRUE])
  BY <1>3 DEF Doings
<1>4. Fits(Idle)
  BY DEF Idle, Marking
<1>5. ASSUME NEW t \in Threads,
             Step(t) \/ FaultyStep(t) \/ \E j \in Jobs : Turn(t, j),
             Fits(thread'[t])
      PROVE  Shape'
  <2>1. ASSUME NEW u \in Threads
        PROVE  Fits(thread'[u])
    <3>1. CASE u = t
      BY <1>5, <3>1
    <3>2. CASE u # t
      <4>1. \/ thread'[u] = thread[u]
            \/ /\ thread[u].phase \in {"execute"} \union Marking
               /\ thread'[u] = [thread[u] EXCEPT !.late = TRUE]
        BY <1>5, <3>2, OtherThreads
      <4>2. thread[u] \in Doings /\ Fits(thread[u])
        BY <1>1, <1>2
      <4> HIDE DEF Fits
      <4> QED BY <1>3, <4>1, <4>2
    <3> QED BY <3>1, <3>2
  <2> QED BY <2>1 DEF Shape
<1>6. ASSUME NEW t \in Threads, End(t) \/ Finish(t)
      PROVE  Fits(thread'[t])
  <2>1. CASE End(t)
    BY <1>1, <1>4, <2>1 DEF End
  <2>2. CASE Finish(t)
    BY <1>1, <1>2, <1>4, <2>2 DEF Finish, Idle, Marking
  <2> QED BY <1>6, <2>1, <2>2
<1>7. ASSUME NEW t \in Threads, NEW phase \in {"flip", "unsubmit", "pause", "fail"},
             thread[t].phase # "idle",
             phase \in {"pause", "fail"} => thread[t].kind = "work",
             phase # "fail" => thread[t].phase \notin {"execute"} \union Marking,
             Goto(t, phase)
      PROVE  Fits(thread'[t])
  <2>1. thread'[t] = [thread[t] EXCEPT !.phase = phase]
    BY <1>1, <1>7 DEF Goto
  <2>2. thread[t] \in Doings /\ Fits(thread[t])
    BY <1>1, <1>2
  <2> QED BY <1>7, <2>1, <2>2 DEF Doings, Marking
<1>8. ASSUME NEW t \in Threads, Step(t)
      PROVE  Fits(thread'[t])
  <2>1. CASE Publish(t)
    BY <1>7, <2>1 DEF Publish, At, Marking
  <2>2. CASE Claim(t)
    <3>1. CASE thread'[t] = [thread[t] EXCEPT !.phase = "execute"]
      BY <1>1, <1>2, <2>2, <3>1 DEF Claim, At, Doings, Marking
    <3>2. CASE Finish(t)
      BY <1>6, <3>2
    <3> QED BY <1>1, <2>2, <3>1, <3>2 DEF Claim, BeginsExecution
  <2>3. CASE ReadForMark(t)
    BY <1>1, <1>2, <2>3 DEF ReadForMark, Doings, Marking
  <2>4. CASE \/ Flip(t) \/ Unsubmit(t) \/ MarkCompleted(t) \/ MarkFailed(t)
             \/ Requeue(t) \/ Ack(t)
    BY <1>6, <2>4 DEF Flip, Unsubmit, MarkCompleted, MarkFailed, Requeue, Ack
  <2> QED BY <1>8, <2>1, <2>2, <2>3, <2>4 DEF Step
<1>9. ASSUME NEW t \in Threads, FaultyStep(t)
      PROVE  Fits(thread'[t])
  <2>1. CASE PublishLost(t)
    BY <1>7, <2>1 DEF PublishLost, At, Marking
  <2>2. CASE MarkFailedThrows(t) \/ Crash(t)
    BY <1>6, <2>2 DEF MarkFailedThrows, Crash
  <2>3. CASE LoseChannel(t)
    <3>1. CASE thread'[t] = [thread[t] EXCEPT !.message = FALSE]
      BY <1>1, <1>2, <3>1 DEF Doings
    <3>2. CASE End(t)
      BY <1>6, <3>2
    <3> QED BY <1>1, <2>3, <3>1, <3>2 DEF LoseChannel
  <2>4. ASSUME NEW b \in BOOLEAN, PublishThrows(t, b) \/ FlipThrows(t, b)
        PROVE  Fits(thread'[t])
    <3>1. /\ thread[t].phase \notin {"idle", "execute"} \union Marking
          /\ Goto(t, "unsubmit") \/ End(t)
      BY <2>4 DEF PublishThrows, FlipThrows, Recover, At, Marking
    <3> QED BY <1>6, <1>7, <3>1
  <2>5. ASSUME NEW b \in BOOLEAN, ClaimThrows(t, b)
        PROVE  Fits(thread'[t])
    <3>1. thread[t].phase = "claim" /\ thread[t].kind = "work"
      BY <1>2, <2>5 DEF ClaimThrows, At
    <3>2. CASE Goto(t, "pause")
      BY <1>7, <3>1, <3>2 DEF Marking
    <3>3. CASE BeginsExecution(t, [thread[t] EXCEPT !.phase = "pause"])
      <4>1. thread'[t] = [thread[t] EXCEPT !.phase = "pause"]
        BY <3>3 DEF BeginsExecution
      <4> QED BY <1>1, <1>2, <3>1, <4>1 DEF Doings, Marking
    <3> QED BY <2>5, <3>2, <3>3 DEF ClaimThrows
  <2>6. ASSUME NEW b \in BOOLEAN, MarkCompletedThrows(t, b)
        PROVE  Fits(thread'[t])
    <3>1. thread[t].phase = "execute" /\ Goto(t, "fail")
      BY <2>6 DEF MarkCompletedThrows, At
    <3>2. thread[t].kind = "work"
      BY <1>2, <3>1
    <3> QED BY <1>7, <3>1, <3>2
  <2>7. CASE LetGo(t)
    <3>1. thread[t].phase = "execute" /\ Goto(t, "fail")
      BY <2>7 DEF LetGo, At
    <3>2. thread[t].kind = "work"
      BY <1>2, <3>1
    <3> QED BY <1>7, <3>1, <3>2
  <2> QED BY <1>9, <2>1, <2>2, <2>3, <2>4, <2>5, <2>6, <2>7 DEF FaultyStep
<1>10. ASSUME NEW t \in Threads, NEW j \in Jobs, Turn(t, j)
       PROVE  Fits(thread'[t])
  <2>1. ASSUME NEW kind \in Kinds, NEW phase \in {"publish", "fail"},
               phase = "fail" => kind = "reap", Begin(t, j, kind, phase)
        PROVE  Fits(thread'[t])
    BY <1>1, <2>1 DEF Begin, Idle, Marking
  <2>2. CASE Deliver(t, j)
    BY <1>1, <2>2 DEF Deliver, Idle, Marking
  <2>3. CASE Submit(t, j) \/ Retry(t, j) \/ SweepDue(t, j)
    BY <2>1, <2>3 DEF Submit, Retry, SweepDue, Kinds, Publishing
  <2>4. CASE Reap(t, j)
    BY <2>1, <2>4 DEF Reap, Kinds
  <2> QED BY <1>10, <2>2, <2>3, <2>4 DEF Turn
<1>11. CASE UNCHANGED thread
  BY <1>2, <1>11 DEF Shape
<1>12. ASSUME NEW j \in Jobs, Cancel(j) \/ TimePasses(j) \/ Delay(j) \/ HandlerStops(j)
       PROVE  UNCHANGED thread
  BY <1>12 DEF Cancel, TimePasses, Delay, HandlerStops
<1> QED BY <1>5, <1>8, <1>9, <1>10, <1>11, <1>12 DEF JobNext, jobVars

(* Every step of the queue keeps the types of JobTypeOK. *)
THEOREM JobTyping == JobSpec => []JobTypeOK
<1>1. JobInit => JobTypeOK /\ Shape
  <2>1. JobInit => Shape
    BY DEF JobInit, Shape, Idle, Marking
  <2> QED BY <2>1, TypeInit
<1>2. JobTypeOK /\ Shape /\ [JobNext]_jobVars => (JobTypeOK /\ Shape)'
  BY TypeStep, ShapeStep, ShapeBusy
<1>3. JobTypeOK /\ Shape => JobTypeOK
  OBVIOUS
<1> QED BY <1>1, <1>2, <1>3, PTL DEF JobSpec

-----------------------------------------------------------------------------
(* Settled jobs *)

Became(j, status) == job'[j] = [job[j] EXCEPT !.status = status, !.due = FALSE]

LEMMA SetIfRow ==
  ASSUME JobTypeOK, NEW k, NEW from, NEW status, SetIf(k, from, status),
         NEW j \in Jobs
  PROVE  \/ job'[j] = job[j]
         \/ j = k /\ Status(j) \in from /\ Became(j, status)
  BY DEF SetIf, Set, JobTypeOK, Became

(* The statuses of a row that each kind of step may change, and what it makes
   of the row. *)
Reopened(j) == Status(j) \in {"none", "failed"} /\ KeyFree
Flipped(j) ==
  /\ Status(j) \in Waiting
  /\ \E status \in {"queued", "failed", "cancelled"} : Became(j, status)
Ended(j) ==
  /\ Status(j) = "running"
  /\ \E status \in {"completed", "cancelled"} : Became(j, status)

LEMMA PublisherRows ==
  ASSUME JobTypeOK, NEW t \in Threads,
         \/ Publish(t) \/ PublishLost(t) \/ Flip(t) \/ Unsubmit(t)
         \/ \E b \in BOOLEAN : PublishThrows(t, b) \/ FlipThrows(t, b),
         NEW j \in Jobs
  PROVE  job'[j] = job[j] \/ Flipped(j)
<1>1. CASE UNCHANGED job
  BY <1>1
<1>2. CASE FlipRow(t)
  <2>1. PICK from \in SUBSET Waiting : SetIf(thread[t].job, from, "queued")
    BY <1>2 DEF FlipRow, Waiting
  <2> QED BY <2>1, SetIfRow DEF Flipped
<1>3. CASE SetIf(thread[t].job, {"pending"}, "failed")
  BY <1>3, SetIfRow DEF Flipped, Waiting
<1> QED BY <1>1, <1>2, <1>3
        DEF Publish, PublishLost, Flip, Unsubmit, PublishThrows, FlipThrows

LEMMA MarkRow ==
  ASSUME JobTypeOK, NEW t \in Threads, NEW status, Mark(t, status), NEW j \in Jobs
  PROVE  \/ job'[j] = job[j]
         \/ j = thread[t].job /\ Status(j) = "running" /\ Became(j, status)
<1>1. SetIf(thread[t].job, {"running"}, status)
  BY DEF Mark
<1> QED BY <1>1, SetIfRow

Taken(j) == job'[j] = [status |-> "running", due |-> FALSE,
                       attempts |-> job[j].attempts + 1]

LEMMA TakenRow ==
  ASSUME JobTypeOK, NEW k, TakeRow(k), NEW j \in Jobs
  PROVE  job'[j] = job[j] \/ (j = k /\ Taken(j))
  BY DEF TakeRow, JobTypeOK, Taken

LEMMA WorkerRows ==
  ASSUME JobTypeOK, NEW t \in Threads, Step(t) \/ FaultyStep(t), NEW j \in Jobs,
         Status(j) \in {"completed", "cancelled", "failed"}
  PROVE  job'[j] = job[j]
<1> USE DEF Waiting
<1>1. CASE UNCHANGED job
  BY <1>1
<1>2. ASSUME NEW status, Mark(t, status)
      PROVE  job'[j] = job[j]
  BY <1>2, MarkRow
<1>3. CASE TakeRow(thread[t].job) /\ Status(thread[t].job) \in Waiting
  BY <1>3, TakenRow
<1>4. CASE \/ Publish(t) \/ PublishLost(t) \/ Flip(t) \/ Unsubmit(t)
           \/ \E b \in BOOLEAN : PublishThrows(t, b) \/ FlipThrows(t, b)
  BY <1>4, PublisherRows DEF Flipped
<1>5. CASE \/ Claim(t) \/ MarkCompleted(t) \/ ReadForMark(t) \/ MarkFailed(t)
           \/ MarkFailedThrows(t) \/ Ack(t) \/ LoseChannel(t) \/ Crash(t)
           \/ Requeue(t) \/ LetGo(t)
           \/ \E b \in BOOLEAN : ClaimThrows(t, b) \/ MarkCompletedThrows(t, b)
  BY <1>1, <1>2, <1>3, <1>5
     DEF Claim, MarkCompleted, ReadForMark, MarkFailed, MarkFailedThrows, Ack,
         Requeue, LetGo, LoseChannel, Crash, ClaimThrows, MarkCompletedThrows
<1> QED BY <1>4, <1>5 DEF Step, FaultyStep

(* Completed and cancelled are final, and a failed job starts again with no
   attempt spent: SettledStands of every behaviour. *)
THEOREM SettledJobsStand == JobSpec => SettledStands
<1> DEFINE Stands(j) ==
      /\ Status(j) \in {"completed", "cancelled"} => job'[j] = job[j]
      /\ Status(j) = "failed" =>
           \/ job'[j] = job[j]
           \/ job'[j].status = "pending" /\ job'[j].attempts = 0
<1>1. ASSUME JobTypeOK, [JobNext]_jobVars, NEW j \in Jobs
      PROVE  Stands(j)
  <2>1. CASE UNCHANGED job
    BY <2>1
  <2>2. ASSUME NEW t \in Threads, Step(t) \/ FaultyStep(t)
        PROVE  Stands(j)
    BY <1>1, <2>2, WorkerRows
  <2>3. ASSUME NEW t \in Threads, NEW k \in Jobs, Submit(t, k) \/ Retry(t, k)
        PROVE  Stands(j)
    BY <1>1, <2>3 DEF Submit, Retry, Set, JobTypeOK
  <2>4. ASSUME NEW t \in Threads, NEW k \in Jobs,
               SweepDue(t, k) \/ Deliver(t, k) \/ Reap(t, k)
        PROVE  UNCHANGED job
    BY <2>4 DEF SweepDue, Deliver, Reap
  <2>5. ASSUME NEW k \in Jobs,
               Cancel(k) \/ TimePasses(k) \/ Delay(k) \/ HandlerStops(k)
        PROVE  Stands(j)
    BY <1>1, <2>5 DEF Cancel, TimePasses, Delay, HandlerStops, Set, Waiting, JobTypeOK
  <2>6. CASE UNCHANGED jobVars
    BY <2>1, <2>6 DEF jobVars
  <2> QED BY <1>1, <2>1, <2>2, <2>3, <2>4, <2>5, <2>6 DEF JobNext, Turn
<1>2. JobTypeOK /\ [JobNext]_jobVars => \A j \in Jobs : Stands(j)
  BY <1>1
<1> QED BY <1>2, JobTyping, PTL DEF JobSpec, SettledStands

-----------------------------------------------------------------------------
(* One execution at a time *)

LEMMA RowFields ==
  ASSUME JobTypeOK, NEW j \in Jobs, NEW status
  PROVE  /\ Became(j, status) => /\ job'[j].status = status /\ ~job'[j].due
                                 /\ job'[j].attempts = job[j].attempts
         /\ Taken(j) => /\ job'[j].status = "running" /\ ~job'[j].due
                        /\ job'[j].attempts = job[j].attempts + 1
<1>1. job[j] \in Rows
  BY DEF JobTypeOK
<1>2. ASSUME Became(j, status)
      PROVE  /\ job'[j].status = status /\ ~job'[j].due
             /\ job'[j].attempts = job[j].attempts
  BY <1>1, <1>2 DEF Became, Rows
<1>3. ASSUME Taken(j)
      PROVE  /\ job'[j].status = "running" /\ ~job'[j].due
             /\ job'[j].attempts = job[j].attempts + 1
  BY <1>3 DEF Taken
<1> QED BY <1>2, <1>3

(* A step that begins nothing and reopens no row. *)
Keeps(u) ==
  /\ Executing(u)' => /\ Executing(u)
                      /\ thread'[u].job = thread[u].job
                      /\ thread'[u].late = thread[u].late
  /\ Reaping(u)' => /\ Reaping(u)
                    /\ thread'[u].job = thread[u].job
                    /\ thread'[u].late = thread[u].late

LEMMA Calm ==
  ASSUME JobTypeOK, Shape, Alone,
         \A u \in Threads : Keeps(u),
         \A j \in Jobs : job'[j] = job[j] \/ Flipped(j) \/ Ended(j),
         overran \subseteq overran', crossed \subseteq crossed'
  PROVE  Alone'
<1>1. ASSUME NEW j \in Jobs
      PROVE  \/ job'[j] = job[j]
             \/ /\ Status(j) \in Waiting \/ Status(j) = "running"
                /\ job'[j].status # "running"
                /\ Status(j) = "running" => job'[j].status \in {"completed", "cancelled"}
  <2>1. ASSUME Flipped(j)
        PROVE  /\ Status(j) \in Waiting /\ Status(j) # "running"
               /\ job'[j].status # "running"
    BY <2>1, RowFields DEF Flipped, Waiting
  <2>2. ASSUME Ended(j)
        PROVE  Status(j) = "running" /\ job'[j].status \in {"completed", "cancelled"}
    BY <2>2, RowFields DEF Ended
  <2> QED BY <2>1, <2>2
<1>2. \A j : Regular(j)' => Regular(j)
  BY DEF Regular
<1>3. \A u \in Threads : Executing(u) \/ Reaping(u) => thread[u].job \in Jobs
  BY DEF Shape, Executing, Reaping, Marking
<1>4. KeyInv'
  BY <1>1 DEF Alone, KeyInv, Status, Released, Waiting
<1>5. AliveInv'
  <2> SUFFICES ASSUME NEW u \in Threads, Executing(u)', Regular(thread[u].job)'
               PROVE  /\ ~thread'[u].late
                      /\ job'[thread'[u].job].status \in {"running", "cancelled", "completed"}
    BY DEF AliveInv, Status, Regular
  <2>1. /\ Executing(u) /\ thread'[u].job = thread[u].job
        /\ thread'[u].late = thread[u].late /\ thread[u].job \in Jobs
    BY <1>3 DEF Keeps
  <2>2. Regular(thread[u].job)
    BY <1>2, <2>1
  <2>3. ~thread[u].late /\ Status(thread[u].job) \in {"running", "cancelled", "completed"}
    BY <2>1, <2>2 DEF Alone, AliveInv
  <2> QED BY <1>1, <2>1, <2>3 DEF Waiting, Status
<1>6. DueInv'
  BY <1>1, <1>3 DEF Alone, DueInv, Keeps, Status
<1>7. ReapInv'
  BY <1>2, <1>3 DEF Alone, ReapInv, Keeps
<1>8. UniqueInv'
  BY <1>2 DEF Alone, UniqueInv, Keeps
<1> QED BY <1>4, <1>5, <1>6, <1>7, <1>8 DEF Alone

(* The thread that steps ends its execution, or goes on with it. *)
LEMMA Ends ==
  ASSUME JobTypeOK, NEW t \in Threads, End(t) \/ Finish(t)
  PROVE  \A u \in Threads : Keeps(u)
<1>1. thread \in [Threads -> Doings]
  BY DEF JobTypeOK
<1>2. ASSUME NEW u \in Threads, u # t
      PROVE  Keeps(u)
  <2>1. thread'[u] = thread[u]
    BY <1>1, <1>2 DEF End, Finish
  <2> QED BY <2>1 DEF Keeps, Executing, Reaping
<1>3. thread'[t].phase \notin {"execute"} \union Marking
  <2>1. CASE End(t)
    BY <1>1, <2>1 DEF End, Idle, Marking
  <2>2. CASE Finish(t)
    BY <1>1, <2>2 DEF Finish, Idle, Marking
  <2> QED BY <2>1, <2>2
<1>4. Keeps(t)
  BY <1>3 DEF Keeps, Executing, Reaping
<1> QED BY <1>2, <1>4

LEMMA GoesOn ==
  ASSUME JobTypeOK, NEW t \in Threads, NEW doing \in Doings,
         thread' = [thread EXCEPT ![t] = doing],
         \/ doing.phase \notin {"execute"} \union Marking
         \/ /\ thread[t].phase \in {"execute"} \union Marking
            /\ doing.kind = thread[t].kind /\ doing.job = thread[t].job
            /\ doing.late = thread[t].late
            /\ doing.phase = "execute" => thread[t].phase = "execute"
            /\ thread[t].phase = "execute" => thread[t].kind = "work"
  PROVE  \A u \in Threads : Keeps(u)
<1>1. thread'[t] = doing /\ \A u \in Threads : u # t => thread'[u] = thread[u]
  BY DEF JobTypeOK
<1>2. ASSUME NEW u \in Threads, u # t
      PROVE  Keeps(u)
  BY <1>1, <1>2 DEF Keeps, Executing, Reaping
<1>3. Keeps(t)
  BY <1>1 DEF Keeps, Executing, Reaping, Marking
<1> QED BY <1>2, <1>3

LEMMA GotoDoing ==
  ASSUME JobTypeOK, NEW t \in Threads, NEW phase \in Phases, Goto(t, phase)
  PROVE  /\ [thread[t] EXCEPT !.phase = phase] \in Doings
         /\ thread' = [thread EXCEPT ![t] = [thread[t] EXCEPT !.phase = phase]]
  BY DEF Goto, JobTypeOK, Doings

LEMMA PublishersAreCalm ==
  ASSUME JobTypeOK, Shape, NEW t \in Threads,
         \/ Publish(t) \/ PublishLost(t) \/ Flip(t) \/ Unsubmit(t)
         \/ \E b \in BOOLEAN : PublishThrows(t, b) \/ FlipThrows(t, b)
  PROVE  \A u \in Threads : Keeps(u)
<1>1. ASSUME NEW phase \in {"flip", "unsubmit"}, Goto(t, phase)
      PROVE  \A u \in Threads : Keeps(u)
  <2>1. phase \in Phases /\ phase \notin {"execute"} \union Marking
    BY DEF Phases, Marking
  <2> DEFINE doing == [thread[t] EXCEPT !.phase = phase]
  <2>2. doing.phase = phase
    BY DEF JobTypeOK, Doings
  <2>3. doing \in Doings /\ thread' = [thread EXCEPT ![t] = doing]
    BY <1>1, <2>1, GotoDoing
  <2> HIDE DEF doing
  <2> QED BY <2>1, <2>2, <2>3, GoesOn
<1> QED BY <1>1, Ends
        DEF Publish, PublishLost, Flip, Unsubmit, PublishThrows, FlipThrows, Recover

(* A claim of job j, by t or by one who has lost the answer. *)
LEMMA ClaimAlone ==
  ASSUME JobTypeOK, Shape, Alone, NEW t \in Threads, At(t, "claim"),
         Status(thread[t].job) \in Waiting, TakeRow(thread[t].job),
         NEW phase \in {"pause", "execute"},
         NEW doing, doing = [thread[t] EXCEPT !.phase = phase],
         BeginsExecution(t, doing), UNCHANGED <<overran, crossed>>
  PROVE  Alone'
<1> DEFINE j == thread[t].job
<1>1. thread \in [Threads -> Doings]
  BY DEF JobTypeOK
<1>2. /\ j \in Jobs /\ ~Executing(t) /\ ~Reaping(t)
      /\ thread[t].kind = "work"
  BY DEF Shape, At, Executing, Reaping, Marking
<1>3. /\ job'[j].status = "running" /\ ~job'[j].due
      /\ \A k \in Jobs : k # j => job'[k] = job[k]
  <2>1. Taken(j)
    BY <1>2 DEF TakeRow, Taken, JobTypeOK
  <2>2. \A k \in Jobs : k # j => job'[k] = job[k]
    BY DEF TakeRow, JobTypeOK
  <2> QED BY <1>2, <2>1, <2>2, RowFields
<1>5. ASSUME NEW u \in Threads, u # t
      PROVE  /\ Executing(u)' = Executing(u) /\ Reaping(u)' = Reaping(u)
             /\ thread'[u].job = thread[u].job
             /\ thread[u].job # j => thread'[u].late = thread[u].late
             /\ Reaping(u) /\ thread[u].job = j => thread'[u].late
  <2>1. CASE thread[u].job = j /\ thread[u].phase \in {"execute"} \union Marking
    <3>1. thread'[u] = [thread[u] EXCEPT !.late = TRUE]
      BY <1>5, <2>1 DEF BeginsExecution
    <3> QED BY <1>1, <2>1, <3>1 DEF Executing, Reaping, Doings
  <2>2. CASE ~(thread[u].job = j /\ thread[u].phase \in {"execute"} \union Marking)
    <3>1. thread'[u] = thread[u]
      BY <1>5, <2>2 DEF BeginsExecution
    <3> QED BY <2>2, <3>1 DEF Executing, Reaping
  <2> QED BY <2>1, <2>2
<1>6. /\ Reaping(t)' = FALSE
      /\ Executing(t)' => thread'[t].job = j /\ thread'[t].late = thread[t].late
  <2>1. thread'[t] = doing
    BY DEF BeginsExecution
  <2>2. /\ doing.phase = phase /\ doing.job = thread[t].job
        /\ doing.late = thread[t].late
    BY <1>1 DEF Doings
  <2> QED BY <2>1, <2>2 DEF Executing, Reaping, Marking
<1>7. ASSUME NEW u \in Threads, Executing(u), thread[u].job = j
      PROVE  ~Regular(j)
  BY <1>7 DEF Alone, AliveInv, Waiting
<1>8. \A u \in Threads : Executing(u) \/ Reaping(u) => thread[u].job \in Jobs
  BY DEF Shape, Executing, Reaping, Marking
<1>9. KeyInv'
  BY <1>2, <1>3 DEF Alone, KeyInv, Status, Released, Waiting
<1>10. AliveInv'
  <2> SUFFICES ASSUME NEW u \in Threads, Executing(u)', thread'[u].job \notin overran' \union crossed'
               PROVE  /\ ~thread'[u].late
                      /\ job'[thread'[u].job].status \in {"running", "cancelled", "completed"}
    BY DEF AliveInv, Status, Regular
  <2>1. CASE u = t
    <3>1. ~thread[t].late
      BY DEF Shape, At, Marking
    <3> QED BY <1>3, <1>6, <2>1, <3>1
  <2>2. CASE u # t
    <3>1. Executing(u) /\ thread'[u].job = thread[u].job /\ Regular(thread[u].job)
      BY <1>5, <2>2 DEF Regular
    <3>2. thread[u].job # j
      BY <1>7, <3>1
    <3>3. thread[u].job \in Jobs /\ thread'[u].late = thread[u].late
      BY <1>5, <1>8, <2>2, <3>1, <3>2
    <3> QED BY <1>3, <3>1, <3>2, <3>3 DEF Alone, AliveInv, Status
  <2> QED BY <2>1, <2>2
<1>11. DueInv'
  BY <1>3, <1>5, <1>6 DEF Alone, DueInv, Status
<1>12. ReapInv'
  <2> SUFFICES ASSUME NEW r \in Threads, NEW u \in Threads, Reaping(r)',
                      ~thread'[r].late, thread'[r].job \notin overran' \union crossed', Executing(u)',
                      thread'[u].job = thread'[r].job
               PROVE  FALSE
    BY DEF ReapInv, Regular
  <2>1. /\ r # t /\ Reaping(r) /\ thread'[r].job = thread[r].job
        /\ thread[r].job # j /\ ~thread[r].late
    BY <1>5, <1>6
  <2>2. u # t /\ Executing(u) /\ thread[u].job = thread[r].job
    BY <1>5, <1>6, <2>1
  <2>3. Regular(thread[r].job)
    BY <2>1 DEF Regular
  <2> QED BY <2>1, <2>2, <2>3 DEF Alone, ReapInv
<1>13. UniqueInv'
  <2> SUFFICES ASSUME NEW r \in Threads, NEW u \in Threads, Executing(r)',
                      Executing(u)', thread'[r].job = thread'[u].job,
                      thread'[r].job \notin overran' \union crossed'
               PROVE  r = u
    BY DEF UniqueInv, Regular
  <2>1. Regular(thread'[r].job) /\ Regular(thread'[u].job)
    BY DEF Regular
  <2>2. r # t => Executing(r) /\ thread'[r].job = thread[r].job /\ thread[r].job # j
    BY <1>5, <1>7, <2>1
  <2>3. u # t => Executing(u) /\ thread'[u].job = thread[u].job /\ thread[u].job # j
    BY <1>5, <1>7, <2>1
  <2>4. CASE r = t \/ u = t
    BY <1>6, <2>2, <2>3, <2>4
  <2>5. CASE r # t /\ u # t
    BY <2>1, <2>2, <2>3, <2>5 DEF Alone, UniqueInv
  <2> QED BY <2>4, <2>5
<1> QED BY <1>9, <1>10, <1>11, <1>12, <1>13 DEF Alone

(* A mark, whose thread is done.  One that reopens a regular job is the only
   execution of it, or a reaper of none. *)
LEMMA MarkAlone ==
  ASSUME JobTypeOK, Shape, Alone, NEW t \in Threads,
         NEW status \in {"completed", "failed", "pending"}, Mark(t, status),
         thread[t].phase \in {"execute"} \union Marking,
         \A u \in Threads : Keeps(u),
         status # "completed" => ~Executing(t)' /\ ~Reaping(t)',
         UNCHANGED overran
  PROVE  Alone'
<1> DEFINE j == thread[t].job
<1>1. j \in Jobs /\ (Executing(t) \/ Reaping(t))
  BY DEF Shape, Executing, Reaping, Marking
<1>2. crossed \subseteq crossed' /\ (Status(j) = "running" /\ thread[t].late => j \in crossed')
  BY DEF Mark
<1>3. CASE \A k \in Jobs : job'[k] = job[k]
  BY <1>2, <1>3, Calm
<1>4. CASE Status(j) = "running" /\ Became(j, status) /\ status = "completed"
  <2>1. \A k \in Jobs : job'[k] = job[k] \/ Ended(k)
    BY <1>4, MarkRow DEF Ended
  <2> QED BY <1>2, <2>1, Calm
<1>5. CASE Status(j) = "running" /\ Became(j, status) /\ status # "completed"
  <2>1. /\ job'[j].status = status
        /\ \A k \in Jobs : k # j => job'[k] = job[k]
    BY <1>1, <1>5, MarkRow, RowFields
  <2>2. ASSUME NEW u \in Threads, Executing(u)', thread'[u].job = j
        PROVE  j \in overran' \union crossed'
    <3>1. Executing(u) /\ thread[u].job = j /\ u # t
      BY <1>5, <2>2 DEF Keeps
    <3>2. CASE thread[t].late
      BY <1>2, <1>5, <3>2
    <3>3. CASE ~thread[t].late /\ Executing(t)
      BY <1>2, <3>1, <3>3 DEF Alone, UniqueInv, Regular
    <3>4. CASE ~thread[t].late /\ Reaping(t)
      BY <1>2, <3>1, <3>4 DEF Alone, ReapInv, Regular
    <3> QED BY <1>1, <3>2, <3>3, <3>4
  <2>3. \A u \in Threads : Executing(u) \/ Reaping(u) => thread[u].job \in Jobs
    BY DEF Shape, Executing, Reaping, Marking
  <2>4. KeyInv'
    BY <1>5, <2>1 DEF Alone, KeyInv, Status, Released
  <2>5. AliveInv'
    <3> SUFFICES ASSUME NEW u \in Threads, Executing(u)',
                        thread'[u].job \notin overran' \union crossed'
                 PROVE  /\ ~thread'[u].late
                        /\ job'[thread'[u].job].status \in {"running", "cancelled", "completed"}
      BY DEF AliveInv, Status, Regular
    <3>1. /\ Executing(u) /\ thread'[u].job = thread[u].job
          /\ thread'[u].late = thread[u].late /\ thread[u].job \in Jobs
          /\ thread[u].job # j
      BY <2>2, <2>3 DEF Keeps
    <3>2. Regular(thread[u].job)
      BY <1>2, <3>1 DEF Regular
    <3> QED BY <2>1, <3>1, <3>2 DEF Alone, AliveInv, Status
  <2>6. DueInv'
    BY <2>1, <2>3 DEF Alone, DueInv, Keeps, Status
  <2>7. ReapInv'
    BY <1>2 DEF Alone, ReapInv, Keeps, Regular
  <2>8. UniqueInv'
    BY <1>2 DEF Alone, UniqueInv, Keeps, Regular
  <2> QED BY <2>4, <2>5, <2>6, <2>7, <2>8 DEF Alone
<1>6. \/ \A k \in Jobs : job'[k] = job[k]
      \/ Status(j) = "running" /\ Became(j, status)
  BY MarkRow
<1> QED BY <1>3, <1>4, <1>5, <1>6

LEMMA FinishIdles ==
  ASSUME JobTypeOK, NEW t \in Threads, End(t) \/ Finish(t)
  PROVE  ~Executing(t)' /\ ~Reaping(t)'
<1>1. thread \in [Threads -> Doings]
  BY DEF JobTypeOK
<1>2. CASE End(t)
  BY <1>1, <1>2 DEF End, Idle, Executing, Reaping, Marking
<1>3. CASE Finish(t)
  BY <1>1, <1>3 DEF Finish, Idle, Executing, Reaping, Marking
<1> QED BY <1>2, <1>3

LEMMA WorkerAlone ==
  ASSUME JobTypeOK, Shape, Alone, NEW t \in Threads,
         \/ Claim(t) \/ MarkCompleted(t) \/ ReadForMark(t) \/ MarkFailed(t)
         \/ MarkFailedThrows(t) \/ Ack(t) \/ LoseChannel(t) \/ Crash(t)
         \/ Requeue(t) \/ LetGo(t)
         \/ \E b \in BOOLEAN : ClaimThrows(t, b) \/ MarkCompletedThrows(t, b)
  PROVE  Alone'
<1>1. /\ thread \in [Threads -> Doings]
      /\ thread[t].phase = "execute" => thread[t].kind = "work"
  BY DEF JobTypeOK, Shape
<1>2. ASSUME UNCHANGED <<job, overran, crossed>>, \A u \in Threads : Keeps(u)
      PROVE  Alone'
  BY <1>2, Calm
<1>3. CASE Claim(t)
  <2>1. CASE Status(thread[t].job) \in Waiting
    <3> DEFINE doing == [thread[t] EXCEPT !.phase = "execute"]
    <3>1. /\ At(t, "claim") /\ TakeRow(thread[t].job)
          /\ BeginsExecution(t, doing) /\ UNCHANGED <<overran, crossed>>
      BY <1>3, <2>1 DEF Claim
    <3> QED BY <2>1, <3>1, ClaimAlone
  <2>2. CASE Status(thread[t].job) \notin Waiting
    BY <1>2, <1>3, <2>2, Ends DEF Claim
  <2> QED BY <2>1, <2>2
<1>4. CASE MarkCompleted(t)
  BY <1>4, Ends, MarkAlone DEF MarkCompleted, At
<1>5. CASE ReadForMark(t)
  <2> DEFINE final == job[thread[t].job].attempts >= MaxAttempts
             doing == [thread[t] EXCEPT !.phase = "mark", !.final = final]
  <2>1. final \in BOOLEAN
    OBVIOUS
  <2>2. thread' = [thread EXCEPT ![t] = doing]
    BY <1>5 DEF ReadForMark
  <2> HIDE DEF final
  <2>3. doing \in Doings
    BY <1>1, <2>1, DoingTypes
  <2>4. /\ doing.kind = thread[t].kind /\ doing.job = thread[t].job
        /\ doing.late = thread[t].late /\ doing.phase = "mark"
    BY <1>1 DEF Doings
  <2>5. thread[t].phase \in {"execute"} \union Marking
    BY <1>5 DEF ReadForMark, Marking
  <2> HIDE DEF doing
  <2>6. \A u \in Threads : Keeps(u)
    BY <1>1, <2>2, <2>3, <2>4, <2>5, GoesOn
  <2> QED BY <1>2, <1>5, <2>6 DEF ReadForMark
<1>6. CASE MarkFailed(t)
  <2>1. PICK status \in {"failed", "pending"} : Mark(t, status)
    BY <1>6 DEF MarkFailed
  <2>2. Finish(t) /\ thread[t].phase \in {"execute"} \union Marking /\ UNCHANGED overran
    BY <1>6 DEF MarkFailed, At, Marking
  <2> QED BY <2>1, <2>2, Ends, FinishIdles, MarkAlone
<1>7. CASE MarkFailedThrows(t) \/ Ack(t) \/ Crash(t) \/ Requeue(t)
  BY <1>2, <1>7, Ends DEF MarkFailedThrows, Ack, Crash, Requeue
<1>8. CASE LoseChannel(t)
  <2> DEFINE doing == [thread[t] EXCEPT !.message = FALSE]
  <2>1. CASE End(t)
    BY <1>2, <1>8, <2>1, Ends DEF LoseChannel
  <2>2. CASE thread' = [thread EXCEPT ![t] = doing]
    <3>1. doing \in Doings
      BY <1>1, DoingTypes
    <3>2. /\ doing.kind = thread[t].kind /\ doing.job = thread[t].job
          /\ doing.late = thread[t].late /\ doing.phase = thread[t].phase
      BY <1>1 DEF Doings
    <3> HIDE DEF doing
    <3>3. \A u \in Threads : Keeps(u)
      BY <1>1, <2>2, <3>1, <3>2, GoesOn
    <3> QED BY <1>2, <1>8, <3>3 DEF LoseChannel
  <2>3. End(t) \/ thread' = [thread EXCEPT ![t] = doing]
    BY <1>8 DEF LoseChannel
  <2> QED BY <2>1, <2>2, <2>3
<1>9. ASSUME NEW b \in BOOLEAN, ClaimThrows(t, b)
      PROVE  Alone'
  <2>1. CASE b /\ Status(thread[t].job) \in Waiting
    <3>1. /\ At(t, "claim") /\ TakeRow(thread[t].job)
          /\ BeginsExecution(t, [thread[t] EXCEPT !.phase = "pause"])
          /\ UNCHANGED <<overran, crossed>>
      BY <1>9, <2>1 DEF ClaimThrows
    <3> QED BY <2>1, <3>1, ClaimAlone
  <2>2. CASE ~(b /\ Status(thread[t].job) \in Waiting)
    <3> DEFINE doing == [thread[t] EXCEPT !.phase = "pause"]
    <3>1. "pause" \in Phases /\ Goto(t, "pause")
      BY <1>9, <2>2 DEF ClaimThrows, Phases
    <3>2. doing \in Doings /\ thread' = [thread EXCEPT ![t] = doing]
      BY <3>1, GotoDoing
    <3>3. doing.phase \notin {"execute"} \union Marking
      BY <1>1 DEF Doings, Marking
    <3> HIDE DEF doing
    <3>4. \A u \in Threads : Keeps(u)
      BY <3>2, <3>3, GoesOn
    <3> QED BY <1>2, <1>9, <2>2, <3>4 DEF ClaimThrows
  <2> QED BY <2>1, <2>2
<1>11. ASSUME thread[t].phase = "execute", Goto(t, "fail")
       PROVE  \A u \in Threads : Keeps(u)
  <2> DEFINE doing == [thread[t] EXCEPT !.phase = "fail"]
  <2>2. "fail" \in Phases
    BY DEF Phases, Marking
  <2>3. doing \in Doings /\ thread' = [thread EXCEPT ![t] = doing]
    BY <1>11, <2>2, GotoDoing
  <2>4. /\ doing.kind = thread[t].kind /\ doing.job = thread[t].job
        /\ doing.late = thread[t].late /\ doing.phase = "fail"
    BY <1>1 DEF Doings
  <2> HIDE DEF doing
  <2> QED BY <1>1, <1>11, <2>3, <2>4, GoesOn
<1>10. ASSUME NEW b \in BOOLEAN, MarkCompletedThrows(t, b)
       PROVE  Alone'
  <2>1. thread[t].phase = "execute" /\ Goto(t, "fail")
    BY <1>10 DEF MarkCompletedThrows, At
  <2>5. \A u \in Threads : Keeps(u)
    BY <1>11, <2>1
  <2>6. CASE Mark(t, "completed") /\ UNCHANGED overran
    BY <2>1, <2>5, <2>6, MarkAlone
  <2>7. CASE UNCHANGED <<job, overran, crossed>>
    BY <1>2, <2>5, <2>7
  <2> QED BY <1>10, <2>6, <2>7 DEF MarkCompletedThrows
<1>12. CASE LetGo(t)
  BY <1>2, <1>11, <1>12 DEF LetGo, At
<1> QED BY <1>3, <1>4, <1>5, <1>6, <1>7, <1>8, <1>9, <1>10, <1>12

(* A row that no one executes is opened while the key is free. *)
LEMMA OpenAlone ==
  ASSUME JobTypeOK, Shape, Alone, NEW j \in Jobs, KeyFree,
         Status(j) \in {"none", "failed"},
         job'[j].status = "pending",
         \A k \in Jobs : k # j => job'[k] = job[k],
         \A u \in Threads : Keeps(u),
         UNCHANGED <<overran, crossed>>
  PROVE  Alone'
<1>1. \A u \in Threads : Executing(u) \/ Reaping(u) => thread[u].job \in Jobs
  BY DEF Shape, Executing, Reaping, Marking
<1>2. KeyInv'
  BY DEF KeyInv, KeyFree, Status
<1>3. AliveInv'
  <2> SUFFICES ASSUME NEW u \in Threads, Executing(u)',
                      thread'[u].job \notin overran' \union crossed'
               PROVE  /\ ~thread'[u].late
                      /\ job'[thread'[u].job].status \in {"running", "cancelled", "completed"}
    BY DEF AliveInv, Status, Regular
  <2>1. /\ Executing(u) /\ thread'[u].job = thread[u].job
        /\ thread'[u].late = thread[u].late /\ thread[u].job \in Jobs
        /\ Regular(thread[u].job)
    BY <1>1 DEF Keeps, Regular
  <2>2. ~thread[u].late /\ Status(thread[u].job) \in {"running", "cancelled", "completed"}
    BY <2>1 DEF Alone, AliveInv
  <2> QED BY <2>1, <2>2 DEF Status
<1>4. DueInv'
  BY <1>1 DEF Alone, DueInv, Keeps, Status
<1>5. ReapInv'
  BY DEF Alone, ReapInv, Keeps, Regular
<1>6. UniqueInv'
  BY DEF Alone, UniqueInv, Keeps, Regular
<1> QED BY <1>2, <1>3, <1>4, <1>5, <1>6 DEF Alone

LEMMA TurnAlone ==
  ASSUME JobTypeOK, Shape, Alone, NEW t \in Threads, NEW j \in Jobs, Turn(t, j)
  PROVE  Alone'
<1>1. /\ thread \in [Threads -> Doings] /\ job \in [Jobs -> Rows]
  BY DEF JobTypeOK
<1>2. ASSUME NEW kind, Begin(t, j, kind, "publish")
      PROVE  \A u \in Threads : Keeps(u)
  BY <1>1, <1>2 DEF Begin, Idle, Keeps, Executing, Reaping, Marking
<1>3. CASE Submit(t, j)
  <2>1. /\ KeyFree /\ Status(j) = "none"
        /\ job'[j].status = "pending" /\ \A k \in Jobs : k # j => job'[k] = job[k]
    BY <1>1, <1>3 DEF Submit, Set, Rows
  <2> QED BY <1>2, <1>3, <2>1, OpenAlone DEF Submit
<1>4. CASE Retry(t, j)
  <2>1. /\ KeyFree /\ Status(j) = "failed"
        /\ job'[j].status = "pending" /\ \A k \in Jobs : k # j => job'[k] = job[k]
    BY <1>1, <1>4 DEF Retry
  <2> QED BY <1>2, <1>4, <2>1, OpenAlone DEF Retry
<1>5. CASE SweepDue(t, j)
  BY <1>2, <1>5, Calm DEF SweepDue
<1>6. CASE Deliver(t, j)
  <2>1. \A u \in Threads : Keeps(u)
    BY <1>1, <1>6 DEF Deliver, Idle, Keeps, Executing, Reaping, Marking
  <2> QED BY <1>6, <2>1, Calm DEF Deliver
<1>7. CASE Reap(t, j)
  <2>1. /\ thread'[t].kind = "reap" /\ thread'[t].job = j
        /\ \A u \in Threads : u # t => thread'[u] = thread[u]
    BY <1>1, <1>7 DEF Reap, Begin, Idle
  <2>2. ~Executing(t)'
    BY <2>1 DEF Executing
  <2>3. \A u \in Threads : Executing(u)' => u # t /\ Executing(u) /\ thread'[u] = thread[u]
    BY <2>1, <2>2 DEF Executing
  <2>4. UNCHANGED <<job, overran, crossed>> /\ Status(j) = "running" /\ job[j].due
    BY <1>7 DEF Reap
  <2>5. (KeyInv /\ AliveInv /\ DueInv /\ UniqueInv)'
    BY <2>3, <2>4 DEF Alone, KeyInv, AliveInv, DueInv, UniqueInv, Regular, Status
  <2>6. ReapInv'
    <3> SUFFICES ASSUME NEW r \in Threads, NEW u \in Threads, Reaping(r)',
                        ~thread'[r].late, thread'[r].job \notin overran' \union crossed',
                        Executing(u)', thread'[u].job = thread'[r].job
                 PROVE  FALSE
      BY DEF ReapInv, Regular
    <3>1. Executing(u) /\ thread[u].job = thread'[r].job
      BY <2>3
    <3>2. CASE r = t
      BY <2>1, <2>4, <3>1, <3>2 DEF Alone, DueInv
    <3>3. CASE r # t
      BY <2>1, <2>4, <3>1, <3>3 DEF Alone, ReapInv, Reaping, Regular
    <3> QED BY <3>2, <3>3
  <2> QED BY <2>5, <2>6 DEF Alone
<1> QED BY <1>3, <1>4, <1>5, <1>6, <1>7 DEF Turn

LEMMA TimeAlone ==
  ASSUME JobTypeOK, Shape, Alone, NEW j \in Jobs, TimePasses(j) \/ Delay(j)
  PROVE  Alone'
<1>1. /\ UNCHANGED <<thread, crossed>> /\ overran \subseteq overran'
      /\ \A k \in Jobs : /\ job'[k].status = job[k].status
                         /\ k # j => job'[k] = job[k]
  BY DEF TimePasses, Delay, JobTypeOK, Rows
<1>2. Status(j) = "running" => ~Attended(j) \/ j \in overran'
  BY DEF TimePasses, Delay
<1>3. \A u \in Threads : Executing(u) => thread[u].job \in Jobs
  BY DEF Shape, Executing, Marking
<1>4. KeyInv'
  BY <1>1 DEF Alone, KeyInv, Status
<1>5. AliveInv'
  BY <1>1, <1>3 DEF Alone, AliveInv, Executing, Regular, Status
<1>6. DueInv'
  <2> SUFFICES ASSUME NEW k \in Jobs, NEW u \in Threads, job[k].status = "running",
                      job'[k].due, k \notin overran', Executing(u), thread[u].job = k
               PROVE  FALSE
    BY <1>1 DEF DueInv, Executing, Status
  <2>1. CASE k = j
    BY <1>2, <2>1 DEF Attended, Status
  <2>2. CASE k # j
    BY <1>1, <2>2 DEF Alone, DueInv, Status
  <2> QED BY <2>1, <2>2
<1>7. ReapInv' /\ UniqueInv'
  BY <1>1 DEF Alone, ReapInv, UniqueInv, Executing, Reaping, Regular
<1> QED BY <1>4, <1>5, <1>6, <1>7 DEF Alone

LEMMA AloneStep == JobTypeOK /\ Shape /\ Alone /\ [JobNext]_jobVars => Alone'
<1> SUFFICES ASSUME JobTypeOK, Shape, Alone, [JobNext]_jobVars PROVE Alone'
  OBVIOUS
<1>1. ASSUME NEW t \in Threads,
             \/ Publish(t) \/ PublishLost(t) \/ Flip(t) \/ Unsubmit(t)
             \/ \E b \in BOOLEAN : PublishThrows(t, b) \/ FlipThrows(t, b)
      PROVE  Alone'
  <2>1. UNCHANGED <<overran, crossed>>
    BY <1>1 DEF Publish, PublishLost, Flip, Unsubmit, PublishThrows, FlipThrows
  <2> QED BY <1>1, <2>1, PublishersAreCalm, PublisherRows, Calm
<1>2. ASSUME NEW t \in Threads, Step(t) \/ FaultyStep(t)
      PROVE  Alone'
  BY <1>1, <1>2, WorkerAlone DEF Step, FaultyStep
<1>3. ASSUME NEW k \in Jobs, Cancel(k)
      PROVE  Alone'
  <2>1. \A j \in Jobs : job'[j] = job[j] \/ Flipped(j) \/ Ended(j)
    <3>1. SetIf(k, Waiting \union {"running"}, "cancelled")
      BY <1>3 DEF Cancel, SetIf
    <3> QED BY <3>1, SetIfRow DEF Flipped, Ended
  <2>2. \A u \in Threads : Keeps(u)
    BY <1>3 DEF Cancel, Keeps, Executing, Reaping
  <2> QED BY <1>3, <2>1, <2>2, Calm DEF Cancel
<1>4. CASE UNCHANGED jobVars
  BY <1>4, Calm DEF jobVars, Keeps, Executing, Reaping
<1>5. ASSUME NEW k \in Jobs, HandlerStops(k)
      PROVE  Alone'
  BY <1>5, Calm DEF HandlerStops, Keeps, Executing, Reaping
<1> QED BY <1>2, <1>3, <1>4, <1>5, TurnAlone, TimeAlone DEF JobNext

(* At most one execution of a key is attended to at a time, but for the three
   excuses: OneExecution of every behaviour. *)
THEOREM OneExecutionAtATime == JobSpec => []OneExecution
<1>1. JobInit => JobTypeOK /\ Shape /\ Alone
  <2>1. JobInit => Shape /\ Alone
    BY DEF JobInit, Shape, Alone, KeyInv, AliveInv, DueInv, ReapInv, UniqueInv,
           Idle, Marking, Executing, Reaping, Released, Status
  <2> QED BY <2>1, TypeInit
<1>2. JobTypeOK /\ Shape /\ Alone /\ [JobNext]_jobVars => (JobTypeOK /\ Shape /\ Alone)'
  BY TypeStep, ShapeStep, ShapeBusy, AloneStep
<1>3. JobTypeOK /\ Shape /\ Alone => OneExecution
  <2> SUFFICES ASSUME Shape, Alone, NEW s \in Threads, NEW t \in Threads, s # t,
                      Executing(s), Executing(t), ~Excused(s), ~Excused(t)
               PROVE  FALSE
    BY DEF OneExecution
  <2>1. /\ thread[s].job \in Jobs /\ Status(thread[s].job) \notin Released
        /\ thread[t].job \in Jobs /\ Status(thread[t].job) \notin Released
    BY DEF Shape, Executing, Marking, Excused, Alone, AliveInv, Regular, Status, Released
  <2>2. thread[s].job = thread[t].job
    BY <2>1 DEF Alone, KeyInv
  <2> QED BY <2>2 DEF Alone, UniqueInv, Excused, Regular
<1> QED BY <1>1, <1>2, <1>3, PTL DEF JobSpec

-----------------------------------------------------------------------------
(* The budget of attempts *)

(* A row that may be claimed has an attempt left, and a mark that is going to
   park it has seen so. *)
Left(j) == job[j].attempts < MaxAttempts
Parking(t, j) == /\ thread[t].job = j /\ thread[t].phase = "mark"
                 /\ ~thread[t].late /\ ~thread[t].final

BudgetInv ==
  \A j \in Jobs : j \notin crossed =>
    /\ job[j].attempts <= MaxAttempts
    /\ Status(j) \in Waiting \union {"none"} => Left(j)
    /\ \A t \in Threads : Parking(t, j) => Left(j)

(* A step after which the same marks are about to park. *)
LEMMA CalmBudget ==
  ASSUME JobTypeOK, BudgetInv,
         \A j \in Jobs : /\ job'[j].attempts = job[j].attempts
                         /\ \/ job'[j].status \notin Waiting \union {"none"}
                            \/ Status(j) \in Waiting \union {"none"}
                            \/ j \in crossed'
                            \/ Left(j),
         \A t \in Threads, j \in Jobs : Parking(t, j)' => Parking(t, j),
         crossed \subseteq crossed'
  PROVE  BudgetInv'
  BY DEF BudgetInv, Left, Status

LEMMA RestIsCalm ==
  ASSUME JobTypeOK, NEW t \in Threads,
         \A u \in Threads : u # t => thread'[u] = thread[u],
         thread'[t].phase # "mark"
  PROVE  \A u \in Threads, j \in Jobs : Parking(u, j)' => Parking(u, j)
  BY DEF Parking

LEMMA BudgetStep ==
  JobTypeOK /\ Shape /\ BudgetInv /\ [JobNext]_jobVars => BudgetInv'
<1> SUFFICES ASSUME JobTypeOK, Shape, BudgetInv, [JobNext]_jobVars PROVE BudgetInv'
  OBVIOUS
<1>1. /\ thread \in [Threads -> Doings] /\ job \in [Jobs -> Rows]
  BY DEF JobTypeOK
<1>2. \A j \in Jobs : job[j].attempts \in Nat
  BY <1>1 DEF Rows
<1>3. ASSUME NEW t \in Threads, NEW phase,
             \/ End(t) \/ Finish(t)
             \/ phase # "mark" /\ Goto(t, phase)
             \/ \E j \in Jobs, kind \in Kinds : phase # "mark" /\ Begin(t, j, kind, phase)
             \/ \E j \in Jobs : Deliver(t, j)
      PROVE  \A u \in Threads, j \in Jobs : Parking(u, j)' => Parking(u, j)
  <2>1. \A u \in Threads : u # t => thread'[u] = thread[u]
    BY <1>1, <1>3 DEF End, Finish, Goto, Begin, Deliver
  <2>2. thread'[t].phase # "mark"
    <3>1. CASE End(t) \/ Finish(t)
      <4>1. CASE End(t)
        BY <1>1, <4>1 DEF End, Idle
      <4>2. CASE Finish(t)
        BY <1>1, <4>2 DEF Finish, Idle
      <4> QED BY <3>1, <4>1, <4>2
    <3>2. CASE phase # "mark" /\ Goto(t, phase)
      BY <1>1, <3>2 DEF Goto, Doings
    <3>3. ASSUME NEW j \in Jobs, NEW kind \in Kinds, phase # "mark", Begin(t, j, kind, phase)
          PROVE  thread'[t].phase # "mark"
      BY <1>1, <3>3 DEF Begin, Idle
    <3>4. ASSUME NEW j \in Jobs, Deliver(t, j)
          PROVE  thread'[t].phase # "mark"
      BY <1>1, <3>4 DEF Deliver, Idle
    <3> QED BY <1>3, <3>1, <3>2, <3>3, <3>4
  <2> QED BY <2>1, <2>2, RestIsCalm
<1>4. ASSUME UNCHANGED <<job, crossed>>,
             \A u \in Threads, j \in Jobs : Parking(u, j)' => Parking(u, j)
      PROVE  BudgetInv'
  BY <1>4 DEF BudgetInv, Left, Status
<1>5. ASSUME NEW t \in Threads,
             \/ Publish(t) \/ PublishLost(t) \/ Flip(t) \/ Unsubmit(t)
             \/ \E b \in BOOLEAN : PublishThrows(t, b) \/ FlipThrows(t, b)
      PROVE  BudgetInv'
  <2>1. \A u \in Threads, j \in Jobs : Parking(u, j)' => Parking(u, j)
    BY <1>3, <1>5 DEF Publish, PublishLost, Flip, Unsubmit, PublishThrows, FlipThrows, Recover
  <2>2. \A j \in Jobs : /\ job'[j].attempts = job[j].attempts
                        /\ job'[j].status # Status(j) => Status(j) \in Waiting
    BY <1>5, PublisherRows, RowFields DEF Flipped, Status
  <2>3. UNCHANGED crossed
    BY <1>5 DEF Publish, PublishLost, Flip, Unsubmit, PublishThrows, FlipThrows
  <2> QED BY <2>1, <2>2, <2>3, CalmBudget
<1>6. ASSUME NEW t \in Threads, At(t, "claim"), Status(thread[t].job) \in Waiting,
             TakeRow(thread[t].job), UNCHANGED crossed,
             NEW doing, doing.phase # "mark", BeginsExecution(t, doing)
      PROVE  BudgetInv'
  <2> DEFINE j == thread[t].job
  <2>1. j \in Jobs
    BY <1>6 DEF Shape, At
  <2>2. /\ job'[j].status = "running" /\ job'[j].attempts = job[j].attempts + 1
        /\ \A k \in Jobs : k # j => job'[k] = job[k]
    BY <1>1, <1>6, <2>1 DEF TakeRow
  <2>3. \A u \in Threads, k \in Jobs : Parking(u, k)' => Parking(u, k) /\ k # j
    <3> SUFFICES ASSUME NEW u \in Threads, NEW k \in Jobs, Parking(u, k)'
                 PROVE  Parking(u, k) /\ k # j
      OBVIOUS
    <3>1. u # t
      BY <1>6 DEF BeginsExecution, Parking
    <3>2. CASE thread[u].job = j /\ thread[u].phase \in {"execute"} \union Marking
      <4>1. thread'[u].late
        BY <1>1, <1>6, <3>1, <3>2 DEF BeginsExecution, Doings
      <4> QED BY <4>1 DEF Parking
    <3>3. CASE ~(thread[u].job = j /\ thread[u].phase \in {"execute"} \union Marking)
      <4>1. thread'[u] = thread[u]
        BY <1>6, <3>1, <3>3 DEF BeginsExecution
      <4> QED BY <3>3, <4>1 DEF Parking, Marking
    <3> QED BY <3>2, <3>3
  <2>4. \A k \in Jobs : k \notin crossed /\ k = j => job[k].attempts + 1 <= MaxAttempts
    BY <1>2, <1>6, LimitsAssumption DEF BudgetInv, Left
  <2>5. ASSUME NEW k \in Jobs, k \notin crossed
        PROVE  /\ job'[k].attempts <= MaxAttempts
               /\ job'[k].status \in Waiting \union {"none"} => job'[k].attempts < MaxAttempts
               /\ \A u \in Threads : Parking(u, k)' => job'[k].attempts < MaxAttempts
    <3>1. CASE k = j
      BY <2>2, <2>3, <2>4, <2>5, <3>1 DEF Waiting
    <3>2. CASE k # j
      BY <2>2, <2>3, <2>5, <3>2 DEF BudgetInv, Left, Status
    <3> QED BY <3>1, <3>2
  <2> QED BY <1>6, <2>5 DEF BudgetInv, Left, Status
<1>7. ASSUME NEW t \in Threads, NEW status \in {"completed", "failed"}, Mark(t, status),
             \A u \in Threads, j \in Jobs : Parking(u, j)' => Parking(u, j)
      PROVE  BudgetInv'
  <2>1. crossed \subseteq crossed'
    BY <1>7 DEF Mark
  <2>2. \A j \in Jobs : /\ job'[j].attempts = job[j].attempts
                        /\ \/ job'[j].status \notin Waiting \union {"none"}
                           \/ Status(j) \in Waiting \union {"none"}
    BY <1>7, MarkRow, RowFields DEF Waiting, Status
  <2> QED BY <1>7, <2>1, <2>2, CalmBudget
<1>8. ASSUME NEW t \in Threads, MarkFailed(t), ~thread[t].final
      PROVE  BudgetInv'
  <2>1. Mark(t, "pending") /\ Finish(t) /\ thread[t].phase = "mark"
    BY <1>8 DEF MarkFailed, At
  <2>2. /\ crossed \subseteq crossed'
        /\ Status(thread[t].job) = "running" /\ thread[t].late => thread[t].job \in crossed'
    BY <2>1 DEF Mark
  <2>3. ASSUME NEW j \in Jobs
        PROVE  /\ job'[j].attempts = job[j].attempts
               /\ \/ job'[j].status \notin Waiting \union {"none"}
                  \/ Status(j) \in Waiting \union {"none"}
                  \/ j \in crossed'
                  \/ Left(j)
    <3>1. CASE job'[j] = job[j]
      BY <3>1 DEF Status
    <3>2. CASE j = thread[t].job /\ Status(j) = "running" /\ Became(j, "pending")
      <4>1. job'[j].attempts = job[j].attempts
        BY <3>2, RowFields
      <4>2. CASE thread[t].late
        BY <2>2, <3>2, <4>1, <4>2
      <4>3. CASE ~thread[t].late
        <5>1. Parking(t, j)
          BY <1>8, <2>1, <3>2, <4>3 DEF Parking
        <5> QED BY <2>2, <4>1, <5>1 DEF BudgetInv
      <4> QED BY <4>2, <4>3
    <3> QED BY <2>1, <3>1, <3>2, MarkRow
  <2> QED BY <1>3, <2>1, <2>2, <2>3, CalmBudget
<1>9. ASSUME NEW t \in Threads, ReadForMark(t)
      PROVE  BudgetInv'
  <2>1. /\ UNCHANGED <<job, crossed>>
        /\ \A u \in Threads : u # t => thread'[u] = thread[u]
        /\ thread'[t].job = thread[t].job /\ thread[t].job \in Jobs
        /\ thread'[t].final = (job[thread[t].job].attempts >= MaxAttempts)
    BY <1>1, <1>9 DEF ReadForMark, Doings, Shape
  <2> DEFINE spent == job[thread[t].job].attempts >= MaxAttempts
  <2>4. ~spent => Left(thread[t].job)
    BY <1>2, <2>1, LimitsAssumption DEF Left
  <2> HIDE DEF spent
  <2>2. \A j \in Jobs : Parking(t, j)' => Left(j)
    <3>1. thread'[t].final = spent
      BY <2>1 DEF spent
    <3> QED BY <2>1, <2>4, <3>1 DEF Parking
  <2>3. \A u \in Threads, j \in Jobs : Parking(u, j)' => Parking(u, j) \/ Left(j)
    BY <2>1, <2>2 DEF Parking
  <2> QED BY <2>1, <2>3 DEF BudgetInv, Left, Status
<1>10. ASSUME NEW t \in Threads,
              \/ Claim(t) \/ MarkCompleted(t) \/ MarkFailed(t)
              \/ MarkFailedThrows(t) \/ Ack(t) \/ LoseChannel(t) \/ Crash(t)
              \/ Requeue(t) \/ LetGo(t)
              \/ \E b \in BOOLEAN : ClaimThrows(t, b) \/ MarkCompletedThrows(t, b)
       PROVE  BudgetInv'
  <2>1. CASE Claim(t)
    <3>1. [thread[t] EXCEPT !.phase = "execute"].phase # "mark"
      BY <1>1 DEF Doings
    <3>2. CASE Status(thread[t].job) \in Waiting
      BY <1>6, <2>1, <3>1, <3>2 DEF Claim
    <3>3. CASE Status(thread[t].job) \notin Waiting
      BY <1>3, <1>4, <2>1, <3>3 DEF Claim
    <3> QED BY <3>2, <3>3
  <2>2. CASE MarkCompleted(t)
    BY <1>3, <1>7, <2>2 DEF MarkCompleted
  <2>3. CASE MarkFailed(t)
    <3>1. CASE thread[t].final
      BY <1>3, <1>7, <2>3, <3>1 DEF MarkFailed
    <3> QED BY <1>8, <2>3, <3>1
  <2>4. CASE MarkFailedThrows(t) \/ Ack(t) \/ Crash(t) \/ Requeue(t) \/ LetGo(t)
    BY <1>3, <1>4, <2>4 DEF MarkFailedThrows, Ack, Crash, Requeue, LetGo
  <2>5. CASE LoseChannel(t)
    <3>1. CASE End(t)
      BY <1>3, <1>4, <2>5, <3>1 DEF LoseChannel
    <3>2. CASE thread' = [thread EXCEPT ![t] = [thread[t] EXCEPT !.message = FALSE]]
      <4>1. \A u \in Threads : /\ thread'[u].phase = thread[u].phase
                               /\ thread'[u].job = thread[u].job
                               /\ thread'[u].late = thread[u].late
                               /\ thread'[u].final = thread[u].final
        BY <1>1, <3>2 DEF Doings
      <4> QED BY <1>4, <2>5, <4>1 DEF LoseChannel, Parking
    <3> QED BY <2>5, <3>1, <3>2 DEF LoseChannel
  <2>6. ASSUME NEW b \in BOOLEAN, ClaimThrows(t, b)
        PROVE  BudgetInv'
    <3>1. [thread[t] EXCEPT !.phase = "pause"].phase # "mark"
      BY <1>1 DEF Doings
    <3>2. CASE b /\ Status(thread[t].job) \in Waiting
      BY <1>6, <2>6, <3>1, <3>2 DEF ClaimThrows
    <3>3. CASE ~(b /\ Status(thread[t].job) \in Waiting)
      BY <1>3, <1>4, <2>6, <3>3 DEF ClaimThrows
    <3> QED BY <3>2, <3>3
  <2>7. ASSUME NEW b \in BOOLEAN, MarkCompletedThrows(t, b)
        PROVE  BudgetInv'
    BY <1>3, <1>4, <1>7, <2>7 DEF MarkCompletedThrows
  <2> QED BY <1>10, <2>1, <2>2, <2>3, <2>4, <2>5, <2>6, <2>7
<1>11. ASSUME NEW t \in Threads, NEW j \in Jobs, Turn(t, j)
       PROVE  BudgetInv'
  <2>1. \A u \in Threads, k \in Jobs : Parking(u, k)' => Parking(u, k)
    <3>1. /\ "publish" # "mark" /\ "fail" # "mark"
          /\ {"submit", "retry", "sweep", "reap"} \subseteq Kinds
      BY DEF Kinds, Publishing
    <3> QED BY <1>3, <1>11, <3>1 DEF Turn, Submit, Retry, SweepDue, Reap
  <2>2. CASE Submit(t, j)
    <3>1. /\ \A k \in Jobs : /\ job'[k].attempts = job[k].attempts
                             /\ k # j => job'[k] = job[k]
          /\ Status(j) = "none" /\ UNCHANGED crossed
      BY <1>1, <2>2 DEF Submit, Set, Rows
    <3>2. \A k \in Jobs : \/ job'[k].status \notin Waiting \union {"none"}
                         \/ Status(k) \in Waiting \union {"none"}
      <4> TAKE k \in Jobs
      <4>2. CASE k = j
        <5>1. Status(k) = "none"
          BY <3>1, <4>2
        <5> QED BY <5>1
      <4>3. CASE k # j
        BY <3>1, <4>3 DEF Status
      <4> QED BY <4>2, <4>3
    <3>3. \A k \in Jobs : /\ job'[k].attempts = job[k].attempts
                         /\ \/ job'[k].status \notin Waiting \union {"none"}
                            \/ Status(k) \in Waiting \union {"none"}
                            \/ k \in crossed'
                            \/ Left(k)
      <4> TAKE k \in Jobs
      <4>2. job'[k].attempts = job[k].attempts
        BY <3>1
      <4> QED BY <3>2, <4>2
    <3>4. crossed \subseteq crossed'
      BY <3>1
    <3> QED BY <2>1, <3>3, <3>4, CalmBudget
  <2>3. CASE Retry(t, j)
    <3>1. /\ job'[j].attempts = 0 /\ UNCHANGED crossed
          /\ \A k \in Jobs : k # j => job'[k] = job[k]
      BY <1>1, <2>3 DEF Retry
    <3> QED BY <2>1, <3>1, LimitsAssumption DEF BudgetInv, Left, Status
  <2>4. CASE SweepDue(t, j) \/ Deliver(t, j) \/ Reap(t, j)
    BY <1>4, <2>1, <2>4 DEF SweepDue, Deliver, Reap
  <2> QED BY <1>11, <2>2, <2>3, <2>4 DEF Turn
<1>12. ASSUME NEW j \in Jobs, Cancel(j) \/ TimePasses(j) \/ Delay(j) \/ HandlerStops(j)
       PROVE  BudgetInv'
  <2>1. UNCHANGED <<thread, crossed>>
    BY <1>12 DEF Cancel, TimePasses, Delay, HandlerStops
  <2>2. \A k \in Jobs : /\ job'[k].attempts = job[k].attempts
                        /\ job'[k].status \in {Status(k), "cancelled"}
    BY <1>1, <1>12 DEF Cancel, TimePasses, Delay, HandlerStops, Set, Rows, Status
  <2> QED BY <2>1, <2>2, CalmBudget DEF Parking, Waiting
<1>13. CASE UNCHANGED jobVars
  BY <1>4, <1>13 DEF jobVars, Parking
<1> QED BY <1>5, <1>9, <1>10, <1>11, <1>12, <1>13 DEF JobNext, Step, FaultyStep

(* Only a mark that crossed into a later execution takes a job past
   max_attempts: AttemptsAreBudgeted of every behaviour. *)
THEOREM AttemptsRunOut == JobSpec => []AttemptsAreBudgeted
<1>1. JobInit => JobTypeOK /\ Shape /\ BudgetInv
  <2>1. JobInit => Shape /\ BudgetInv
    BY LimitsAssumption
       DEF JobInit, Shape, BudgetInv, Left, Parking, Idle, Marking, Waiting, Status
  <2> QED BY <2>1, TypeInit
<1>2. JobTypeOK /\ Shape /\ BudgetInv /\ [JobNext]_jobVars
        => (JobTypeOK /\ Shape /\ BudgetInv)'
  BY TypeStep, ShapeStep, ShapeBusy, BudgetStep
<1>3. JobTypeOK /\ Shape /\ BudgetInv => AttemptsAreBudgeted
  BY LimitsAssumption DEF JobTypeOK, Rows, BudgetInv, AttemptsAreBudgeted
<1> QED BY <1>1, <1>2, <1>3, PTL DEF JobSpec

-----------------------------------------------------------------------------
(* The handlers at work *)

LEMMA AttendingIsFinite ==
  ASSUME NEW j
  PROVE  IsFiniteSet(Attending(j)) /\ Cardinality(Attending(j)) \in Nat
<1>1. Attending(j) \subseteq Threads
  BY DEF Attending
<1> QED BY <1>1, ThreadsAssumption, FS_Subset, FS_CardinalityType

(* A thread goes, or comes. *)
LEMMA OneFewer ==
  ASSUME NEW j, NEW t \in Attending(j), Attending(j)' = Attending(j) \ {t}
  PROVE  Cardinality(Attending(j)') = Cardinality(Attending(j)) - 1
  BY AttendingIsFinite, FS_RemoveElement

LEMMA OneMore ==
  ASSUME NEW j, NEW t, Attending(j)' = Attending(j) \union {t}
  PROVE  Cardinality(Attending(j)') <= Cardinality(Attending(j)) + 1
<1>1. \/ Cardinality(Attending(j)') = Cardinality(Attending(j)) + 1
      \/ Cardinality(Attending(j)') = Cardinality(Attending(j))
  BY AttendingIsFinite, FS_AddElement
<1> QED BY <1>1, AttendingIsFinite

(* A step after which no handler of j is at work that was not, and no attempt
   of j is taken back. *)
LEMMA NoneBegins ==
  ASSUME JobTypeOK, JobTypeOK', NEW j \in Jobs,
         Attending(j)' \subseteq Attending(j), adrift'[j] <= adrift[j],
         job'[j].attempts >= job[j].attempts, AtWork(j) <= job[j].attempts
  PROVE  AtWork(j)' <= job'[j].attempts
<1>1. Cardinality(Attending(j)') <= Cardinality(Attending(j))
  BY AttendingIsFinite, FS_Subset
<1>2. Cardinality(Attending(j)') \in Nat
  <2>1. IsFiniteSet(Attending(j)')
    BY AttendingIsFinite, FS_Subset
  <2> QED BY <2>1, FS_CardinalityType
<1>3. /\ adrift[j] \in Nat /\ adrift'[j] \in Nat
      /\ job[j].attempts \in Nat /\ job'[j].attempts \in Nat
  BY DEF JobTypeOK, Rows
<1> QED BY <1>1, <1>2, <1>3, AttendingIsFinite DEF AtWork

(* Who goes on with, or turns to, something else does not begin to attend. *)
LEMMA GoesOnAttending ==
  ASSUME JobTypeOK, Shape, NEW t \in Threads,
         Step(t) \/ FaultyStep(t) \/ \E k \in Jobs : Turn(t, k),
         thread'[t].phase = "execute"
           => thread[t].phase = "execute" /\ thread'[t].job = thread[t].job,
         NEW j
  PROVE  Attending(j)' \subseteq Attending(j)
<1> SUFFICES ASSUME NEW u \in Threads, thread'[u].phase = "execute", thread'[u].job = j
             PROVE  thread[u].phase = "execute" /\ thread[u].job = j
  BY DEF Attending
<1>1. CASE u = t
  BY <1>1
<1>2. CASE u # t
  <2>1. \/ thread'[u] = thread[u]
        \/ /\ thread[u].phase \in {"execute"} \union Marking
           /\ thread'[u] = [thread[u] EXCEPT !.late = TRUE]
    BY <1>2, OtherThreads
  <2> QED BY <2>1 DEF JobTypeOK, Doings
<1> QED BY <1>1, <1>2

LEMMA EndsElsewhere ==
  ASSUME JobTypeOK, NEW t \in Threads, NEW phase, phase # "execute",
         \/ End(t) \/ Finish(t) \/ Goto(t, phase)
         \/ \E j \in Jobs, kind \in Kinds : Begin(t, j, kind, phase)
         \/ \E j \in Jobs : Deliver(t, j)
  PROVE  thread'[t].phase # "execute"
<1>1. thread \in [Threads -> Doings]
  BY DEF JobTypeOK
<1>2. CASE End(t)
  BY <1>1, <1>2 DEF End, Idle
<1>3. CASE Finish(t)
  BY <1>1, <1>3 DEF Finish, Idle
<1>4. CASE Goto(t, phase)
  BY <1>1, <1>4 DEF Goto, Doings
<1>5. ASSUME NEW j \in Jobs, NEW kind \in Kinds, Begin(t, j, kind, phase)
      PROVE  thread'[t].phase # "execute"
  BY <1>1, <1>5 DEF Begin, Idle
<1>6. ASSUME NEW j \in Jobs, Deliver(t, j)
      PROVE  thread'[t].phase # "execute"
  BY <1>1, <1>6 DEF Deliver, Idle
<1> QED BY <1>2, <1>3, <1>4, <1>5, <1>6

LEMMA MarkKeepsAttempts ==
  ASSUME JobTypeOK, NEW t \in Threads, NEW status, Mark(t, status), NEW j \in Jobs
  PROVE  job'[j].attempts = job[j].attempts
  BY MarkRow, RowFields

(* The claims of job k, whether t learns of them or not. *)
LEMMA ClaimCounts ==
  ASSUME JobTypeOK, JobTypeOK', Shape, NEW t \in Threads,
         Claim(t) \/ \E b \in BOOLEAN : ClaimThrows(t, b),
         NEW j \in Jobs, AtWork(j) <= job[j].attempts
  PROVE  AtWork(j)' <= job'[j].attempts
<1> DEFINE k == thread[t].job
<1>1. /\ thread \in [Threads -> Doings] /\ UNCHANGED adrift
      /\ thread[t].phase = "claim" /\ k \in Jobs
  BY DEF JobTypeOK, Claim, ClaimThrows, At, Shape
<1>2. CASE UNCHANGED job
  <2>1. thread'[t].phase # "execute"
    <3>1. Finish(t) \/ Goto(t, "pause")
      BY <1>1, <1>2 DEF Claim, ClaimThrows, TakeRow, Waiting, JobTypeOK, Rows, Status
    <3> QED BY <3>1, EndsElsewhere
  <2>2. Attending(j)' \subseteq Attending(j)
    BY <2>1, GoesOnAttending DEF Step, FaultyStep
  <2> QED BY <1>1, <1>2, <2>2, NoneBegins DEF JobTypeOK, Rows
<1>3. CASE TakeRow(k) /\ \E phase \in {"execute", "pause"} :
                            BeginsExecution(t, [thread[t] EXCEPT !.phase = phase])
  <2>1. PICK phase \in {"execute", "pause"} :
          BeginsExecution(t, [thread[t] EXCEPT !.phase = phase])
    BY <1>3
  <2>2. thread'[t].job = k
    BY <1>1, <2>1 DEF BeginsExecution, Doings
  <2>3. \A u \in Threads : u # t => /\ thread'[u].phase = thread[u].phase
                                    /\ thread'[u].job = thread[u].job
    BY <1>1, <2>1 DEF BeginsExecution, Doings
  <2>4. job'[j].attempts = IF j = k THEN job[j].attempts + 1 ELSE job[j].attempts
    BY <1>3 DEF TakeRow, JobTypeOK
  <2>5. /\ adrift[j] \in Nat /\ job[j].attempts \in Nat
    BY DEF JobTypeOK, Rows
  <2>6. CASE j # k
    <3>1. Attending(j)' \subseteq Attending(j)
      BY <2>2, <2>3, <2>6 DEF Attending
    <3> QED BY <1>1, <2>4, <2>5, <2>6, <3>1, NoneBegins
  <2>7. CASE j = k
    <3>1. CASE thread'[t].phase = "execute"
      <4>1. Attending(j)' = Attending(j) \union {t}
        BY <2>2, <2>3, <2>7, <3>1 DEF Attending
      <4>2. Cardinality(Attending(j)') <= Cardinality(Attending(j)) + 1
        BY <4>1, OneMore
      <4>3. Cardinality(Attending(j)') \in Nat
        BY <4>1, AttendingIsFinite, FS_AddElement, FS_CardinalityType
      <4> QED BY <1>1, <2>4, <2>5, <2>7, <4>2, <4>3, AttendingIsFinite DEF AtWork
    <3>2. CASE thread'[t].phase # "execute"
      <4>1. Attending(j)' \subseteq Attending(j)
        BY <2>3, <3>2 DEF Attending
      <4> QED BY <1>1, <2>4, <2>5, <2>7, <4>1, NoneBegins
    <3> QED BY <3>1, <3>2
  <2> QED BY <2>6, <2>7
<1> QED BY <1>2, <1>3 DEF Claim, ClaimThrows

LEMMA LetGoCounts ==
  ASSUME JobTypeOK, JobTypeOK', Shape, NEW t \in Threads, LetGo(t),
         NEW j \in Jobs, AtWork(j) <= job[j].attempts
  PROVE  AtWork(j)' <= job'[j].attempts
<1> DEFINE k == thread[t].job
<1>1. /\ thread \in [Threads -> Doings] /\ UNCHANGED job
      /\ thread[t].phase = "execute" /\ k \in Jobs
      /\ thread' = [thread EXCEPT ![t].phase = "fail"]
      /\ adrift' = [adrift EXCEPT ![k] = @ + 1]
  BY DEF JobTypeOK, LetGo, At, Goto, Shape
<1>2. /\ thread'[t].phase = "fail" /\ thread'[t].job = k
      /\ \A u \in Threads : u # t => thread'[u] = thread[u]
  BY <1>1 DEF Doings
<1>3. CASE j = k
  <2>1. t \in Attending(j) /\ Attending(j)' = Attending(j) \ {t}
    BY <1>1, <1>2, <1>3 DEF Attending
  <2>2. Cardinality(Attending(j)') = Cardinality(Attending(j)) - 1
    BY <2>1, OneFewer
  <2>3. adrift'[j] = adrift[j] + 1 /\ adrift[j] \in Nat
    BY <1>1, <1>3 DEF JobTypeOK
  <2> QED BY <1>1, <2>2, <2>3, AttendingIsFinite DEF AtWork
<1>4. CASE j # k
  <2>1. Attending(j)' \subseteq Attending(j)
    BY <1>2, <1>4 DEF Attending
  <2> QED BY <1>1, <1>4, <2>1, NoneBegins DEF JobTypeOK, Rows
<1> QED BY <1>3, <1>4

LEMMA CountStep ==
  JobTypeOK /\ JobTypeOK' /\ Shape /\ HandlersAreCounted /\ [JobNext]_jobVars
    => HandlersAreCounted'
<1> SUFFICES ASSUME JobTypeOK, JobTypeOK', Shape, HandlersAreCounted, [JobNext]_jobVars,
                    NEW j \in Jobs, j \notin retried'
             PROVE  AtWork(j)' <= job'[j].attempts
  BY DEF HandlersAreCounted
<1>1. /\ thread \in [Threads -> Doings] /\ job \in [Jobs -> Rows]
      /\ adrift[j] \in Nat /\ job[j].attempts \in Nat
  BY DEF JobTypeOK, Rows
<1>2. ASSUME j \notin retried, UNCHANGED adrift, Attending(j)' \subseteq Attending(j),
             job'[j].attempts = job[j].attempts
      PROVE  AtWork(j)' <= job'[j].attempts
  BY <1>1, <1>2, NoneBegins DEF HandlersAreCounted
<1>3. ASSUME NEW t \in Threads,
             \/ Publish(t) \/ PublishLost(t) \/ Flip(t) \/ Unsubmit(t)
             \/ \E b \in BOOLEAN : PublishThrows(t, b) \/ FlipThrows(t, b)
      PROVE  AtWork(j)' <= job'[j].attempts
  <2>1. UNCHANGED <<adrift, retried>>
    BY <1>3 DEF Publish, PublishLost, Flip, Unsubmit, PublishThrows, FlipThrows
  <2>2. End(t) \/ Goto(t, "flip") \/ Goto(t, "unsubmit")
    BY <1>3 DEF Publish, PublishLost, Flip, Unsubmit, PublishThrows, FlipThrows, Recover
  <2>3. thread'[t].phase # "execute"
    BY <2>2, EndsElsewhere
  <2>4. Attending(j)' \subseteq Attending(j)
    BY <1>3, <2>3, GoesOnAttending DEF Step, FaultyStep
  <2>5. job'[j].attempts = job[j].attempts
    BY <1>3, PublisherRows, RowFields DEF Flipped
  <2> QED BY <1>2, <2>1, <2>4, <2>5
<1>4. ASSUME NEW t \in Threads,
             \/ MarkCompleted(t) \/ ReadForMark(t) \/ MarkFailed(t)
             \/ MarkFailedThrows(t) \/ Ack(t) \/ LoseChannel(t) \/ Crash(t)
             \/ Requeue(t) \/ \E b \in BOOLEAN : MarkCompletedThrows(t, b)
      PROVE  AtWork(j)' <= job'[j].attempts
  <2>1. UNCHANGED <<adrift, retried>>
    BY <1>4 DEF MarkCompleted, ReadForMark, MarkFailed, MarkFailedThrows, Ack,
                LoseChannel, Crash, Requeue, MarkCompletedThrows
  <2>2. \/ End(t) \/ Finish(t) \/ Goto(t, "fail") \/ ReadForMark(t)
        \/ thread' = [thread EXCEPT ![t].message = FALSE]
    BY <1>4 DEF MarkCompleted, MarkFailed, MarkFailedThrows, Ack,
                LoseChannel, Crash, Requeue, MarkCompletedThrows
  <2>3. thread'[t].phase = "execute"
          => thread[t].phase = "execute" /\ thread'[t].job = thread[t].job
    <3>1. CASE ReadForMark(t)
      BY <1>1, <3>1 DEF ReadForMark, Doings
    <3>2. CASE thread' = [thread EXCEPT ![t].message = FALSE]
      BY <1>1, <3>2 DEF Doings
    <3>3. CASE End(t) \/ Finish(t) \/ Goto(t, "fail")
      BY <3>3, EndsElsewhere
    <3> QED BY <2>2, <3>1, <3>2, <3>3
  <2>4. Attending(j)' \subseteq Attending(j)
    BY <1>4, <2>3, GoesOnAttending DEF Step, FaultyStep
  <2>5. job'[j].attempts = job[j].attempts
    <3>1. UNCHANGED job \/ \E status : Mark(t, status)
      BY <1>4 DEF MarkCompleted, ReadForMark, MarkFailed, MarkFailedThrows, Ack,
                  LoseChannel, Crash, Requeue, MarkCompletedThrows
    <3> QED BY <3>1, MarkKeepsAttempts
  <2> QED BY <1>2, <2>1, <2>4, <2>5
<1>5. ASSUME NEW t \in Threads,
             Claim(t) \/ LetGo(t) \/ \E b \in BOOLEAN : ClaimThrows(t, b)
      PROVE  AtWork(j)' <= job'[j].attempts
  <2>1. UNCHANGED retried
    BY <1>5 DEF Claim, LetGo, ClaimThrows
  <2> QED BY <1>5, <2>1, ClaimCounts, LetGoCounts DEF HandlersAreCounted
<1>6. ASSUME NEW t \in Threads, NEW k \in Jobs, Turn(t, k)
      PROVE  AtWork(j)' <= job'[j].attempts
  <2>1. thread'[t].phase # "execute"
    <3>1. /\ "publish" # "execute" /\ "fail" # "execute"
          /\ {"submit", "retry", "sweep", "reap"} \subseteq Kinds
      BY DEF Kinds, Publishing
    <3> QED BY <1>6, <3>1, EndsElsewhere DEF Turn, Submit, Retry, SweepDue, Reap
  <2>2. Attending(j)' \subseteq Attending(j) /\ UNCHANGED adrift
    BY <1>6, <2>1, GoesOnAttending DEF Turn, Submit, Retry, SweepDue, Deliver, Reap
  <2>3. CASE Retry(t, k) /\ j = k
    <3>1. ~(AtWork(j) > 0) /\ job'[j].attempts = 0
      BY <1>1, <2>3 DEF Retry
    <3>2. Cardinality(Attending(j)) \in Nat
      BY AttendingIsFinite
    <3>3. AtWork(j) = 0
      BY <1>1, <3>1, <3>2 DEF AtWork
    <3>4. Cardinality(Attending(j)) = 0 /\ adrift'[j] = 0
      BY <1>1, <2>2, <3>2, <3>3 DEF AtWork
    <3>5. Attending(j)' = {}
      BY <2>2, <3>4, AttendingIsFinite, FS_EmptySet
    <3>6. AtWork(j)' = 0
      BY <3>4, <3>5, FS_EmptySet DEF AtWork
    <3> QED BY <3>1, <3>6
  <2>4. CASE ~(Retry(t, k) /\ j = k)
    <3>1. job'[j].attempts = job[j].attempts
      BY <1>1, <1>6, <2>4 DEF Turn, Submit, Retry, SweepDue, Deliver, Reap, Set, Rows
    <3>2. j \notin retried
      BY <1>6 DEF Turn, Submit, Retry, SweepDue, Deliver, Reap
    <3> QED BY <1>2, <2>2, <3>1, <3>2
  <2> QED BY <2>3, <2>4
<1>7. ASSUME NEW k \in Jobs, Cancel(k) \/ TimePasses(k) \/ Delay(k)
      PROVE  AtWork(j)' <= job'[j].attempts
  <2>1. UNCHANGED <<thread, adrift, retried>> /\ job'[j].attempts = job[j].attempts
    BY <1>1, <1>7 DEF Cancel, TimePasses, Delay, Set, Rows
  <2> QED BY <1>2, <2>1 DEF Attending
<1>8. ASSUME NEW k \in Jobs, HandlerStops(k)
      PROVE  AtWork(j)' <= job'[j].attempts
  <2>1. UNCHANGED <<job, thread, retried>> /\ adrift'[j] <= adrift[j]
    BY <1>1, <1>8 DEF HandlerStops, JobTypeOK
  <2> QED BY <1>1, <2>1, NoneBegins DEF Attending, HandlersAreCounted
<1>9. CASE UNCHANGED jobVars
  BY <1>2, <1>9 DEF jobVars, Attending
<1> QED BY <1>3, <1>4, <1>5, <1>6, <1>7, <1>8, <1>9 DEF JobNext, Step, FaultyStep

(* No more handlers of a job are at work than attempts are counted, those a
   timeout left behind among them: HandlersAreCounted of every behaviour. *)
THEOREM HandlersAtWork == JobSpec => []HandlersAreCounted
<1>1. JobInit => JobTypeOK /\ Shape /\ HandlersAreCounted
  <2>1. JobInit => Shape
    BY DEF JobInit, Shape, Idle, Marking
  <2>2. ASSUME JobInit, NEW j \in Jobs
        PROVE  AtWork(j) <= job[j].attempts
    <3>1. Attending(j) = {} /\ adrift[j] = 0 /\ job[j].attempts = 0
      BY <2>2 DEF JobInit, Attending, Idle
    <3> QED BY <3>1, FS_EmptySet DEF AtWork
  <2> QED BY <2>1, <2>2, TypeInit DEF HandlersAreCounted
<1>2. JobTypeOK /\ Shape /\ HandlersAreCounted /\ [JobNext]_jobVars
        => (JobTypeOK /\ Shape /\ HandlersAreCounted)'
  BY TypeStep, ShapeStep, ShapeBusy, CountStep
<1> QED BY <1>1, <1>2, PTL DEF JobSpec
=============================================================================
