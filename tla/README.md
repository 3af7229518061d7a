# Cascadia PLM: a verification project

TLA+ models of the parts of Cascadia in which concurrent requests, background
jobs and restarting processes share state: the domain-event outbox and its
consumers, the items of a change-order branch, the workflow and the release of a
change order, the job queue, the delivery of webhooks, and the versions of a
vault file. TLC checks them on small instances; TLAPS proves the most important
properties for every value of the constants. Source paths below are relative to `src/cascadia-api/src/` unless
they begin with `src/`, `docs/` or another package's name.

## The system

Cascadia is a product-lifecycle database behind an HTTP API. Any number of API
processes and job workers run over one Postgres database, with RabbitMQ between
them for jobs. Requests hold no state between them: all of it is in rows, and
whatever order there is comes from row locks, unique keys, advisory locks and
the isolation level of each transaction. A request typically reads on the
connection pool, decides, and then opens a transaction that may or may not ask
again. That gap is where most of the hard behaviours live.

| component | state | operations | correct when |
|---|---|---|---|
| event outbox (`events/publish.ts`, `events/sequencing.ts`) | rows of `domain_events`, a sequence, a deferred trigger, an advisory lock | publish in the caller's transaction; sequence inside COMMIT; at boot install the trigger and sequence what committed without it | seq order is commit order for every reader; nothing committed stays without a seq |
| event consumers (`events/consumers.ts`, `extensions/consumers.ts`) | one cursor row per consumer | claim, scan, handle, record failure, park, back off; resume, skip, forget | the cursor says what was delivered; a stuck consumer parks; a parked one is left alone |
| event retention (`events/retention.ts`, `cascadia-workers-job/src/handlers/events-prune.ts`) | the give-up stamp of a parked consumer | give up, compute the floor, delete in batches | nothing a consumer is owed is deleted |
| item checkout (`services/CheckoutService.ts`, `services/checkout-locks.ts`) | rows of `branch_items`, working copies in `items` | checkout, working copy, save, create, delete, check in, cancel | a checkout is exclusive; a branch's content is its own copy; every release is recorded |
| change-order scope (`items/services/ChangeOrderService.ts`) | affected-items rows | add, remove, register a branch change, cancel | what the branch changes is listed; a locked scope takes nothing new |
| commits and branches (`services/CommitService.ts`, `services/BranchService.ts`) | the branch row, commits, the head | commit, lock, unlock, archive | an archived branch takes no commit; every commit is reachable from the head |
| lifecycle engine and approvals (`lifecycles/`) | workflow instances, votes | start, transition, vote, claim | one transition wins; votes count once for the state they were cast in |
| release and merge (`services/ChangeOrderMergeService.ts`) | versions and heads on main | merge each branch serializably, assign revisions, archive | each released item has one next revision; either a design releases whole or not at all |
| conflict detection, workspaces, version resolution | read models over branches; workspace branches | compare, resolve, adopt | a release never loses a change of main; adoption moves rows with their locks |
| webhooks (`events/webhooks/`, `webhooks/`) | deliveries, a lease per subscription | dispatch as an event consumer, claim, renew, send, back off, disable | in order per subscription, one sender at a time, retried until it is settled |
| jobs (`jobs/`, `cascadia-workers-job/src/worker`, `scheduler.ts`) | job rows, queue messages | submit with a key, claim, complete, fail, retry, reap | one worker attends to a job at a time, no job forgotten, retries and the handlers left running bounded |
| vault (`vault/services/`) | file rows, blobs, a checkout flag | upload, check out, check in, delete | no row without its blob, no check-in over another's version |
| numbering and revisions | counters, revision schemes | next number, next revision | unique; follows the scheme |

The rest keeps little shared state of its own: bills of materials, variants,
requirements, verification, work orders, the digital thread, access control,
extensions and packages, AI and MCP adapters, the SysML exporter, the web
client, the CAD workers. `PROJECT.json` lists every one of them with its reason.

How they interact. Every service publishes its facts through the outbox, in its
own transaction. The pollers (`extensions/consumers.ts`) deliver them to the
consumers, of which the webhook dispatcher is one; the prune job deletes behind
them. The item routes call CheckoutService, which calls ChangeOrderService to
list what the branch changes, CommitService to commit it under the branch row's
lock, BranchService for the branch's flags, and the lifecycle engine for the
scope flag. Release ends the branch: it merges, releases the locks and archives.

## Modules

| module | models |
|---|---|
| `EventSequencing` | publishing transactions, the deferred trigger, boots, crashes |
| `AppendLog` | the abstract log: a set of positioned events that grows at its end only |
| `EventConsumers` | EXTENDS `EventSequencing`: consumers, pollers, the administrator, the prune job |
| `BranchItems` | the rows, working copies, scope and archive of one change-order branch |
| `ItemLocks` | the abstract lock table: taken from nobody, given up before another has it |
| `ChangeRelease` | the workflow of one change order: votes, transitions, the release claim, release and cancel |
| `ReleaseMerge` | change orders merging their branches onto main, and the items and revisions they release |
| `JobQueue` | the jobs of one dedupe key, the broker's messages, submitters, workers and sweeps |
| `WebhookDelivery` | one webhook subscription: fan-out, the pumps' lease, deliveries, the breaker, the operator |
| `FileVault` | the versions of one vault file, its edit lock, its deletion and restoration |
| `*_proofs` | the theorems about the module they are named after |
| `MC*` | instances for TLC; the configurations give the bounds |

An operator whose name begins with `Mutant` is a plausible bug in the definition
that follows it; the property it would break is checked to notice it.

### EventSequencing

`row[e]` is a row of `domain_events` together with the one transaction that
inserts it: `armed` if the deferred trigger is queued for its COMMIT, `unarmed`
if the row was inserted before the trigger existed. COMMIT is two steps
(`FireTrigger`, `CommitSequenced`), since the advisory lock is taken and the
sequence value drawn before the row is visible. `LockFree` is the lock, held to
the end of the transaction that took it. `Abort` may strike after the value was
drawn, and leaves a hole. `EnsureSequencing` waits for transactions that have
inserted, as `CREATE TRIGGER` does. `SequenceStranded` .. `FinishBoot` is the
repair transaction; `Crash` in between rolls it back and leaves holes.

### EventConsumers

A run is one read-committed transaction that holds the cursor row's lock:
`Claim` (with the head a filtered run reads first, a statement of its own in the
code, `events/consumers.ts:494`), `Scan`, a step per handler, and a commit that writes the cursor and the handlers' effects together. A
handler may throw, transiently or not (`HandlerThrows`), or overrun its deadline
(`HandlerOverruns`, which rolls the whole run back, and `RecordTimedOutRun`, a
transaction of its own). Time is a set of flags: `waiting` for the backoff,
`overdue` for the give-up horizon, `prune.old` for the cutoff. The prune job
reads the floor and deletes in separate steps of each batch. `hist` is the only
auxiliary state: what became of each event since the row was created.

### BranchItems

One branch, its items and the requests in flight. A request is a record: `phase`
is the transaction it runs next, the other fields what it remembers of the rows
it read on the pool. `Begin...` are the reads, and each later action is one
transaction. Where the code locks a row and finds none (`DeleteUntracked`,
`RemoveUntracked`), the transaction takes two steps, because nothing stops
another one in between. `row[m].id` distinguishes a row from one inserted later
for the same item, which matters to every update by id. Everything a request may
refuse, an error, and the death of its process are `Drop`: a request in flight
may end without effect at any moment.

What is abstracted:

- the reads one request makes on the pool are taken at one instant;
- the working revision's place in `items` is `copy[m]`: the unique key of
  `items` (`db/schema/items.ts:136`) lets one such row exist, deleted or not;
- whether `registerBranchChange` finds a version of the item, and an action its
  state implies (`inferChangeAction`), depends on rows the model does not keep: any
  `finding` is possible, and where there is none an existing item is not listed,
  as in the code. Its reads and its insert are one step;
- every user has the role and the permission they need;
- `saveChanges` runs at REPEATABLE READ and is one step;
- a branch ends by `cancel`. The release ends it too, with the same release of
  locks and the same archive flag; what it does to main is `ReleaseMerge`;
- `lockBranch` and `unlockBranch` are called by `server/routes/branches.ts:78-82`,
  whatever the comment at `db/schema/versioning.ts:73` says ("set by nothing"),
  so `ToggleLock` is a step.

### WebhookDelivery

One subscription and its rows of `webhook_deliveries`; subscriptions share no
state but the tick's budget. Any number of workers run a pump, each with at most
one run on the subscription at a time (`inFlight` in `webhooks/pump.ts`).
`run[p].phase` names the next statement of `deliverForSubscription`: every
statement is a step of its own, because nothing holds a lock between two of them.
The receiver's answer and the write that records it are one step, since the
answer depends on nothing the model keeps.

- A lease is who wrote `delivery_lease_until` last and whether that time has
  passed. The code compares timestamps; a run's is unique because another run
  takes the lease only after it has passed, with a later one.
- Delivery times are two flags: `waiting` (the next attempt lies ahead) and `old`
  (past the maximum pending age, which only the head is ever asked for).
- A request is counted with its stamp, although a crash in between or a refusal
  of the egress guard sends nothing: `requests` is an upper bound.
- `Fail` is every way a run ends early through its `finally`: a database error,
  a secret this process cannot decrypt, `stop()` between two deliveries.
  `Interrupt` is `stop()` with a request in flight, `Crash` the death of the
  process, `Outlive` a run held up for longer than its lease.
- The dispatcher is the consumer `EventConsumers` models; here it is its handler
  (`Match`) and the commit or rollback of its batch. Every event matches the
  subscription's filter: one that does not inserts nothing.
- Left out: the edit of a subscription, the rotation of its secret, and the
  pruning of settled rows, which no run reads.

### ChangeRelease

`ChangeOrderService.executeWorkflowTransition` over the engine and the approvals.
`instance` is the `workflow_instances` row, `thread[t]` a request with what it has
read of it. A request reads the instance and counts the votes on the pool, and
writes the state by compare-and-swap (`Unmoved`); a final state first takes the
claim (`ClaimRelease`), then releases (`Close`, a `MergeDesign` or, where the branch
has no changes, a `SkipDesign` per design, `MarkImplemented`) or cancels, and only
then writes. The addition of a design asks whether the scope is open on the pool
(`AssertScopeOpen`) and writes later (`AddDesign`). A claim is live or stale
(`RELEASE_CLAIM_TIMEOUT`); `GrowStale` is free when its owner is dead and costs a
fault when it is not. `ReleaseClaim` clears whatever claim is there, as the code
does. The workflow graph and the approvals each edge asks for are constants.
What the merge of a design does is a set of merged designs here, and the subject
of `ReleaseMerge`; so is whether a branch has changes, and either is possible.
`history` holds auxiliary state only: whether a claim was outlived, whether an
ending lacked its approvals, the designs added after a release had read the scope
(`late`), and those that found the scope open and landed when it was locked
(`slipped`).

Abstracted: guards, role checks and the release gates (risks, conflict review) are
`Fail`, since a refusal has the effect of an exception; a vote is an approval, as a
rejection counts for nothing in the sum; the driven lifecycles of the items are
part of the transaction that writes the state.

### ReleaseMerge

An item's released revisions are a sequence, so that a revision is an index;
`tracked[i]` is the row that main's `branch_items` names, `work[o][i]` the row of
the branch of order `o`. A transaction of the release runs SERIALIZABLE and is
retried from its start, so it is one step; what the code reads before it is a step
of its own: the designs to merge (`BeginRelease`), `validateMerge`
(`Validate`), the changed rows (`ReadChanges`), and the listed items that no branch
has handled (`ReadRemaining`). Engineers save and delete while a release runs, since
a locked scope closes the list and not the content. The deletion of an item that the
branch added (`Drop`) takes it off the list and soft-deletes its working copy, which
a merge that has read its row still releases: `deleted` is the copy's flag, and the
merge copies it. `Crash` leaves what was committed, and
`BeginRelease` is the retry too; `Overrun` lets a second execution start beside one
whose claim went stale. `by` and `on` are auxiliary: who released a row, and what
its branch took the item to say.

Abstracted: the row pinned on an affected item is not kept, so an item of which a
row is deleted may or may not be skipped by the last pass (`ApplyRemaining`); an item says one of a few contents, which stand for its fields, its
type's row and its structure; the actions of an affected item are `revise` and
what the branch changes. `Retires` says whether the lifecycle names a state for
superseded revisions: the shipped one does (`Superseded`), and then any revision
that main has moved on to differs from the base and is a conflict, although the
comment on `detectConcurrentModifications` says that a difference "in revision or
metadata alone is not a conflict". The instances take the other case, in which
more merges go through.

### JobQueue

`job[j]` is a row of `jobs` of one dedupe key, `queue[j]` the messages for it that
the broker has ready, `thread[t]` one of whatever runs this code: a request that
submits or retries, a slot of a worker, a tick of a sweep. `phase` names the next
statement. Every write is an UPDATE guarded on the status, and a statement may
throw whether or not it landed (`FlipThrows`, `ClaimThrows`, `MarkCompletedThrows`).
A worker lets its handler go at the timeout, at a cancel and at its shutdown
(`LetGo`): the row is marked and the slot is free, while the handler runs on until it
looks at the abort signal or ends (`HandlerStops`); `adrift` counts those. `LetGo` is
a fault, so that it happens `MaxFaults` times. A thrown claim is followed by a pause
and a requeue (`Requeue`). Rows not submitted yet are alike, so that `Submit` takes
any one of them (`NewRow`). The broker loses what was published on an unconfirmed channel (`PublishLost`),
takes back what a dead channel or process had not acknowledged (`LoseChannel`,
`Crash`), and holds several messages for one job. Times are one flag, `due`: the
sweep that looks at rows of that status would take this one. It rises by itself
where nothing else will move the row (`TimePasses`) and by a fault where something
would (`Delay`: a backlog deeper than the grace, an execution past its timeout).
`late`, `crossed`, `overran` and `retried` are auxiliary.

### FileVault

`rows` are the `vault_files` rows of one file in the order of their versions. A
request reads the row it was given (`Read`), and what must still hold when it
writes rides in the WHERE of its update. The bytes of a new version are stored
between the two; a request that dies there leaves at most an orphaned blob, which
no row names. `told` and `robbed` are auxiliary: who was told of a check-out that
stands, and which rows lost a lock to the plain unlock of a former holder.

## Runs

### The event log

| run | instance | shows |
|---|---|---|
| `sequencing` | 3 events, 2 booting processes, with or without the trigger | `SeqOrderIsCommitOrder` (the outbox implements `AppendLog`), `ReadyMeansNoneStranded`, `StrandedIsDelivered` |
| `consumers` | 3 events, one filtered consumer that starts at the head, batch of 2, parks after 2, 2 pollers; a fault or an act of the administrator | `CursorTellsTheTruth`, `ParkedStaysPut`, `EveryEventIsSettled` |
| `retention` | 2 events, 2 consumers, one that starts at the head and one at the origin, batches of 1; an administrator's 2 acts, 1 give-up and 2 prunes | `OwedEventsAreKept` |
| `skip` | 2 events, both consumers from the origin, batch of 2, one act | `SkipsLoseOneEach` is violated |

Three events are the fewest for an event before, at and after a poison one with
a batch of two that is full or short; two pollers the fewest that race for a
cursor. Two events suffice for retention, where an order (old, young) against a
cursor is what matters. A handler's lasting failures and its timeouts cost no
fault, so that one fault (a transient failure, a crash) meets any number of them.
Runs with budgets switch the deadlock check off: once the administrator's acts
are spent, a parked consumer stops for good. `MaxSeq` bounds how many sequence
values crashed repairs burn.

`OwedEventsAreKept` speaks of the consumers that run or are parked within the give-up
horizon, whatever mix of prunes, give-ups and acts there is. Two kinds of consumer
are left out of it for good, and the history variable `exposed` marks them: one
reopened after it crossed the give-up horizon un-stamped, and one that starts at the
origin and creates its row between a prune batch's floor and its delete
(`events/retention.ts:162`), to which the documentation promises only what is
retained. The first is a hazard no property judges: see the second point below.

The code disagrees with the documentation in three places:

- skipping after a timed-out run loses the events that run had handled and rolled
  back, too (`events/consumers.ts:744`), where `docs/admin/event-consumers.md:81`
  says that a skip "loses one event, deliberately": the run `skip`;
- a consumer that crosses the give-up horizon after the job stamped is pruned
  behind (`events/retention.ts:152`) and can still be resumed, where lines 68 and
  77-78 of the same page call a resume safe and say it is refused. Without the
  excuse of `exposed`, TLC finds `OwedEventsAreKept` violated by one give-up after
  the stamping, one batch and one resume;
- a consumer whose first run times out loses the row that run created, so
  `RecordTimedOutRun` finds nothing to count the failure on; if every first run
  times out it never parks, where `events/consumers.ts:627` says that after
  "consecutive failures the consumer is parked". A filtered consumer that starts at
  the head handles nothing in its first run and is not exposed, and that is the
  consumer of `consumers`.

### The branch

| run | instance | shows |
|---|---|---|
| `branch` | 2 users, a released item and a new one, all ten kinds of request, 2 in flight, 4 in all | `CheckoutIsExclusive` (the rows implement `ItemLocks`), `MergedContentIsACopy`, `ContentIsListed`, `ArchivedTakesNoCommit` |

Two requests in flight are what a race needs; four in all let a third and a
fourth change the row between the read and the write of a slow one (a lock given
up and taken by another, a row deleted and inserted again).

`ContentIsListed` holds for all ten kinds of request at once, and names what it does
not cover: an item whose checkout has committed and is still to be registered
(`BeingRegistered`), and an item in the history variable `stray`, which a request has
left unlisted. Three kinds of step put an item there: a request that is dropped between
its checkout and its registration; a removal that found no row of the item and deletes
the listing of one inserted since; and a registration that found no version of the item
(`items/services/ChangeOrderService.ts:1211`) or no action that its state implies
(:1269-1270) and returned in silence. All are real: without the excuse of `stray`, TLC
finds the property violated by a checkout that dies and a save, and by a deletion in the
middle of a removal. A later registration of the item takes it out of `stray` again.

The model allows, as the code does, things a reader should know of. Five of them
disagree with a comment in the code:

- a check-in or a cancel that read the row before another check-in and another
  user's checkout clears that user's lock (`services/CheckoutService.ts:1895`,
  against "all refuse a non-holder" at :1636-1637). `CheckoutIsExclusive` holds
  all the same: the lock goes back to nobody before anyone takes it;
- an item without a copy that is deleted, checked out and saved has its version on
  main edited in place (:1023, against :1144-1145): the variable `shared`;
- a checkout that dies between its insert and its registration leaves a row whose
  saves are never listed (:600, against :622-624): the variable `stray`;
- a removal that found no row to lock and a deletion that found the item listed
  both go on, and the deletion stays unlisted
  (`items/services/ChangeOrderService.ts:1626`, against :1571): `stray` again;
- a checkout of an item whose state implies no action is registered nowhere, and a
  save makes content that the release refuses
  (`items/services/ChangeOrderService.ts:1270`, against "so what merges and what
  reviewers see stay the same set" at `services/CheckoutService.ts:597-598`).

The others:

- `removeAffectedItem` with `discardBranchChanges` leaves the working copy under
  the branch's revision, where the next copy of the item collides with it; the
  same holds for a first save whose row a cancel has deleted
  (`services/CheckoutService.ts:1262`);
- the deletion of a draft its creator has checked out drops the lock with the row
  and publishes no release (`services/CheckoutService.ts:1657-1685`);
- `checkout` asks whether the scope is open, and whether the branch is archived,
  before its transaction, and nothing in the transaction asks again: a new item
  can arrive on a locked scope, and a lock on an archived branch. That no
  *content* follows on an archived branch is `ArchivedTakesNoCommit`.

### Release

| run | instance | shows |
|---|---|---|
| `change` | the shipped workflow with one approval asked of a release, 2 designs, 2 requests at once and 5 in all, 2 votes, 2 faults | `ReleaseIsExclusive`, `OneEnding`, `ScopeFollowsState`, `EndedApproved`, `ReleasedIsMerged` |
| `merge` | 2 change orders, 2 items of 2 designs, one of them new, 2 executions, 3 edits, 1 fault | `OneInService`, `ReleasedOnce`, `ReleasesBuildOnEachOther` |
| `nothing_is_left_behind` | as `change`, with 6 requests and 1 fault | `NothingIsLeftBehind` is violated |
| `listed_items_are_released` | 1 change order, 2 items of one design, 2 edits, no fault | `ListedItemsAreReleased` is violated |

Two requests are what a race for the claim or the state needs; five in all let an
order go through submission, return, submission and release while another request
slept, and the sixth of `nothing_is_left_behind` is the release that failed before. Two faults let an execution outlive its claim and the one that took
it over fail. In `merge`, three edits let both orders change one item and one of
them delete or drop it, and two designs are the fewest of which a crash can leave one.

The properties name what they excuse: an execution that has outlived its
fifteen-minute claim (`overran`), beside which another runs. `OneEnding` and
`ScopeFollowsState` excuse nothing. `ReleasedIsMerged` is said of the designs a
release has read, `ReleasesBuildOnEachOther` of revisions: after a released deletion
main has no row to compare with, and a modification from before it is released all
the same. `OneInService` keeps one row current, and main's structure on it, without
an excuse; that the row is not deleted it says but for the cases below.

- `OneInService`: main may be pointed at a soft-deleted row, and the run reaches each
  of these cases. An item that was added on the branch is deleted there after the
  merge has read the branch's rows (`services/CheckoutService.ts:1645-1735` between
  `services/ChangeOrderMergeService.ts:1905-1913` and :2039-2046): the merge reads the
  copy by its id, deleted or not, releases a copy of it as current (:2097-2112) and
  points main at it (:2151-2164). Or a branch checks an item out, another order
  releases its deletion, and the first save copies the base as it is by then
  (`services/CheckoutService.ts:926-931`, :1174-1190). The property bounds both: the
  order that released the row had a deleted working copy of the item.
- `nothing_is_left_behind`: after a release whose state write failed,
  `implementedAt` stands. The order can be sent back, gain a design in draft, be
  approved and released again, and this time `close()` skips the merge. The
  comment on `executeWorkflowTransition` says that the workflow "can only become
  Approved/completed if the merge actually happened".
- `listed_items_are_released`: `mergeBranchToMain` reads the changed rows before
  its transaction. An item first saved after that read is not merged; it is on an
  archived branch then, and `applyRemainingActions` counts it as handled.

What else the code allows, and no run singles out: a design whose addition found the
scope open may land once it is locked, and stay unmerged (`NothingIsLeftBehind` does
not judge it: `slipped`); a half-released order may be
cancelled; a late `releaseClaim` clears the claim of the request that took over; a
move to a state that is not final is written on votes counted earlier; a workflow
with an edge from its initial state to itself (which
`LifecycleInstanceService.test.ts` has) locks the scope in that state.

### Jobs

`jobs`: two jobs under one key, two threads, two attempts, one fault (of ten
kinds) and one order of the operator.

- `OneExecution`: one worker attends to a key's work at a time (waits for the handler,
  or has still to mark it), except after a lease was outlived, after a mark hit a
  later execution than its own, or after a cancel, which frees the key before the
  worker sees it. It does not say that one handler runs: `executeWithTimeout`
  (`src/cascadia-workers-job/src/worker/index.ts:85-116`) rejects and signals, and a
  handler it has let go may run on beside the retry of its job.
- `HandlersAreCounted`: what runs at one moment, let go or not, is within the attempts
  the row has counted, until an operator's retry starts the count again.
- `AttemptsAreBudgeted`: an execution counts as an attempt when it is claimed,
  also when the claim throws after it landed or its process dies. It excuses a job
  whose late mark hit a later execution (`crossed`): the guard of a mark is the
  status alone.
- `SettledStands`: nothing reopens a completed or cancelled job, and a failed one
  only starts again from zero.
- `JobsAreSettled`: under fairness every submitted job is settled, whatever
  message is lost.

Two threads are the fewest of which one can outlive its lease while the other
executes; a second job is needed for the key to change hands. The theorems have
no bounds. The model allows one thing the comment at `jobs/JobService.ts:44-46`
excludes: a submit's or sweep's flip to `queued` may come after the job was
claimed, failed and parked, and the job is then `queued` with no message, and
waits for the longer grace.

### The vault

`vault`: one file, two users and an administrator, two requests in flight and five
in all, one lock that grows old.

- `ChainIsIntact`: one head, the newest row, and version numbers without a gap.
- `HoldersHold`: who was told that a check-out succeeded has the lock, alone.
- `RestoredOnce`: the log has no restoration without its deletion.

Five requests are a check-out, a check-in and another check-out around two slow
ones. A check-in without data clears the lock by the row's id
(`vault/services/FileService.ts:1497`), whoever holds it by then: `HoldersHold`
excuses exactly that, in `robbed`. `deleteFile` refuses a locked file on a read
before its transaction, so a file can be deleted under its holder, and of two
deletions at once each records an event.

### Webhooks

`webhooks`: two pumps, two events, two attempts, a breaker at two, two deliveries
to a run, one fault (of five kinds, a rolled-back batch among them) and one
request of the operator.

- `NothingOvertakes`: the ordering promise of `webhooks/delivery.ts:28-56`.
- `OneRun`: two runs at once only if one has outlived its lease.
- `OutcomeStands`, `BreakerCountsTheDead`: two requests for one row may be in
  flight then; the first answer is the outcome, and the breaker is charged once.
- `OneLateRequest`: a subscription that stops being live costs at most one more
  request of each run already at work.
- `RequestsAreBudgeted`: every request beyond `WEBHOOK_MAX_ATTEMPTS` is paid for
  by a fault. That such requests exist is as the code has it: the budget is asked
  about after an answer only, so a process that dies during the last attempt
  leaves a pending row that the next run attempts once more.
- `DeliveriesAreSettled`: under fairness every delivery is settled, unless the
  operator or the breaker has switched the subscription off; a crashed lease is
  taken over, a failing head dies, and what a fan-out inserts behind a delete is
  expired.

Two pumps are the fewest that compete for a lease, two events the fewest with an
order. One fault suffices to break each mutant of the properties; the same
instance with two faults was checked without its liveness property (2.6 million
states) and the theorems have no bounds.

## Fairness

`SeqFairness`: a COMMIT that can go on does, and a boot's steps are taken again
and again. The strong fairness of a boot's steps says that a process restarted
over and over comes up in the end, and that the lock, which every holder gives
up, is not lost to publishers for ever; Postgres queues lock waiters.

`Fairness` of the consumers: the poller is an interval timer
(`extensions/consumers.ts`), so a claimable cursor is claimed, and a claimed run
takes its steps. A timed-out run can fail to record its failure only if another
poller takes the row in the instant between; strong fairness says that it does
not always. Nothing is assumed of handlers, administrators or the prune job.

`WebFairness`: the pump is an interval timer, so some worker claims a due
subscription with a free lease; a run's statements return, and its requests time
out after ten seconds; a lease whose run is gone passes, a backoff ends, and
retention is a scheduled job. Nothing is assumed of the receiver's answers, the
operator, the age of a delivery or the dispatcher.

`JobFairness`: a thread's statements return, the times that nothing but time can
bring pass, and the threads that are free do not leave every delivery and every
tick of the sweeps undone (`startRetryScheduler` is an interval timer). Nothing is
assumed of the handlers' outcomes, the operator, or the faults.

The release, the vault and the branch have no liveness property: a request ends
by itself or is dropped, and nothing waits on anything but a row lock.

## Theorems

All for any constants that meet the modules' assumptions: finitely many events,
any processes, users, items and requests, no bounds beyond the naturals.

`EventSequencing_proofs`:

- `SeqTyping`, `NoneStranded`, and `OutboxImplementsAppendLog`: the outbox refines
  the append-only log.
- The invariant `SeqInv` adds to the types: at most one transaction is inside the
  lock (`LockInv`); seqs are distinct and at most `nextSeq`, and those of the
  lock's holder are above all visible ones (`OrderInv`); once a boot has ensured
  the trigger, no unarmed row is left, and once it is repairing, no stranded one
  (`TriggerInv`). Order alone is not inductive: it needs to know that whoever
  holds a drawn value holds the lock, and `NoneStranded` that no unarmed row can
  outlive the trigger's creation.

`EventConsumers_proofs`, for any consumers, pollers, batch sizes and budgets, and on top
of `SeqInv`:

- `ConTyping`; `DeliveredExactlyOnce`, which is `CursorTellsTheTruth`; `ParkingHolds`,
  which is `ParkedStaysPut`.
- The truth of a committed cursor rests on the runs in flight. What a run handled is
  exactly what its consumer wants between where it found the cursor and where it has
  come, and its batch has no gap (`RunOK`): the batch is the first of what the scan
  could see (`LimitTakesTheFirst`, by cardinalities), and for a short filtered batch it
  is all up to the head that was read before. That this stays so while others publish
  is `PositionsArePast`: every cursor, head and handled seq lies below all that is still
  to become visible, which is where seq order being commit order is used. A run finds
  its row as it left it because it alone holds the lock (`RunsAreAlone`), and so a
  parked row is committed by nobody.
- Most steps move no cursor and are settled together (`QuietStep`); a commit
  (`CommitStep`), a run that goes on (`OneRunStep`) and an administrator's move of a row
  (`OneRowStep`) are the other three.
- `NothingOwedIsPruned`, which is `OwedEventsAreKept`. The property is not inductive:
  a batch deletes by a floor it read while cursors still moved. `KeepInv` says that a
  position a consumer stands at is out of that batch's reach (`OutOfReach`): it is no
  lower than some cursor in the floor, or past every event old enough to go. The first
  is what reading the floor gives and cursors only going up keeps; the second is what
  a row created meanwhile at the head has, and needs that the run about to create it
  is past all that is old (`HeadsAreFresh`), that what is old has been shown
  (`OldIsShown`), so that nothing old appears later, and that no row is stranded
  (`SequencedOnly`). That a consumer with a run in flight is never overdue
  (`GivenUpIsIdle`) keeps a commit from bringing one back without an administrator.
  The consumers `exposed` marks are outside the theorem, as they are outside the
  property. Every step outside the prune job is settled by what it may make of a row, its
  parking and a run (`Keeping`); the job's own steps are taken one by one, and
  `NothingBeyondIsDoomed` is the delete.

`BranchItems_proofs`:

- `BranchTyping`.
- `BranchImplementsItemLocks`: each step of the branch takes one lock from nobody,
  releases some set of locks, or leaves them be. The invariant adds to the types
  that an untracked item has no holder (`UntrackedIsFree`) and that a request about
  to write by the id of a row remembers a real one (`WriteSawRow`): without it, a
  claim could match the absent row's id and give a lock on nothing.
- `MergesOnlyCopies`: `MergedContentIsACopy` is inductive with the types.
- `ChangesAreListed`, which is `ContentIsListed`. It is not inductive: a save changes
  an item and lists nothing. `TrackedIsCovered` strengthens it to every item the
  branch tracks, changed or not, and adds that a changed item is tracked; a first
  save keeps it because it writes a row it has seen (`WriteSawRow`). A row that comes
  to the branch is listed or passed over in its transaction, or is on its way to
  `register` (`RegisterCovers`), a request that moves on ends nobody else's registration (`RegistrationsStay`), and a
  removal drops the listing only with the rows it found, or marks the item `stray`.
- `ArchiveIsFinal`: by cases over the steps, from the guard under the branch row's
  lock; the pool's checks play no part.

`WebhookDelivery_proofs`:

- `WebTyping`.
- `OneRunAtATime`: `LeaseInv` says that a run in progress that has not outlived its
  lease holds it, and that it has not expired. `OneRun` alone is not inductive: a
  third run could claim a lease that two others believe in.
- `OneMoreRequest`, which is `OneLateRequest`: a run that has made a request since the
  subscription went off (disabled or deleted) is past its stamp, and the one way back
  to a request asks whether the subscription is live (`LateInv`).
- `DeathsAreChargedOnce`, which is `BreakerCountsTheDead`. Between the write of a
  death and the charge the counts differ, so the invariant counts the runs on their
  way to the charge too (`BreakerInv`): each wrote a death of its own, because the
  compare-and-set lets one answer settle a row.
- `EachRequestIsPaidFor`, which is `RequestsAreBudgeted`, from `BudgetInv`: while a row
  is pending, its requests and the runs that have outlived their lease are together
  within its counted attempts and the faults spent, and, past the last attempt but
  one, within the faults and the runs that are making a last attempt now. Outlived
  runs are counted with the requests because each cost a fault that the request it
  may still make is going to use.
- `NobodyOvertakes` and `OutcomesStand`, from `OrderInv`: the fan-out inserts behind
  its cursor only; the row a run holds, and every row a request went out for, has
  nothing pending before it. It leans on `StepMoves`, that a status only goes from
  absent to pending behind the cursor, and from pending to settled. The lease plays
  no part: order and outcomes survive outlived leases by the compare-and-sets alone.

`ChangeRelease_proofs`, for any workflow graph:

- `ReleaseTyping`, `ReleasesAreExclusive`, `WorkflowEndsOnce`, `EndingsAreApproved`,
  `ReleasedMeansMerged`, and `ScopeIsOpenInDraft` for workflows without an edge from
  the initial state to itself.
- One invariant: of the instance and the order (`Globals`), of each request on its
  way (`Local`: what it read of the instance, and that an ending past its reads owns
  a live claim, has its votes and finds the state it read), and that at most one
  request owns the claim (`Alone`). The last two hold while no claim was outlived;
  `Globals` holds without that condition, from the compare-and-swap alone. Votes
  stay in force under a claim because only a written transition supersedes them.

`JobQueue_proofs`:

- `JobTyping`, `SettledJobsStand`.
- `OneExecutionAtATime`, from `Alone`: at most one row holds the key (`KeyInv`); a
  job that is attended to is running, unless excused (`AliveInv`); a running row is due
  only if nobody executes it (`DueInv`), so that whoever reaps it (`ReapInv`) marks no
  live execution; and two executions are of one job only if excused (`UniqueInv`).
- `AttemptsRunOut`, from `BudgetInv`: a waiting row has an attempt left, and a mark
  that is going to park its own execution has seen so.
- `HandlersAtWork`, which is `HandlersAreCounted` and inductive with the types: a claim
  adds one to both sides (by the cardinality of `Attending`), letting a handler go
  moves it from one part of `AtWork` to the other, and only an operator's retry takes
  attempts away.

`FileVault_proofs`:

- `VaultTyping`, `OneHeadPerChain`, `CheckOutsHold`, `RestorationsAreRecordedOnce`,
  from one invariant that speaks of each row with its history (`Good`) and of its
  place in the chain (`InPlace`); a request aims at a row that exists (`Aimed`).

`ReleaseMerge_proofs`, for any orders, designs, items and executions:

- `MergeTyping`.
- `OneRowInService` and `NoReleaseIsLost`: what a step does to one item is one of
  three things (`ItemStep`): nothing, the stamp of a deletion, or a new last row that
  takes the others out of service. That the new row was made from the last one is the
  point (`MergeBuildsOn`): a copy released before belongs to a merged branch
  (`CopiesAreBased`), so under a claim it is not merged again; otherwise the index of
  revisions forces main to name the last row, and the check inside the transaction
  forces the base to say the same.
- `RetriesReleaseOnce`, from what an execution under a claim knows (`Fresh`): its order
  is not implemented, the branches it still has to merge are not merged, and what the
  order has released is what its merged branches changed (`ReleasesAreRecorded`), all
  of which the remaining actions take for handled. Neither half is inductive without
  the other, nor without `ReadsTrue`, that what an execution read of a branch is still
  changed there when it merges.

Only model-checked are the four liveness properties (`StrandedIsDelivered`,
`EveryEventIsSettled`, `JobsAreSettled`, `DeliveriesAreSettled`): what happens under
fairness is out of the prover's reach. Every invariant and every action property that
a passing run checks is the statement of a theorem. The types of the outbox and of the
job queue are theorems only.

## Plan

1. *Done*: the outbox and its consumers; the branch's items; webhook delivery; the
   job queue; the workflow, the release and the merge of a change order; the
   versions of a vault file.
2. Commits: the graph and the head of a branch, against two committers
   (`CommitService`), composed with `BranchItems` through the branch row's lock.
3. Workspaces, whose adoption feeds a change order; the actions `promote` and
   `obsolete` of the release; the driven lifecycles of the items.
4. Revision schemes and numbering as functions checked against a reference
   definition; the counter of item numbers.

## Not modelled

Pure reads and projections (thread, graph, matrices, reports), formatting and
parsing, access control, the web client, converters and adapters. Data-heavy
transformations (MBOM, variants, parametric resolution) have no concurrency of
their own. The database schema appears through the keys and locks its services
rely on.

Commits as a graph, workspaces, numbering, and the parts of the modelled
components that `PROJECT.json` names in their notes (upload and the blob store of
the vault, release hooks, the definition editor of the lifecycle engine, the edit
of a webhook subscription) could be modelled faithfully and are not yet.
