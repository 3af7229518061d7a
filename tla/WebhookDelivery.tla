-------------------------- MODULE WebhookDelivery --------------------------
(***************************************************************************)
(* The deliveries of one webhook subscription: fanned out by the           *)
(* dispatcher, sent by the runs of the delivery pumps, expired by the      *)
(* clock, by a deleted subscription and by retention.                      *)
(*                                                                         *)
(* Any number of job workers run a pump.  A run holds the subscription by  *)
(* a time lease that it renews before every delivery; nothing stops a run  *)
(* that outlives its lease, so everything it writes is a compare-and-set.  *)
(* run[p].phase names the statement the run of p executes next.            *)
(*                                                                         *)
(* Times are flags: a delivery is waiting while its next attempt lies in   *)
(* the future and old once it is past WEBHOOK_MAX_PENDING_AGE_MS, a lease  *)
(* is expired.  An event is its place in the log.                          *)
(***************************************************************************)
EXTENDS Naturals, FiniteSets

CONSTANTS
  Pumps, Nobody,
  Last,        \* the events are 1 .. Last, in the order of their seq
  MaxAttempts, \* WEBHOOK_MAX_ATTEMPTS
  Threshold,   \* WEBHOOK_FAILURE_THRESHOLD
  MaxPerRun,   \* MAX_PER_SUBSCRIPTION_PER_TICK
  MaxFaults,   \* bound: crashes, failures, interruptions, outlived leases
  MaxOrders    \* bound: requests of the operator

ASSUME PumpsAssumption == Nobody \notin Pumps
ASSUME LimitsAssumption ==
  /\ Last \in Nat /\ MaxAttempts \in Nat \ {0} /\ Threshold \in Nat \ {0}
  /\ MaxPerRun \in Nat \ {0} /\ MaxFaults \in Nat /\ MaxOrders \in Nat

VARIABLES
  delivery,   \* delivery[e]: the webhook_deliveries row of e
  sub,        \* the webhook_subscriptions row
  lease,      \* its delivery_lease_until: who wrote it, and whether it has passed
  run,        \* run[p]: what pump p is doing with this subscription
  fan,        \* the dispatcher's cursor and its open transaction
  requests,   \* requests[e]: the requests that may have reached the receiver
  faults,     \* faults that may still strike
  orders      \* requests the operator may still make

webVars == <<delivery, sub, lease, run, fan, requests, faults, orders>>

Events == 1 .. Last
Settled == {"delivered", "dead", "expired"}
Phases == {"idle", "renew", "reload", "read", "expire", "stamp", "sending",
           "reset", "charge", "disable", "release"}

Deliveries == [status: {"none", "pending"} \union Settled, attempts: Nat,
               waiting: BOOLEAN, old: BOOLEAN]

Subscriptions == [enabled: BOOLEAN, disabled: BOOLEAN, deleted: BOOLEAN,
                  failures: Nat]
Leases == [holder: Pumps \union {Nobody}, expired: BOOLEAN]

(* cursor: the last event whose rows are committed.  next, batch: the event
   the open transaction handles next, and those it has rows for. *)
Fans == [cursor: Nat, next: Nat, batch: SUBSET Events]

(* row, attempts: what the run read.  sent: deliveries it is done with.  gone:
   the receiver answered 410.  Two histories: outlived, the lease passed
   since its last renewal; late, requests begun since the subscription was
   last live. *)
Runs == [phase: Phases, row: Nat, attempts: Nat, sent: Nat, gone: BOOLEAN,
         outlived: BOOLEAN, late: Nat]

NoDelivery == [status |-> "none", attempts |-> 0, waiting |-> FALSE, old |-> FALSE]
NoRun == [phase |-> "idle", row |-> 0, attempts |-> 0, sent |-> 0,
          gone |-> FALSE, outlived |-> FALSE, late |-> 0]

WebInit == /\ delivery = [e \in Events |-> NoDelivery]
           /\ sub = [enabled |-> TRUE, disabled |-> FALSE, deleted |-> FALSE,
                     failures |-> 0]
           /\ lease = [holder |-> Nobody, expired |-> FALSE]
           /\ run = [p \in Pumps |-> NoRun]
           /\ fan = [cursor |-> 0, next |-> 1, batch |-> {}]
           /\ requests = [e \in Events |-> 0]
           /\ faults = MaxFaults
           /\ orders = MaxOrders

Pending == {e \in Events : delivery[e].status = "pending"}
IsHead(e) == e \in Pending /\ \A d \in Pending : e <= d
Live == sub.enabled /\ ~sub.disabled /\ ~sub.deleted

(* The row a run holds, unless another has settled it. *)
StillPending(p) == delivery[run[p].row].status = "pending"

(* Settled, a row has no time left to wait for. *)
Outcome(d, status) ==
  [d EXCEPT !.status = status, !.waiting = FALSE, !.old = FALSE]

Settle(p, status) ==
  delivery' = [delivery EXCEPT ![run[p].row] = Outcome(@, status)]

-----------------------------------------------------------------------------
(* The dispatcher: a consumer whose handler inserts the rows of a batch in
   the transaction that moves its cursor. *)

Match == /\ fan.next \in Events
         /\ fan' = [fan EXCEPT !.next = @ + 1,
                               !.batch = IF sub.enabled /\ ~sub.deleted
                                         THEN @ \union {fan.next} ELSE @]
         /\ UNCHANGED <<delivery, sub, lease, run, requests, faults, orders>>

CommitBatch == /\ fan.next > fan.cursor + 1
               /\ delivery' = [e \in Events |->
                                 IF e \in fan.batch
                                 THEN [NoDelivery EXCEPT !.status = "pending"]
                                 ELSE delivery[e]]
               /\ fan' = [fan EXCEPT !.cursor = fan.next - 1, !.batch = {}]
               /\ UNCHANGED <<sub, lease, run, requests, faults, orders>>

RollBackBatch == /\ fan.next > fan.cursor + 1
                 /\ faults > 0
                 /\ fan' = [fan EXCEPT !.next = fan.cursor + 1, !.batch = {}]
                 /\ faults' = faults - 1
                 /\ UNCHANGED <<delivery, sub, lease, run, requests, orders>>

Dispatch == Match \/ CommitBatch \/ RollBackBatch

-----------------------------------------------------------------------------
(* A run of a pump *)

Goto(p, phase) == run' = [run EXCEPT ![p].phase = phase]

(* The row is done with; the loop of deliverForSubscription goes on. *)
NextDelivery(p) ==
  run' = [run EXCEPT ![p].phase = IF run[p].sent + 1 < MaxPerRun
                                  THEN "renew" ELSE "release",
                     ![p].sent = run[p].sent + 1,
                     ![p].row = 0, ![p].attempts = 0, ![p].gone = FALSE]

(* claimDueSubscriptions: the UPDATE repeats every condition, so it alone is
   the claim. *)
HeadIsDue == \E e \in Events : IsHead(e) /\ ~delivery[e].waiting

MutantClaimFreeOnly(p) ==
  /\ run[p].phase = "idle" /\ Live /\ HeadIsDue
  /\ lease.holder = Nobody
  /\ lease' = [holder |-> p, expired |-> FALSE]
  /\ run' = [run EXCEPT ![p] = [NoRun EXCEPT !.phase = "renew"]]
  /\ UNCHANGED <<delivery, sub, fan, requests, faults, orders>>

Claim(p) == /\ run[p].phase = "idle"
            /\ Live
            /\ HeadIsDue
            /\ lease.holder = Nobody \/ lease.expired
            /\ lease' = [holder |-> p, expired |-> FALSE]
            /\ run' = [run EXCEPT ![p] = [NoRun EXCEPT !.phase = "renew"]]
            /\ UNCHANGED <<delivery, sub, fan, requests, faults, orders>>

(* Compared with the value the run last wrote, expired or not. *)
Renew(p) == /\ run[p].phase = "renew"
            /\ IF lease.holder = p
               THEN /\ lease' = [lease EXCEPT !.expired = FALSE]
                    /\ run' = [run EXCEPT ![p].phase = IF run[p].sent > 0
                                                       THEN "reload" ELSE "read",
                                          ![p].outlived = FALSE]
               ELSE Goto(p, "release") /\ UNCHANGED lease
            /\ UNCHANGED <<delivery, sub, fan, requests, faults, orders>>

MutantReloadAnyway(p) ==
  /\ run[p].phase = "reload"
  /\ Goto(p, "read")
  /\ UNCHANGED <<delivery, sub, lease, fan, requests, faults, orders>>

(* reloadLive *)
Reload(p) == /\ run[p].phase = "reload"
             /\ Goto(p, IF Live THEN "read" ELSE "release")
             /\ UNCHANGED <<delivery, sub, lease, fan, requests, faults, orders>>

MutantReadDue(p, e) ==
  /\ run[p].phase = "read"
  /\ e \in Pending /\ ~delivery[e].waiting
  /\ \A d \in Pending : d < e => delivery[d].waiting
  /\ run' = [run EXCEPT ![p].phase = IF delivery[e].old THEN "expire" ELSE "stamp",
                        ![p].row = e, ![p].attempts = delivery[e].attempts]
  /\ UNCHANGED <<delivery, sub, lease, fan, requests, faults, orders>>

(* The oldest pending row, due or not. *)
ReadHead(p, e) ==
  /\ run[p].phase = "read"
  /\ IsHead(e)
  /\ run' = [run EXCEPT ![p].phase = CASE delivery[e].old -> "expire"
                                       [] delivery[e].waiting -> "release"
                                       [] OTHER -> "stamp",
                        ![p].row = e, ![p].attempts = delivery[e].attempts]
  /\ UNCHANGED <<delivery, sub, lease, fan, requests, faults, orders>>

ReadNothing(p) == /\ run[p].phase = "read"
                  /\ Pending = {}
                  /\ Goto(p, "release")
                  /\ UNCHANGED <<delivery, sub, lease, fan, requests, faults, orders>>

ExpireRow(p) == /\ run[p].phase = "expire"
                /\ IF StillPending(p) THEN Settle(p, "expired")
                                      ELSE UNCHANGED delivery
                /\ NextDelivery(p)
                /\ UNCHANGED <<sub, lease, fan, requests, faults, orders>>

(* The attempt is counted before the request goes out, and only if nobody
   has counted one since the row was read. *)
Stamp(p) ==
  LET e == run[p].row IN
  /\ run[p].phase = "stamp"
  /\ IF StillPending(p) /\ delivery[e].attempts = run[p].attempts
     THEN /\ delivery' = [delivery EXCEPT ![e].attempts = @ + 1,
                                          ![e].waiting = TRUE]
          /\ requests' = [requests EXCEPT ![e] = @ + 1]
          /\ run' = [run EXCEPT ![p].phase = "sending",
                                ![p].late = IF Live THEN @ ELSE @ + 1]
     ELSE Goto(p, "release") /\ UNCHANGED <<delivery, requests>>
  /\ UNCHANGED <<sub, lease, fan, faults, orders>>

-----------------------------------------------------------------------------
(* The answer, and the writes that settle the row *)

(* 2xx *)
Deliver(p) == /\ run[p].phase = "sending"
              /\ IF StillPending(p)
                 THEN Settle(p, "delivered") /\ Goto(p, "reset")
                 ELSE NextDelivery(p) /\ UNCHANGED delivery
              /\ UNCHANGED <<sub, lease, fan, requests, faults, orders>>

ResetBreaker(p) == /\ run[p].phase = "reset"
                   /\ sub' = [sub EXCEPT !.failures = 0]
                   /\ NextDelivery(p)
                   /\ UNCHANGED <<delivery, lease, fan, requests, faults, orders>>

MutantKeepOnceMore(p, waiting) ==
  /\ run[p].phase = "sending"
  /\ run[p].attempts + 1 <= MaxAttempts
  /\ IF StillPending(p)
     THEN delivery' = [delivery EXCEPT ![run[p].row].waiting = waiting]
     ELSE UNCHANGED delivery
  /\ Goto(p, "release")
  /\ UNCHANGED <<sub, lease, fan, requests, faults, orders>>

(* 408, 429, 5xx, a timeout or no connection, with attempts to spare.  A
   Retry-After of zero makes the row due at once.  The run stops. *)
Keep(p, waiting) ==
  /\ run[p].phase = "sending"
  /\ run[p].attempts + 1 < MaxAttempts
  /\ IF StillPending(p)
     THEN delivery' = [delivery EXCEPT ![run[p].row].waiting = waiting]
     ELSE UNCHANGED delivery
  /\ Goto(p, "release")
  /\ UNCHANGED <<sub, lease, fan, requests, faults, orders>>

(* Mutants: another run's outcome is written over; the breaker is charged
   whoever settled the row. *)
MutantDieAnyway(p, gone) ==
  /\ run[p].phase = "sending"
  /\ Settle(p, "dead")
  /\ run' = [run EXCEPT ![p].phase = "charge", ![p].gone = gone]
  /\ UNCHANGED <<sub, lease, fan, requests, faults, orders>>

MutantDieAndCharge(p, gone) ==
  /\ run[p].phase = "sending"
  /\ IF StillPending(p) THEN Settle(p, "dead") ELSE UNCHANGED delivery
  /\ run' = [run EXCEPT ![p].phase = "charge", ![p].gone = gone]
  /\ UNCHANGED <<sub, lease, fan, requests, faults, orders>>

(* The last attempt failed, or the answer is permanent: any other 3xx or
   4xx, a host the egress guard refuses, or 410, which is gone. *)
Die(p, gone) ==
  /\ run[p].phase = "sending"
  /\ IF StillPending(p)
     THEN /\ Settle(p, "dead")
          /\ run' = [run EXCEPT ![p].phase = "charge", ![p].gone = gone]
     ELSE NextDelivery(p) /\ UNCHANGED delivery
  /\ UNCHANGED <<sub, lease, fan, requests, faults, orders>>

ChargeBreaker(p) ==
  /\ run[p].phase = "charge"
  /\ sub' = [sub EXCEPT !.failures = @ + 1]
  /\ IF run[p].gone \/ sub.failures + 1 >= Threshold
     THEN Goto(p, "disable")
     ELSE NextDelivery(p)
  /\ UNCHANGED <<delivery, lease, fan, requests, faults, orders>>

AutoDisable(p) == /\ run[p].phase = "disable"
                  /\ sub' = [sub EXCEPT !.disabled = TRUE]
                  /\ Goto(p, "release")
                  /\ UNCHANGED <<delivery, lease, fan, requests, faults, orders>>

MutantGiveBackTwo(p) ==
  LET e == run[p].row IN
  /\ run[p].phase = "sending"
  /\ faults > 0
  /\ delivery' = [delivery EXCEPT ![e].attempts = run[p].attempts - 1,
                                  ![e].waiting = FALSE]
  /\ Goto(p, "release")
  /\ faults' = faults - 1
  /\ UNCHANGED <<sub, lease, fan, requests, orders>>

(* stop() aborts the request in flight: the attempt is given back, unless
   another run has counted one since. *)
Interrupt(p) ==
  LET e == run[p].row IN
  /\ run[p].phase = "sending"
  /\ faults > 0
  /\ IF StillPending(p) /\ delivery[e].attempts = run[p].attempts + 1
     THEN delivery' = [delivery EXCEPT ![e].attempts = run[p].attempts,
                                       ![e].waiting = FALSE]
     ELSE UNCHANGED delivery
  /\ Goto(p, "release")
  /\ faults' = faults - 1
  /\ UNCHANGED <<sub, lease, fan, requests, orders>>

MutantReleaseAny(p) ==
  /\ run[p].phase = "release"
  /\ lease' = [holder |-> Nobody, expired |-> FALSE]
  /\ run' = [run EXCEPT ![p] = NoRun]
  /\ UNCHANGED <<delivery, sub, fan, requests, faults, orders>>

(* The finally of the tick: only a lease that is still this run's. *)
Release(p) == /\ run[p].phase = "release"
              /\ lease' = IF lease.holder = p
                          THEN [holder |-> Nobody, expired |-> FALSE] ELSE lease
              /\ run' = [run EXCEPT ![p] = NoRun]
              /\ UNCHANGED <<delivery, sub, fan, requests, faults, orders>>

(* A statement fails, the secret cannot be decrypted, or the pump stops
   between two deliveries: the run ends through its finally. *)
Fail(p) == /\ run[p].phase \notin {"idle", "release"}
           /\ faults > 0
           /\ Goto(p, "release")
           /\ faults' = faults - 1
           /\ UNCHANGED <<delivery, sub, lease, fan, requests, orders>>

(* The process dies; its lease stays behind. *)
Crash(p) == /\ run[p].phase # "idle"
            /\ faults > 0
            /\ run' = [run EXCEPT ![p] = NoRun]
            /\ faults' = faults - 1
            /\ UNCHANGED <<delivery, sub, lease, fan, requests, orders>>

-----------------------------------------------------------------------------
(* Time *)

(* Nobody is left to renew the lease. *)
LeaseLapses == /\ lease.holder # Nobody /\ ~lease.expired
               /\ run[lease.holder].phase = "idle"
               /\ lease' = [lease EXCEPT !.expired = TRUE]
               /\ UNCHANGED <<delivery, sub, run, fan, requests, faults, orders>>

(* A run is held up for longer than its lease. *)
Outlive(p) == /\ run[p].phase # "idle"
              /\ lease = [holder |-> p, expired |-> FALSE]
              /\ faults > 0
              /\ lease' = [lease EXCEPT !.expired = TRUE]
              /\ run' = [run EXCEPT ![p].outlived = TRUE]
              /\ faults' = faults - 1
              /\ UNCHANGED <<delivery, sub, fan, requests, orders>>

BackoffElapses(e) ==
  /\ delivery[e].waiting
  /\ delivery' = [delivery EXCEPT ![e].waiting = FALSE]
  /\ UNCHANGED <<sub, lease, run, fan, requests, faults, orders>>

(* Only the head is asked for its age. *)
GrowsOld(e) ==
  /\ IsHead(e) /\ ~delivery[e].old
  /\ delivery' = [delivery EXCEPT ![e].old = TRUE]
  /\ UNCHANGED <<sub, lease, run, fan, requests, faults, orders>>

-----------------------------------------------------------------------------
(* The operator, and retention *)

ExpirePending == delivery' = [e \in Events |->
                                IF e \in Pending
                                THEN Outcome(delivery[e], "expired")
                                ELSE delivery[e]]

Order == /\ ~sub.deleted
         /\ orders > 0
         /\ orders' = orders - 1
         /\ UNCHANGED <<lease, fan, requests, faults>>

(* POST :id/enable.  The requests that come now are no longer late. *)
Enable == /\ Order
          /\ sub' = [sub EXCEPT !.enabled = TRUE, !.disabled = FALSE, !.failures = 0]
          /\ run' = [p \in Pumps |-> [run[p] EXCEPT !.late = 0]]
          /\ UNCHANGED delivery

(* POST :id/disable *)
Disable == /\ Order
           /\ sub' = [sub EXCEPT !.enabled = FALSE]
           /\ UNCHANGED <<delivery, run>>

(* DELETE :id, one transaction. *)
Delete == /\ Order
          /\ sub' = [sub EXCEPT !.deleted = TRUE]
          /\ ExpirePending
          /\ UNCHANGED run

(* The first loop of pruneWebhookDeliveries: rows a fan-out already running
   inserted behind the delete. *)
ExpireOrphans == /\ sub.deleted
                 /\ Pending # {}
                 /\ ExpirePending
                 /\ UNCHANGED <<sub, lease, run, fan, requests, faults, orders>>

-----------------------------------------------------------------------------
RunStep(p) ==
  \/ Renew(p) \/ Reload(p) \/ ReadNothing(p) \/ ExpireRow(p) \/ Stamp(p)
  \/ \E e \in Events : ReadHead(p, e)
  \/ Deliver(p) \/ \E waiting \in BOOLEAN : Keep(p, waiting)
  \/ \E gone \in BOOLEAN : Die(p, gone)
  \/ ResetBreaker(p) \/ ChargeBreaker(p) \/ AutoDisable(p) \/ Release(p)

Fault(p) == Interrupt(p) \/ Fail(p) \/ Crash(p) \/ Outlive(p)
Operator == Enable \/ Disable \/ Delete
Elapse == LeaseLapses \/ \E e \in Events : BackoffElapses(e) \/ GrowsOld(e)

WebNext == \/ Dispatch \/ Operator \/ Elapse \/ ExpireOrphans
           \/ \E p \in Pumps : Claim(p) \/ RunStep(p) \/ Fault(p)

(* Some pump ticks, a run's statements return and its requests time out, time
   passes, and retention is scheduled. *)
WebFairness == /\ WF_webVars(\E p \in Pumps : Claim(p))
               /\ \A p \in Pumps : WF_webVars(RunStep(p))
               /\ \A e \in Events : WF_webVars(BackoffElapses(e))
               /\ WF_webVars(LeaseLapses)
               /\ WF_webVars(ExpireOrphans)

WebSpec == WebInit /\ [][WebNext]_webVars
FairWebSpec == WebSpec /\ WebFairness

-----------------------------------------------------------------------------
(* Properties *)

WebTypeOK == /\ delivery \in [Events -> Deliveries]
             /\ sub \in Subscriptions
             /\ lease \in Leases
             /\ run \in [Pumps -> Runs]
             /\ fan \in Fans
             /\ requests \in [Events -> Nat]
             /\ faults \in Nat
             /\ orders \in Nat

(* The ordering promise: once a request for an event has gone out, no earlier
   event is still owed, whichever runs sent them and however they ended. *)
NothingOvertakes ==
  \A d, e \in Events : d < e /\ requests[e] > 0 => d \notin Pending

(* At most one run at a time, however runs begin, crash and let go of the
   lease: of two, one has outlived its lease and not yet renewed. *)
OneRun ==
  \A p, q \in Pumps :
    p # q /\ run[p].phase # "idle" /\ run[q].phase # "idle"
      => run[p].outlived \/ run[q].outlived

(* An outcome that one run recorded stands: no slower run, expiry or delete
   writes another over it. *)
OutcomeStands ==
  [][\A e \in Events : delivery[e].status \in Settled
                         => delivery'[e].status = delivery[e].status]_webVars

(* The breaker counts a dead delivery once, by whichever run it died. *)
BreakerCountsTheDead ==
  sub.failures <= Cardinality({e \in Events : delivery[e].status = "dead"})

(* A subscription that stops being live costs its receiver at most one more
   request of a run already at work. *)
OneLateRequest == \A p \in Pumps : run[p].late <= 1

(* Each request beyond the budget of a delivery is the price of a fault. *)
RequestsAreBudgeted ==
  \A e \in Events : requests[e] <= MaxAttempts + (MaxFaults - faults)

(* Whatever crashes, fails or is held up, a delivery is settled in the end,
   unless the subscription is off. *)
DeliveriesAreSettled ==
  \A e \in Events :
    e \in Pending ~> (e \notin Pending \/ ~sub.enabled \/ sub.disabled)
=============================================================================
