---------------------- MODULE WebhookDelivery_proofs ----------------------
(* Proofs about WebhookDelivery, for any pumps, log and limits: the types,
   the lease, the order of the deliveries, what a run still sends once the
   subscription is off, the breaker, and the budget of requests. *)
EXTENDS WebhookDelivery, FiniteSetTheorems, TLAPS

(* The actions that end a delivery or send a run elsewhere, and their types. *)
LEMMA NextDeliveryTypes ==
  ASSUME run \in [Pumps -> Runs], NEW p \in Pumps, NextDelivery(p)
  PROVE  run' \in [Pumps -> Runs]
  BY DEF NextDelivery, Runs, Phases

LEMMA GotoTypes ==
  ASSUME run \in [Pumps -> Runs], NEW p \in Pumps, NEW phase \in Phases,
         Goto(p, phase)
  PROVE  run' \in [Pumps -> Runs]
  BY DEF Goto, Runs

LEMMA ReadTypes ==
  ASSUME run \in [Pumps -> Runs], NEW p \in Pumps, NEW phase \in Phases,
         NEW e \in Nat, NEW n \in Nat,
         run' = [run EXCEPT ![p].phase = phase, ![p].row = e, ![p].attempts = n]
  PROVE  run' \in [Pumps -> Runs]
<1> DEFINE r == [run[p] EXCEPT !.phase = phase, !.row = e, !.attempts = n]
<1>1. run' = [run EXCEPT ![p] = r]
  OBVIOUS
<1>2. r \in Runs
  BY DEF Runs
<1> QED BY <1>1, <1>2

LEMMA SettleTypes ==
  ASSUME delivery \in [Events -> Deliveries], NEW p \in Pumps,
         NEW status \in Settled, Settle(p, status)
  PROVE  delivery' \in [Events -> Deliveries]
  BY DEF Settle, Outcome, Deliveries

LEMMA ExpirePendingTypes ==
  ASSUME delivery \in [Events -> Deliveries], ExpirePending
  PROVE  delivery' \in [Events -> Deliveries]
  BY DEF ExpirePending, Outcome, Deliveries, Settled

LEMMA WebTypeInit == WebInit => WebTypeOK
  BY LimitsAssumption
     DEF WebInit, WebTypeOK, NoDelivery, NoRun, Deliveries, Runs, Phases,
         Subscriptions, Leases, Fans

LEMMA RunTypes ==
  ASSUME WebTypeOK, NEW p \in Pumps, RunStep(p)
  PROVE  WebTypeOK'
<1> USE DEF WebTypeOK
<1>1. CASE Renew(p)
  <2>1. lease' \in Leases
    BY <1>1 DEF Renew, Leases
  <2>2. run' \in [Pumps -> Runs]
    BY <1>1, GotoTypes DEF Renew, Runs, Phases
  <2> QED BY <1>1, <2>1, <2>2 DEF Renew
<1>2. CASE Reload(p)
  BY <1>2, GotoTypes DEF Reload, Phases
<1>3. CASE ReadNothing(p)
  BY <1>3, GotoTypes DEF ReadNothing, Phases
<1>4. CASE ExpireRow(p)
  BY <1>4, NextDeliveryTypes, SettleTypes DEF ExpireRow, Settled
<1>5. CASE Stamp(p)
  <2>1. delivery' \in [Events -> Deliveries]
    BY <1>5 DEF Stamp, Deliveries
  <2>2. requests' \in [Events -> Nat]
    BY <1>5 DEF Stamp
  <2>3. run' \in [Pumps -> Runs]
    BY <1>5, GotoTypes DEF Stamp, Runs, Phases
  <2> QED BY <1>5, <2>1, <2>2, <2>3 DEF Stamp
<1>6. ASSUME NEW e \in Events, ReadHead(p, e)
      PROVE  WebTypeOK'
  <2>1. delivery[e].attempts \in Nat /\ e \in Nat
    BY DEF Deliveries, Events
  <2>2. PICK phase \in Phases :
          run' = [run EXCEPT ![p].phase = phase, ![p].row = e,
                             ![p].attempts = delivery[e].attempts]
    <3>1. (CASE delivery[e].old -> "expire"
             [] delivery[e].waiting -> "release"
             [] OTHER -> "stamp") \in Phases
      BY DEF Phases
    <3> QED BY <1>6, <3>1 DEF ReadHead
  <2>3. run' \in [Pumps -> Runs]
    BY <2>1, <2>2, ReadTypes
  <2> QED BY <1>6, <2>3 DEF ReadHead
<1>7. CASE Deliver(p)
  BY <1>7, NextDeliveryTypes, GotoTypes, SettleTypes DEF Deliver, Settled, Phases
<1>8. ASSUME NEW waiting \in BOOLEAN, Keep(p, waiting)
      PROVE  WebTypeOK'
  BY <1>8, GotoTypes DEF Keep, Phases, Deliveries
<1>9. ASSUME NEW gone \in BOOLEAN, Die(p, gone)
      PROVE  WebTypeOK'
  <2>1. delivery' \in [Events -> Deliveries]
    BY <1>9, SettleTypes DEF Die, Settled
  <2>2. run' \in [Pumps -> Runs]
    BY <1>9, NextDeliveryTypes DEF Die, Runs, Phases
  <2> QED BY <1>9, <2>1, <2>2 DEF Die
<1>10. CASE ResetBreaker(p)
  BY <1>10, NextDeliveryTypes DEF ResetBreaker, Subscriptions
<1>11. CASE ChargeBreaker(p)
  BY <1>11, NextDeliveryTypes, GotoTypes DEF ChargeBreaker, Phases, Subscriptions
<1>12. CASE AutoDisable(p)
  BY <1>12, GotoTypes DEF AutoDisable, Phases, Subscriptions
<1>13. CASE Release(p)
  BY <1>13 DEF Release, NoRun, Runs, Phases, Leases
<1> QED BY <1>1, <1>2, <1>3, <1>4, <1>5, <1>6, <1>7, <1>8, <1>9, <1>10,
           <1>11, <1>12, <1>13 DEF RunStep

LEMMA FaultTypes ==
  ASSUME WebTypeOK, NEW p \in Pumps, Fault(p)
  PROVE  WebTypeOK'
<1> USE DEF WebTypeOK
<1>1. CASE Interrupt(p)
  <2>1. delivery' \in [Events -> Deliveries]
    <3>1. run[p].attempts \in Nat
      BY DEF Runs
    <3>2. CASE UNCHANGED delivery
      BY <3>2
    <3>3. CASE delivery' = [delivery EXCEPT
                              ![run[p].row].attempts = run[p].attempts,
                              ![run[p].row].waiting = FALSE]
      BY <3>1, <3>3 DEF Deliveries
    <3> QED BY <1>1, <3>2, <3>3 DEF Interrupt
  <2>2. run' \in [Pumps -> Runs]
    BY <1>1, GotoTypes DEF Interrupt, Phases
  <2> QED BY <1>1, <2>1, <2>2 DEF Interrupt
<1>2. CASE Fail(p)
  BY <1>2, GotoTypes DEF Fail, Phases
<1>3. CASE Crash(p)
  BY <1>3 DEF Crash, NoRun, Runs, Phases
<1>4. CASE Outlive(p)
  <2>1. lease' \in Leases
    BY <1>4 DEF Outlive, Leases
  <2>2. run' \in [Pumps -> Runs]
    BY <1>4 DEF Outlive, Runs
  <2> QED BY <1>4, <2>1, <2>2 DEF Outlive
<1> QED BY <1>1, <1>2, <1>3, <1>4 DEF Fault

LEMMA WebTypeStep == WebTypeOK /\ [WebNext]_webVars => WebTypeOK'
<1> SUFFICES ASSUME WebTypeOK, [WebNext]_webVars PROVE WebTypeOK'
  OBVIOUS
<1>13. Order => orders' \in Nat
  BY DEF WebTypeOK, Order
<1>14. /\ fan \in Fans
       /\ fan.cursor \in Nat /\ fan.next \in Nat /\ fan.batch \in SUBSET Events
  BY DEF WebTypeOK, Fans
<1>1. CASE Match
  <2>1. fan' \in Fans
    <3>1. PICK batch \in SUBSET Events :
            fan' = [cursor |-> fan.cursor, next |-> fan.next + 1, batch |-> batch]
      <4>1. CASE sub.enabled /\ ~sub.deleted
        BY <1>1, <1>14, <4>1 DEF Match, Fans
      <4>2. CASE ~(sub.enabled /\ ~sub.deleted)
        BY <1>1, <1>14, <4>2 DEF Match, Fans
      <4> QED BY <4>1, <4>2
    <3> QED BY <3>1, <1>14 DEF Fans
  <2> QED BY <1>1, <2>1 DEF WebTypeOK, Match
<1>2. CASE CommitBatch
  <2>1. fan' \in Fans
    <3>1. fan' = [cursor |-> fan.next - 1, next |-> fan.next, batch |-> {}]
      BY <1>2, <1>14 DEF CommitBatch, Fans
    <3>2. fan.next - 1 \in Nat
      BY <1>2, <1>14 DEF CommitBatch
    <3> QED BY <3>1, <3>2, <1>14 DEF Fans
  <2>2. delivery' \in [Events -> Deliveries]
    BY <1>2 DEF WebTypeOK, CommitBatch, NoDelivery, Deliveries
  <2> QED BY <1>2, <2>1, <2>2 DEF WebTypeOK, CommitBatch
<1>3. CASE RollBackBatch
  <2>1. fan' \in Fans
    <3>1. fan' = [cursor |-> fan.cursor, next |-> fan.cursor + 1, batch |-> {}]
      BY <1>3, <1>14 DEF RollBackBatch, Fans
    <3> QED BY <3>1, <1>14 DEF Fans
  <2>2. faults' \in Nat
    BY <1>3 DEF WebTypeOK, RollBackBatch
  <2> QED BY <1>3, <2>1, <2>2 DEF WebTypeOK, RollBackBatch
<1>4. CASE Enable
  <2>1. sub' \in Subscriptions
    BY <1>4 DEF WebTypeOK, Enable, Subscriptions
  <2>2. run' \in [Pumps -> Runs]
    BY <1>4 DEF WebTypeOK, Enable, Runs
  <2> QED BY <1>4, <1>13, <2>1, <2>2 DEF WebTypeOK, Enable, Order
<1>5. CASE Disable
  <2>1. sub' \in Subscriptions
    BY <1>5 DEF WebTypeOK, Disable, Subscriptions
  <2> QED BY <1>5, <1>13, <2>1 DEF WebTypeOK, Disable, Order
<1>6. CASE Delete
  <2>1. sub' \in Subscriptions
    BY <1>6 DEF WebTypeOK, Delete, Subscriptions
  <2> QED BY <1>6, <1>13, <2>1, ExpirePendingTypes DEF WebTypeOK, Delete, Order
<1>7. CASE ExpireOrphans
  BY <1>7, ExpirePendingTypes DEF WebTypeOK, ExpireOrphans
<1>8. CASE LeaseLapses
  BY <1>8 DEF WebTypeOK, LeaseLapses, Leases
<1>9. ASSUME NEW e \in Events, BackoffElapses(e) \/ GrowsOld(e)
      PROVE  WebTypeOK'
  <2>1. delivery \in [Events -> Deliveries]
    BY DEF WebTypeOK
  <2>2. CASE BackoffElapses(e)
    <3>1. delivery' \in [Events -> Deliveries]
      BY <2>1, <2>2 DEF BackoffElapses, Deliveries
    <3> QED BY <2>2, <3>1 DEF WebTypeOK, BackoffElapses
  <2>3. CASE GrowsOld(e)
    <3>1. delivery' \in [Events -> Deliveries]
      BY <2>1, <2>3 DEF GrowsOld, Deliveries
    <3> QED BY <2>3, <3>1 DEF WebTypeOK, GrowsOld
  <2> QED BY <1>9, <2>2, <2>3
<1>10. ASSUME NEW p \in Pumps, Claim(p)
       PROVE  WebTypeOK'
  BY <1>10 DEF WebTypeOK, Claim, NoRun, Runs, Phases, Leases
<1>11. ASSUME NEW p \in Pumps, RunStep(p) \/ Fault(p)
       PROVE  WebTypeOK'
  BY <1>11, RunTypes, FaultTypes
<1>12. CASE UNCHANGED webVars
  BY <1>12 DEF WebTypeOK, webVars
<1> QED BY <1>1, <1>2, <1>3, <1>4, <1>5, <1>6, <1>7, <1>8, <1>9, <1>10, <1>11,
           <1>12 DEF WebNext, Dispatch, Operator, Elapse

(* Every step of the deliveries keeps the types of WebTypeOK. *)
THEOREM WebTyping == WebSpec => []WebTypeOK
  BY WebTypeInit, WebTypeStep, PTL DEF WebSpec

-----------------------------------------------------------------------------
(* The lease *)

(* A run in progress that has not outlived its lease holds it, unexpired. *)
LeaseInv ==
  \A p \in Pumps :
    run[p].phase # "idle" /\ ~run[p].outlived
      => lease.holder = p /\ ~lease.expired

(* What a step of a run, other than a renewal and the release, leaves alone. *)
LEMMA Works ==
  ASSUME WebTypeOK, NEW p \in Pumps, RunStep(p) \/ Interrupt(p) \/ Fail(p),
         ~Renew(p), ~Release(p)
  PROVE  /\ lease' = lease
         /\ run[p].phase # "idle"
         /\ run'[p].outlived = run[p].outlived
         /\ \A q \in Pumps : q # p => run'[q] = run[q]
<1>1. run \in [Pumps -> Runs]
  BY DEF WebTypeOK
<1>2. ASSUME NEW phase, Goto(p, phase)
      PROVE  /\ run'[p].outlived = run[p].outlived
             /\ \A q \in Pumps : q # p => run'[q] = run[q]
  BY <1>1, <1>2 DEF Goto, Runs
<1>3. ASSUME NextDelivery(p)
      PROVE  /\ run'[p].outlived = run[p].outlived
             /\ \A q \in Pumps : q # p => run'[q] = run[q]
  BY <1>1, <1>3 DEF NextDelivery, Runs
<1>4. CASE Reload(p) \/ ReadNothing(p) \/ ExpireRow(p)
  BY <1>2, <1>3, <1>4 DEF Reload, ReadNothing, ExpireRow
<1>5. CASE Stamp(p)
  BY <1>1, <1>2, <1>5 DEF Stamp, Runs
<1>6. ASSUME NEW e \in Events, ReadHead(p, e)
      PROVE  /\ lease' = lease
             /\ run[p].phase # "idle"
             /\ run'[p].outlived = run[p].outlived
             /\ \A q \in Pumps : q # p => run'[q] = run[q]
  BY <1>1, <1>6 DEF ReadHead, Runs
<1>7. CASE Deliver(p) \/ \E waiting \in BOOLEAN : Keep(p, waiting)
  BY <1>2, <1>3, <1>7 DEF Deliver, Keep
<1>8. ASSUME NEW gone \in BOOLEAN, Die(p, gone)
      PROVE  /\ lease' = lease
             /\ run[p].phase # "idle"
             /\ run'[p].outlived = run[p].outlived
             /\ \A q \in Pumps : q # p => run'[q] = run[q]
  BY <1>1, <1>3, <1>8 DEF Die, Runs
<1>9. CASE ResetBreaker(p) \/ ChargeBreaker(p) \/ AutoDisable(p)
  BY <1>2, <1>3, <1>9 DEF ResetBreaker, ChargeBreaker, AutoDisable
<1>10. CASE Interrupt(p) \/ Fail(p)
  BY <1>2, <1>10 DEF Interrupt, Fail
<1> QED BY <1>4, <1>5, <1>6, <1>7, <1>8, <1>9, <1>10 DEF RunStep

LEMMA LeaseInit == WebInit => LeaseInv
  BY DEF WebInit, LeaseInv, NoRun

LEMMA LeaseStep == WebTypeOK /\ LeaseInv /\ [WebNext]_webVars => LeaseInv'
<1> SUFFICES ASSUME WebTypeOK, LeaseInv, [WebNext]_webVars,
                    NEW q \in Pumps, run'[q].phase # "idle", ~run'[q].outlived
             PROVE  lease'.holder = q /\ ~lease'.expired
  BY DEF LeaseInv
<1>1. /\ run[q].phase # "idle" /\ ~run[q].outlived
          => lease.holder = q /\ ~lease.expired
      /\ lease \in Leases
      /\ run \in [Pumps -> Runs]
  BY DEF LeaseInv, WebTypeOK
<1>2. CASE lease' = lease /\ run'[q].phase = run[q].phase
             /\ run'[q].outlived = run[q].outlived
  BY <1>1, <1>2
<1>3. CASE Dispatch \/ Disable \/ Delete \/ ExpireOrphans
  BY <1>2, <1>3 DEF Dispatch, Match, CommitBatch, RollBackBatch, Disable,
                    Delete, Order, ExpireOrphans
<1>4. CASE Enable
  <2>1. run'[q].phase = run[q].phase /\ run'[q].outlived = run[q].outlived
    BY <1>1, <1>4 DEF Enable, Runs
  <2> QED BY <1>2, <1>4, <2>1 DEF Enable, Order
<1>5. CASE LeaseLapses
  <2>1. run'[q] = run[q]
    BY <1>5 DEF LeaseLapses
  <2>2. lease.holder = q
    BY <1>1, <2>1
  <2> QED BY <1>5, <2>1, <2>2 DEF LeaseLapses
<1>6. CASE \E e \in Events : BackoffElapses(e) \/ GrowsOld(e)
  BY <1>2, <1>6 DEF BackoffElapses, GrowsOld
<1>7. ASSUME NEW p \in Pumps, Claim(p)
      PROVE  lease'.holder = q /\ ~lease'.expired
  <2>1. CASE q = p
    BY <1>7, <2>1 DEF Claim
  <2>2. CASE q # p
    <3>1. run'[q] = run[q]
      BY <1>7, <2>2 DEF Claim
    <3>2. lease.holder = q /\ ~lease.expired
      BY <1>1, <3>1
    <3> QED BY <1>7, <3>2, PumpsAssumption DEF Claim
  <2> QED BY <2>1, <2>2
<1>8. ASSUME NEW p \in Pumps, Renew(p)
      PROVE  lease'.holder = q /\ ~lease'.expired
  <2>1. CASE lease.holder = p /\ q = p
    BY <1>1, <1>8, <2>1 DEF Renew, Leases
  <2>2. CASE lease.holder = p /\ q # p
    <3>1. run'[q] = run[q]
      BY <1>1, <1>8, <2>2 DEF Renew
    <3> QED BY <1>1, <2>2, <3>1
  <2>3. CASE lease.holder # p
    BY <1>1, <1>2, <1>8, <2>3 DEF Renew, Goto, Runs
  <2> QED BY <2>1, <2>2, <2>3
<1>9. ASSUME NEW p \in Pumps, Release(p) \/ Crash(p)
      PROVE  lease'.holder = q /\ ~lease'.expired
  <2>1. q # p
    BY <1>1, <1>9 DEF Release, Crash, NoRun
  <2>2. run'[q] = run[q]
    BY <1>1, <1>9, <2>1 DEF Release, Crash
  <2>3. lease.holder = q /\ ~lease.expired
    BY <1>1, <2>2
  <2> QED BY <1>9, <2>1, <2>3 DEF Release, Crash
<1>10. ASSUME NEW p \in Pumps, Outlive(p)
       PROVE  lease'.holder = q /\ ~lease'.expired
  <2>1. q # p
    BY <1>1, <1>10 DEF Outlive, Runs
  <2>2. run'[q] = run[q] /\ lease.holder = p
    BY <1>10, <2>1 DEF Outlive
  <2> QED BY <1>1, <2>1, <2>2
<1>11. ASSUME NEW p \in Pumps, RunStep(p) \/ Interrupt(p) \/ Fail(p),
              ~Renew(p), ~Release(p)
       PROVE  lease'.holder = q /\ ~lease'.expired
  <2>1. /\ lease' = lease
        /\ run[p].phase # "idle"
        /\ run'[p].outlived = run[p].outlived
        /\ \A r \in Pumps : r # p => run'[r] = run[r]
    BY <1>11, Works
  <2> QED BY <1>1, <2>1
<1>12. CASE UNCHANGED webVars
  BY <1>2, <1>12 DEF webVars
<1> QED BY <1>3, <1>4, <1>5, <1>6, <1>7, <1>8, <1>9, <1>10, <1>11, <1>12
        DEF WebNext, Operator, Elapse, Fault

(* Of two runs on the subscription, one has outlived its lease: no order of
   claims, renewals, crashes and releases makes two senders otherwise. *)
THEOREM OneRunAtATime == WebSpec => []OneRun
<1>1. LeaseInv => OneRun
  BY DEF LeaseInv, OneRun
<1> QED BY <1>1, WebTypeInit, WebTypeStep, LeaseInit, LeaseStep, PTL DEF WebSpec

-----------------------------------------------------------------------------
(* The order of the deliveries *)

(* Every event before e is fanned out and settled, and so is not owed any
   more: nothing can be sent behind e. *)
Passed(e) == e <= fan.cursor /\ \A d \in Events : d < e => d \notin Pending

HoldsPassed(p) == run[p].row \in Events /\ Passed(run[p].row)

OrderInv ==
  /\ fan.cursor < fan.next
  /\ \A e \in fan.batch : fan.cursor < e /\ e < fan.next
  /\ \A e \in Events : delivery[e].status # "none" => e <= fan.cursor
  /\ \A p \in Pumps : run[p].phase \in {"expire", "stamp", "sending"}
                        => HoldsPassed(p)
  /\ \A e \in Events : requests[e] > 0 => Passed(e)

(* What a step may do to a delivery: insert it behind the cursor, settle it
   while it is pending, or leave its status. *)
Moves(e) == \/ delivery'[e].status = delivery[e].status
            \/ delivery[e].status = "pending" /\ delivery'[e].status \in Settled
            \/ /\ delivery[e].status = "none" /\ delivery'[e].status = "pending"
               /\ fan.cursor < e /\ e <= fan'.cursor

LEMMA SettleMoves ==
  ASSUME WebTypeOK, NEW p \in Pumps, StillPending(p), NEW status \in Settled,
         Settle(p, status), NEW e \in Events
  PROVE  Moves(e)
<1>1. delivery \in [Events -> Deliveries]
  BY DEF WebTypeOK
<1>2. CASE e = run[p].row
  BY <1>1, <1>2 DEF StillPending, Settle, Outcome, Moves, Deliveries
<1>3. CASE e # run[p].row
  BY <1>1, <1>3 DEF Settle, Moves
<1> QED BY <1>2, <1>3

LEMMA ExpirePendingMoves ==
  ASSUME WebTypeOK, ExpirePending, NEW e \in Events
  PROVE  Moves(e)
<1>1. delivery \in [Events -> Deliveries]
  BY DEF WebTypeOK
<1>2. CASE e \in Pending
  BY <1>1, <1>2 DEF ExpirePending, Outcome, Pending, Moves, Settled, Deliveries
<1>3. CASE e \notin Pending
  BY <1>1, <1>3 DEF ExpirePending, Moves
<1> QED BY <1>2, <1>3

LEMMA StepMoves ==
  ASSUME WebTypeOK, OrderInv, [WebNext]_webVars, NEW e \in Events
  PROVE  Moves(e)
<1>1. delivery \in [Events -> Deliveries]
  BY DEF WebTypeOK
<1>2. CASE UNCHANGED delivery
  BY <1>2 DEF Moves
<1>3. CASE CommitBatch
  <2>1. CASE e \in fan.batch
    <3>1. fan.cursor < e /\ e < fan.next /\ delivery[e].status = "none"
      BY <2>1 DEF OrderInv, WebTypeOK, Fans, Events
    <3>2. fan'.cursor = fan.next - 1 /\ fan.next \in Nat
      BY <1>3 DEF CommitBatch, WebTypeOK, Fans
    <3>3. delivery'[e].status = "pending"
      BY <1>3, <2>1 DEF CommitBatch, NoDelivery
    <3> QED BY <3>1, <3>2, <3>3 DEF Moves, Events
  <2>2. CASE e \notin fan.batch
    BY <1>3, <2>2 DEF CommitBatch, Moves
  <2> QED BY <2>1, <2>2
<1>4. CASE Match \/ RollBackBatch \/ Enable \/ Disable \/ LeaseLapses
  BY <1>2, <1>4 DEF Match, RollBackBatch, Enable, Disable, LeaseLapses
<1>5. CASE Delete \/ ExpireOrphans
  BY <1>5, ExpirePendingMoves DEF Delete, ExpireOrphans
<1>6. CASE \E d \in Events : BackoffElapses(d) \/ GrowsOld(d)
  <2>1. delivery'[e].status = delivery[e].status
    BY <1>1, <1>6 DEF BackoffElapses, GrowsOld, Deliveries
  <2> QED BY <2>1 DEF Moves
<1>7. ASSUME NEW p \in Pumps, Claim(p) \/ Fail(p) \/ Crash(p) \/ Outlive(p)
      PROVE  Moves(e)
  BY <1>2, <1>7 DEF Claim, Fail, Crash, Outlive
<1>8. ASSUME NEW p \in Pumps, Interrupt(p)
      PROVE  Moves(e)
  <2>1. delivery'[e].status = delivery[e].status
    BY <1>1, <1>8 DEF Interrupt, Deliveries
  <2> QED BY <2>1 DEF Moves
<1>9. ASSUME NEW p \in Pumps, Stamp(p) \/ \E waiting \in BOOLEAN : Keep(p, waiting)
      PROVE  Moves(e)
  <2>1. CASE Stamp(p)
    <3>1. delivery'[e].status = delivery[e].status
      BY <1>1, <2>1 DEF Stamp, Deliveries
    <3> QED BY <3>1 DEF Moves
  <2>2. ASSUME NEW waiting \in BOOLEAN, Keep(p, waiting)
        PROVE  Moves(e)
    <3>1. delivery'[e].status = delivery[e].status
      BY <1>1, <2>2 DEF Keep, Deliveries
    <3> QED BY <3>1 DEF Moves
  <2> QED BY <1>9, <2>1, <2>2
<1>10. ASSUME NEW p \in Pumps,
              ExpireRow(p) \/ Deliver(p) \/ \E gone \in BOOLEAN : Die(p, gone)
       PROVE  Moves(e)
  <2>1. CASE UNCHANGED delivery
    BY <1>2, <2>1
  <2>2. CASE StillPending(p) /\ \E status \in Settled : Settle(p, status)
    BY <2>2, SettleMoves
  <2> QED BY <1>10, <2>1, <2>2 DEF ExpireRow, Deliver, Die, Settled
<1>11. ASSUME NEW p \in Pumps,
              \/ Renew(p) \/ Reload(p) \/ ReadNothing(p) \/ Release(p)
              \/ \E d \in Events : ReadHead(p, d)
              \/ ResetBreaker(p) \/ ChargeBreaker(p) \/ AutoDisable(p)
       PROVE  Moves(e)
  BY <1>2, <1>11 DEF Renew, Reload, ReadNothing, Release, ReadHead, ResetBreaker,
                     ChargeBreaker, AutoDisable
<1> QED BY <1>2, <1>3, <1>4, <1>5, <1>6, <1>7, <1>8, <1>9, <1>10, <1>11
        DEF WebNext, Dispatch, Operator, Elapse, RunStep, Fault, webVars

(* Nobody but the dispatcher moves its cursor, and nobody but a run that
   stamps its row makes a request. *)
LEMMA Idle ==
  ASSUME [WebNext]_webVars
  PROVE  /\ UNCHANGED fan \/ Dispatch
         /\ UNCHANGED requests \/ \E p \in Pumps : Stamp(p)
<1>1. CASE Dispatch
  BY <1>1 DEF Dispatch, Match, CommitBatch, RollBackBatch
<1>2. CASE Operator \/ ExpireOrphans \/ Elapse
  BY <1>2 DEF Operator, Enable, Disable, Delete, Order, ExpireOrphans, Elapse,
              LeaseLapses, BackoffElapses, GrowsOld
<1>3. ASSUME NEW p \in Pumps, Claim(p) \/ Fault(p)
      PROVE  UNCHANGED <<fan, requests>>
  BY <1>3 DEF Claim, Fault, Interrupt, Fail, Crash, Outlive
<1>4. ASSUME NEW p \in Pumps, Stamp(p)
      PROVE  UNCHANGED fan
  BY <1>4 DEF Stamp
<1>5. ASSUME NEW p \in Pumps, RunStep(p), ~Stamp(p)
      PROVE  UNCHANGED <<fan, requests>>
  <2>1. CASE Renew(p) \/ Reload(p) \/ ReadNothing(p) \/ Release(p)
    BY <2>1 DEF Renew, Reload, ReadNothing, Release
  <2>2. CASE ExpireRow(p) \/ \E e \in Events : ReadHead(p, e)
    BY <2>2 DEF ExpireRow, ReadHead
  <2>3. CASE \/ Deliver(p) \/ \E waiting \in BOOLEAN : Keep(p, waiting)
             \/ \E gone \in BOOLEAN : Die(p, gone)
    BY <2>3 DEF Deliver, Keep, Die
  <2>4. CASE ResetBreaker(p) \/ ChargeBreaker(p) \/ AutoDisable(p)
    BY <2>4 DEF ResetBreaker, ChargeBreaker, AutoDisable
  <2> QED BY <1>5, <2>1, <2>2, <2>3, <2>4 DEF RunStep
<1>6. CASE UNCHANGED webVars
  BY <1>6 DEF webVars
<1> QED BY <1>1, <1>2, <1>3, <1>4, <1>5, <1>6 DEF WebNext

(* The dispatcher's part. *)
LEMMA FanStep ==
  ASSUME WebTypeOK, OrderInv, [WebNext]_webVars
  PROVE  /\ fan'.cursor \in Nat /\ fan.cursor <= fan'.cursor
         /\ fan'.cursor < fan'.next
         /\ \A e \in fan'.batch : fan'.cursor < e /\ e < fan'.next
<1>1. /\ fan \in Fans /\ fan.cursor \in Nat /\ fan.next \in Nat
      /\ fan.batch \subseteq Events
      /\ fan.cursor < fan.next
      /\ \A e \in fan.batch : fan.cursor < e /\ e < fan.next
  BY DEF WebTypeOK, OrderInv, Fans
<1>2. CASE UNCHANGED fan
  BY <1>1, <1>2
<1>3. CASE Match
  <2>1. /\ fan'.cursor = fan.cursor /\ fan'.next = fan.next + 1
        /\ fan'.batch \subseteq fan.batch \union {fan.next}
    BY <1>1, <1>3 DEF Match, Fans
  <2> QED BY <1>1, <2>1 DEF Events
<1>4. CASE CommitBatch
  <2>1. fan'.cursor = fan.next - 1 /\ fan'.next = fan.next /\ fan'.batch = {}
    BY <1>1, <1>4 DEF CommitBatch, Fans
  <2> QED BY <1>1, <1>4, <2>1 DEF CommitBatch
<1>5. CASE RollBackBatch
  <2>1. fan'.cursor = fan.cursor /\ fan'.next = fan.cursor + 1 /\ fan'.batch = {}
    BY <1>1, <1>5 DEF RollBackBatch, Fans
  <2> QED BY <1>1, <2>1
<1> QED BY <1>2, <1>3, <1>4, <1>5, Idle DEF Dispatch

(* What has been passed stays passed: a row is never pending again, and new
   rows are inserted behind the cursor. *)
LEMMA PassedStays ==
  ASSUME WebTypeOK, OrderInv, [WebNext]_webVars, NEW e \in Events, Passed(e)
  PROVE  Passed(e)'
<1>1. e <= fan'.cursor
  BY FanStep DEF Passed, WebTypeOK, Fans, Events
<1>2. ASSUME NEW d \in Events, d < e
      PROVE  d \notin Pending'
  <2>1. Moves(d) /\ d <= fan.cursor /\ delivery[d].status # "pending"
    BY <1>2, StepMoves DEF Passed, Pending, WebTypeOK, Fans, Events
  <2> QED BY <2>1 DEF Moves, Pending, Settled, WebTypeOK, Fans, Events
<1> QED BY <1>1, <1>2 DEF Passed

LEMMA OrderInit == WebInit => OrderInv
  BY DEF WebInit, OrderInv, NoDelivery, NoRun

(* A run holds a row from the moment it reads it: the head, so that all in
   front of it is passed. *)
LEMMA HeadIsPassed ==
  ASSUME WebTypeOK, OrderInv, NEW e \in Events, IsHead(e)
  PROVE  Passed(e)
<1>1. e <= fan.cursor
  BY DEF OrderInv, IsHead, Pending
<1>2. ASSUME NEW d \in Events, d < e
      PROVE  d \notin Pending
  BY <1>2 DEF IsHead, Events
<1> QED BY <1>1, <1>2 DEF Passed

LEMMA RunsHoldPassedRows ==
  ASSUME WebTypeOK, OrderInv, [WebNext]_webVars, NEW q \in Pumps,
         run'[q].phase \in {"expire", "stamp", "sending"}
  PROVE  HoldsPassed(q)'
<1> DEFINE Holds == run[q].phase \in {"expire", "stamp", "sending"}
<1>1. run \in [Pumps -> Runs]
  BY DEF WebTypeOK
<1>2. CASE Holds /\ run'[q].row = run[q].row
  <2>1. PICK e \in Events : e = run[q].row /\ Passed(e)
    BY <1>2 DEF OrderInv, HoldsPassed
  <2>2. Passed(e)'
    BY <2>1, PassedStays
  <2> QED BY <1>2, <2>1, <2>2 DEF HoldsPassed
<1>3. CASE run'[q] = run[q]
  BY <1>2, <1>3
<1>4. CASE Dispatch \/ Disable \/ Delete \/ ExpireOrphans \/ LeaseLapses
  BY <1>3, <1>4 DEF Dispatch, Match, CommitBatch, RollBackBatch, Disable, Delete,
                    ExpireOrphans, LeaseLapses
<1>5. CASE \E e \in Events : BackoffElapses(e) \/ GrowsOld(e)
  BY <1>3, <1>5 DEF BackoffElapses, GrowsOld
<1>6. CASE Enable
  <2>1. run'[q].phase = run[q].phase /\ run'[q].row = run[q].row
    BY <1>1, <1>6 DEF Enable, Runs
  <2> QED BY <1>2, <2>1
<1>7. ASSUME NEW p \in Pumps, NEW e \in Events, ReadHead(p, e)
      PROVE  HoldsPassed(q)'
  <2>1. CASE p = q
    <3>1. run'[q].row = e
      BY <1>1, <1>7, <2>1 DEF ReadHead, Runs
    <3>2. Passed(e)
      BY <1>7, HeadIsPassed DEF ReadHead
    <3>3. Passed(e)'
      BY <3>2, PassedStays
    <3> QED BY <3>1, <3>3 DEF HoldsPassed
  <2>2. CASE p # q
    BY <1>1, <1>3, <1>7, <2>2 DEF ReadHead
  <2> QED BY <2>1, <2>2
<1>8. ASSUME NEW p \in Pumps, Stamp(p)
      PROVE  HoldsPassed(q)'
  <2>1. CASE p = q
    <3>1. Holds /\ run'[q].row = run[q].row
      BY <1>1, <1>8, <2>1 DEF Stamp, Goto, Runs
    <3> QED BY <1>2, <3>1
  <2>2. CASE p # q
    BY <1>1, <1>3, <1>8, <2>2 DEF Stamp, Goto
  <2> QED BY <2>1, <2>2
<1>9. ASSUME NEW p \in Pumps, Outlive(p)
      PROVE  HoldsPassed(q)'
  <2>1. run'[q].phase = run[q].phase /\ run'[q].row = run[q].row
    BY <1>1, <1>9 DEF Outlive, Runs
  <2> QED BY <1>2, <2>1
<1>10. ASSUME NEW p \in Pumps,
              \/ run' = [run EXCEPT ![p] = NoRun]
              \/ run' = [run EXCEPT ![p] = [NoRun EXCEPT !.phase = "renew"]]
              \/ NextDelivery(p)
              \/ \E phase \in Phases \ {"expire", "stamp", "sending"} : Goto(p, phase)
       PROVE  HoldsPassed(q)'
  <2>1. CASE p = q
    BY <1>1, <1>10, <2>1 DEF NextDelivery, Goto, NoRun, Runs
  <2>2. CASE p # q
    BY <1>1, <1>3, <1>10, <2>2 DEF NextDelivery, Goto
  <2> QED BY <2>1, <2>2
<1>11. ASSUME NEW p \in Pumps, Claim(p) \/ Crash(p) \/ Release(p) \/ Fail(p) \/ Interrupt(p)
       PROVE  HoldsPassed(q)'
  BY <1>10, <1>11 DEF Claim, Crash, Release, Fail, Interrupt, Phases
<1>12. ASSUME NEW p \in Pumps, Renew(p)
       PROVE  HoldsPassed(q)'
  <2>1. CASE p = q
    BY <1>1, <1>12, <2>1 DEF Renew, Goto, Runs
  <2>2. CASE p # q
    BY <1>1, <1>3, <1>12, <2>2 DEF Renew, Goto
  <2> QED BY <2>1, <2>2
<1>13. ASSUME NEW p \in Pumps, NEW gone \in BOOLEAN, Die(p, gone)
       PROVE  HoldsPassed(q)'
  <2>1. CASE NextDelivery(p)
    BY <1>10, <2>1
  <2>2. CASE run' = [run EXCEPT ![p].phase = "charge", ![p].gone = gone]
    <3>1. CASE p = q
      BY <1>1, <2>2, <3>1 DEF Runs
    <3>2. CASE p # q
      BY <1>1, <1>3, <2>2, <3>2
    <3> QED BY <3>1, <3>2
  <2> QED BY <1>13, <2>1, <2>2 DEF Die
<1>14. ASSUME NEW p \in Pumps,
              \/ Reload(p) \/ ReadNothing(p) \/ ExpireRow(p) \/ Deliver(p)
              \/ \E waiting \in BOOLEAN : Keep(p, waiting)
              \/ ResetBreaker(p) \/ ChargeBreaker(p) \/ AutoDisable(p)
       PROVE  HoldsPassed(q)'
  BY <1>10, <1>14 DEF Reload, ReadNothing, ExpireRow, Deliver, Keep, ResetBreaker,
                      ChargeBreaker, AutoDisable, Phases
<1>15. CASE UNCHANGED webVars
  BY <1>3, <1>15 DEF webVars
<1> QED BY <1>4, <1>5, <1>6, <1>7, <1>8, <1>9, <1>11, <1>12, <1>13, <1>14, <1>15
        DEF WebNext, Operator, Elapse, RunStep, Fault

LEMMA OrderStep == WebTypeOK /\ OrderInv /\ [WebNext]_webVars => OrderInv'
<1> SUFFICES ASSUME WebTypeOK, OrderInv, [WebNext]_webVars PROVE OrderInv'
  OBVIOUS
<1>1. /\ fan'.cursor < fan'.next
      /\ \A e \in fan'.batch : fan'.cursor < e /\ e < fan'.next
  BY FanStep
<1>2. ASSUME NEW e \in Events, delivery'[e].status # "none"
      PROVE  e <= fan'.cursor
  <2>1. Moves(e) /\ fan.cursor \in Nat /\ fan'.cursor \in Nat
        /\ fan.cursor <= fan'.cursor
    BY StepMoves, FanStep DEF WebTypeOK, Fans
  <2>2. delivery[e].status # "none" => e <= fan.cursor
    BY DEF OrderInv
  <2> QED BY <1>2, <2>1, <2>2 DEF Moves, Events
<1>3. ASSUME NEW e \in Events, requests'[e] > 0
      PROVE  Passed(e)'
  <2>1. CASE requests[e] > 0
    BY <2>1, PassedStays DEF OrderInv
  <2>2. CASE ~(requests[e] > 0)
    <3>1. requests' # requests
      BY <1>3, <2>2
    <3>2. PICK p \in Pumps : Stamp(p)
      BY <3>1, Idle
    <3>3. e = run[p].row /\ run[p].phase = "stamp"
      BY <1>3, <2>2, <3>2 DEF Stamp, WebTypeOK
    <3>4. Passed(e)
      BY <3>3 DEF OrderInv, HoldsPassed
    <3> QED BY <3>4, PassedStays
  <2> QED BY <2>1, <2>2
<1>4. ASSUME NEW p \in Pumps, run'[p].phase \in {"expire", "stamp", "sending"}
      PROVE  HoldsPassed(p)'
  BY <1>4, RunsHoldPassedRows
<1> QED BY <1>1, <1>2, <1>3, <1>4 DEF OrderInv

(* Deliveries go out in the order of their events, for any number of pumps
   and however their runs end. *)
THEOREM NobodyOvertakes == WebSpec => []NothingOvertakes
<1>1. OrderInv => NothingOvertakes
  BY DEF OrderInv, Passed, NothingOvertakes
<1> QED BY <1>1, WebTypeInit, WebTypeStep, OrderInit, OrderStep, PTL DEF WebSpec

(* An outcome once recorded is never written over. *)
THEOREM OutcomesStand == WebSpec => OutcomeStands
<1>1. WebTypeOK /\ OrderInv /\ [WebNext]_webVars
        => [\A e \in Events : delivery[e].status \in Settled
              => delivery'[e].status = delivery[e].status]_webVars
  BY StepMoves DEF Moves, Settled
<1> QED BY <1>1, WebTypeInit, WebTypeStep, OrderInit, OrderStep, PTL
        DEF WebSpec, OutcomeStands

-----------------------------------------------------------------------------
(* A run and the others *)

(* A step of one pump leaves what the others are doing alone. *)
LEMMA OthersStay ==
  ASSUME WebTypeOK, NEW p \in Pumps, Claim(p) \/ RunStep(p) \/ Fault(p),
         NEW q \in Pumps, q # p
  PROVE  run'[q] = run[q]
<1>1. run \in [Pumps -> Runs]
  BY DEF WebTypeOK
<1>2. CASE Claim(p) \/ Release(p) \/ Crash(p)
  BY <1>1, <1>2 DEF Claim, Release, Crash
<1>3. CASE Renew(p)
  BY <1>1, <1>3 DEF Renew, Goto
<1>4. CASE Outlive(p)
  BY <1>1, <1>4 DEF Outlive
<1>5. CASE (RunStep(p) \/ Interrupt(p) \/ Fail(p)) /\ ~Renew(p) /\ ~Release(p)
  BY <1>5, Works
<1> QED BY <1>2, <1>3, <1>4, <1>5 DEF Fault

(* The run is on its way out, or goes on to its next row. *)
LEMMA NextDeliveryIs ==
  ASSUME WebTypeOK, NEW p \in Pumps, NextDelivery(p)
  PROVE  /\ run'[p].phase \in {"renew", "release"}
         /\ run'[p].sent > 0
         /\ run'[p].late = run[p].late
         /\ run'[p].outlived = run[p].outlived
  BY DEF WebTypeOK, NextDelivery, Runs

-----------------------------------------------------------------------------
(* A subscription that is off *)

(* A run that has made a request since the subscription went off is past its
   stamp, and asks again whether the subscription is live before the next:
   a renewal after a delivery leads to a reload. *)
LateInv ==
  \A p \in Pumps :
    run[p].late > 0 =>
      /\ run[p].late = 1
      /\ ~Live
      /\ run[p].phase \notin {"read", "expire", "stamp"}
      /\ run[p].phase = "renew" => run[p].sent > 0

(* Only the operator turns a subscription on again. *)
LEMMA StaysOff ==
  ASSUME WebTypeOK, [WebNext]_webVars, ~Enable, ~Live
  PROVE  ~Live'
<1>1. sub \in Subscriptions
  BY DEF WebTypeOK
<1>2. CASE UNCHANGED sub
  BY <1>2 DEF Live
<1>3. CASE Disable \/ Delete
  BY <1>1, <1>3 DEF Disable, Delete, Live, Subscriptions
<1>4. ASSUME NEW p \in Pumps, ResetBreaker(p) \/ ChargeBreaker(p) \/ AutoDisable(p)
      PROVE  ~Live'
  BY <1>1, <1>4 DEF ResetBreaker, ChargeBreaker, AutoDisable, Live, Subscriptions
<1>5. CASE Dispatch \/ Elapse \/ ExpireOrphans
  BY <1>2, <1>5 DEF Dispatch, Match, CommitBatch, RollBackBatch, Elapse,
                    LeaseLapses, BackoffElapses, GrowsOld, ExpireOrphans
<1>6. ASSUME NEW p \in Pumps, Claim(p) \/ Fault(p)
      PROVE  ~Live'
  BY <1>2, <1>6 DEF Claim, Fault, Interrupt, Fail, Crash, Outlive
<1>7. ASSUME NEW p \in Pumps, RunStep(p),
             ~(ResetBreaker(p) \/ ChargeBreaker(p) \/ AutoDisable(p))
      PROVE  ~Live'
  BY <1>2, <1>7 DEF RunStep, Renew, Reload, ReadNothing, ReadHead, ExpireRow,
                    Stamp, Deliver, Keep, Die, Release
<1> QED BY <1>2, <1>3, <1>4, <1>5, <1>6, <1>7 DEF WebNext, Operator, webVars

LEMMA LateInit == WebInit => LateInv
  BY DEF WebInit, LateInv, NoRun

LEMMA LateStep == WebTypeOK /\ LateInv /\ [WebNext]_webVars => LateInv'
<1> DEFINE IsLate(q) == /\ run[q].late = 1
                        /\ ~Live
                        /\ run[q].phase \notin {"read", "expire", "stamp"}
                        /\ run[q].phase = "renew" => run[q].sent > 0
<1> SUFFICES ASSUME WebTypeOK, LateInv, [WebNext]_webVars,
                    NEW q \in Pumps, run'[q].late > 0
             PROVE  IsLate(q)'
  BY DEF LateInv
<1>1. /\ run \in [Pumps -> Runs]
      /\ run[q].late \in Nat /\ run[q].sent \in Nat
  BY DEF WebTypeOK, Runs
<1>2. run[q].late > 0 => IsLate(q)
  BY DEF LateInv
<1>3. CASE Enable
  BY <1>1, <1>3 DEF Enable, Runs
<1>4. CASE ~Enable /\ run'[q].late = run[q].late
           /\ run'[q].phase = run[q].phase /\ run'[q].sent = run[q].sent
  BY <1>2, <1>4, StaysOff
<1>5. CASE Dispatch \/ Disable \/ Delete \/ Elapse \/ ExpireOrphans
  BY <1>3, <1>4, <1>5
     DEF Dispatch, Match, CommitBatch, RollBackBatch, Disable, Delete, Elapse,
         LeaseLapses, BackoffElapses, GrowsOld, ExpireOrphans
<1>6. CASE UNCHANGED webVars
  BY <1>3, <1>4, <1>6 DEF webVars
<1>7. ASSUME NEW p \in Pumps, p # q, Claim(p) \/ RunStep(p) \/ Fault(p)
      PROVE  IsLate(q)'
  BY <1>3, <1>4, <1>7, OthersStay
<1>8. CASE Claim(q) \/ Release(q) \/ Crash(q)
  BY <1>1, <1>8 DEF Claim, Release, Crash, NoRun
(* Late already, the run moves between phases that send nothing. *)
<1>9. ASSUME run'[q].late = run[q].late, ~Enable,
             \/ run'[q].phase \notin {"read", "expire", "stamp", "renew"}
             \/ run'[q].phase = "renew" /\ run'[q].sent > 0
      PROVE  IsLate(q)'
  BY <1>2, <1>9, StaysOff
<1>10. ASSUME NEW phase \in {"release", "reset", "disable", "reload", "charge"},
              Goto(q, phase)
       PROVE  IsLate(q)'
  <2>1. run'[q].phase = phase /\ run'[q].late = run[q].late
    BY <1>1, <1>10 DEF Goto, Runs
  <2> QED BY <1>3, <1>9, <1>10, <2>1
<1>11. CASE NextDelivery(q)
  BY <1>3, <1>9, <1>11, NextDeliveryIs
<1>12. CASE Renew(q)
  <2>1. CASE lease.holder = q
    <3>1. /\ run'[q].late = run[q].late /\ run[q].phase = "renew"
          /\ run'[q].phase = IF run[q].sent > 0 THEN "reload" ELSE "read"
      BY <1>1, <1>12, <2>1 DEF Renew, Runs
    <3> QED BY <1>2, <1>3, <1>9, <3>1
  <2>2. CASE lease.holder # q
    BY <1>10, <1>12, <2>2 DEF Renew
  <2> QED BY <2>1, <2>2
<1>13. CASE Reload(q)
  <2>1. CASE Live
    <3>1. run'[q].late = run[q].late
      BY <1>1, <1>13 DEF Reload, Goto, Runs
    <3> QED BY <1>2, <2>1, <3>1
  <2>2. CASE ~Live
    BY <1>10, <1>13, <2>2 DEF Reload
  <2> QED BY <2>1, <2>2
<1>14. CASE ReadNothing(q) \/ (\E e \in Events : ReadHead(q, e)) \/ ExpireRow(q)
  <2>1. run[q].phase \in {"read", "expire"}
    BY <1>14 DEF ReadNothing, ReadHead, ExpireRow
  <2>2. run'[q].late = run[q].late
    <3>1. CASE ReadNothing(q) \/ ExpireRow(q)
      BY <1>1, <3>1, NextDeliveryIs DEF ReadNothing, ExpireRow, Goto, Runs
    <3>2. ASSUME NEW e \in Events, ReadHead(q, e)
          PROVE  run'[q].late = run[q].late
      BY <1>1, <3>2 DEF ReadHead, Runs
    <3> QED BY <1>14, <3>1, <3>2
  <2> QED BY <1>2, <2>1, <2>2
<1>15. CASE Stamp(q)
  <2>1. run[q].phase = "stamp" /\ run[q].late = 0 /\ Live' = Live
    BY <1>1, <1>2, <1>15 DEF Stamp, Live
  <2>2. run' = [run EXCEPT ![q].phase = "sending",
                           ![q].late = IF Live THEN @ ELSE @ + 1]
    BY <1>10, <1>15, <1>1, <2>1 DEF Stamp, Goto, Runs
  <2>3. /\ run'[q].phase = "sending"
        /\ run'[q].late = IF Live THEN run[q].late ELSE run[q].late + 1
    BY <1>1, <2>2 DEF Runs
  <2> QED BY <2>1, <2>3
<1>16. CASE Deliver(q) \/ ResetBreaker(q) \/ ChargeBreaker(q) \/ AutoDisable(q)
            \/ \E waiting \in BOOLEAN : Keep(q, waiting)
  BY <1>10, <1>11, <1>16 DEF Deliver, ResetBreaker, ChargeBreaker, AutoDisable, Keep
<1>17. ASSUME NEW gone \in BOOLEAN, Die(q, gone)
       PROVE  IsLate(q)'
  <2>1. CASE NextDelivery(q)
    BY <1>11, <2>1
  <2>2. CASE run' = [run EXCEPT ![q].phase = "charge", ![q].gone = gone]
    <3>1. run'[q].phase = "charge" /\ run'[q].late = run[q].late
      BY <1>1, <2>2 DEF Runs
    <3> QED BY <1>3, <1>9, <3>1
  <2> QED BY <1>17, <2>1, <2>2 DEF Die
<1>18. CASE Interrupt(q) \/ Fail(q)
  BY <1>10, <1>18 DEF Interrupt, Fail
<1>19. CASE Outlive(q)
  <2>1. /\ run'[q].late = run[q].late /\ run'[q].phase = run[q].phase
        /\ run'[q].sent = run[q].sent
    BY <1>1, <1>19 DEF Outlive, Runs
  <2> QED BY <1>3, <1>4, <2>1
<1>20. CASE Claim(q) \/ RunStep(q) \/ Fault(q)
  BY <1>8, <1>12, <1>13, <1>14, <1>15, <1>16, <1>17, <1>18, <1>19, <1>20
     DEF RunStep, Fault
<1> QED BY <1>3, <1>5, <1>6, <1>7, <1>20 DEF WebNext, Operator

(* A subscription that goes off costs its receiver one more request of each
   run at work, at most: however the operator's orders, the breaker and the
   runs interleave, a run asks again before it goes on. *)
THEOREM OneMoreRequest == WebSpec => []OneLateRequest
<1>1. WebTypeOK /\ LateInv => OneLateRequest
  BY DEF WebTypeOK, LateInv, OneLateRequest, Runs
<1> QED BY <1>1, WebTypeInit, WebTypeStep, LateInit, LateStep, PTL DEF WebSpec

-----------------------------------------------------------------------------
(* The breaker *)

Charging == {p \in Pumps : run[p].phase = "charge"}
Dead == {e \in Events : delivery[e].status = "dead"}

(* The runs that have yet to charge the breaker are counted with what it
   shows: each of them wrote a death of its own. *)
BreakerInv ==
  /\ IsFiniteSet(Charging)
  /\ sub.failures + Cardinality(Charging) <= Cardinality(Dead)

LEMMA DeadIsFinite ==
  /\ IsFiniteSet(Dead) /\ Cardinality(Dead) \in Nat
  /\ IsFiniteSet(Dead') /\ Cardinality(Dead') \in Nat
<1>1. IsFiniteSet(Events)
  BY LimitsAssumption, FS_Interval DEF Events
<1>2. Dead \subseteq Events /\ Dead' \subseteq Events
  BY DEF Dead
<1> QED BY <1>1, <1>2, FS_Subset, FS_CardinalityType

(* The dead stay dead. *)
LEMMA DeadStay ==
  ASSUME WebTypeOK, OrderInv, [WebNext]_webVars
  PROVE  Dead \subseteq Dead' /\ Cardinality(Dead) <= Cardinality(Dead')
<1>1. Dead \subseteq Dead'
  BY StepMoves DEF Moves, Dead
<1> QED BY <1>1, DeadIsFinite, FS_Subset

(* No run begins to charge and the breaker shows no more: the usual step. *)
LEMMA NobodyCharges ==
  ASSUME WebTypeOK, OrderInv, BreakerInv, [WebNext]_webVars,
         Charging' \subseteq Charging,
         sub'.failures \in {0, sub.failures}
  PROVE  BreakerInv'
<1>1. /\ IsFiniteSet(Charging') /\ Cardinality(Charging') <= Cardinality(Charging)
      /\ Cardinality(Charging) \in Nat /\ Cardinality(Charging') \in Nat
  BY FS_Subset, FS_CardinalityType DEF BreakerInv
<1>2. sub.failures \in Nat
  BY DEF WebTypeOK, Subscriptions
<1> QED BY <1>1, <1>2, DeadStay, DeadIsFinite DEF BreakerInv

(* A run that finds its row pending adds it to the dead, and itself to those
   that charge. *)
LEMMA DeathIsCounted ==
  ASSUME WebTypeOK, OrderInv, BreakerInv, [WebNext]_webVars,
         NEW p \in Pumps, StillPending(p), Settle(p, "dead"), UNCHANGED sub,
         run[p].phase = "sending",
         \A q \in Pumps : q # p => run'[q] = run[q]
  PROVE  BreakerInv'
<1>1. run[p].row \in Events /\ delivery \in [Events -> Deliveries]
  BY DEF OrderInv, HoldsPassed, WebTypeOK
<1>2. run[p].row \notin Dead /\ run[p].row \in Dead'
  BY <1>1 DEF Dead, StillPending, Settle, Outcome, Deliveries
<1>3. Dead \union {run[p].row} \subseteq Dead'
  BY <1>2, DeadStay
<1>4. Cardinality(Dead) + 1 <= Cardinality(Dead')
  <2>1. /\ IsFiniteSet(Dead \union {run[p].row})
        /\ Cardinality(Dead \union {run[p].row}) = Cardinality(Dead) + 1
    BY <1>2, DeadIsFinite, FS_AddElement
  <2> QED BY <1>3, <2>1, DeadIsFinite, FS_Subset
<1>5. /\ IsFiniteSet(Charging') /\ Cardinality(Charging') \in Nat
      /\ Cardinality(Charging) \in Nat
      /\ Cardinality(Charging') <= Cardinality(Charging) + 1
  <2>1. Charging' \subseteq Charging \union {p}
    BY DEF Charging
  <2>2. /\ IsFiniteSet(Charging \union {p})
        /\ Cardinality(Charging \union {p}) <= Cardinality(Charging) + 1
        /\ Cardinality(Charging) \in Nat /\ Cardinality(Charging \union {p}) \in Nat
    <3>1. IsFiniteSet(Charging) /\ Cardinality(Charging) \in Nat
      BY FS_CardinalityType DEF BreakerInv
    <3>2. /\ IsFiniteSet(Charging \union {p})
          /\ Cardinality(Charging \union {p})
               = IF p \in Charging THEN Cardinality(Charging) ELSE Cardinality(Charging) + 1
      BY <3>1, FS_AddElement
    <3> QED BY <3>1, <3>2
  <2>3. IsFiniteSet(Charging') /\ Cardinality(Charging') <= Cardinality(Charging \union {p})
    BY <2>1, <2>2, FS_Subset
  <2>4. Cardinality(Charging') \in Nat
    BY <2>3, FS_CardinalityType
  <2> QED BY <2>2, <2>3, <2>4
<1>6. sub.failures \in Nat
  BY DEF WebTypeOK, Subscriptions
<1> QED BY <1>4, <1>5, <1>6, DeadIsFinite DEF BreakerInv

(* The charge of a run: the breaker shows one more, and one run less is to
   charge it. *)
LEMMA ChargeIsCounted ==
  ASSUME WebTypeOK, OrderInv, BreakerInv, [WebNext]_webVars,
         NEW p \in Pumps, ChargeBreaker(p)
  PROVE  BreakerInv'
<1>1. p \in Charging
  BY DEF ChargeBreaker, Charging
<1>2. Charging' \subseteq Charging \ {p}
  <2>1. run'[p].phase # "charge"
    BY NextDeliveryIs DEF ChargeBreaker, Goto, WebTypeOK, Runs
  <2>2. \A q \in Pumps : q # p => run'[q] = run[q]
    BY OthersStay DEF RunStep
  <2> QED BY <2>1, <2>2 DEF Charging
<1>3. /\ IsFiniteSet(Charging') /\ Cardinality(Charging') \in Nat
      /\ Cardinality(Charging) \in Nat
      /\ Cardinality(Charging') <= Cardinality(Charging) - 1
  <2>1. /\ IsFiniteSet(Charging \ {p})
        /\ Cardinality(Charging \ {p}) = Cardinality(Charging) - 1
    BY <1>1, FS_RemoveElement DEF BreakerInv
  <2> QED BY <1>2, <2>1, FS_Subset, FS_CardinalityType DEF BreakerInv
<1>4. sub.failures \in Nat /\ sub'.failures = sub.failures + 1
  BY DEF WebTypeOK, Subscriptions, ChargeBreaker
<1> QED BY <1>3, <1>4, DeadStay, DeadIsFinite DEF BreakerInv

LEMMA BreakerInit == WebInit => BreakerInv
<1> SUFFICES ASSUME WebInit PROVE BreakerInv
  OBVIOUS
<1>1. Charging = {} /\ sub.failures = 0
  BY DEF WebInit, Charging, NoRun
<1> QED BY <1>1, DeadIsFinite, FS_EmptySet DEF BreakerInv

LEMMA BreakerStep ==
  WebTypeOK /\ OrderInv /\ BreakerInv /\ [WebNext]_webVars => BreakerInv'
<1> SUFFICES ASSUME WebTypeOK, OrderInv, BreakerInv, [WebNext]_webVars
             PROVE  BreakerInv'
  OBVIOUS
<1>1. run \in [Pumps -> Runs] /\ sub \in Subscriptions
  BY DEF WebTypeOK
<1>2. CASE UNCHANGED <<run, sub>>
  BY <1>2, NobodyCharges DEF Charging
<1>3. CASE Dispatch \/ Elapse \/ ExpireOrphans \/ UNCHANGED webVars
  BY <1>2, <1>3
     DEF Dispatch, Match, CommitBatch, RollBackBatch, Elapse, LeaseLapses,
         BackoffElapses, GrowsOld, ExpireOrphans, webVars
<1>4. CASE Enable
  <2>1. sub'.failures = 0
    BY <1>1, <1>4 DEF Enable, Subscriptions
  <2>2. Charging' = Charging
    BY <1>1, <1>4 DEF Enable, Charging, Runs
  <2> QED BY <2>1, <2>2, NobodyCharges
<1>5. CASE Disable \/ Delete
  <2>1. sub'.failures = sub.failures /\ Charging' = Charging
    BY <1>1, <1>5 DEF Disable, Delete, Subscriptions, Charging
  <2> QED BY <2>1, NobodyCharges
(* A step of p that does not take it to its charge. *)
<1>6. ASSUME NEW p \in Pumps, Claim(p) \/ RunStep(p) \/ Fault(p),
             run'[p].phase # "charge" \/ run'[p].phase = run[p].phase,
             sub'.failures \in {0, sub.failures}
      PROVE  BreakerInv'
  <2>1. \A q \in Pumps : q # p => run'[q] = run[q]
    BY <1>6, OthersStay
  <2>2. Charging' \subseteq Charging
    BY <1>6, <2>1 DEF Charging
  <2> QED BY <1>6, <2>2, NobodyCharges
<1>7. ASSUME NEW p \in Pumps,
             Claim(p) \/ Release(p) \/ Crash(p) \/ Renew(p) \/ Reload(p)
             \/ ReadNothing(p)
      PROVE  BreakerInv'
  <2>1. run'[p].phase # "charge" /\ UNCHANGED sub
    BY <1>1, <1>7 DEF Claim, Release, Crash, Renew, Reload, ReadNothing, Goto,
                      NoRun, Runs
  <2> QED BY <1>6, <1>7, <2>1 DEF RunStep, Fault
<1>8. ASSUME NEW p \in Pumps, NEW e \in Events, ReadHead(p, e)
      PROVE  BreakerInv'
  <2>1. run'[p].phase # "charge" /\ UNCHANGED sub
    BY <1>1, <1>8 DEF ReadHead, Runs
  <2> QED BY <1>6, <1>8, <2>1 DEF RunStep
<1>9. ASSUME NEW p \in Pumps, Stamp(p) \/ Outlive(p)
      PROVE  BreakerInv'
  <2>1. (run'[p].phase # "charge" \/ run'[p].phase = run[p].phase) /\ UNCHANGED sub
    BY <1>1, <1>9 DEF Stamp, Outlive, Goto, Runs
  <2> QED BY <1>6, <1>9, <2>1 DEF RunStep, Fault
<1>10. ASSUME NEW p \in Pumps,
              \/ ExpireRow(p) \/ Deliver(p) \/ \E waiting \in BOOLEAN : Keep(p, waiting)
              \/ Interrupt(p) \/ Fail(p)
       PROVE  BreakerInv'
  <2>1. NextDelivery(p) \/ \E phase \in {"reset", "release"} : Goto(p, phase)
    BY <1>10 DEF ExpireRow, Deliver, Keep, Interrupt, Fail
  <2>2. run'[p].phase # "charge"
    BY <1>1, <2>1, NextDeliveryIs DEF Goto, Runs
  <2>3. UNCHANGED sub
    BY <1>10 DEF ExpireRow, Deliver, Keep, Interrupt, Fail
  <2> QED BY <1>6, <1>10, <2>2, <2>3 DEF RunStep, Fault
<1>11. ASSUME NEW p \in Pumps, ResetBreaker(p) \/ AutoDisable(p)
       PROVE  BreakerInv'
  <2>1. sub'.failures \in {0, sub.failures}
    BY <1>1, <1>11 DEF ResetBreaker, AutoDisable, Subscriptions
  <2>2. run'[p].phase # "charge"
    BY <1>1, <1>11, NextDeliveryIs DEF ResetBreaker, AutoDisable, Goto, Runs
  <2> QED BY <1>6, <1>11, <2>1, <2>2 DEF RunStep
<1>12. ASSUME NEW p \in Pumps, NEW gone \in BOOLEAN, Die(p, gone)
       PROVE  BreakerInv'
  <2>1. RunStep(p) /\ UNCHANGED sub
    BY <1>12 DEF RunStep, Die
  <2>2. CASE StillPending(p)
    <3>1. \A q \in Pumps : q # p => run'[q] = run[q]
      BY <2>1, OthersStay
    <3> QED BY <1>12, <2>2, <3>1, DeathIsCounted DEF Die
  <2>3. CASE ~StillPending(p)
    <3>1. run'[p].phase # "charge"
      BY <1>12, <2>3, NextDeliveryIs DEF Die
    <3> QED BY <1>6, <2>1, <3>1
  <2> QED BY <2>2, <2>3
<1>13. ASSUME NEW p \in Pumps, ChargeBreaker(p)
       PROVE  BreakerInv'
  BY <1>13, ChargeIsCounted
<1> QED BY <1>3, <1>4, <1>5, <1>7, <1>8, <1>9, <1>10, <1>11, <1>12, <1>13
        DEF WebNext, Operator, RunStep, Fault

(* The breaker never shows more failures than deliveries have died: one death
   is charged by one run, whichever runs raced for the row. *)
THEOREM DeathsAreChargedOnce == WebSpec => []BreakerCountsTheDead
<1>1. WebTypeOK /\ BreakerInv => BreakerCountsTheDead
  <2> SUFFICES ASSUME WebTypeOK, BreakerInv PROVE BreakerCountsTheDead
    OBVIOUS
  <2>1. Cardinality(Charging) \in Nat /\ sub.failures \in Nat
    BY FS_CardinalityType DEF BreakerInv, WebTypeOK, Subscriptions
  <2> QED BY <2>1, DeadIsFinite DEF BreakerInv, BreakerCountsTheDead, Dead
<1> QED BY <1>1, WebTypeInit, WebTypeStep, OrderInit, OrderStep, BreakerInit,
           BreakerStep, PTL DEF WebSpec

-----------------------------------------------------------------------------
(* The budget of attempts *)

(* The runs that have outlived their lease, each at the price of a fault. *)
Overdue == {p \in Pumps : run[p].outlived}

(* The runs whose request for e was its last attempt, or one more. *)
LastTries(e) == {p \in Pumps : /\ run[p].phase = "sending" /\ run[p].row = e
                               /\ run[p].attempts + 1 >= MaxAttempts}

Spent == MaxFaults - faults

(* A request is in the count of its row unless a fault gave it back; and past
   the last but one, its run is still at work on it unless a fault ended it. *)
Accounted(e) ==
  /\ requests[e] + Cardinality(Overdue) <= delivery[e].attempts + Spent
  /\ requests[e] + Cardinality(Overdue)
       <= MaxAttempts - 1 + Spent + Cardinality(LastTries(e))

BudgetInv ==
  /\ IsFiniteSet(Overdue) /\ Cardinality(Overdue) <= Spent
  /\ \A e \in Events : IsFiniteSet(LastTries(e))
  /\ \A e \in Pending : Accounted(e)
  /\ RequestsAreBudgeted

(* The ways a run may end before its row is settled. *)
Cut(p) == Interrupt(p) \/ Fail(p) \/ Crash(p)

LEMMA CutCosts ==
  ASSUME WebTypeOK, NEW p \in Pumps, Cut(p)
  PROVE  /\ faults' = faults - 1
         /\ UNCHANGED requests
         /\ \A q \in Pumps : q # p => run'[q] = run[q]
         /\ run'[p].outlived => run[p].outlived
         /\ run'[p].phase \in {"idle", "release"}
<1>1. run \in [Pumps -> Runs]
  BY DEF WebTypeOK
<1>2. CASE Interrupt(p) \/ Fail(p)
  BY <1>1, <1>2 DEF Interrupt, Fail, Goto, Runs
<1>3. CASE Crash(p)
  BY <1>1, <1>3 DEF Crash, NoRun
<1> QED BY <1>2, <1>3 DEF Cut

(* Where the sending of a row begins and ends. *)
LEMMA SendingBegins ==
  ASSUME WebTypeOK, [WebNext]_webVars, NEW q \in Pumps,
         run'[q].phase = "sending"
  PROVE  \/ Stamp(q)
         \/ /\ run[q].phase = "sending"
            /\ run'[q].row = run[q].row /\ run'[q].attempts = run[q].attempts
<1> DEFINE Same == /\ run[q].phase = "sending" /\ run'[q].row = run[q].row
                   /\ run'[q].attempts = run[q].attempts
<1>1. run \in [Pumps -> Runs]
  BY DEF WebTypeOK
<1>2. CASE UNCHANGED run
  BY <1>2
<1>3. CASE Dispatch \/ Disable \/ Delete \/ Elapse \/ ExpireOrphans
           \/ UNCHANGED webVars
  BY <1>2, <1>3 DEF Dispatch, Match, CommitBatch, RollBackBatch, Disable, Delete,
       Elapse, LeaseLapses, BackoffElapses, GrowsOld, ExpireOrphans, webVars
<1>4. CASE Enable
  BY <1>1, <1>4 DEF Enable, Runs
<1>5. ASSUME NEW p \in Pumps, p # q, Claim(p) \/ RunStep(p) \/ Fault(p)
      PROVE  Same
  BY <1>5, OthersStay
<1>6. CASE Outlive(q)
  BY <1>1, <1>6 DEF Outlive, Runs
<1>7. ~Cut(q)
  BY CutCosts
<1>8. ~NextDelivery(q)
  BY NextDeliveryIs
<1>9. ASSUME NEW phase, phase # "sending"
      PROVE  ~Goto(q, phase)
  BY <1>1, <1>9 DEF Goto, Runs
<1>10. ~(Claim(q) \/ Release(q) \/ Renew(q))
  <2>1. ~Claim(q) /\ ~Release(q)
    BY <1>1 DEF Claim, Release, NoRun
  <2>2. ~Renew(q)
    BY <1>1 DEF Renew, Goto, Runs
  <2> QED BY <2>1, <2>2
<1>11. ~(Reload(q) \/ ReadNothing(q) \/ ExpireRow(q) \/ \E e \in Events : ReadHead(q, e))
  <2>1. ~(Reload(q) \/ ReadNothing(q) \/ ExpireRow(q))
    BY <1>8, <1>9 DEF Reload, ReadNothing, ExpireRow
  <2>2. ASSUME NEW e \in Events
        PROVE  ~ReadHead(q, e)
    BY <1>1 DEF ReadHead, Runs
  <2> QED BY <2>1, <2>2
<1>12. ~(Deliver(q) \/ \E waiting \in BOOLEAN : Keep(q, waiting))
  BY <1>8, <1>9 DEF Deliver, Keep
<1>13. ASSUME NEW gone \in BOOLEAN
       PROVE  ~Die(q, gone)
  <2>1. run' # [run EXCEPT ![q].phase = "charge", ![q].gone = gone]
    BY <1>1 DEF Runs
  <2> QED BY <1>8, <2>1 DEF Die
<1>14. ~(ResetBreaker(q) \/ ChargeBreaker(q) \/ AutoDisable(q))
  BY <1>8, <1>9 DEF ResetBreaker, ChargeBreaker, AutoDisable
<1> QED BY <1>3, <1>4, <1>5, <1>6, <1>7, <1>10, <1>11, <1>12, <1>13, <1>14
        DEF WebNext, Operator, RunStep, Fault, Cut

(* A run that sends the last try of a pending row is at it until the row is
   settled, or a fault cuts it short. *)
LEMMA LastTryStays ==
  ASSUME WebTypeOK, [WebNext]_webVars, NEW e \in Events,
         e \in Pending, e \in Pending', NEW q \in LastTries(e), ~Cut(q)
  PROVE  q \in LastTries(e)'
<1>1. /\ q \in Pumps /\ run[q].phase = "sending" /\ run[q].row = e
      /\ run[q].attempts + 1 >= MaxAttempts
      /\ run \in [Pumps -> Runs] /\ delivery \in [Events -> Deliveries]
      /\ delivery'[e].status = "pending"
      /\ StillPending(q)
  BY DEF LastTries, WebTypeOK, Pending, StillPending
<1>2. CASE /\ run'[q].phase = run[q].phase /\ run'[q].row = run[q].row
           /\ run'[q].attempts = run[q].attempts
  BY <1>1, <1>2 DEF LastTries
<1>3. CASE Dispatch \/ Disable \/ Delete \/ Elapse \/ ExpireOrphans
           \/ UNCHANGED webVars
  BY <1>2, <1>3 DEF Dispatch, Match, CommitBatch, RollBackBatch, Disable, Delete,
       Elapse, LeaseLapses, BackoffElapses, GrowsOld, ExpireOrphans, webVars
<1>4. CASE Enable \/ Outlive(q)
  <2>1. /\ run'[q].phase = run[q].phase /\ run'[q].row = run[q].row
        /\ run'[q].attempts = run[q].attempts
    BY <1>1, <1>4 DEF Enable, Outlive, Runs
  <2> QED BY <1>2, <2>1
<1>5. ASSUME NEW p \in Pumps, p # q, Claim(p) \/ RunStep(p) \/ Fault(p)
      PROVE  q \in LastTries(e)'
  BY <1>1, <1>2, <1>5, OthersStay
<1>6. ASSUME NEW status \in Settled
      PROVE  ~Settle(q, status)
  BY <1>1, <1>6 DEF Settle, Outcome, Settled, Deliveries
<1>7. ~Deliver(q) /\ \A gone \in BOOLEAN : ~Die(q, gone)
  BY <1>1, <1>6 DEF Deliver, Die, Settled
<1>8. \A waiting \in BOOLEAN : ~Keep(q, waiting)
  <2>1. run[q].attempts \in Nat /\ MaxAttempts \in Nat
    BY <1>1, LimitsAssumption DEF Runs
  <2> QED BY <1>1, <2>1 DEF Keep
<1>9. ~(Claim(q) \/ Renew(q) \/ Reload(q) \/ ReadNothing(q) \/ ExpireRow(q) \/ Stamp(q)
        \/ (\E d \in Events : ReadHead(q, d)) \/ ResetBreaker(q)
        \/ ChargeBreaker(q) \/ AutoDisable(q) \/ Release(q))
  BY <1>1 DEF Claim, Renew, Reload, ReadNothing, ExpireRow, Stamp, ReadHead,
              ResetBreaker, ChargeBreaker, AutoDisable, Release
<1> QED BY <1>3, <1>4, <1>5, <1>7, <1>8, <1>9 DEF WebNext, Operator, RunStep, Fault, Cut

(* A run is overdue again only by a fault, which is spent with it. *)
LEMMA OverdueStep ==
  ASSUME WebTypeOK, [WebNext]_webVars, IsFiniteSet(Overdue)
  PROVE  /\ IsFiniteSet(Overdue')
         /\ Cardinality(Overdue) \in Nat /\ Cardinality(Overdue') \in Nat
         /\ faults \in Nat /\ faults' \in Nat /\ faults' <= faults
         /\ Cardinality(Overdue') - Spent' <= Cardinality(Overdue) - Spent
         /\ (\E p \in Pumps : Cut(p))
              => Cardinality(Overdue') - Spent' <= Cardinality(Overdue) - Spent - 1
<1>1. run \in [Pumps -> Runs] /\ faults \in Nat /\ faults' \in Nat /\ MaxFaults \in Nat
  BY WebTypeStep, LimitsAssumption DEF WebTypeOK
<1>2. Cardinality(Overdue) \in Nat
  BY FS_CardinalityType
<1>3. ASSUME Overdue' \subseteq Overdue
      PROVE  /\ IsFiniteSet(Overdue') /\ Cardinality(Overdue') \in Nat
             /\ Cardinality(Overdue') <= Cardinality(Overdue)
  BY <1>3, FS_Subset, FS_CardinalityType
<1>4. ASSUME NEW p \in Pumps, Cut(p)
      PROVE  /\ IsFiniteSet(Overdue') /\ Cardinality(Overdue') \in Nat
             /\ faults' = faults - 1
             /\ Cardinality(Overdue') <= Cardinality(Overdue)
  BY <1>3, <1>4, CutCosts DEF Overdue
<1>5. ASSUME NEW p \in Pumps, Outlive(p)
      PROVE  /\ IsFiniteSet(Overdue') /\ Cardinality(Overdue') \in Nat
             /\ faults' = faults - 1
             /\ Cardinality(Overdue') <= Cardinality(Overdue) + 1
             /\ \A q \in Pumps : ~Cut(q)
  <2>1. Overdue' \subseteq Overdue \union {p} /\ faults' = faults - 1
    BY <1>1, <1>5 DEF Outlive, Overdue
  <2>2. /\ IsFiniteSet(Overdue \union {p})
        /\ Cardinality(Overdue \union {p})
             = IF p \in Overdue THEN Cardinality(Overdue) ELSE Cardinality(Overdue) + 1
    BY FS_AddElement
  <2>3. /\ IsFiniteSet(Overdue')
        /\ Cardinality(Overdue') <= Cardinality(Overdue \union {p})
    BY <2>1, <2>2, FS_Subset
  <2>4. Cardinality(Overdue') \in Nat
    BY <2>3, FS_CardinalityType
  <2>5. \A q \in Pumps : ~Cut(q)
    <3>1. lease' # lease
      BY <1>5 DEF Outlive
    <3> QED BY <3>1 DEF Cut, Interrupt, Fail, Crash
  <2> QED BY <1>2, <2>1, <2>2, <2>3, <2>4, <2>5
(* The rest makes nobody overdue. *)
<1>6. ASSUME \A p \in Pumps : ~Cut(p) /\ ~Outlive(p)
      PROVE  Overdue' \subseteq Overdue /\ faults' \in {faults, faults - 1}
  <2>1. CASE Dispatch \/ Disable \/ Delete \/ Elapse \/ ExpireOrphans
             \/ UNCHANGED webVars
    BY <2>1 DEF Dispatch, Match, CommitBatch, RollBackBatch, Disable, Delete, Order,
         Elapse, LeaseLapses, BackoffElapses, GrowsOld, ExpireOrphans, webVars, Overdue
  <2>2. CASE Enable
    BY <1>1, <2>2 DEF Enable, Order, Overdue, Runs
  <2>3. ASSUME NEW p \in Pumps, Claim(p) \/ Release(p) \/ Renew(p)
        PROVE  Overdue' \subseteq Overdue /\ UNCHANGED faults
    <3>1. run'[p].outlived => run[p].outlived
      BY <1>1, <2>3 DEF Claim, Release, Renew, Goto, NoRun, Runs
    <3>2. \A q \in Pumps : q # p => run'[q] = run[q]
      BY <2>3, OthersStay DEF RunStep
    <3>3. UNCHANGED faults
      BY <2>3 DEF Claim, Release, Renew
    <3> QED BY <3>1, <3>2, <3>3 DEF Overdue
  <2>4. ASSUME NEW p \in Pumps, RunStep(p), ~Release(p), ~Renew(p)
        PROVE  Overdue' \subseteq Overdue /\ UNCHANGED faults
    <3>1. Overdue' \subseteq Overdue
      BY <2>4, Works DEF Overdue
    <3>2. UNCHANGED faults
      BY <2>4 DEF RunStep, Reload, ReadNothing, ExpireRow, Stamp, ReadHead, Deliver,
                  Keep, Die, ResetBreaker, ChargeBreaker, AutoDisable
    <3> QED BY <3>1, <3>2
  <2> QED BY <1>6, <2>1, <2>2, <2>3, <2>4 DEF WebNext, Operator, Fault, Cut
<1> HIDE DEF Overdue
<1>7. CASE \E p \in Pumps : Cut(p)
  BY <1>1, <1>2, <1>4, <1>7 DEF Spent
<1>8. CASE \E p \in Pumps : Outlive(p)
  BY <1>1, <1>2, <1>5, <1>8 DEF Spent
<1>9. CASE \A p \in Pumps : ~Cut(p) /\ ~Outlive(p)
  BY <1>1, <1>2, <1>3, <1>6, <1>9 DEF Spent
<1> QED BY <1>7, <1>8, <1>9

(* The last tries of a pending row: one more by a stamp, one less by a cut. *)
LEMMA TriesStep ==
  ASSUME WebTypeOK, OrderInv, [WebNext]_webVars, NEW e \in Events,
         IsFiniteSet(LastTries(e))
  PROVE  /\ IsFiniteSet(LastTries(e)')
         /\ Cardinality(LastTries(e)) \in Nat /\ Cardinality(LastTries(e)') \in Nat
         /\ e \in Pending /\ e \in Pending' /\ (\A p \in Pumps : ~Cut(p))
              => Cardinality(LastTries(e)) <= Cardinality(LastTries(e)')
         /\ e \in Pending /\ e \in Pending'
              => Cardinality(LastTries(e)) - 1 <= Cardinality(LastTries(e)')
<1> DEFINE T == LastTries(e)
           U == LastTries(e)'
<1>1. Cardinality(T) \in Nat
  BY FS_CardinalityType
<1>2. PICK x : U \subseteq T \union {x}
  <2>1. CASE \E p \in Pumps : Stamp(p)
    <3>1. PICK p \in Pumps : Stamp(p)
      BY <2>1
    <3>2. ASSUME NEW q \in U
          PROVE  q \in T \union {p}
      <4>1. CASE q = p
        BY <4>1
      <4>2. CASE q # p
        <5>1. q \in Pumps /\ run'[q] = run[q]
          BY <3>1, <4>2, OthersStay DEF RunStep, LastTries
        <5> QED BY <5>1 DEF LastTries
      <4> QED BY <4>1, <4>2
    <3> QED BY <3>2
  <2>2. CASE \A p \in Pumps : ~Stamp(p)
    BY <2>2, SendingBegins DEF LastTries
  <2> QED BY <2>1, <2>2
<1>3. IsFiniteSet(U) /\ Cardinality(U) \in Nat
  <2>1. IsFiniteSet(T \union {x})
    BY FS_AddElement
  <2>2. IsFiniteSet(U)
    BY <1>2, <2>1, FS_Subset
  <2> QED BY <2>2, FS_CardinalityType
<1>4. ASSUME e \in Pending, e \in Pending', \A p \in Pumps : ~Cut(p)
      PROVE  Cardinality(T) <= Cardinality(U)
  <2>1. T \subseteq U
    BY <1>4, LastTryStays DEF LastTries
  <2> QED BY <1>3, <2>1, FS_Subset
<1>5. ASSUME e \in Pending, e \in Pending', NEW p \in Pumps, Cut(p)
      PROVE  Cardinality(T) - 1 <= Cardinality(U)
  <2>1. T \ {p} \subseteq U
    BY <1>5, CutCosts DEF LastTries
  <2>2. Cardinality(T \ {p}) <= Cardinality(U)
    BY <1>3, <2>1, FS_Subset
  <2>3. Cardinality(T \ {p}) = IF p \in T THEN Cardinality(T) - 1 ELSE Cardinality(T)
    BY FS_RemoveElement
  <2> HIDE DEF T, U
  <2> QED BY <1>1, <1>3, <2>2, <2>3
<1> HIDE DEF T, U
<1>6. /\ IsFiniteSet(U)
      /\ Cardinality(T) \in Nat /\ Cardinality(U) \in Nat
      /\ e \in Pending /\ e \in Pending' /\ (\A p \in Pumps : ~Cut(p))
           => Cardinality(T) <= Cardinality(U)
      /\ e \in Pending /\ e \in Pending' => Cardinality(T) - 1 <= Cardinality(U)
  BY <1>1, <1>3, <1>4, <1>5
<1> QED BY <1>6 DEF T, U

(* The attempts of a pending row: counted by a stamp, given back by a cut. *)
LEMMA AttemptsStep ==
  ASSUME WebTypeOK, OrderInv, [WebNext]_webVars, NEW e \in Events,
         e \in Pending, e \in Pending'
  PROVE  /\ delivery[e].attempts \in Nat /\ delivery'[e].attempts \in Nat
         /\ (\A p \in Pumps : ~Cut(p)) => delivery[e].attempts <= delivery'[e].attempts
         /\ delivery[e].attempts - 1 <= delivery'[e].attempts
<1> DEFINE Kept == delivery'[e].attempts = delivery[e].attempts
<1>1. /\ delivery \in [Events -> Deliveries] /\ run \in [Pumps -> Runs]
      /\ delivery[e].attempts \in Nat /\ delivery'[e].attempts \in Nat
      /\ delivery[e].status = "pending" /\ delivery'[e].status = "pending"
  BY WebTypeStep DEF WebTypeOK, Deliveries, Pending
<1>2. CASE UNCHANGED delivery
  BY <1>1, <1>2
<1>3. CASE CommitBatch
  <2>1. e \notin fan.batch
    <3>1. e <= fan.cursor /\ fan.cursor \in Nat
      BY <1>1 DEF OrderInv, WebTypeOK, Fans
    <3> QED BY <3>1 DEF OrderInv, Events
  <2> QED BY <1>1, <1>3, <2>1 DEF CommitBatch
<1>4. CASE Delete \/ ExpireOrphans
  <2>1. delivery'[e] = Outcome(delivery[e], "expired")
    BY <1>4 DEF Delete, ExpireOrphans, ExpirePending
  <2>2. delivery'[e].status = "expired"
    BY <1>1, <2>1 DEF Outcome, Deliveries
  <2> QED BY <1>1, <2>2
<1>5. CASE \E d \in Events : BackoffElapses(d) \/ GrowsOld(d)
  <2>1. Kept
    BY <1>1, <1>5 DEF BackoffElapses, GrowsOld, Deliveries
  <2> QED BY <1>1, <2>1
<1>6. CASE Match \/ RollBackBatch \/ Enable \/ Disable \/ LeaseLapses
  BY <1>2, <1>6 DEF Match, RollBackBatch, Enable, Disable, LeaseLapses
<1>7. ASSUME NEW p \in Pumps, Claim(p) \/ Fail(p) \/ Crash(p) \/ Outlive(p)
      PROVE  Kept
  BY <1>7 DEF Claim, Fail, Crash, Outlive
<1>8. ASSUME NEW p \in Pumps, Interrupt(p)
      PROVE  delivery[e].attempts - 1 <= delivery'[e].attempts
  BY <1>1, <1>8 DEF Interrupt, Runs, Deliveries
<1>9. ASSUME NEW p \in Pumps, Stamp(p)
      PROVE  delivery[e].attempts <= delivery'[e].attempts
  BY <1>1, <1>9 DEF Stamp, Deliveries
<1>10. ASSUME NEW p \in Pumps, NEW waiting \in BOOLEAN, Keep(p, waiting)
       PROVE  Kept
  BY <1>1, <1>10 DEF Keep, Deliveries
<1>11. ASSUME NEW p \in Pumps,
              ExpireRow(p) \/ Deliver(p) \/ \E gone \in BOOLEAN : Die(p, gone)
       PROVE  Kept
  <2>1. CASE UNCHANGED delivery
    BY <2>1
  <2>2. ASSUME NEW status \in Settled, Settle(p, status)
        PROVE  Kept
    BY <1>1, <2>2 DEF Settle, Outcome, Deliveries
  <2> QED BY <1>11, <2>1, <2>2 DEF ExpireRow, Deliver, Die, Settled
<1>12. ASSUME NEW p \in Pumps,
              \/ Renew(p) \/ Reload(p) \/ ReadNothing(p) \/ Release(p)
              \/ \E d \in Events : ReadHead(p, d)
              \/ ResetBreaker(p) \/ ChargeBreaker(p) \/ AutoDisable(p)
       PROVE  Kept
  BY <1>12 DEF Renew, Reload, ReadNothing, Release, ReadHead, ResetBreaker,
               ChargeBreaker, AutoDisable
<1>13. CASE UNCHANGED webVars
  BY <1>2, <1>13 DEF webVars
<1>14. ASSUME NEW p \in Pumps, Claim(p) \/ RunStep(p) \/ Fault(p)
       PROVE  Kept \/ (Interrupt(p) /\ delivery[e].attempts - 1 <= delivery'[e].attempts)
              \/ delivery[e].attempts <= delivery'[e].attempts
  BY <1>7, <1>8, <1>9, <1>10, <1>11, <1>12, <1>14 DEF RunStep, Fault
<1>15. ASSUME NEW p \in Pumps, Claim(p) \/ RunStep(p) \/ Fault(p)
       PROVE  /\ ~Cut(p) => delivery[e].attempts <= delivery'[e].attempts
              /\ delivery[e].attempts - 1 <= delivery'[e].attempts
  BY <1>1, <1>14, <1>15 DEF Cut
<1>16. CASE \E p \in Pumps : Claim(p) \/ RunStep(p) \/ Fault(p)
  BY <1>1, <1>15, <1>16
<1> QED BY <1>3, <1>4, <1>5, <1>6, <1>13, <1>16 DEF WebNext, Dispatch, Operator, Elapse

(* A stamp that goes through: the request, and who makes it. *)
LEMMA RequestIsStamped ==
  ASSUME WebTypeOK, OrderInv, [WebNext]_webVars, NEW e \in Events,
         requests'[e] # requests[e]
  PROVE  /\ requests'[e] = requests[e] + 1
         /\ e \in Pending /\ e \in Pending'
         /\ delivery'[e].attempts = delivery[e].attempts + 1
         /\ UNCHANGED faults
         /\ \A p \in Pumps : ~Cut(p)
         /\ \E p \in Pumps : /\ p \notin LastTries(e)
                             /\ delivery[e].attempts + 1 >= MaxAttempts
                                  => p \in LastTries(e)'
                             /\ \A q \in Pumps : q # p => run'[q] = run[q]
<1>1. /\ delivery \in [Events -> Deliveries] /\ run \in [Pumps -> Runs]
      /\ requests \in [Events -> Nat]
  BY DEF WebTypeOK
<1>2. PICK p \in Pumps : Stamp(p)
  BY Idle
<1>3. /\ e = run[p].row /\ StillPending(p)
      /\ delivery[e].attempts = run[p].attempts
      /\ requests' = [requests EXCEPT ![e] = @ + 1]
      /\ delivery' = [delivery EXCEPT ![e].attempts = @ + 1, ![e].waiting = TRUE]
  BY <1>1, <1>2 DEF Stamp
<1>4. /\ requests'[e] = requests[e] + 1
      /\ delivery'[e].attempts = delivery[e].attempts + 1
      /\ delivery'[e].status = delivery[e].status
  BY <1>1, <1>3 DEF Deliveries
<1>5. e \in Pending /\ e \in Pending'
  BY <1>3, <1>4 DEF StillPending, Pending
<1>6. UNCHANGED faults /\ \A q \in Pumps : ~Cut(q)
  <2>1. UNCHANGED faults /\ faults \in Nat
    BY <1>2 DEF Stamp, WebTypeOK
  <2> QED BY <2>1, CutCosts
<1>7. /\ p \notin LastTries(e)
      /\ run'[p].phase = "sending" /\ run'[p].row = e
      /\ run'[p].attempts = run[p].attempts
  BY <1>1, <1>2, <1>3 DEF Stamp, LastTries, Goto, Runs
<1>8. delivery[e].attempts + 1 >= MaxAttempts => p \in LastTries(e)'
  BY <1>3, <1>7 DEF LastTries
<1>9. \A q \in Pumps : q # p => run'[q] = run[q]
  BY <1>2, OthersStay DEF RunStep
<1> QED BY <1>4, <1>5, <1>6, <1>7, <1>8, <1>9

LEMMA BudgetInit == WebInit => BudgetInv
<1> SUFFICES ASSUME WebInit PROVE BudgetInv
  OBVIOUS
<1>1. Overdue = {} /\ (\A e \in Events : LastTries(e) = {}) /\ Pending = {}
  BY DEF WebInit, Overdue, LastTries, Pending, NoRun, NoDelivery
<1>2. Spent = 0 /\ RequestsAreBudgeted
  BY LimitsAssumption DEF WebInit, Spent, RequestsAreBudgeted
<1> QED BY <1>1, <1>2, FS_EmptySet DEF BudgetInv

(* A set with all but one of its elements in another is larger by one at most. *)
LEMMA AllButOne ==
  ASSUME NEW S, IsFiniteSet(S), NEW T,
         \A p, q \in T : p # q => p \in S \/ q \in S
  PROVE  Cardinality(T) <= Cardinality(S) + 1
<1>1. PICK x : T \subseteq S \union {x}
  <2>1. CASE \E x \in T : x \notin S
    BY <2>1
  <2>2. CASE \A x \in T : x \in S
    BY <2>2
  <2> QED BY <2>1, <2>2
<1>2. /\ IsFiniteSet(S \union {x})
      /\ Cardinality(S \union {x})
           = IF x \in S THEN Cardinality(S) ELSE Cardinality(S) + 1
  BY FS_AddElement
<1>3. /\ IsFiniteSet(T)
      /\ Cardinality(T) <= Cardinality(S \union {x})
  BY <1>1, <1>2, FS_Subset
<1>4. Cardinality(T) \in Nat /\ Cardinality(S) \in Nat
  BY <1>3, FS_CardinalityType
<1> QED BY <1>2, <1>3, <1>4

(* The accounts of a row that is pending after the step. *)
LEMMA AccountStep ==
  ASSUME WebTypeOK, OrderInv, BudgetInv, [WebNext]_webVars,
         NEW e \in Events, e \in Pending'
  PROVE  Accounted(e)'
<1> DEFINE O == Cardinality(Overdue)   O1 == Cardinality(Overdue')
           T == Cardinality(LastTries(e))   T1 == Cardinality(LastTries(e)')
           a == delivery[e].attempts   a1 == delivery'[e].attempts
           n == requests[e]   n1 == requests'[e]
           s == Spent   s1 == Spent'
<1>1. /\ O \in Nat /\ O1 \in Nat /\ T \in Nat /\ T1 \in Nat
      /\ a1 \in Nat /\ n \in Nat /\ n1 \in Nat
      /\ s \in Int /\ s1 \in Int /\ O <= s
      /\ MaxAttempts \in Nat \ {0}
  <2>1. WebTypeOK'
    BY WebTypeStep
  <2> QED BY <2>1, OverdueStep, TriesStep, LimitsAssumption
          DEF BudgetInv, WebTypeOK, Deliveries, Spent
<1>2. /\ O1 - s1 <= O - s
      /\ (\E p \in Pumps : Cut(p)) => O1 - s1 <= O - s - 1
  BY OverdueStep DEF BudgetInv
<1>3. e \in Pending => n + O <= a + s /\ n + O <= MaxAttempts - 1 + s + T
  BY DEF BudgetInv, Accounted
<1>4. e \in Pending =>
        /\ a \in Nat
        /\ (\A p \in Pumps : ~Cut(p)) => a <= a1 /\ T <= T1
        /\ a - 1 <= a1 /\ T - 1 <= T1
  BY AttemptsStep, TriesStep DEF BudgetInv
<1>5. e \notin Pending => n = 0
  <2> SUFFICES ASSUME e \notin Pending PROVE n = 0
    OBVIOUS
  <2>1. Moves(e) /\ delivery'[e].status = "pending"
    BY StepMoves DEF Pending
  <2>2. fan.cursor < e /\ fan.cursor \in Nat
    BY <2>1 DEF Moves, Pending, Settled, WebTypeOK, Fans
  <2>3. ~(n > 0)
    BY <2>2 DEF OrderInv, Passed, Events
  <2> QED BY <1>1, <2>3
<1>6. n1 # n =>
        /\ n1 = n + 1 /\ e \in Pending /\ a1 = a + 1
        /\ \A p \in Pumps : ~Cut(p)
        /\ a + 1 >= MaxAttempts => T + 1 <= T1
  <2> SUFFICES ASSUME n1 # n
               PROVE  /\ n1 = n + 1 /\ e \in Pending /\ a1 = a + 1
                      /\ \A p \in Pumps : ~Cut(p)
                      /\ a + 1 >= MaxAttempts => T + 1 <= T1
    OBVIOUS
  <2>1. /\ n1 = n + 1 /\ e \in Pending /\ a1 = a + 1
        /\ \A p \in Pumps : ~Cut(p)
    BY RequestIsStamped
  <2>2. PICK p \in Pumps : /\ p \notin LastTries(e)
                           /\ a + 1 >= MaxAttempts => p \in LastTries(e)'
    BY RequestIsStamped
  <2>3. ASSUME a + 1 >= MaxAttempts
        PROVE  T + 1 <= T1
    <3>1. LastTries(e) \union {p} \subseteq LastTries(e)'
      BY <2>1, <2>2, <2>3, LastTryStays DEF LastTries
    <3>2. /\ IsFiniteSet(LastTries(e) \union {p})
          /\ Cardinality(LastTries(e) \union {p}) = T + 1
      BY <2>2, FS_AddElement DEF BudgetInv
    <3>3. Cardinality(LastTries(e) \union {p}) <= T1
      BY <3>1, <3>2, TriesStep, FS_Subset DEF BudgetInv
    <3> QED BY <3>2, <3>3
  <2> QED BY <2>1, <2>3
<1> HIDE DEF O, O1, T, T1, a, a1, n, n1, s, s1
<1>7. n1 + O1 <= a1 + s1 /\ n1 + O1 <= MaxAttempts - 1 + s1 + T1
  <2>1. CASE e \notin Pending
    BY <1>1, <1>2, <1>5, <1>6, <2>1
  <2>2. CASE e \in Pending /\ n1 = n /\ \A p \in Pumps : ~Cut(p)
    BY <1>1, <1>2, <1>3, <1>4, <2>2
  <2>3. CASE e \in Pending /\ n1 = n /\ \E p \in Pumps : Cut(p)
    BY <1>1, <1>2, <1>3, <1>4, <2>3
  <2>4. CASE e \in Pending /\ n1 # n
    BY <1>1, <1>2, <1>3, <1>4, <1>6, <2>4
  <2> QED BY <2>1, <2>2, <2>3, <2>4
<1> QED BY <1>7 DEF Accounted, O1, T1, a1, n1, s1

LEMMA BudgetStep ==
  WebTypeOK /\ LeaseInv /\ OrderInv /\ BudgetInv /\ [WebNext]_webVars => BudgetInv'
<1> SUFFICES ASSUME WebTypeOK, LeaseInv, OrderInv, BudgetInv, [WebNext]_webVars
             PROVE  BudgetInv'
  OBVIOUS
<1>1. /\ IsFiniteSet(Overdue')
      /\ Cardinality(Overdue) \in Nat /\ Cardinality(Overdue') \in Nat
      /\ faults \in Nat /\ faults' \in Nat /\ faults' <= faults
      /\ Cardinality(Overdue') - Spent' <= Cardinality(Overdue) - Spent
  BY OverdueStep DEF BudgetInv
<1>2. Cardinality(Overdue') <= Spent'
  BY <1>1, LimitsAssumption DEF BudgetInv, Spent
<1>3. \A e \in Events : IsFiniteSet(LastTries(e)')
  BY TriesStep DEF BudgetInv
<1>4. \A e \in Pending' : Accounted(e)'
  BY AccountStep DEF Pending
<1>5. ASSUME NEW e \in Events
      PROVE  requests'[e] <= MaxAttempts + (MaxFaults - faults')
  <2>1. /\ requests[e] \in Nat /\ requests'[e] \in Nat
        /\ MaxAttempts \in Nat /\ MaxFaults \in Nat
        /\ requests[e] <= MaxAttempts + (MaxFaults - faults)
    BY WebTypeStep, LimitsAssumption DEF WebTypeOK, BudgetInv, RequestsAreBudgeted
  <2>2. CASE requests'[e] = requests[e]
    BY <1>1, <2>1, <2>2
  <2>3. CASE requests'[e] # requests[e]
    <3>1. e \in Pending'
      BY <2>3, RequestIsStamped
    <3>2. requests'[e] + Cardinality(Overdue')
            <= MaxAttempts - 1 + Spent' + Cardinality(LastTries(e)')
      BY <1>4, <3>1 DEF Accounted
    <3>3. LeaseInv'
      BY LeaseStep
    <3>4. Cardinality(LastTries(e)') <= Cardinality(Overdue') + 1
      <4>1. \A p, q \in LastTries(e)' : p # q => p \in Overdue' \/ q \in Overdue'
        BY <3>3 DEF LeaseInv, LastTries, Overdue
      <4> QED BY <1>1, <4>1, AllButOne
    <3>5. Cardinality(LastTries(e)') \in Nat
      BY <1>3, FS_CardinalityType
    <3> QED BY <1>1, <2>1, <3>2, <3>4, <3>5 DEF Spent
  <2> QED BY <2>2, <2>3
<1> QED BY <1>1, <1>2, <1>3, <1>4, <1>5 DEF BudgetInv, RequestsAreBudgeted

(* No delivery costs its receiver more requests than its budget, beyond one
   for every fault: a crash, an interruption or an outlived lease may repeat a
   request, but no interleaving of runs pays twice for one fault. *)
THEOREM EachRequestIsPaidFor == WebSpec => []RequestsAreBudgeted
<1>1. BudgetInv => RequestsAreBudgeted
  BY DEF BudgetInv
<1> QED BY <1>1, WebTypeInit, WebTypeStep, LeaseInit, LeaseStep, OrderInit,
           OrderStep, BudgetInit, BudgetStep, PTL DEF WebSpec
=============================================================================
