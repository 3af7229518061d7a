---------------------------- MODULE ChangeRelease ----------------------------
(***************************************************************************)
(* The workflow of one change order, and the requests that move it:        *)
(* ChangeOrderService.executeWorkflowTransition over                       *)
(* LifecycleInstanceService.transition and ApprovalService.                *)
(*                                                                         *)
(* A request reads the instance and the votes on the connection pool and   *)
(* writes the new state by compare-and-swap, in a transaction.  A move to a*)
(* final state first takes a claim on the instance and then releases or    *)
(* cancels the change order, one transaction per design, before that write.*)
(* Other modules model what the merge of a design does to the items.       *)
(***************************************************************************)
EXTENDS Naturals, FiniteSets

CONSTANTS
  States, Initial, Edges,
  Kind,      \* Kind[s]: "open", or the finalKind of a final state
  Required,  \* Required[e]: the approvals an edge asks for
  Users, Designs,
  Threads,   \* requests in flight
  MaxRequests, MaxVotes,  \* bounds: requests, votes
  MaxFaults  \* bound: requests that fail, die or outlive their claim

ASSUME WorkflowAssumption ==
  /\ Initial \in States
  /\ Edges \subseteq States \X States
  /\ Kind \in [States -> {"open", "release", "cancel"}]
  /\ Kind[Initial] = "open"
  /\ \A e \in Edges : Kind[e[1]] = "open"
  /\ Required \in [Edges -> Nat]
ASSUME BoundsAssumption == MaxRequests \in Nat /\ MaxVotes \in Nat /\ MaxFaults \in Nat

VARIABLES
  instance,  \* the workflow_instances row
  votes,     \* votes[s]: users with a standing approval of state s
  order,     \* the change order and its branches
  thread,    \* thread[t]: the request t serves
  facts,     \* endings recorded in the event log
  history,   \* history, see Histories
  left       \* requests, votes and faults still to come

releaseVars == <<instance, votes, order, thread, facts, history, left>>

(* claim: releasingAt, and whether it is older than the timeout. *)
Instances == [state: States, completed: BOOLEAN, claim: {"none", "live", "stale"},
              scopeLocked: BOOLEAN]

(* merged, skipped: the merge_status of the designs.  adding: designs whose
   addition has found the scope open and is still to be written. *)
Orders == [scope: SUBSET Designs, adding: SUBSET Designs, merged: SUBSET Designs,
           skipped: SUBSET Designs, implemented: BOOLEAN, cancelled: BOOLEAN]

(* from, locked: the instance as transition() read it. *)
Doings == [phase: {"idle", "claim", "read", "approve", "work", "merge", "commit", "unclaim"},
           to: States, from: States, locked: BOOLEAN, todo: SUBSET Designs]

(* overran: a request outlived its claim.
   unapproved: an ending was written without the approvals its edge asks for.
   late: designs added after a release read the scope.
   slipped: designs added when the scope had locked since they found it open. *)
Histories == [overran: BOOLEAN, unapproved: BOOLEAN, late: SUBSET Designs,
              slipped: SUBSET Designs]

Idle == [phase |-> "idle", to |-> Initial, from |-> Initial, locked |-> FALSE, todo |-> {}]

ReleaseInit ==
  /\ instance = [state |-> Initial, completed |-> FALSE, claim |-> "none",
                 scopeLocked |-> FALSE]
  /\ votes = [s \in States |-> {}]
  /\ \E d \in Designs : order = [scope |-> {d}, adding |-> {}, merged |-> {},
                                 skipped |-> {}, implemented |-> FALSE, cancelled |-> FALSE]
  /\ thread = [t \in Threads |-> Idle]
  /\ facts = [release |-> 0, cancel |-> 0]
  /\ history = [overran |-> FALSE, unapproved |-> FALSE, late |-> {},
                slipped |-> {}]
  /\ left = [requests |-> MaxRequests, votes |-> MaxVotes, faults |-> MaxFaults]

-----------------------------------------------------------------------------
Final(s) == Kind[s] # "open"

(* collectReachableStates: the least set that holds what s leads to. *)
Reachable(s) ==
  {x \in States : \A S \in SUBSET States :
     (\A e \in Edges : e[1] \in S \union {s} => e[2] \in S) => x \in S}

(* The votes a move leaves standing: going back supersedes those on every
   state the workflow will come through again. *)
Standing(from, to) ==
  IF from \in Reachable(to)
  THEN [s \in States |-> IF s = to \/ s \in Reachable(to) THEN {} ELSE votes[s]]
  ELSE votes

Moves(t, doing) == thread' = [thread EXCEPT ![t] = doing]
Spend(what) == left[what] > 0 /\ left' = [left EXCEPT ![what] = @ - 1]

(* t only reads. *)
Reads(t, doing) == /\ Moves(t, doing)
                   /\ UNCHANGED <<instance, votes, order, facts, history, left>>

(* An ending is under way: the request owns, or owned, the claim. *)
Ending(t) == /\ Final(thread[t].to)
             /\ thread[t].phase \in {"read", "approve", "work", "merge", "commit"}

At(t, phase) == [thread[t] EXCEPT !.phase = phase]

(* A refusal or an exception: whoever took the claim gives it back. *)
Quit(t) == IF Ending(t) THEN [Idle EXCEPT !.phase = "unclaim"] ELSE Idle
GiveUp(t) == Reads(t, Quit(t))

-----------------------------------------------------------------------------
(* Engineers and approvers *)

(* submitApproval, of any state: a user's second standing vote on it breaks
   the partial unique index. *)
SubmitApproval(u, s) == /\ u \notin votes[s]
                        /\ Spend("votes")
                        /\ votes' = [votes EXCEPT ![s] = @ \union {u}]
                        /\ UNCHANGED <<instance, order, thread, facts, history>>

(* Designs that have nothing left to merge. *)
Settled == order.merged \union order.skipped

(* A release under way, or recorded, that has read the scope. *)
ScopeRead == order.implemented \/ \E t \in Threads : thread[t].phase = "merge"

ScopeOpen == ~instance.completed /\ ~instance.scopeLocked

(* addDesign asks on the connection pool, and writes later. *)
AssertScopeOpen(d) ==
  /\ ScopeOpen
  /\ d \notin order.scope \union order.adding
  /\ order' = [order EXCEPT !.adding = @ \union {d}]
  /\ UNCHANGED <<instance, votes, thread, facts, history, left>>

AddDesign(d) ==
  /\ d \in order.adding
  /\ order' = [order EXCEPT !.adding = @ \ {d}, !.scope = @ \union {d}]
  /\ history' = [history EXCEPT !.late = IF ScopeRead THEN @ \union {d} ELSE @,
                                !.slipped = IF ScopeOpen THEN @ ELSE @ \union {d}]
  /\ UNCHANGED <<instance, votes, thread, facts, left>>

-----------------------------------------------------------------------------
(* Requests *)

Request(t, to) ==
  /\ thread[t].phase = "idle"
  /\ Spend("requests")
  /\ Moves(t, [Idle EXCEPT !.to = to, !.from = instance.state,
                           !.phase = IF Final(to) THEN "claim" ELSE "read"])
  /\ UNCHANGED <<instance, votes, order, facts, history>>

(* Mutant: a live claim is taken over. *)
MutantClaimHeld(t) == instance.state = thread[t].from /\ ~instance.completed
(* Mutant: a completed workflow can be claimed. *)
MutantClaimEnded(t) == instance.state = thread[t].from /\ instance.claim # "live"

(* The WHERE of claimRelease: free, or older than the timeout. *)
Claimable(t) == /\ instance.state = thread[t].from /\ ~instance.completed
                /\ instance.claim # "live"

ClaimRelease(t) ==
  /\ thread[t].phase = "claim"
  /\ IF Claimable(t)
     THEN /\ instance' = [instance EXCEPT !.claim = "live"]
          /\ Moves(t, At(t, "read"))
          /\ UNCHANGED <<votes, order, facts, history, left>>
     ELSE Reads(t, Idle)

Read(t) ==
  /\ thread[t].phase = "read"
  /\ IF \/ instance.completed
        \/ instance.claim = "live" /\ ~Final(thread[t].to)
        \/ <<instance.state, thread[t].to>> \notin Edges
     THEN GiveUp(t)
     ELSE Reads(t, [thread[t] EXCEPT !.phase = "approve", !.from = instance.state,
                                     !.locked = instance.scopeLocked])

Approved(from, to) == Cardinality(votes[from]) >= Required[<<from, to>>]

(* Mutant: the approvals are not counted again. *)
MutantTrustTheButton(t) ==
  /\ thread[t].phase = "approve"
  /\ Reads(t, At(t, IF Final(thread[t].to) THEN "work" ELSE "commit"))

CheckApprovals(t) ==
  /\ thread[t].phase = "approve"
  /\ IF Approved(thread[t].from, thread[t].to)
     THEN Reads(t, At(t, IF Final(thread[t].to) THEN "work" ELSE "commit"))
     ELSE GiveUp(t)

(* close(): what an earlier attempt recorded is not done again. *)
Close(t) ==
  /\ thread[t].phase = "work"
  /\ Kind[thread[t].to] = "release"
  /\ IF order.implemented
     THEN Reads(t, At(t, "commit"))
     ELSE Reads(t, [thread[t] EXCEPT !.phase = "merge",
                                     !.todo = order.scope \ order.merged])

MergeDesign(t, d) ==
  /\ thread[t].phase = "merge"
  /\ d \in thread[t].todo
  /\ order' = [order EXCEPT !.merged = @ \union {d}, !.skipped = @ \ {d}]
  /\ Moves(t, [thread[t] EXCEPT !.todo = @ \ {d}])
  /\ UNCHANGED <<instance, votes, facts, history, left>>

(* The branch has no changes; a later attempt looks at it again. *)
SkipDesign(t, d) ==
  /\ thread[t].phase = "merge"
  /\ d \in thread[t].todo
  /\ order' = [order EXCEPT !.skipped = @ \union {d}]
  /\ Moves(t, [thread[t] EXCEPT !.todo = @ \ {d}])
  /\ UNCHANGED <<instance, votes, facts, history, left>>

(* Mutant: implementedAt is stamped before the last branch is merged. *)
MutantMarkFirst(t) ==
  /\ thread[t].phase = "merge"
  /\ order' = [order EXCEPT !.implemented = TRUE]
  /\ Moves(t, At(t, IF thread[t].todo = {} THEN "commit" ELSE "merge"))
  /\ UNCHANGED <<instance, votes, facts, history, left>>

(* The pass over the affected items stamps implementedAt. *)
MarkImplemented(t) ==
  /\ thread[t].phase = "merge" /\ thread[t].todo = {}
  /\ order' = [order EXCEPT !.implemented = TRUE]
  /\ Moves(t, At(t, "commit"))
  /\ UNCHANGED <<instance, votes, facts, history, left>>

(* cancel(): one transaction archives every branch, whatever was merged. *)
Cancel(t) ==
  /\ thread[t].phase = "work"
  /\ Kind[thread[t].to] = "cancel"
  /\ order' = [order EXCEPT !.cancelled = TRUE]
  /\ Moves(t, At(t, "commit"))
  /\ UNCHANGED <<instance, votes, facts, history, left>>

(* Mutant: the state write does not ask for the state it read. *)
MutantIgnoreState(t) == instance.claim = "live" => Final(thread[t].to)

(* The WHERE of the state write. *)
Unmoved(t) == /\ instance.state = thread[t].from
              /\ instance.claim = "live" => Final(thread[t].to)

(* Mutant: the scope stays locked on a return to the initial state. *)
MutantLockOnce(t) == instance.scopeLocked \/ thread[t].from = Initial

(* The scope locks on leaving the initial state and opens on a return. *)
ScopeLock(t) ==
  LET doing == thread[t]
  IN CASE doing.from = Initial /\ ~doing.locked -> TRUE
       [] doing.to = Initial /\ doing.locked -> FALSE
       [] OTHER -> instance.scopeLocked

Commit(t) ==
  LET doing == thread[t] IN
  /\ doing.phase = "commit"
  /\ IF Unmoved(t)
     THEN /\ instance' = [state |-> doing.to, completed |-> instance.completed \/ Final(doing.to),
                          claim |-> IF Final(doing.to) THEN "none" ELSE instance.claim,
                          scopeLocked |-> ScopeLock(t)]
          /\ votes' = Standing(doing.from, doing.to)
          /\ facts' = IF Final(doing.to) THEN [facts EXCEPT ![Kind[doing.to]] = @ + 1]
                      ELSE facts
          /\ history' = [history EXCEPT !.unapproved =
                            @ \/ (Final(doing.to) /\ ~Approved(doing.from, doing.to))]
          /\ Moves(t, Idle)
          /\ UNCHANGED <<order, left>>
     ELSE GiveUp(t)

(* releaseClaim clears whatever claim is there. *)
ReleaseClaim(t) == /\ thread[t].phase = "unclaim"
                   /\ instance' = [instance EXCEPT !.claim = "none"]
                   /\ Moves(t, Idle)
                   /\ UNCHANGED <<votes, order, facts, history, left>>

(* A gate, a guard, a merge conflict, or a failing write: the transaction at
   work rolls back and the request throws. *)
Fail(t) == /\ thread[t].phase \notin {"idle", "unclaim"}
           /\ Spend("faults")
           /\ Moves(t, Quit(t))
           /\ UNCHANGED <<instance, votes, order, facts, history>>

Crash(t) == /\ thread[t].phase # "idle"
            /\ Spend("faults")
            /\ Moves(t, Idle)
            /\ UNCHANGED <<instance, votes, order, facts, history>>

(* Fifteen minutes pass: on a claim whose process died, or on one at work. *)
Abandoned == \A t \in Threads : ~Ending(t) /\ thread[t].phase # "unclaim"

GrowStale == /\ instance.claim = "live"
             /\ instance' = [instance EXCEPT !.claim = "stale"]
             /\ IF Abandoned THEN UNCHANGED <<history, left>>
                ELSE Spend("faults") /\ history' = [history EXCEPT !.overran = TRUE]
             /\ UNCHANGED <<votes, order, thread, facts>>

Step(t) == \/ \E s \in States : Request(t, s)
           \/ ClaimRelease(t) \/ Read(t) \/ CheckApprovals(t) \/ Close(t)
           \/ \E d \in Designs : MergeDesign(t, d) \/ SkipDesign(t, d)
           \/ MarkImplemented(t) \/ Cancel(t) \/ Commit(t) \/ ReleaseClaim(t)
           \/ Fail(t) \/ Crash(t)

ReleaseNext == \/ \E t \in Threads : Step(t)
               \/ \E u \in Users, s \in States : SubmitApproval(u, s)
               \/ \E d \in Designs : AssertScopeOpen(d) \/ AddDesign(d)
               \/ GrowStale

ReleaseSpec == ReleaseInit /\ [][ReleaseNext]_releaseVars

-----------------------------------------------------------------------------
(* Properties *)

(* The types; and a workflow that has completed holds no claim. *)
ReleaseTypeOK ==
  /\ instance \in Instances
  /\ instance.completed => instance.claim = "none"
  /\ votes \in [States -> SUBSET Users]
  /\ order \in Orders
  /\ thread \in [Threads -> Doings]
  /\ facts \in [{"release", "cancel"} -> Nat]
  /\ history \in Histories
  /\ left \in [{"requests", "votes", "faults"} -> Nat]

(* Double-fired releases are impossible, and nothing moves the workflow under
   a release: two requests are past the claim only when one outlived it, and
   till then the state is the one the release read. *)
ReleaseIsExclusive ==
  history.overran \/
    \A t \in Threads : Ending(t) =>
      /\ \A u \in Threads \ {t} : ~Ending(u)
      /\ instance.state = thread[t].from /\ ~instance.completed

(* The workflow completes once, and the event log says so once, and rightly:
   whatever was retried, whoever raced, even past an outlived claim. *)
OneEnding ==
  /\ instance.completed <=> Final(instance.state)
  /\ \A kind \in {"release", "cancel"} :
       facts[kind] = IF Kind[instance.state] = kind THEN 1 ELSE 0

(* Scope is open exactly in the initial state: the flag is computed from an
   earlier reading, and rework and submission race. *)
ScopeFollowsState == instance.scopeLocked <=> instance.state # Initial

(* No release or cancellation is written on approvals that rework has superseded
   since they were counted, unless the claim that protects them was outlived. *)
EndedApproved == history.unapproved => history.overran

(* The workflow is released only once every design reviewed is merged, or
   found without changes, and recorded so, through failures, retries, rework
   and outlived claims. *)
ReleasedIsMerged ==
  Kind[instance.state] = "release" =>
    order.implemented /\ order.scope \ history.late \subseteq Settled

(* ChangeOrderService.ts: "The workflow can only become Approved/completed if
   the merge actually happened".  Not so for what rework adds after a release
   whose last write failed: implementedAt stands, and close() skips it.  (A
   design that found the scope open and landed once it was locked is left out
   too, in another way, and not judged here.) *)
NothingIsLeftBehind ==
  Kind[instance.state] = "release" /\ ~history.overran =>
    order.scope \ history.slipped \subseteq Settled
=============================================================================
