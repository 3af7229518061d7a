------------------------ MODULE ChangeRelease_proofs ------------------------
(* Proofs about ChangeRelease, for any workflow, any threads, users, designs
   and bounds: one inductive invariant, of the instance, the order and each
   request on its way. *)
EXTENDS ChangeRelease, FiniteSetTheorems, TLAPS

Phases == {"idle", "claim", "read", "approve", "work", "merge", "commit", "unclaim"}

(* The state of a request: it has read the instance; it is an ending; it owns
   the claim, or owned it. *)
Under(d) == d.phase \in {"approve", "work", "merge", "commit"}
Ends(d) == Final(d.to) /\ d.phase \in {"read", "approve", "work", "merge", "commit"}
Owns(d) == Ends(d) \/ d.phase = "unclaim"

(* No edge leaves the initial state for itself. *)
NoLoop == <<Initial, Initial>> \notin Edges

Reviewed == order.scope \ history.late

(* What is known of a request d, with the instance and the order as they are. *)
Local(d) ==
  /\ Under(d) => <<d.from, d.to>> \in Edges
  /\ Under(d) /\ NoLoop => (d.locked <=> d.from # Initial)
  /\ d.phase = "work" => Final(d.to)
  /\ d.phase = "merge" => Kind[d.to] = "release" /\ Reviewed \subseteq Settled \union d.todo
  /\ d.phase = "commit" /\ Kind[d.to] = "release" => order.implemented
  /\ ~history.overran /\ Owns(d) => instance.claim = "live"
  /\ ~history.overran /\ Ends(d) => instance.state = d.from /\ ~instance.completed
  /\ ~history.overran /\ Final(d.to) /\ d.phase \in {"work", "merge", "commit"}
       => Approved(d.from, d.to)

Alone == ~history.overran =>
           \A t, u \in Threads : Owns(thread[t]) /\ Owns(thread[u]) => t = u

Globals ==
  /\ OneEnding
  /\ NoLoop => ScopeFollowsState
  /\ EndedApproved
  /\ order.implemented => Reviewed \subseteq Settled
  /\ Kind[instance.state] = "release" => order.implemented

Typed == ReleaseTypeOK /\ \A s \in States : IsFiniteSet(votes[s])

Inv == Typed /\ Globals /\ Alone /\ \A t \in Threads : Local(thread[t])

-----------------------------------------------------------------------------
(* Requests *)

LEMMA AtFields ==
  ASSUME Typed, NEW t \in Threads, NEW phase \in Phases
  PROVE  /\ At(t, phase) \in Doings /\ At(t, phase).phase = phase
         /\ At(t, phase).to = thread[t].to /\ At(t, phase).from = thread[t].from
         /\ At(t, phase).locked = thread[t].locked /\ At(t, phase).todo = thread[t].todo
  BY DEF At, Typed, ReleaseTypeOK, Doings, Phases

LEMMA IdleFields ==
  Idle \in Doings /\ Idle.phase = "idle" /\ ~Owns(Idle) /\ ~Under(Idle)
  BY WorkflowAssumption DEF Idle, Doings, Owns, Ends, Under

LEMMA IdleLocal == Local(Idle)
  BY IdleFields DEF Local, Owns

LEMMA QuitFields ==
  ASSUME NEW t \in Threads
  PROVE  /\ Quit(t) \in Doings /\ Quit(t).phase \in {"idle", "unclaim"}
         /\ Owns(Quit(t)) => Ends(thread[t])
         /\ ~Under(Quit(t)) /\ ~Ends(Quit(t))
<1>1. CASE Ending(t)
  BY <1>1, WorkflowAssumption
     DEF Quit, Idle, Doings, Ending, Ends, Owns, Under
<1>2. CASE ~Ending(t)
  BY <1>2, IdleFields DEF Quit, Idle, Owns
<1> QED BY <1>1, <1>2

LEMMA QuitLocal ==
  ASSUME Inv, NEW t \in Threads
  PROVE  Local(Quit(t))
<1>1. PICK d : d = Quit(t)
  OBVIOUS
<1>2. d.phase \in {"idle", "unclaim"} /\ (Owns(d) => Ends(thread[t])) /\ ~Under(d) /\ ~Ends(d)
  BY <1>1, QuitFields
<1>3. Local(d)
  BY <1>2 DEF Inv, Local, Owns
<1> QED BY <1>1, <1>3

LEMMA Moved ==
  ASSUME Typed, NEW t \in Threads, NEW d \in Doings, Moves(t, d)
  PROVE  /\ thread' \in [Threads -> Doings] /\ thread'[t] = d
         /\ \A u \in Threads \ {t} : thread'[u] = thread[u]
  BY DEF Moves, Typed, ReleaseTypeOK

LEMMA Spent ==
  ASSUME Typed, NEW what \in {"requests", "votes", "faults"}, Spend(what)
  PROVE  left' \in [{"requests", "votes", "faults"} -> Nat]
  BY DEF Typed, ReleaseTypeOK, Spend

-----------------------------------------------------------------------------
(* A step that changes only its request: it must know what it claims to know,
   and not come to own a claim it did not own. *)
LEMMA OnlyThread ==
  ASSUME Inv, NEW t \in Threads, NEW d \in Doings, Moves(t, d), Local(d),
         Owns(d) => Owns(thread[t]),
         UNCHANGED <<instance, votes, order, facts, history>>,
         left' \in [{"requests", "votes", "faults"} -> Nat]
  PROVE  Inv'
<1>1. Typed'
  BY Moved DEF Inv, Typed, ReleaseTypeOK
<1>2. Globals'
  BY DEF Inv, Globals, OneEnding, ScopeFollowsState, EndedApproved, Reviewed, Settled
<1>3. \A u \in Threads : thread'[u] = IF u = t THEN d ELSE thread[u]
  BY Moved DEF Inv
<1>4. Alone'
  <2> SUFFICES ASSUME ~history.overran, NEW u \in Threads, NEW v \in Threads,
                      Owns(thread[u])', Owns(thread[v])'
               PROVE  u = v
    BY DEF Alone
  <2>1. Owns(thread[u]) /\ Owns(thread[v])
    BY <1>3 DEF Owns, Ends
  <2> QED BY <2>1 DEF Inv, Alone
<1>5. ASSUME NEW u \in Threads
      PROVE  Local(thread[u])'
  <2>1. PICK e : e = thread'[u]
    OBVIOUS
  <2>2. Local(e)
    BY <1>3, <2>1 DEF Inv
  <2>3. Local(e)'
    BY <2>2 DEF Local, Reviewed, Settled, Approved
  <2> QED BY <2>1, <2>3
<1> QED BY <1>1, <1>2, <1>4, <1>5 DEF Inv

LEMMA ReadsStep ==
  ASSUME Inv, NEW t \in Threads, NEW d \in Doings, Reads(t, d), Local(d),
         Owns(d) => Owns(thread[t])
  PROVE  Inv'
<1>1. left' \in [{"requests", "votes", "faults"} -> Nat]
  BY DEF Reads, Inv, Typed, ReleaseTypeOK
<1> QED BY <1>1, OnlyThread DEF Reads

LEMMA IdleStep ==
  ASSUME Inv, NEW t \in Threads, Reads(t, Idle)
  PROVE  Inv'
  BY ReadsStep, IdleFields, IdleLocal

LEMMA GiveUpStep ==
  ASSUME Inv, NEW t \in Threads, GiveUp(t)
  PROVE  Inv'
  BY ReadsStep, QuitFields, QuitLocal DEF GiveUp, Owns

LEMMA FaultStep ==
  ASSUME Inv, NEW t \in Threads, Fail(t) \/ Crash(t)
  PROVE  Inv'
<1>1. left' \in [{"requests", "votes", "faults"} -> Nat]
  BY Spent DEF Inv, Fail, Crash
<1>2. CASE Fail(t)
  BY <1>1, <1>2, OnlyThread, QuitFields, QuitLocal DEF Fail, Owns
<1>3. CASE Crash(t)
  BY <1>1, <1>3, OnlyThread, IdleFields, IdleLocal DEF Crash
<1> QED BY <1>2, <1>3

LEMMA RequestStep ==
  ASSUME Inv, NEW t \in Threads, NEW to \in States, Request(t, to)
  PROVE  Inv'
<1> DEFINE phase == IF Final(to) THEN "claim" ELSE "read"
           d == [Idle EXCEPT !.to = to, !.from = instance.state, !.phase = phase]
<1>1. phase \in {"claim", "read"} /\ (phase = "read" => ~Final(to))
  OBVIOUS
<1>2. left' \in [{"requests", "votes", "faults"} -> Nat]
  BY Spent DEF Inv, Request
<1>3. Moves(t, d) /\ UNCHANGED <<instance, votes, order, facts, history>>
  BY DEF Request
<1>4. d \in Doings /\ d.phase = phase /\ d.to = to
  <2> HIDE DEF phase
  <2>1. instance.state \in States
    BY DEF Inv, Typed, ReleaseTypeOK, Instances
  <2> QED BY <1>1, <2>1 DEF Idle, Doings
<1> HIDE DEF d, phase
<1>5. Local(d) /\ ~Owns(d)
  BY <1>1, <1>4 DEF Local, Owns, Ends, Under
<1> QED BY <1>2, <1>3, <1>4, <1>5, OnlyThread

LEMMA ReadStep ==
  ASSUME Inv, NEW t \in Threads, Read(t)
  PROVE  Inv'
<1> DEFINE d == [thread[t] EXCEPT !.phase = "approve", !.from = instance.state,
                                  !.locked = instance.scopeLocked]
<1>1. CASE GiveUp(t)
  BY <1>1, GiveUpStep
<1>2. CASE /\ ~instance.completed /\ <<instance.state, thread[t].to>> \in Edges
           /\ Reads(t, d)
  <2>1. /\ d \in Doings /\ d.phase = "approve" /\ d.from = instance.state
        /\ d.locked = instance.scopeLocked /\ d.to = thread[t].to
    BY DEF Inv, Typed, ReleaseTypeOK, Instances, Doings
  <2>2. Reads(t, d) /\ ~instance.completed /\ <<instance.state, thread[t].to>> \in Edges
    BY <1>2
  <2>3. thread[t].phase = "read"
    BY DEF Read
  <2> HIDE DEF d
  <2>4. Owns(d) => Ends(thread[t]) /\ Owns(thread[t])
    BY <2>1, <2>3 DEF Owns, Ends
  <2>5. Local(thread[t])
    BY DEF Inv
  <2>6. NoLoop => (d.locked <=> d.from # Initial)
    BY <2>1 DEF Inv, Globals, ScopeFollowsState
  <2>7. Local(d)
    BY <2>1, <2>2, <2>4, <2>5, <2>6 DEF Local
  <2> QED BY <2>1, <2>2, <2>4, <2>7, ReadsStep
<1> QED BY <1>1, <1>2 DEF Read

LEMMA CheckApprovalsStep ==
  ASSUME Inv, NEW t \in Threads, CheckApprovals(t)
  PROVE  Inv'
<1> DEFINE phase == IF Final(thread[t].to) THEN "work" ELSE "commit"
<1>1. CASE GiveUp(t)
  BY <1>1, GiveUpStep
<1>2. CASE Approved(thread[t].from, thread[t].to) /\ Reads(t, At(t, phase))
  <2>1. phase \in Phases /\ (IF Final(thread[t].to) THEN phase = "work" ELSE phase = "commit")
    BY DEF Phases
  <2>2. thread[t].phase = "approve" /\ Local(thread[t])
    BY DEF CheckApprovals, Inv
  <2>3. Approved(thread[t].from, thread[t].to) /\ Reads(t, At(t, phase))
    BY <1>2
  <2> HIDE DEF phase
  <2>4. PICK d : d = At(t, phase)
    OBVIOUS
  <2>5. /\ d \in Doings /\ d.phase = phase /\ d.to = thread[t].to /\ d.from = thread[t].from
        /\ d.locked = thread[t].locked
    BY <2>1, <2>4, AtFields DEF Inv
  <2>6. Owns(d) => Owns(thread[t])
    BY <2>1, <2>2, <2>5 DEF Owns, Ends
  <2>7. Local(d)
    BY <2>1, <2>2, <2>3, <2>5 DEF Local, Under, Owns, Ends, Final
  <2> QED BY <2>3, <2>4, <2>5, <2>6, <2>7, ReadsStep
<1> QED BY <1>1, <1>2 DEF CheckApprovals

LEMMA CloseStep ==
  ASSUME Inv, NEW t \in Threads, Close(t)
  PROVE  Inv'
<1>1. thread[t].phase = "work" /\ Kind[thread[t].to] = "release" /\ Local(thread[t])
  BY DEF Close, Inv
<1>2. CASE order.implemented
  <2>1. PICK d : d = At(t, "commit")
    OBVIOUS
  <2>2. /\ d \in Doings /\ d.phase = "commit" /\ d.to = thread[t].to
        /\ d.from = thread[t].from /\ d.locked = thread[t].locked
    BY <2>1, AtFields DEF Inv, Phases
  <2>3. Owns(d) => Owns(thread[t])
    BY <1>1, <2>2 DEF Owns, Ends
  <2>4. Local(d)
    BY <1>1, <1>2, <2>2 DEF Local, Under, Owns, Ends
  <2>5. Reads(t, d)
    BY <1>2, <2>1 DEF Close
  <2> QED BY <2>2, <2>3, <2>4, <2>5, ReadsStep
<1>3. CASE ~order.implemented
  <2> DEFINE d == [thread[t] EXCEPT !.phase = "merge", !.todo = order.scope \ order.merged]
  <2>1. /\ d \in Doings /\ d.phase = "merge" /\ d.to = thread[t].to
        /\ d.from = thread[t].from /\ d.locked = thread[t].locked
        /\ d.todo = order.scope \ order.merged
    BY DEF Inv, Typed, ReleaseTypeOK, Orders, Doings
  <2>2. Reads(t, d)
    BY <1>3 DEF Close
  <2> HIDE DEF d
  <2>3. Owns(d) => Owns(thread[t])
    BY <1>1, <2>1 DEF Owns, Ends
  <2>4. Reviewed \subseteq Settled \union d.todo
    BY <2>1 DEF Reviewed, Settled
  <2>5. Local(d)
    BY <1>1, <2>1, <2>4 DEF Local, Under, Owns, Ends
  <2> QED BY <2>1, <2>2, <2>3, <2>5, ReadsStep
<1> QED BY <1>2, <1>3

-----------------------------------------------------------------------------
(* The claim *)

LEMMA ClaimReleaseStep ==
  ASSUME Inv, NEW t \in Threads, ClaimRelease(t)
  PROVE  Inv'
<1>1. CASE Reads(t, Idle)
  BY <1>1, IdleStep
<1>2. CASE /\ Claimable(t) /\ instance' = [instance EXCEPT !.claim = "live"]
           /\ Moves(t, At(t, "read")) /\ UNCHANGED <<votes, order, facts, history, left>>
  <2>1. PICK d : d = At(t, "read")
    OBVIOUS
  <2>2. /\ d \in Doings /\ d.phase = "read" /\ d.to = thread[t].to
        /\ d.from = thread[t].from
    BY <2>1, AtFields DEF Inv, Phases
  <2>3. /\ instance' \in Instances /\ instance'.claim = "live"
        /\ instance'.state = instance.state /\ instance'.completed = instance.completed
        /\ instance'.scopeLocked = instance.scopeLocked
    BY <1>2 DEF Inv, Typed, ReleaseTypeOK, Instances
  <2>4. /\ instance.claim # "live" /\ ~instance.completed /\ instance.state = thread[t].from
        /\ UNCHANGED <<votes, order, facts, history, left>>
    BY <1>2 DEF Claimable
  <2>5. \A u \in Threads : thread'[u] = IF u = t THEN d ELSE thread[u]
    BY <1>2, <2>1, <2>2, Moved DEF Inv
  <2>6. thread' \in [Threads -> Doings]
    BY <1>2, <2>1, <2>2, Moved DEF Inv
  <2>7. ~history.overran => \A u \in Threads : ~Owns(thread[u])
    BY <2>4 DEF Inv, Local
  <2>8. Typed'
    BY <2>3, <2>4, <2>6 DEF Inv, Typed, ReleaseTypeOK
  <2>9. Globals'
    BY <2>3, <2>4 DEF Inv, Globals, OneEnding, ScopeFollowsState, EndedApproved, Reviewed, Settled
  <2>10. Alone'
    <3> SUFFICES ASSUME ~history.overran, NEW u \in Threads, NEW v \in Threads,
                        Owns(thread[u])', Owns(thread[v])'
                 PROVE  u = v
      BY <2>4 DEF Alone
    <3> QED BY <2>5, <2>7 DEF Owns, Ends
  <2>11. ASSUME NEW u \in Threads PROVE Local(thread[u])'
    <3>1. PICK e : e = thread'[u]
      OBVIOUS
    <3>2. CASE u = t
      <4>1. e = d
        BY <2>5, <3>1, <3>2
      <4>2. Local(e)'
        BY <4>1, <2>2, <2>3, <2>4 DEF Local, Under, Owns, Ends
      <4> QED BY <3>1, <4>2
    <3>3. CASE u # t
      <4>1. Local(e) /\ (~history.overran => ~Owns(e))
        BY <2>5, <2>7, <3>1, <3>3 DEF Inv
      <4>2. ~history.overran => ~Owns(e) /\ ~Ends(e)
        BY <4>1 DEF Owns
      <4>3. Local(e)'
        BY <4>1, <4>2, <2>3, <2>4 DEF Local, Reviewed, Settled, Approved
      <4> QED BY <3>1, <4>3
    <3> QED BY <3>2, <3>3
  <2> QED BY <2>8, <2>9, <2>10, <2>11 DEF Inv
<1> QED BY <1>1, <1>2 DEF ClaimRelease

LEMMA ReleaseClaimStep ==
  ASSUME Inv, NEW t \in Threads, ReleaseClaim(t)
  PROVE  Inv'
<1>1. /\ instance' \in Instances /\ instance'.claim = "none"
      /\ instance'.state = instance.state /\ instance'.completed = instance.completed
      /\ instance'.scopeLocked = instance.scopeLocked
      /\ UNCHANGED <<votes, order, facts, history, left>>
  BY DEF ReleaseClaim, Inv, Typed, ReleaseTypeOK, Instances
<1>2. thread[t].phase = "unclaim" /\ Moves(t, Idle)
  BY DEF ReleaseClaim
<1>3. /\ thread' \in [Threads -> Doings]
      /\ \A u \in Threads : thread'[u] = IF u = t THEN Idle ELSE thread[u]
  BY <1>2, Moved, IdleFields DEF Inv
<1>4. ~history.overran => \A u \in Threads \ {t} : ~Owns(thread[u])
  BY <1>2 DEF Inv, Alone, Owns
<1>5. Typed'
  BY <1>1, <1>3 DEF Inv, Typed, ReleaseTypeOK
<1>6. Globals'
  BY <1>1 DEF Inv, Globals, OneEnding, ScopeFollowsState, EndedApproved, Reviewed, Settled
<1>7. ASSUME NEW u \in Threads
      PROVE  Local(thread[u])' /\ (~history.overran => ~Owns(thread[u])')
  <2>1. PICK e : e = thread'[u]
    OBVIOUS
  <2>2. Local(e) /\ (~history.overran => ~Owns(e))
    BY <1>3, <1>4, <2>1, IdleFields, IdleLocal DEF Inv
  <2>3. ~history.overran => ~Owns(e) /\ ~Ends(e)
    BY <2>2 DEF Owns
  <2>4. Local(e)'
    BY <2>2, <2>3, <1>1 DEF Local, Reviewed, Settled, Approved
  <2>5. ~history.overran => ~Owns(e)'
    BY <2>2 DEF Owns, Ends
  <2> QED BY <2>1, <2>4, <2>5
<1>8. Alone'
  BY <1>1, <1>7 DEF Alone
<1> QED BY <1>5, <1>6, <1>7, <1>8 DEF Inv

LEMMA GrowStaleStep ==
  ASSUME Inv, GrowStale
  PROVE  Inv'
<1>1. /\ instance' \in Instances /\ instance'.claim = "stale"
      /\ instance'.state = instance.state /\ instance'.completed = instance.completed
      /\ instance'.scopeLocked = instance.scopeLocked
      /\ UNCHANGED <<votes, order, thread, facts>> /\ ~instance.completed
  BY DEF GrowStale, Inv, Typed, ReleaseTypeOK, Instances
<1>2. /\ history' \in Histories /\ history'.late = history.late
      /\ history'.unapproved = history.unapproved
      /\ history.overran => history'.overran
      /\ history'.overran \/ (Abandoned /\ history' = history)
      /\ left' \in [{"requests", "votes", "faults"} -> Nat]
  <2>1. CASE Abandoned
    BY <2>1 DEF GrowStale, Inv, Typed, ReleaseTypeOK
  <2>2. CASE ~Abandoned
    <3>1. Spend("faults") /\ history' = [history EXCEPT !.overran = TRUE]
      BY <2>2 DEF GrowStale
    <3> QED BY <3>1, Spent DEF Inv, Typed, ReleaseTypeOK, Histories
  <2> QED BY <2>1, <2>2
<1>3. history'.overran \/ \A u \in Threads : ~Owns(thread[u]) /\ ~Ends(thread[u])
  BY <1>2 DEF Abandoned, Ending, Owns, Ends
<1>4. Typed'
  BY <1>1, <1>2 DEF Inv, Typed, ReleaseTypeOK
<1>5. Globals'
  BY <1>1, <1>2 DEF Inv, Globals, OneEnding, ScopeFollowsState, EndedApproved, Reviewed, Settled
<1>6. Alone'
  BY <1>1, <1>3 DEF Alone, Owns, Ends
<1>7. ASSUME NEW u \in Threads PROVE Local(thread[u])'
  <2>1. PICK e : e = thread[u]
    OBVIOUS
  <2>2. Local(e) /\ (history'.overran \/ (~Owns(e) /\ ~Ends(e)))
    BY <1>3, <2>1 DEF Inv
  <2>3. Local(e)'
    BY <1>1, <1>2, <2>2 DEF Local, Reviewed, Settled, Approved
  <2> QED BY <1>1, <2>1, <2>3
<1> QED BY <1>4, <1>5, <1>6, <1>7 DEF Inv

-----------------------------------------------------------------------------
(* The work of an ending *)

(* A step of the work that only adds to what is settled or recorded. *)
LEMMA WorkStep ==
  ASSUME Inv, NEW t \in Threads, NEW d \in Doings, Moves(t, d),
         d.to = thread[t].to, d.from = thread[t].from, d.locked = thread[t].locked,
         d.phase \in {"merge", "commit"}, thread[t].phase \in {"work", "merge"},
         Final(d.to), d.phase = "merge" => Kind[d.to] = "release",
         UNCHANGED <<instance, votes, facts, history, left>>,
         order' \in Orders, order'.scope = order.scope,
         Settled \subseteq Settled', order.implemented => order'.implemented,
         d.phase = "merge" => Reviewed \subseteq Settled' \union d.todo,
         d.phase = "commit" /\ Kind[d.to] = "release" => order'.implemented,
         order'.implemented => Reviewed \subseteq Settled'
  PROVE  Inv'
<1>1. /\ thread' \in [Threads -> Doings]
      /\ \A u \in Threads : thread'[u] = IF u = t THEN d ELSE thread[u]
  BY Moved DEF Inv
<1>2. Typed'
  BY <1>1 DEF Inv, Typed, ReleaseTypeOK
<1>3. Globals'
  BY DEF Inv, Globals, OneEnding, ScopeFollowsState, EndedApproved, Reviewed
<1>4. Ends(thread[t]) /\ Owns(thread[t]) /\ Ends(d)
  BY DEF Ends, Owns
<1>5. Alone'
  <2> SUFFICES ASSUME ~history.overran, NEW u \in Threads, NEW v \in Threads,
                      Owns(thread[u])', Owns(thread[v])'
               PROVE  u = v
    BY DEF Alone
  <2>1. Owns(thread[u]) /\ Owns(thread[v])
    BY <1>1, <1>4 DEF Owns, Ends
  <2> QED BY <2>1 DEF Inv, Alone
<1>6. ASSUME NEW u \in Threads PROVE Local(thread[u])'
  <2>1. PICK e : e = thread'[u]
    OBVIOUS
  <2>2. CASE u = t
    <3>1. e = d
      BY <1>1, <2>1, <2>2
    <3>2. Local(thread[t])
      BY DEF Inv
    <3>3. ~history.overran => /\ instance.claim = "live" /\ ~instance.completed
                             /\ instance.state = d.from
      BY <3>2, <1>4 DEF Local
    <3>4. ~history.overran => Approved(d.from, d.to)
      <4>1. CASE thread[t].phase = "work"
        BY <3>2, <4>1 DEF Local
      <4>2. CASE thread[t].phase = "merge"
        BY <3>2, <4>2 DEF Local
      <4> QED BY <4>1, <4>2
    <3>5. <<d.from, d.to>> \in Edges /\ (NoLoop => (d.locked <=> d.from # Initial))
      BY <3>2 DEF Local, Under
    <3>6. Local(d)'
      BY <3>3, <3>4, <3>5 DEF Local, Reviewed, Approved
    <3> QED BY <2>1, <3>1, <3>6
  <2>3. CASE u # t
    <3>1. Local(e)
      BY <1>1, <2>1, <2>3 DEF Inv
    <3>2. Local(e)'
      BY <3>1 DEF Local, Reviewed, Approved
    <3> QED BY <2>1, <3>2
  <2> QED BY <2>2, <2>3
<1> QED BY <1>2, <1>3, <1>5, <1>6 DEF Inv

LEMMA MergeDesignStep ==
  ASSUME Inv, NEW t \in Threads, NEW x \in Designs, MergeDesign(t, x) \/ SkipDesign(t, x)
  PROVE  Inv'
<1> DEFINE d == [thread[t] EXCEPT !.todo = @ \ {x}]
<1>1. thread[t].phase = "merge" /\ Local(thread[t]) /\ Moves(t, d)
  BY DEF MergeDesign, SkipDesign, Inv
<1>2. /\ d \in Doings /\ d.phase = "merge" /\ d.to = thread[t].to
      /\ d.from = thread[t].from /\ d.locked = thread[t].locked
      /\ d.todo = thread[t].todo \ {x}
  BY <1>1 DEF Inv, Typed, ReleaseTypeOK, Doings
<1>3. /\ order' \in Orders /\ order'.scope = order.scope
      /\ Settled' = Settled \union {x} /\ order'.implemented = order.implemented
      /\ UNCHANGED <<instance, votes, facts, history, left>>
  <2>1. order \in Orders
    BY DEF Inv, Typed, ReleaseTypeOK
  <2>2. CASE MergeDesign(t, x)
    BY <2>1, <2>2 DEF MergeDesign, Orders, Settled
  <2>3. CASE SkipDesign(t, x)
    BY <2>1, <2>3 DEF SkipDesign, Orders, Settled
  <2> QED BY <2>2, <2>3
<1> HIDE DEF d
<1>4. Kind[d.to] = "release" /\ Final(d.to) /\ Reviewed \subseteq Settled \union thread[t].todo
  BY <1>1, <1>2 DEF Local, Final
<1>5. Reviewed \subseteq Settled' \union d.todo
  BY <1>2, <1>3, <1>4
<1>6. order'.implemented => Reviewed \subseteq Settled'
  BY <1>3 DEF Inv, Globals
<1> QED BY <1>1, <1>2, <1>3, <1>4, <1>5, <1>6, WorkStep

LEMMA MarkImplementedStep ==
  ASSUME Inv, NEW t \in Threads, MarkImplemented(t)
  PROVE  Inv'
<1>1. thread[t].phase = "merge" /\ thread[t].todo = {} /\ Local(thread[t])
  BY DEF MarkImplemented, Inv
<1>2. PICK d : d = At(t, "commit")
  OBVIOUS
<1>3. /\ d \in Doings /\ d.phase = "commit" /\ d.to = thread[t].to
      /\ d.from = thread[t].from /\ d.locked = thread[t].locked /\ Moves(t, d)
  BY <1>2, AtFields DEF Inv, Phases, MarkImplemented
<1>4. /\ order' \in Orders /\ order'.scope = order.scope
      /\ Settled' = Settled /\ order'.implemented
      /\ UNCHANGED <<instance, votes, facts, history, left>>
  BY DEF MarkImplemented, Inv, Typed, ReleaseTypeOK, Orders, Settled
<1>5. Final(d.to) /\ Reviewed \subseteq Settled'
  BY <1>1, <1>3, <1>4 DEF Local, Final
<1> QED BY <1>1, <1>3, <1>4, <1>5, WorkStep

LEMMA CancelStep ==
  ASSUME Inv, NEW t \in Threads, Cancel(t)
  PROVE  Inv'
<1>1. thread[t].phase = "work" /\ Kind[thread[t].to] = "cancel"
  BY DEF Cancel
<1>2. PICK d : d = At(t, "commit")
  OBVIOUS
<1>3. /\ d \in Doings /\ d.phase = "commit" /\ d.to = thread[t].to
      /\ d.from = thread[t].from /\ d.locked = thread[t].locked /\ Moves(t, d)
  BY <1>2, AtFields DEF Inv, Phases, Cancel
<1>4. /\ order' \in Orders /\ order'.scope = order.scope
      /\ Settled' = Settled /\ order'.implemented = order.implemented
      /\ UNCHANGED <<instance, votes, facts, history, left>>
  BY DEF Cancel, Inv, Typed, ReleaseTypeOK, Orders, Settled
<1>5. Final(d.to) /\ Kind[d.to] # "release"
  BY <1>1, <1>3 DEF Final
<1>6. order'.implemented => Reviewed \subseteq Settled'
  BY <1>4 DEF Inv, Globals
<1> QED BY <1>1, <1>3, <1>4, <1>5, <1>6, WorkStep

-----------------------------------------------------------------------------
(* Approvers and engineers *)

LEMMA SubmitApprovalStep ==
  ASSUME Inv, NEW u \in Users, NEW s \in States, SubmitApproval(u, s)
  PROVE  Inv'
<1>1. /\ votes' \in [States -> SUBSET Users]
      /\ \A x \in States : votes'[x] = IF x = s THEN votes[s] \union {u} ELSE votes[x]
      /\ UNCHANGED <<instance, order, thread, facts, history>>
  BY DEF SubmitApproval, Inv, Typed, ReleaseTypeOK
<1>2. \A x \in States : IsFiniteSet(votes'[x]) /\ Cardinality(votes'[x]) >= Cardinality(votes[x])
  <2>1. IsFiniteSet(votes[s]) /\ u \notin votes[s]
    BY DEF SubmitApproval, Inv, Typed
  <2>2. IsFiniteSet(votes[s] \union {u})
        /\ Cardinality(votes[s] \union {u}) = Cardinality(votes[s]) + 1
    BY <2>1, FS_AddElement
  <2>3. \A x \in States : Cardinality(votes[x]) \in Nat /\ IsFiniteSet(votes[x])
    BY FS_CardinalityType DEF Inv, Typed
  <2>4. ASSUME NEW x \in States
        PROVE  IsFiniteSet(votes'[x]) /\ Cardinality(votes'[x]) >= Cardinality(votes[x])
    <3>1. CASE x = s
      <4>1. votes'[s] = votes[s] \union {u}
        BY <1>1
      <4>2. Cardinality(votes[s]) \in Nat
        BY <2>3
      <4>3. Cardinality(votes'[s]) >= Cardinality(votes[s])
        <5> DEFINE m == Cardinality(votes[s])
        <5>1. Cardinality(votes'[s]) = m + 1 /\ m \in Nat
          BY <4>1, <4>2, <2>2
        <5> HIDE DEF m
        <5>2. m + 1 >= m
          BY <5>1
        <5> QED BY <5>1, <5>2 DEF m
      <4>4. IsFiniteSet(votes'[s])
        BY <4>1, <2>2
      <4> QED BY <3>1, <4>3, <4>4
    <3>2. CASE x # s
      <4>1. votes'[x] = votes[x]
        BY <3>2, <1>1
      <4> QED BY <4>1, <2>3
    <3> QED BY <3>1, <3>2
  <2> QED BY <2>4
<1>3. Typed'
  BY <1>1, <1>2, Spent DEF SubmitApproval, Inv, Typed, ReleaseTypeOK
<1>4. Globals' /\ Alone'
  BY <1>1 DEF Inv, Globals, OneEnding, ScopeFollowsState, EndedApproved, Reviewed, Settled,
             Alone, Owns, Ends
<1>5. ASSUME NEW t \in Threads PROVE Local(thread[t])'
  <2>1. PICK e : e = thread[t]
    OBVIOUS
  <2>2. Local(e) /\ e \in Doings
    BY <2>1 DEF Inv, Typed, ReleaseTypeOK
  <2>3. <<e.from, e.to>> \in Edges /\ Approved(e.from, e.to) => Approved(e.from, e.to)'
    <3> SUFFICES ASSUME <<e.from, e.to>> \in Edges, Approved(e.from, e.to)
                 PROVE  Approved(e.from, e.to)'
      OBVIOUS
    <3>1. e.from \in States /\ Required[<<e.from, e.to>>] \in Nat
      BY <2>2, WorkflowAssumption DEF Doings
    <3>2. /\ Cardinality(votes[e.from]) \in Nat /\ Cardinality(votes'[e.from]) \in Nat
          /\ Cardinality(votes'[e.from]) >= Cardinality(votes[e.from])
      BY <3>1, <1>2, FS_CardinalityType DEF Inv, Typed
    <3> QED BY <3>1, <3>2 DEF Approved
  <2>4. e.phase \in {"work", "merge", "commit"} => <<e.from, e.to>> \in Edges
    BY <2>2 DEF Local, Under
  <2>5. Local(e)'
    BY <2>2, <2>3, <2>4, <1>1 DEF Local, Reviewed, Settled
  <2> QED BY <1>1, <2>1, <2>5
<1> QED BY <1>3, <1>4, <1>5 DEF Inv

LEMMA AssertScopeOpenStep ==
  ASSUME Inv, NEW x \in Designs, AssertScopeOpen(x)
  PROVE  Inv'
<1>1. /\ order' \in Orders /\ Reviewed' = Reviewed
      /\ Settled' = Settled /\ order'.implemented = order.implemented
      /\ UNCHANGED <<instance, votes, thread, facts, history, left>>
  BY DEF AssertScopeOpen, Inv, Typed, ReleaseTypeOK, Orders, Reviewed, Settled
<1>2. Typed'
  BY <1>1 DEF Inv, Typed, ReleaseTypeOK
<1>3. Globals' /\ Alone'
  BY <1>1 DEF Inv, Globals, OneEnding, ScopeFollowsState, EndedApproved,
              Alone, Owns, Ends
<1>4. ASSUME NEW t \in Threads PROVE Local(thread[t])'
  <2>1. PICK e : e = thread[t]
    OBVIOUS
  <2>2. Local(e)
    BY <2>1 DEF Inv
  <2>3. Local(e)'
    <3> HIDE DEF Reviewed
    <3> QED BY <1>1, <2>2 DEF Local, Approved
  <2> QED BY <1>1, <2>1, <2>3
<1> QED BY <1>2, <1>3, <1>4 DEF Inv

LEMMA AddDesignStep ==
  ASSUME Inv, NEW x \in Designs, AddDesign(x)
  PROVE  Inv'
<1>1. /\ order' \in Orders /\ order'.scope = order.scope \union {x}
      /\ Settled' = Settled /\ order'.implemented = order.implemented
      /\ UNCHANGED <<instance, votes, thread, facts, left>>
  BY DEF AddDesign, Inv, Typed, ReleaseTypeOK, Orders, Settled
<1>2. /\ history' \in Histories /\ history'.overran = history.overran
      /\ history'.unapproved = history.unapproved
      /\ history'.late = IF ScopeRead THEN history.late \union {x} ELSE history.late
  BY DEF AddDesign, Inv, Typed, ReleaseTypeOK, Histories
<1>3. ScopeRead => (Reviewed' \subseteq Reviewed)
  BY <1>1, <1>2 DEF Reviewed
<1>4. Typed'
  BY <1>1, <1>2 DEF Inv, Typed, ReleaseTypeOK
<1>5. Globals' /\ Alone'
  BY <1>1, <1>2, <1>3 DEF Inv, Globals, OneEnding, ScopeFollowsState, EndedApproved,
                         Alone, Owns, Ends, ScopeRead
<1>6. ASSUME NEW t \in Threads PROVE Local(thread[t])'
  <2>1. PICK e : e = thread[t]
    OBVIOUS
  <2>2. Local(e)
    BY <2>1 DEF Inv
  <2>3. e.phase = "merge" => Reviewed' \subseteq Reviewed
    BY <2>1, <1>3 DEF ScopeRead
  <2>4. Local(e)'
    <3> HIDE DEF Reviewed
    <3> QED BY <1>1, <1>2, <2>2, <2>3 DEF Local, Approved
  <2> QED BY <1>1, <2>1, <2>4
<1> QED BY <1>4, <1>5, <1>6 DEF Inv

-----------------------------------------------------------------------------
(* The write of the new state *)

LEMMA StandingVotes ==
  ASSUME Typed, NEW from, NEW to, votes' = Standing(from, to)
  PROVE  votes' \in [States -> SUBSET Users] /\ \A s \in States : IsFiniteSet(votes'[s])
<1>1. CASE votes' = votes
  BY <1>1 DEF Typed, ReleaseTypeOK
<1>2. CASE votes' = [s \in States |-> IF s = to \/ s \in Reachable(to) THEN {} ELSE votes[s]]
  <2>1. ASSUME NEW s \in States
        PROVE  votes'[s] \in {{}, votes[s]}
    BY <1>2
  <2>2. \A s \in States : votes'[s] \in SUBSET Users /\ IsFiniteSet(votes'[s])
    BY <2>1, FS_EmptySet DEF Typed, ReleaseTypeOK
  <2>3. votes' \in [States -> SUBSET Users]
    <3>1. DOMAIN votes' = States /\ votes' = [s \in States |-> votes'[s]]
      BY <1>2
    <3> QED BY <3>1, <2>2
  <2> QED BY <2>2, <2>3
<1> QED BY <1>1, <1>2 DEF Standing

LEMMA Kinds ==
  ASSUME NEW s \in States
  PROVE  /\ Kind[s] \in {"open", "release", "cancel"}
         /\ Final(s) <=> Kind[s] \in {"release", "cancel"}
  BY WorkflowAssumption DEF Final

LEMMA WrittenStep ==
  ASSUME Inv, NEW t \in Threads, Commit(t), Unmoved(t)
  PROVE  Inv'
<1>1. PICK d : d = thread[t]
  OBVIOUS
<1>2. /\ d \in Doings /\ d.phase = "commit" /\ Local(d) /\ d.to \in States /\ d.from \in States
  BY <1>1 DEF Commit, Inv, Typed, ReleaseTypeOK, Doings
<1>3. /\ instance.state = d.from /\ (instance.claim = "live" => Final(d.to))
  BY <1>1 DEF Unmoved
<1>4. /\ instance' = [state |-> d.to, completed |-> instance.completed \/ Final(d.to),
                      claim |-> IF Final(d.to) THEN "none" ELSE instance.claim,
                      scopeLocked |-> ScopeLock(t)]
      /\ votes' = Standing(d.from, d.to)
      /\ facts' = IF Final(d.to) THEN [facts EXCEPT ![Kind[d.to]] = @ + 1] ELSE facts
      /\ history' = [history EXCEPT !.unapproved =
                        @ \/ (Final(d.to) /\ ~Approved(d.from, d.to))]
      /\ Moves(t, Idle)
      /\ UNCHANGED <<order, left>>
  BY <1>1 DEF Commit
<1>5. <<d.from, d.to>> \in Edges /\ Kind[d.from] = "open"
  <2>1. <<d.from, d.to>> \in Edges
    BY <1>2 DEF Local, Under
  <2>2. \A e \in Edges : Kind[e[1]] = "open"
    BY WorkflowAssumption
  <2>3. Kind[<<d.from, d.to>>[1]] = "open"
    BY <2>1, <2>2
  <2> QED BY <2>1, <2>3
<1>6. ~instance.completed /\ facts["release"] = 0 /\ facts["cancel"] = 0
  BY <1>3, <1>5 DEF Inv, Globals, OneEnding, Final
<1>7. ScopeLock(t) \in BOOLEAN
      /\ (NoLoop => (ScopeLock(t) <=> d.to # Initial))
  <2>1. instance.scopeLocked \in BOOLEAN /\ d.locked \in BOOLEAN
    BY <1>2 DEF Inv, Typed, ReleaseTypeOK, Instances, Doings
  <2>2. ScopeLock(t) = IF d.from = Initial /\ ~d.locked THEN TRUE
                       ELSE IF d.to = Initial /\ d.locked THEN FALSE
                       ELSE instance.scopeLocked
    <3>1. CASE d.from = Initial /\ ~d.locked
      BY <1>1, <3>1 DEF ScopeLock
    <3>2. CASE d.to = Initial /\ d.locked
      BY <1>1, <3>2 DEF ScopeLock
    <3>3. CASE ~(d.from = Initial /\ ~d.locked) /\ ~(d.to = Initial /\ d.locked)
      BY <1>1, <3>3 DEF ScopeLock
    <3> QED BY <3>1, <3>2, <3>3
  <2>3. NoLoop => /\ (d.locked <=> d.from # Initial)
                  /\ (instance.scopeLocked <=> d.from # Initial)
                  /\ ~(d.from = Initial /\ d.to = Initial)
    BY <1>2, <1>3, <1>5 DEF Inv, Globals, ScopeFollowsState, Local, Under, NoLoop
  <2> QED BY <2>1, <2>2, <2>3
<1>8. /\ instance' \in Instances /\ instance'.state = d.to
      /\ (instance'.completed <=> Final(d.to)) /\ instance'.scopeLocked = ScopeLock(t)
      /\ instance'.claim = IF Final(d.to) THEN "none" ELSE instance.claim
  <2>1. instance.claim \in {"none", "live", "stale"}
    BY DEF Inv, Typed, ReleaseTypeOK, Instances
  <2>2. PICK lock \in BOOLEAN : lock = ScopeLock(t)
    BY <1>7
  <2>3. PICK ended \in BOOLEAN : ended = Final(d.to)
    BY DEF Final
  <2>4. instance' = [state |-> d.to, completed |-> ended,
                     claim |-> IF ended THEN "none" ELSE instance.claim, scopeLocked |-> lock]
    BY <1>4, <1>6, <2>2, <2>3
  <2> QED BY <1>2, <2>1, <2>2, <2>3, <2>4 DEF Instances
<1>9. /\ facts' \in [{"release", "cancel"} -> Nat]
      /\ \A kind \in {"release", "cancel"} : facts'[kind] = IF Kind[d.to] = kind THEN 1 ELSE 0
  <2>1. facts \in [{"release", "cancel"} -> Nat]
    BY DEF Inv, Typed, ReleaseTypeOK
  <2>2. CASE Final(d.to)
    <3>1. Kind[d.to] \in {"release", "cancel"} /\ facts' = [facts EXCEPT ![Kind[d.to]] = @ + 1]
      BY <1>2, <1>4, <2>2, Kinds
    <3>2. CASE Kind[d.to] = "release"
      BY <2>1, <3>1, <3>2, <1>6
    <3>3. CASE Kind[d.to] = "cancel"
      BY <2>1, <3>1, <3>3, <1>6
    <3> QED BY <3>1, <3>2, <3>3
  <2>3. CASE ~Final(d.to)
    BY <2>1, <2>3, <1>4, <1>6 DEF Final
  <2> QED BY <2>2, <2>3
<1>10. /\ history' \in Histories /\ history'.overran = history.overran
       /\ history'.late = history.late
       /\ history'.unapproved => history.unapproved \/ (Final(d.to) /\ ~Approved(d.from, d.to))
  <2>1. PICK b \in BOOLEAN : b = (history.unapproved
                                  \/ (Final(d.to) /\ ~Approved(d.from, d.to)))
    OBVIOUS
  <2>2. history' = [history EXCEPT !.unapproved = b]
    BY <1>4, <2>1
  <2> QED BY <2>1, <2>2 DEF Inv, Typed, ReleaseTypeOK, Histories
<1>11. ~history.overran => /\ Final(d.to) => Approved(d.from, d.to)
                          /\ \A u \in Threads \ {t} : ~Owns(thread[u])
  <2> SUFFICES ASSUME ~history.overran
               PROVE  /\ Final(d.to) => Approved(d.from, d.to)
                      /\ \A u \in Threads \ {t} : ~Owns(thread[u])
    OBVIOUS
  <2>1. Final(d.to) => Approved(d.from, d.to)
    BY <1>2 DEF Local
  <2>2. CASE Final(d.to)
    <3>1. Owns(thread[t])
      BY <1>1, <1>2, <2>2 DEF Owns, Ends
    <3> QED BY <2>1, <3>1 DEF Inv, Alone
  <2>3. CASE ~Final(d.to)
    <3>1. instance.claim # "live"
      BY <1>3, <2>3
    <3> QED BY <2>1, <3>1 DEF Inv, Local
  <2> QED BY <2>2, <2>3
<1>12. /\ thread' \in [Threads -> Doings]
       /\ \A u \in Threads : thread'[u] = IF u = t THEN Idle ELSE thread[u]
  BY <1>4, Moved, IdleFields DEF Inv
<1>13. Typed'
  <2>1. instance'.completed => instance'.claim = "none"
    BY <1>8
  <2>2. votes' \in [States -> SUBSET Users] /\ \A s \in States : IsFiniteSet(votes'[s])
    BY <1>4, StandingVotes DEF Inv
  <2> QED BY <2>1, <2>2, <1>4, <1>8, <1>9, <1>10, <1>12 DEF Inv, Typed, ReleaseTypeOK
<1>14. Globals'
  <2>1. OneEnding'
    BY <1>8, <1>9 DEF OneEnding
  <2>2. (NoLoop => ScopeFollowsState)'
    BY <1>7, <1>8 DEF ScopeFollowsState, NoLoop
  <2>3. EndedApproved'
    BY <1>10, <1>11 DEF Inv, Globals, EndedApproved
  <2>4. (order.implemented => Reviewed \subseteq Settled)'
    BY <1>4, <1>10 DEF Inv, Globals, Reviewed, Settled
  <2>5. (Kind[instance.state] = "release" => order.implemented)'
    BY <1>2, <1>4, <1>8 DEF Local
  <2> QED BY <2>1, <2>2, <2>3, <2>4, <2>5 DEF Globals
<1>15. ASSUME NEW u \in Threads
       PROVE  Local(thread[u])' /\ (~history.overran => ~Owns(thread[u])')
  <2>1. PICK e : e = thread'[u]
    OBVIOUS
  <2>2. Local(e) /\ (~history.overran => ~Owns(e))
    BY <1>11, <1>12, <2>1, IdleFields, IdleLocal DEF Inv
  <2>3. ~history.overran => ~Owns(e) /\ ~Ends(e)
    BY <2>2 DEF Owns
  <2>4. ~history.overran => ~(Final(e.to) /\ e.phase \in {"work", "merge", "commit"})
    BY <2>3 DEF Ends
  <2>5. Local(e)'
    BY <2>2, <2>3, <2>4, <1>4, <1>10 DEF Local, Reviewed, Settled
  <2>6. ~history.overran => ~Owns(e)'
    BY <2>2 DEF Owns, Ends
  <2> QED BY <2>1, <2>5, <2>6
<1>16. Alone'
  BY <1>10, <1>15 DEF Alone
<1> QED BY <1>13, <1>14, <1>15, <1>16 DEF Inv

LEMMA CommitStep ==
  ASSUME Inv, NEW t \in Threads, Commit(t)
  PROVE  Inv'
<1>1. CASE Unmoved(t)
  BY <1>1, WrittenStep
<1>2. CASE ~Unmoved(t)
  BY <1>2, GiveUpStep DEF Commit
<1> QED BY <1>1, <1>2

-----------------------------------------------------------------------------
(* The inductive invariant *)

LEMMA InitHolds == ReleaseInit => Inv
<1> SUFFICES ASSUME ReleaseInit PROVE Inv
  OBVIOUS
<1>1. PICK x \in Designs : order = [scope |-> {x}, adding |-> {}, merged |-> {}, skipped |-> {},
                                    implemented |-> FALSE, cancelled |-> FALSE]
  BY DEF ReleaseInit
<1>2. /\ instance = [state |-> Initial, completed |-> FALSE, claim |-> "none",
                     scopeLocked |-> FALSE]
      /\ votes = [s \in States |-> {}] /\ thread = [t \in Threads |-> Idle]
      /\ facts = [release |-> 0, cancel |-> 0]
      /\ history = [overran |-> FALSE, unapproved |-> FALSE, late |-> {}, slipped |-> {}]
      /\ left = [requests |-> MaxRequests, votes |-> MaxVotes, faults |-> MaxFaults]
  BY DEF ReleaseInit
<1>3. Initial \in States /\ Kind[Initial] = "open"
  BY WorkflowAssumption
<1>4. instance \in Instances /\ order \in Orders /\ history \in Histories
  BY <1>1, <1>2, <1>3 DEF Instances, Orders, Histories
<1>5. facts \in [{"release", "cancel"} -> Nat] /\ facts["release"] = 0 /\ facts["cancel"] = 0
  BY <1>2
<1>6. left \in [{"requests", "votes", "faults"} -> Nat]
  BY <1>2, BoundsAssumption
<1>7. votes \in [States -> SUBSET Users] /\ \A s \in States : IsFiniteSet(votes[s])
  BY <1>2, FS_EmptySet
<1>8. Typed
  BY <1>2, <1>4, <1>5, <1>6, <1>7, IdleFields DEF Typed, ReleaseTypeOK
<1>9. Globals
  BY <1>1, <1>2, <1>3, <1>5 DEF Globals, OneEnding, ScopeFollowsState, EndedApproved, Final
<1>10. \A t \in Threads : Local(thread[t]) /\ ~Owns(thread[t])
  BY <1>2, IdleFields, IdleLocal
<1> QED BY <1>8, <1>9, <1>10 DEF Inv, Alone

LEMMA StepKeeps ==
  ASSUME Inv, NEW t \in Threads, Step(t)
  PROVE  Inv'
<1>1. ASSUME NEW s \in States, Request(t, s) PROVE Inv'
  BY <1>1, RequestStep
<1>2. CASE ClaimRelease(t)
  BY <1>2, ClaimReleaseStep
<1>3. CASE Read(t)
  BY <1>3, ReadStep
<1>4. CASE CheckApprovals(t)
  BY <1>4, CheckApprovalsStep
<1>5. CASE Close(t)
  BY <1>5, CloseStep
<1>6. ASSUME NEW x \in Designs, MergeDesign(t, x) \/ SkipDesign(t, x) PROVE Inv'
  BY <1>6, MergeDesignStep
<1>7. CASE MarkImplemented(t)
  BY <1>7, MarkImplementedStep
<1>8. CASE Cancel(t)
  BY <1>8, CancelStep
<1>9. CASE Commit(t)
  BY <1>9, CommitStep
<1>10. CASE ReleaseClaim(t)
  BY <1>10, ReleaseClaimStep
<1>11. CASE Fail(t) \/ Crash(t)
  BY <1>11, FaultStep
<1> QED BY <1>1, <1>2, <1>3, <1>4, <1>5, <1>6, <1>7, <1>8, <1>9, <1>10, <1>11 DEF Step

LEMMA InvHolds == ReleaseSpec => []Inv
<1>1. Inv /\ [ReleaseNext]_releaseVars => Inv'
  <2> SUFFICES ASSUME Inv, [ReleaseNext]_releaseVars PROVE Inv'
    OBVIOUS
  <2>1. ASSUME NEW t \in Threads, Step(t) PROVE Inv'
    BY <2>1, StepKeeps
  <2>2. ASSUME NEW u \in Users, NEW s \in States, SubmitApproval(u, s) PROVE Inv'
    BY <2>2, SubmitApprovalStep
  <2>3. ASSUME NEW x \in Designs, AssertScopeOpen(x) \/ AddDesign(x) PROVE Inv'
    BY <2>3, AssertScopeOpenStep, AddDesignStep
  <2>4. CASE GrowStale
    BY <2>4, GrowStaleStep
  <2>5. CASE UNCHANGED releaseVars
    <3>1. UNCHANGED <<instance, votes, order, thread, facts, history, left>>
      BY <2>5 DEF releaseVars
    <3>2. Typed' /\ Globals' /\ Alone'
      BY <3>1 DEF Inv, Typed, ReleaseTypeOK, Globals, OneEnding, ScopeFollowsState,
                 EndedApproved, Reviewed, Settled, Alone
    <3>3. ASSUME NEW t \in Threads PROVE Local(thread[t])'
      BY <3>1 DEF Inv, Local, Reviewed, Settled, Approved
    <3> QED BY <3>2, <3>3 DEF Inv
  <2> QED BY <2>1, <2>2, <2>3, <2>4, <2>5 DEF ReleaseNext
<1> QED BY <1>1, InitHolds, PTL DEF ReleaseSpec

-----------------------------------------------------------------------------
(* The theorems *)

(* The types, and no claim on a workflow that has completed. *)
THEOREM ReleaseTyping == ReleaseSpec => []ReleaseTypeOK
<1>1. Inv => ReleaseTypeOK
  BY DEF Inv, Typed
<1> QED BY <1>1, InvHolds, PTL

(* While no request outlives its claim, one release or cancellation is under
   way at a time and the workflow does not move under it. *)
THEOREM ReleasesAreExclusive == ReleaseSpec => []ReleaseIsExclusive
<1>1. Inv => ReleaseIsExclusive
  <2> SUFFICES ASSUME Inv, ~history.overran, NEW t \in Threads, Ending(t)
               PROVE  /\ \A u \in Threads \ {t} : ~Ending(u)
                      /\ instance.state = thread[t].from /\ ~instance.completed
    BY DEF ReleaseIsExclusive
  <2>1. Ends(thread[t]) /\ Owns(thread[t])
    BY DEF Ending, Ends, Owns
  <2>2. ASSUME NEW u \in Threads \ {t} PROVE ~Ending(u)
    BY <2>1 DEF Inv, Alone, Ending, Ends, Owns
  <2>3. instance.state = thread[t].from /\ ~instance.completed
    BY <2>1 DEF Inv, Local
  <2> QED BY <2>2, <2>3
<1> QED BY <1>1, InvHolds, PTL

(* The workflow ends once, and the event log says so once: even past an
   outlived claim, for the state write is a compare-and-swap. *)
THEOREM WorkflowEndsOnce == ReleaseSpec => []OneEnding
<1>1. Inv => OneEnding
  BY DEF Inv, Globals
<1> QED BY <1>1, InvHolds, PTL

(* The scope is open exactly in the initial state, when no edge leads from the
   initial state to itself: such an edge would lock it there. *)
THEOREM ScopeIsOpenInDraft ==
  ASSUME <<Initial, Initial>> \notin Edges
  PROVE  ReleaseSpec => []ScopeFollowsState
<1>1. Inv => ScopeFollowsState
  BY DEF Inv, Globals, NoLoop
<1> QED BY <1>1, InvHolds, PTL

(* No ending is written on approvals that rework has superseded, while no
   request outlives its claim. *)
THEOREM EndingsAreApproved == ReleaseSpec => []EndedApproved
<1>1. Inv => EndedApproved
  BY DEF Inv, Globals
<1> QED BY <1>1, InvHolds, PTL

(* A released workflow's designs are merged, or were found without changes, those
   it read the scope too early to see apart. *)
THEOREM ReleasedMeansMerged == ReleaseSpec => []ReleasedIsMerged
<1>1. Inv => ReleasedIsMerged
  BY DEF Inv, Globals, ReleasedIsMerged, Reviewed
<1> QED BY <1>1, InvHolds, PTL
=============================================================================
