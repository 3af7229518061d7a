----------------------------- MODULE AppendLog -----------------------------
(***************************************************************************)
(* What the event log promises a reader that scans "seq > cursor": a set   *)
(* of positioned events that only ever grows at its end.  events/index.ts  *)
(* and the comment on DOMAIN_EVENT_SEQUENCING_SQL state it: "for any two   *)
(* committed events, seq order is commit order".                           *)
(***************************************************************************)
EXTENDS Naturals

VARIABLE log    \* the pairs <<event, position>> a reader can see

Init == log = {}

(* Several entries may appear at once, all of them above every old one, no
   event twice and no two events at one position. *)
Append == /\ log \subseteq log'
          /\ \A x \in log, y \in log' \ log : x[2] < y[2]
          /\ \A x, y \in log' : x[1] = y[1] \/ x[2] = y[2] => x = y

Spec == Init /\ [][Append]_log
=============================================================================
