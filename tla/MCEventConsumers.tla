-------------------------- MODULE MCEventConsumers --------------------------
(* Three events; a wildcard consumer and one that wants two of the three
   types; two pollers.  The bounds come from the cfg. *)
EXTENDS EventConsumers, TLC

CONSTANTS e1, e2, e3, p1, p2, all, some,
          Faults, Admin

MCEvents == {e1, e2, e3}
TwoEvents == {e1, e2}
MCProcs == {p1, p2}
OneProc == {p1}
OnlyAll == {all}
OnlySome == {some}
WantsOf == [c \in Consumers |-> IF c = all THEN Events ELSE {e1, e3} \intersect Events]
NoConsumers == {}
Both == {all, some}
Budget(faults, admin, giveUps, prunes) ==
  [faults |-> faults, admin |-> admin, giveUps |-> giveUps, prunes |-> prunes]
(* Transient failures and crashes, or an administrator. *)
RunBounds == {Budget(Faults, 0, 0, 0), Budget(0, Admin, 0, 0)}
(* An administrator, a give-up and two prunes. *)
RetentionBounds == {Budget(0, 2, 1, 2)}

(* A skip gives up one event, the one whose handler failed: no more events are
   passed over by skipPoisonEvent than the administrator has acted. *)
SkipsLoseOneEach ==
  \A c \in Consumers : Cardinality(hist[c].skipped) <= Admin - left["admin"]
=============================================================================
