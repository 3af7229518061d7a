----------------------------- MODULE ItemLocks -----------------------------
(* What a checkout promises: an exclusive lock on an item.  It is taken by a
   user while nobody holds it, and given up before another user has it; a
   step may release many (an archive does), and never hands one over. *)
CONSTANTS Items, Users, Nobody

VARIABLE holder

Init == holder = [m \in Items |-> Nobody]

Take(m, u) == /\ holder[m] = Nobody
              /\ holder' = [holder EXCEPT ![m] = u]

Release(S) == holder' = [m \in Items |-> IF m \in S THEN Nobody ELSE holder[m]]

Next == \/ \E m \in Items, u \in Users : Take(m, u)
        \/ \E S \in SUBSET Items : Release(S)

Spec == Init /\ [][Next]_holder
=============================================================================
