--------------------------- MODULE MCBranchItems ---------------------------
(* Two users; a released item, and one that is new to the branch; one or
   two requests in flight.  The bounds and the mix of requests come from
   the cfg. *)
EXTENDS BranchItems, TLC

CONSTANTS u1, u2, part, draft, r1, r2

TwoUsers == {u1, u2}
OnlyPart == {part}
BothItems == {part, draft}
TwoRequests == {r1, r2}
Symmetry == Permutations(Users) \union Permutations(Requests)
=============================================================================
