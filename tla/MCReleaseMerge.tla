--------------------------- MODULE MCReleaseMerge ---------------------------
(* Two change orders on two items: of two designs, or of one. *)
EXTENDS ReleaseMerge, TLC

CONSTANTS o1, o2, d1, d2, i1, i2, c1, c2, t1, t2

MCOrders == {o1, o2}
OneOrder == {o1}
MCDesigns == {d1, d2}
MCItems == {i1, i2}
TwoDesigns == i1 :> d1 @@ i2 :> d2
OneDesign == i1 :> d1 @@ i2 :> d1
MCContents == {c1, c2}
MCThreads == {t1, t2}
OneThread == {t1}
OneItem == {i1}
Symmetric == Permutations(MCContents) \union Permutations(MCThreads)
=============================================================================
