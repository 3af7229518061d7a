--------------------------- MODULE MCChangeRelease ---------------------------
(* The change-order workflow as shipped, with one approval asked of a release,
   two designs and requests of two threads. *)
EXTENDS ChangeRelease, TLC

CONSTANTS draft, inReview, approved, cancelled, u1, d1, d2, t1, t2

MCStates == {draft, inReview, approved, cancelled}
MCEdges == {<<draft, inReview>>, <<inReview, approved>>, <<inReview, draft>>,
            <<inReview, cancelled>>, <<draft, cancelled>>}
MCKind == draft :> "open" @@ inReview :> "open" @@ approved :> "release" @@
          cancelled :> "cancel"
MCRequired == [e \in MCEdges |-> IF e[2] = approved THEN 1 ELSE 0]
MCUsers == {u1}
MCDesigns == {d1, d2}
MCThreads == {t1, t2}
Symmetric == Permutations(MCDesigns) \union Permutations(MCThreads)
=============================================================================
