----------------------------- MODULE MCFileVault -----------------------------
(* Three users, one of them an administrator; requests in two slots. *)
EXTENDS FileVault, TLC

CONSTANTS u1, u2, admin, q1, q2

MCUsers == {u1, u2, admin}
MCAdmins == {admin}
MCRequests == {q1, q2}
Symmetric == Permutations(Requests) \union Permutations(Users \ Admins)
=============================================================================
