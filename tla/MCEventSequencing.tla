-------------------------- MODULE MCEventSequencing --------------------------
(* Three publishing transactions and two processes booting concurrently, over
   a database with or without the trigger. *)
EXTENDS EventSequencing

CONSTANTS e1, e2, e3, p1, p2

MCEvents == {e1, e2, e3}
MCProcs == {p1, p2}
=============================================================================
