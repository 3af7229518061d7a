----------------------------- MODULE MCJobQueue -----------------------------
(* Two rows of one dedupe key and two threads. *)
EXTENDS JobQueue

CONSTANTS j1, j2, t1, t2

MCJobs == {j1, j2}
MCThreads == {t1, t2}
=============================================================================
