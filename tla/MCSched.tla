------------------------------ MODULE MCSched ------------------------------
(* Sched for TLC: the booting thread, idle and threads to create.           *)
EXTENDS Sched

CONSTANTS boot, idle, t1, t2, q1
ThreadsTwo   == {boot, idle, t1}
ThreadsThree == {boot, idle, t1, t2}
Symmetry     == Permutations({t1, t2})
=============================================================================
