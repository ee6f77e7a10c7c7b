------------------------------ MODULE MCMutex ------------------------------
(* Mutex for TLC: the booting thread, idle and threads to create compete.   *)
EXTENDS Mutex

CONSTANTS boot, idle, t1, t2
ThreadsTwo   == {boot, idle, t1}
ThreadsThree == {boot, idle, t1, t2}
Symmetry     == Permutations({t1, t2})
=============================================================================
