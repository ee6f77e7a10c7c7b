------------------------------ MODULE MCSleep ------------------------------
(* Sleep for TLC: a wheel of three slots, two threads that sleep.            *)
EXTENDS Sleep

CONSTANTS boot, idle, t1
ThreadsTwo == {boot, idle, t1}
=============================================================================
