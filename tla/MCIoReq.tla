------------------------------ MODULE MCIoReq ------------------------------
(* IoReq for TLC: the booting thread, idle and one thread to create.         *)
EXTENDS IoReq

CONSTANTS boot, idle, t1
ThreadsTwo == {boot, idle, t1}
=============================================================================
