---------------------------- MODULE MCIrqLevels ----------------------------
(* IrqLevels for TLC: the booting thread and those it has created, the soft *)
(* IRQ of the timer, one device's sched IRQ and IRQ_SCHED_SCHEDULE.         *)
EXTENDS IrqLevels

CONSTANTS boot, t1, t2
ThreadsMC == {boot, t1, t2}
SymmetryMC == Permutations({t1, t2})
=============================================================================
