------------------------------- MODULE MCSlub -------------------------------
(* Slub for TLC: sizes of 8 and 16 bytes, and the page tables.             *)
EXTENDS Slub

CONSTANTS t1, t2
TwoThreads == {t1, t2}
Symmetry == Permutations(TwoThreads)
Few == (0 :> 2) @@ (1 :> 10) @@ (2 :> 3)
=============================================================================
