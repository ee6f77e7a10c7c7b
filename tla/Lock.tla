-------------------------------- MODULE Lock --------------------------------
(***************************************************************************)
(* What a mutex promises its callers: at most one of them holds it, and it *)
(* is not left free for ever while somebody waits for it.  Nothing is      *)
(* promised about who gets it next.                                        *)
(***************************************************************************)
CONSTANT Thread

VARIABLES waiting,  \* the threads that wait for the lock
          holders   \* the threads that hold it

lockVars == <<waiting, holders>>

Init == waiting = {} /\ holders = {}

Request(t) == /\ t \notin waiting \union holders
              /\ waiting' = waiting \union {t}
              /\ UNCHANGED holders

Acquire(t) == /\ holders = {}
              /\ holders' = {t}
              /\ waiting' = waiting \ {t}

Release(t) == /\ holders = {t}
              /\ holders' = {}
              /\ UNCHANGED waiting

Next == \E t \in Thread : Request(t) \/ Acquire(t) \/ Release(t)

Spec == /\ Init /\ [][Next]_lockVars
        /\ WF_lockVars(\E t \in waiting : Acquire(t))
=============================================================================
