------------------------------ MODULE Blocks ------------------------------
(***************************************************************************)
(* What the page allocator promises: naturally aligned blocks of Span[unit] *)
(* pages, several in a call or none, never one that overlaps another, and  *)
(* a failure only when there are fewer free blocks than asked for.         *)
(***************************************************************************)
EXTENDS Integers, FiniteSets

CONSTANTS NPages,       \* the pages of RAM
          Span,         \* the sizes of blocks: unit -> pages
          Use,          \* what blocks are used for
          Reserved      \* the blocks that the kernel keeps

VARIABLES out,          \* the blocks handed out, each with its use
          asked         \* the unit and number that the last call wanted to
                        \* allocate, or <<>>

Unit     == DOMAIN Span
Block    == {b \in Unit \X (0 .. NPages - 1) : (b[2] + 1) * Span[b[1]] <= NPages}
Pages(b) == b[2] * Span[b[1]] .. (b[2] + 1) * Span[b[1]] - 1

Taken      == {o[1] : o \in out} \union Reserved
Free(unit) == {b \in Block : /\ b[1] = unit
                             /\ \A c \in Taken : Pages(b) \cap Pages(c) = {}}

Init == out = {} /\ asked = <<>>

\* As many free blocks of a unit are handed out as were asked for, ...
Alloc(unit, use, n) ==
    /\ asked' = <<unit, n>>
    /\ LET new == {o[1] : o \in out' \ out}
       IN  /\ Cardinality(new) = n /\ new \subseteq Free(unit)
           /\ out' = out \union (new \X {use})

\* ... there are not as many, ...
Fail(unit, n) ==
    /\ asked' = <<unit, n>>
    /\ Cardinality(Free(unit)) < n
    /\ UNCHANGED out

\* ... or some are given back.
Return == asked' = <<>> /\ out' \subseteq out

Next == \/ \E unit \in Unit, n \in 1 .. NPages :
               Fail(unit, n) \/ \E use \in Use : Alloc(unit, use, n)
        \/ Return

Spec == Init /\ [][Next]_<<out, asked>>
=============================================================================
