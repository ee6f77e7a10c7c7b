------------------------------- MODULE Buddy -------------------------------
(***************************************************************************)
(* The bitmap of the buddy allocator (kernel/bdy.c) as the set of its set  *)
(* bits, <<level, position>>: one stands for Span[level] pages.            *)
(***************************************************************************)
EXTENDS Integers, FiniteSets, FiniteSetsExt, Sequences, SequencesExt

CONSTANTS BDY_NLEVELS,
          NPages        \* n, the bits of level 0

ASSUME BdyConstants ==
    /\ BDY_NLEVELS \in Nat \ {0}
    /\ NPages \in Nat \ {0}

Level == 0 .. BDY_NLEVELS - 1
\* The pages of a bit of a level: 1 << level.
Span[level \in Level] == IF level = 0 THEN 1 ELSE 2 * Span[level - 1]
\* bdy_init(): half of the level below, rounded up.
nbits[level \in Level] == IF level = 0 THEN NPages ELSE (nbits[level - 1] + 1) \div 2

\* The ancestor of bit pos of a level, or itself, at level i.
Ancestor(level, pos, i) == <<i, pos \div Span[i - level]>>
\* Its descendants that exist.
Descendants(level, pos) ==
    UNION {{<<i, j>> : j \in {k \in pos * Span[level - i] .. (pos + 1) * Span[level - i] - 1 :
                                 k < nbits[i]}} : i \in 0 .. level - 1}

bdy_clear(map, level) == {pos \in 0 .. nbits[level] - 1 : <<level, pos>> \notin map}

\* bdy_alloc() of the first clear bit of the level.
bdy_pos(map, level) == Min(bdy_clear(map, level))
bdy_alloc(map, level) ==
    LET pos == bdy_pos(map, level)
    IN  map \union {Ancestor(level, pos, i) : i \in level .. BDY_NLEVELS - 1}
            \union Descendants(level, pos)

\* Mutant: the sibling is not looked at.
AnySibling(map, b) == FALSE
\* The sibling exists and is set: its half of the parent is in use.
SiblingSet(map, b) ==
    LET s == IF b[2] % 2 = 1 THEN b[2] - 1 ELSE b[2] + 1
    IN  s < nbits[b[1]] /\ <<b[1], s>> \in map

\* bdy_free(): clears ancestors up to the first with a sibling that is set.
bdy_free(map, level, pos) ==
    map \ (Descendants(level, pos) \union
           {Ancestor(level, pos, i) : i \in
               {k \in level .. BDY_NLEVELS - 1 :
                   \A h \in level .. k - 1 : ~SiblingSet(map, Ancestor(level, pos, h))}})
=============================================================================
