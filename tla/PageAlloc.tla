----------------------------- MODULE PageAlloc -----------------------------
(***************************************************************************)
(* The allocator of physical pages (kernel/pm.c): the buddy bitmap and     *)
(* ram_map, an entry for every page.  A call holds ram_map_lock from end   *)
(* to end, so each is one step.                                            *)
(***************************************************************************)
EXTENDS Buddy

CONSTANTS ReservedUnit, ReservedN,  \* what pm_init() takes: 4 units of 2MB
          MapUnit,                  \* and the section of ram_map
          KernelPages,              \* the pages of the kernel's own sections
          MaxN                      \* bound: the blocks of a call, of which
                                    \* no more than there are pages can be had

Unit == Level
Use  == {"NORMAL", "SLUB"}

ASSUME RamConstants ==
    /\ ReservedUnit \in Unit /\ MapUnit \in Unit
    /\ ReservedN \in Nat \ {0} /\ MaxN \in 1 .. NPages
    \* RAM is cut to 128MB, a multiple of the largest unit; a bit of a last
    \* unit that is not whole would stand for pages that do not exist.
    /\ NPages % Span[BDY_NLEVELS - 1] = 0
    /\ KernelPages \subseteq 0 .. ReservedN * Span[ReservedUnit] - 1

VARIABLES
    map,        \* bdy_ram
    ram_map,    \* page -> its unit, use and u0
    out,        \* history: the blocks that callers hold, each with its use
    asked       \* history: what the last call wanted to allocate, or <<>>

vars == <<map, ram_map, out, asked>>

Pages(b) == b[2] * Span[b[1]] .. (b[2] + 1) * Span[b[1]] - 1

\* bdy_alloc(), n times at most: the bitmap and the positions got.
AllocUpTo(m, unit, n) ==
    LET OneMore(g) == IF bdy_clear(g.map, unit) = {} THEN g
                      ELSE [map |-> bdy_alloc(g.map, unit),
                            pa  |-> Append(g.pa, bdy_pos(g.map, unit))]
        got[i \in 0 .. n] == IF i = 0 THEN [map |-> m, pa |-> <<>>] ELSE OneMore(got[i - 1])
    IN  got[n]

\* bdy_free() of every position of pa.
FreeAll(m, unit, pa) ==
    LET bits[i \in 0 .. Len(pa)] == IF i = 0 THEN m ELSE bdy_free(bits[i - 1], unit, pa[i])
    IN  bits[Len(pa)]

\* Mutant: the first block is forgotten.
RollbackButFirst(m, unit, pa) == IF pa = <<>> THEN m ELSE FreeAll(m, unit, Tail(pa))
\* The way out of _pm_ram_alloc() when the n-th block is not to be had.
Rollback(m, unit, pa) == FreeAll(m, unit, Reverse(pa))

Reserved1 == AllocUpTo({}, ReservedUnit, ReservedN)
Reserved2 == AllocUpTo(Reserved1.map, MapUnit, 1)
Reserved  == ({ReservedUnit} \X ToSet(Reserved1.pa)) \union ({MapUnit} \X ToSet(Reserved2.pa))

\* pm_init(): the reserved blocks, and the entries of the kernel's pages and
\* of ram_map's own.
Init ==
    /\ map = Reserved2.map
    /\ ram_map = [p \in 0 .. NPages - 1 |->
                     IF p \in Pages(<<MapUnit, Reserved2.pa[1]>>)
                     THEN [unit |-> MapUnit, use |-> "NORMAL", u0 |-> "1"]
                     ELSE [unit |-> 0, use |-> "NORMAL",
                           u0 |-> IF p \in KernelPages THEN "1" ELSE "0"]]
    /\ out = {} /\ asked = <<>>

\* Mutant: the entries keep what the last owner left in them.
OldEntry(e, unit, use) == [e EXCEPT !.use = use]
\* The entry of a page handed out, zeroed first.
NewEntry(e, unit, use) ==
    [unit |-> unit, use |-> use, u0 |-> IF use = "NORMAL" THEN "1" ELSE "0"]

pm_ram_alloc(unit, use, n) ==
    LET got == AllocUpTo(map, unit, n)
        new == {unit} \X ToSet(got.pa)
    IN  /\ asked' = <<unit, n>>
        /\ IF Len(got.pa) = n
           THEN /\ map' = got.map
                /\ ram_map' = [p \in DOMAIN ram_map |->
                                  IF \E b \in new : p \in Pages(b)
                                  THEN NewEntry(ram_map[p], unit, use) ELSE ram_map[p]]
                /\ out' = out \union (new \X {use})
           ELSE /\ map' = Rollback(got.map, unit, got.pa)
                /\ UNCHANGED <<ram_map, out>>

\* The owner of a slab page keeps a pointer to the slab in its entry.
SetVa(p) ==
    /\ <<<<0, p>>, "SLUB">> \in out
    /\ ram_map' = [ram_map EXCEPT ![p].u0 = "va"]
    /\ UNCHANGED <<map, out, asked>>

\* The positions of the blocks that callers hold ...
Held(unit, use) == {pos \in 0 .. NPages - 1 : <<<<unit, pos>>, use>> \in out}
\* ... of which one gives back pa.
pm_ram_free(unit, use, pa) ==
    LET old == {unit} \X ToSet(pa)
    IN  /\ map' = FreeAll(map, unit, pa)
        /\ ram_map' = [p \in DOMAIN ram_map |->
                          IF \E b \in old : p \in Pages(b)
                          THEN [ram_map[p] EXCEPT !.u0 = "0"] ELSE ram_map[p]]
        /\ out' = out \ (old \X {use})
        /\ asked' = <<>>

Next ==
    \/ \E unit \in Unit, use \in Use, n \in 1 .. MaxN : pm_ram_alloc(unit, use, n)
    \/ \E unit \in Unit, use \in Use :
           \E pa \in UNION {TupleOf(Held(unit, use), n) : n \in 1 .. MaxN} :
               IsInjective(pa) /\ pm_ram_free(unit, use, pa)
    \/ \E p \in DOMAIN ram_map : SetVa(p)

Spec == Init /\ [][Next]_vars

-----------------------------------------------------------------------------
(* Properties                                                              *)

InUse == UNION {Pages(b) : b \in {o[1] : o \in out} \union Reserved}

\* A bit is set exactly while one of its pages is in use: no page is given
\* out twice, and the halves of a block that are free again are one block
\* again, whatever the order of allocations, frees and failed calls.
BitsExact ==
    map = {b \in Level \X (0 .. NPages - 1) :
              b[2] < nbits[b[1]] /\ Pages(b) \cap InUse # {}}

\* What pm_ram_free() asserts of the blocks it is given (pm.c:223-229) holds of
\* every block that a caller may give it.
EntriesMatch ==
    \A o \in out : \A p \in Pages(o[1]) :
        /\ ram_map[p].unit = o[1][1] /\ ram_map[p].use = o[2]
        /\ o[2] = "NORMAL" => ram_map[p].u0 = "1"

\* The allocator keeps the promise of module Blocks: blocks that are free and
\* aligned, all that were asked for or none, and a failure only when there
\* are not as many.
B == INSTANCE Blocks
ImplementsBlocks == B!Spec
=============================================================================
