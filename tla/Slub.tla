-------------------------------- MODULE Slub --------------------------------
(***************************************************************************)
(* Kernel memory: the objects of kernel/slub.c, the ranges of virtual      *)
(* addresses of kernel/vm.c and the page tables of kernel/mmu.c, which call *)
(* one another.  A thread's call is the list of the steps it has still to   *)
(* take; a step that calls puts the callee's steps in front.  A section     *)
(* under a mutex or with preemption disabled that calls nothing is one step.*)
(*                                                                         *)
(* Virtual addresses are pages 0 .. NVa - 1 of the area of vm.c, and the    *)
(* page Static (mmu_slub_area); a pointer is a page and an index, which is *)
(* -1 when it is to the page itself.                                       *)
(***************************************************************************)
EXTENDS Integers, Sequences, FiniteSets, SequencesExt, FiniteSetsExt, Functions, TLC

CONSTANTS
    Thread, NoThread,
    NSizes,         \* SLUB_SUBPAGE_NSIZES; 9
    NObj,           \* size -> the objects of a page
    LowWater,       \* the free 16-byte objects at which to refill; 4
    NVa, NPte,      \* pages of the area, and of a page table; 32768 and 256
    FbPages, FbSections, \* fb_init(): pages of its range, PDEs that it maps
    NRam,           \* frames
    Want            \* what callers of kmalloc() ask for

Size  == 0 .. NSizes - 1
C16   == 1          \* subpages[1]; 16 bytes hold any of the structures
PT    == NSizes     \* mmu_pt_subpages
WHOLE == NSizes + 1 \* fullpages[0]
VM    == NSizes + 2 \* vm_areas_lock
RAM   == NSizes + 3 \* ram_map_lock

ASSUME SlubConstants ==
    /\ {NVa, NPte, FbPages} \subseteq Nat \ {0}
    /\ NSizes \in Nat \ {0, 1} /\ NObj \in [Size \union {PT} -> Nat \ {0, 1}]
    /\ NSizes + 1 < NObj[C16] /\ LowWater \in Nat /\ LowWater < NObj[C16] - NSizes - 1
    /\ NObj[PT] > 2 /\ NSizes <= NPte /\ NVa % NPte = 0 /\ FbPages % NPte = 0 /\ NVa % FbPages = 0
    /\ FbSections \in Nat /\ FbSections * NPte <= FbPages
    /\ NRam \in Nat /\ NRam > NSizes /\ Want \subseteq Size \union {WHOLE}
    /\ NoThread \notin Thread

Static == NVa
Pde(p) == p \div NPte
Pte(p) == p % NPte

VARIABLES
    slabs,          \* struct subpage_slab -> its size, page, nfree, and chain
                    \* of free objects; a structure is known by its pointer
    lists,          \* size -> the lists free, part and busy
    slub_16byte_free,
    whole,          \* fullpages[0].busy: the set of its struct fullpage_slab
    vm_areas,       \* the segments: structure, first page, pages
    pd,             \* PDE -> NoPt, Section, or the page table it points to
    ptes,           \* page table (its frame and index there) -> index -> frame, or 0
    ram,            \* the frames in use
    ram_map,        \* frame -> PGF_SLUB_LSIZE and u0.va
    owner,          \* mutex -> its holder
    todo, vals,     \* thread -> the steps to take, and its results so far
    live,           \* history: what callers hold, with its size
    raced,          \* history: a page table has replaced another
    misfreed,       \* history: kfree() has taken a page of objects for a whole page
    stopped         \* the assertion that failed, which stops the machine

memory == <<slabs, lists, slub_16byte_free, whole>>
tables == <<pd, ptes>>
frames == <<ram, ram_map>>
vars == <<memory, vm_areas, tables, frames, owner, todo, vals, live, raced, misfreed, stopped>>

NoPt    == <<>>
Section == <<"section">>
Mutexes == Size \union {PT, VM, RAM}

-----------------------------------------------------------------------------
(* The calls, as lists of steps.                                           *)

VmAlloc(n) == << <<"find", n>>, <<"alloc", C16>>, <<"seg", n>>, <<"unlock", VM>> >>

\* kmalloc_fullpages()
Page == VmAlloc(1) \o << <<"pm">>, <<"ram">>, <<"map">>, <<"alloc", C16>>, <<"track">> >>

\* kmalloc()
Kmalloc(c) == IF c = WHOLE THEN Page ELSE << <<"alloc", c>> >>

\* Mutant: the structure comes from the size itself.
RefillFromSelf(c) == << <<"alloc", c>> >> \o Page \o << <<"init1", c>> >>
\* slub_alloc_subpage_slab()
Refill(c) == << <<"alloc", C16>> >> \o Page \o << <<"init1", c>> >>

-----------------------------------------------------------------------------
(* Steps                                                                   *)

\* list_del()
Without(seq, x) == IF x \in Range(seq) THEN RemoveAt(seq, CHOOSE i \in DOMAIN seq : seq[i] = x)
                   ELSE seq
\* f, with x mapped to v.
With(f, x, v) == [y \in DOMAIN f \union {x} |-> IF y = x THEN v ELSE f[y]]
Does(t, op)  == stopped = "no" /\ todo[t] # <<>> /\ Head(todo[t])[1] = op
Arg(t)       == Head(todo[t])[2]
Then(t, ops) == todo' = [todo EXCEPT ![t] = ops \o Tail(@)]
Top(t)       == Last(vals[t])
Below(t)     == vals[t][Len(vals[t]) - 1]
Pop(t, n)    == vals' = [vals EXCEPT ![t] = SubSeq(@, 1, Len(@) - n)]
Push(t, v)   == vals' = [vals EXCEPT ![t] = Append(@, v)]

Fail(why) == /\ stopped' = why
             /\ UNCHANGED <<memory, vm_areas, tables, frames, owner, todo, vals, live, raced, misfreed>>

\* mmu.c looks a page table up with preemption disabled, and mmu_slub_pa_to_va()
\* takes ram_map_lock for it: if that is taken, mutex_lock() calls schedule(),
\* which asserts that preemption is enabled.
Walk(pt) == IF owner[RAM] # NoThread THEN "schedule"
            ELSE IF ram_map[pt[1]].lsize # {PT} THEN "lsize" ELSE "no"

IsPt(d)  == d # NoPt /\ d # Section
Frame(p) == IF p = Static THEN 1 ELSE ptes[pd[Pde(p)]][Pte(p)]

\* What stops mmu_va_to_pa(): its assertions, and those of the look-up.
VaToPa(p) == IF p = Static THEN "no"
             ELSE IF ~IsPt(pd[Pde(p)]) THEN "unmapped"
             ELSE IF Walk(pd[Pde(p)]) # "no" THEN Walk(pd[Pde(p)])
             ELSE IF Frame(p) = 0 THEN "unmapped" ELSE "no"

\* sl leaves its list for the head of another.
MoveTo(c, sl, to) ==
    [lists EXCEPT ![c] = [l \in {"free", "part", "busy"} |->
        (IF l = to THEN <<sl>> ELSE <<>>) \o Without(@[l], sl)]]

Empty(c) == lists[c]["part"] = <<>> /\ lists[c]["free"] = <<>>
FirstSlab(c) == Head(IF lists[c]["part"] # <<>> THEN lists[c]["part"] ELSE lists[c]["free"])

\* Mutant: the number is tested after the object is taken.
ListAfterTake(s, sl) == IF s.nfree = NObj[s.size] THEN "part" ELSE IF s.nfree = 2 THEN "busy" ELSE "same"
ListOnTake(s, sl) == IF s.nfree = NObj[s.size] THEN "part" ELSE IF s.nfree = 1 THEN "busy" ELSE "same"

\* Mutant: the refill is forgotten.
NeverLow(c) == FALSE
IsLow(c) == c = C16 /\ slub_16byte_free - 1 = LowWater

\* kmalloc_subpages() takes an object, the lock being held.  The 16-byte
\* list is refilled before the lock is given back.
TakeObject(t, c) ==
    LET sl == FirstSlab(c)
        s  == slabs[sl]
        to == ListOnTake(s, sl)
    IN  /\ Push(t, <<s.page, Head(s.chain)>>)
        /\ slabs' = [slabs EXCEPT ![sl].chain = Tail(@), ![sl].nfree = @ - 1]
        /\ lists' = IF to = "same" THEN lists ELSE MoveTo(c, sl, to)
        /\ slub_16byte_free' = slub_16byte_free - (IF c = C16 THEN 1 ELSE 0)
        /\ IF IsLow(c)
           THEN owner' = [owner EXCEPT ![c] = t] /\ Then(t, Refill(c) \o << <<"unlock", c>> >>)
           ELSE owner' = [owner EXCEPT ![c] = NoThread] /\ Then(t, <<>>)
        /\ UNCHANGED <<whole, vm_areas, tables, frames, live, raced, misfreed, stopped>>

\* It asserts that the slab had an object.
Take(t, c) == IF slabs[FirstSlab(c)].nfree = 0 THEN Fail("nfree") ELSE TakeObject(t, c)

\* The list is empty: a structure and a page are allocated first, under the lock.
Grow(t, c) ==
    /\ owner' = [owner EXCEPT ![c] = t]
    /\ Then(t, Refill(c) \o << <<"take", c>> >>)
    /\ UNCHANGED <<memory, vm_areas, tables, frames, vals, live, raced, misfreed, stopped>>

\* kmalloc_subpages(); an assertion says that 16 bytes are never out.
Alloc(t) ==
    /\ Does(t, "alloc") /\ owner[Arg(t)] = NoThread
    /\ IF ~Empty(Arg(t)) THEN Take(t, Arg(t))
       ELSE IF Arg(t) = C16 THEN Fail("dry") ELSE Grow(t, Arg(t))

TakeAfterGrow(t) == Does(t, "take") /\ Take(t, Arg(t))

Unlock(t) == /\ Does(t, "unlock")
             /\ owner' = [owner EXCEPT ![Arg(t)] = NoThread]
             /\ Then(t, <<>>)
             /\ UNCHANGED <<memory, vm_areas, tables, frames, vals, live, raced, misfreed, stopped>>

\* Mutant: a segment inside the range is not seen.
MeetsAtEnds(seg, start, end) ==
    \/ seg[2] <= start /\ start < seg[2] + seg[3]
    \/ start < seg[2] + seg[3] /\ seg[2] + seg[3] < end
\* Mutant: a range that begins inside the segment is not seen.
MeetsFirst(seg, start, end) == start <= seg[2] /\ seg[2] < end
\* vm_find_seg(): does the segment meet start .. end - 1?
Meets(seg, start, end) ==
    LET first == seg[2]  last == seg[2] + seg[3] IN
    \/ first <= start /\ start < last
    \/ first < end /\ end <= last
    \/ start <= first /\ first < end
    \/ start < last /\ last <= end

\* vm_find_free(): the ranges of n pages, aligned, that meet no segment.
FreeRanges(n) == {s \in 0 .. NVa - n : s % n = 0 /\
                     \A i \in DOMAIN vm_areas : ~Meets(vm_areas[i], s, s + n)}

\* vm_alloc() takes the lock and the highest range ...
Find(t) ==
    /\ Does(t, "find") /\ owner[VM] = NoThread
    /\ IF FreeRanges(Arg(t)) = {} THEN Fail("range")
       ELSE /\ owner' = [owner EXCEPT ![VM] = t]
            /\ Push(t, <<Max(FreeRanges(Arg(t))), -1>>)
            /\ Then(t, <<>>)
            /\ UNCHANGED <<memory, vm_areas, tables, frames, live, raced, misfreed, stopped>>

\* ... and records it in a segment, once that is allocated.
AddSeg(t) ==
    /\ Does(t, "seg")
    /\ vm_areas' = << <<Top(t), Below(t)[1], Arg(t)>> >> \o vm_areas
    /\ Pop(t, 1) /\ Then(t, <<>>)
    /\ UNCHANGED <<memory, tables, frames, owner, live, raced, misfreed, stopped>>

\* pm_ram_alloc() takes ram_map_lock ...
LockRam(t) ==
    /\ Does(t, "pm") /\ owner[RAM] = NoThread
    /\ owner' = [owner EXCEPT ![RAM] = t]
    /\ Then(t, <<>>)
    /\ UNCHANGED <<memory, vm_areas, tables, frames, vals, live, raced, misfreed, stopped>>

\* ... for as long as it searches the bitmap and clears the entry.
TakeFrame(t) ==
    /\ Does(t, "ram")
    /\ IF ram = 1 .. NRam THEN Fail("ram")
       ELSE LET f == Min(1 .. NRam \ ram) IN
            /\ ram' = ram \union {f}
            /\ ram_map' = [ram_map EXCEPT ![f] = [lsize |-> {}, va |-> NoPt]]
            /\ owner' = [owner EXCEPT ![RAM] = NoThread]
            /\ Push(t, <<f>>) /\ Then(t, <<>>)
            /\ UNCHANGED <<memory, vm_areas, tables, live, raced, misfreed, stopped>>

\* mmu_map_pages().  An empty PDE makes it enable preemption, to allocate a
\* page table ...
Map(t) ==
    LET d == pd[Pde(Below(t)[1])]  i == Pte(Below(t)[1]) IN
    /\ Does(t, "map")
    /\ IF d = NoPt
       THEN /\ Then(t, << <<"alloc", PT>>, <<"install">> >>)
            /\ UNCHANGED <<memory, vm_areas, tables, frames, owner, vals, live, raced, misfreed, stopped>>
       ELSE IF d = Section THEN Fail("section")
       ELSE IF Walk(d) # "no" THEN Fail(Walk(d))
       ELSE IF ptes[d][i] # 0 THEN Fail("mapped")
       ELSE /\ ptes' = [ptes EXCEPT ![d][i] = Top(t)[1]]
            /\ Then(t, <<>>)
            /\ UNCHANGED <<memory, vm_areas, pd, frames, owner, vals, live, raced, misfreed, stopped>>

\* ... which it then puts there, whatever the PDE has become, with one entry.
Install(t) ==
    LET va == vals[t][Len(vals[t]) - 2][1]
        pt == <<Frame(Top(t)[1]), Top(t)[2]>>
    IN  /\ Does(t, "install")
        /\ IF VaToPa(Top(t)[1]) # "no" THEN Fail(VaToPa(Top(t)[1]))
           ELSE /\ pd' = [pd EXCEPT ![Pde(va)] = pt]
                /\ ptes' = With(ptes, pt, [i \in 0 .. NPte - 1 |-> IF i = Pte(va) THEN Below(t)[1] ELSE 0])
                /\ raced' = (raced \/ pd[Pde(va)] # NoPt)
                /\ Pop(t, 1) /\ Then(t, <<>>)
                /\ UNCHANGED <<memory, vm_areas, frames, owner, live, misfreed, stopped>>

\* Mutant: the entry keeps the structure of the whole page.
AddSizeOnly(f, c, sl) == [ram_map EXCEPT ![f].lsize = @ \union {c}]
\* The sizes are or-ed into the bits of PGF_SLUB_LSIZE.
AddSize(f, c, sl) == [ram_map EXCEPT ![f] = [lsize |-> @.lsize \union {c}, va |-> sl]]

\* kmalloc_fullpages() has its page: the entry and the list of whole pages.
Track(t) ==
    /\ Does(t, "track") /\ owner[RAM] = NoThread
    /\ ram_map' = AddSize(Below(t)[1], WHOLE, Top(t))
    /\ whole' = whole \union {Top(t)}
    /\ Pop(t, 2) /\ Then(t, <<>>)
    /\ UNCHANGED <<slabs, lists, slub_16byte_free, vm_areas, tables, ram, owner, live, raced, misfreed, stopped>>

\* The objects of a new slab's page that are used for the first slabs'
\* structures: those of the first page of 16 bytes, but of every such page.
InUse(c) == IF c = C16 THEN NSizes ELSE 0
NewSlab(c, p) == [size |-> c, page |-> p, nfree |-> NObj[c] - InUse(c),
                  chain |-> [i \in 1 .. NObj[c] - InUse(c) |-> InUse(c) + i - 1]]

\* slub_subpage_init1(), at the end of slub_alloc_subpage_slab().
NewSubpages(t) ==
    LET c == Arg(t)  p == Top(t)[1] IN
    /\ Does(t, "init1")
    /\ IF VaToPa(p) # "no" THEN Fail(VaToPa(p))
       ELSE /\ owner[RAM] = NoThread
            /\ ram_map' = AddSize(Frame(p), c, Below(t))
            /\ slabs' = With(slabs, Below(t), NewSlab(c, p))
            /\ lists' = [lists EXCEPT ![c][IF c = C16 THEN "part" ELSE "free"] = Append(@, Below(t))]
            /\ slub_16byte_free' = slub_16byte_free + (IF c = C16 THEN NObj[c] - InUse(c) ELSE 0)
            /\ Pop(t, 2) /\ Then(t, <<>>)
            /\ UNCHANGED <<whole, vm_areas, tables, ram, owner, live, raced, misfreed, stopped>>

\* fb_init() has its range: mmu_map_sections() asserts that the PDEs are empty.
MapSections(t) ==
    LET D == Pde(Top(t)[1]) .. Pde(Top(t)[1]) + FbSections - 1 IN
    /\ Does(t, "sections")
    /\ IF \E d \in D : pd[d] # NoPt THEN Fail("section")
       ELSE /\ pd' = [d \in DOMAIN pd |-> IF d \in D THEN Section ELSE pd[d]]
            /\ Pop(t, 1) /\ Then(t, <<>>)
            /\ UNCHANGED <<memory, vm_areas, ptes, frames, owner, live, raced, misfreed, stopped>>

-----------------------------------------------------------------------------
(* kfree()                                                                 *)

Entry(p) == ram_map[Frame(p[1])]

\* Mutant: the freed object does not point to the one freed before.
FreedAlone(s, i) == [s EXCEPT !.chain = <<i>>, !.nfree = @ + 1]
FreedFirst(s, i) == [s EXCEPT !.chain = <<i>> \o @, !.nfree = @ + 1]
ListAfterPut(n, c) == IF n = NObj[c] THEN "free" ELSE IF n = 1 THEN "part" ELSE "same"

\* kfree_subpages(), which asserts that no slab has more objects than its page.
Put(t) ==
    LET sl == Arg(t)  s == slabs[sl]  to == ListAfterPut(s.nfree + 1, s.size) IN
    /\ Does(t, "put") /\ owner[s.size] = NoThread
    /\ IF s.nfree = NObj[s.size] THEN Fail("nfree")
       ELSE /\ slabs' = [slabs EXCEPT ![sl] = FreedFirst(@, Top(t)[2])]
            /\ lists' = IF to = "same" THEN lists ELSE MoveTo(s.size, sl, to)
            /\ Pop(t, 1) /\ Then(t, <<>>)
            /\ UNCHANGED <<slub_16byte_free, whole, vm_areas, tables, frames, owner, live, raced, misfreed, stopped>>

\* What stops kfree(q): its assertions are that q is mapped, and that the entry of
\* its frame has SLUB_LEADER set.
Refuses(q) == IF VaToPa(q[1]) # "no" THEN VaToPa(q[1])
              ELSE IF Entry(q).va = NoPt THEN "leader" ELSE "no"

\* kfree(q), with results and steps below it.  The entry says what the page is: a
\* size, or a whole page, as 12 or-ed with any size is 12 or more.  For that
\* kfree_fullpages() unlinks the structure and frees it, the frame and the range.
Dispatch(t, q, below, rest) ==
    LET e == Entry(q) IN
    /\ IF WHOLE \notin e.lsize
       THEN /\ todo' = [todo EXCEPT ![t] = << <<"put", e.va>> >> \o rest]
            /\ vals' = [vals EXCEPT ![t] = Append(below, q)]
            /\ UNCHANGED misfreed
       ELSE /\ todo' = [todo EXCEPT ![t] =
                   << <<"unlink", e.va>>, <<"kfree">>, <<"ramfree">>, <<"vmfree">> >> \o rest]
            /\ vals' = [vals EXCEPT ![t] = below \o <<q, <<Frame(q[1])>>, e.va>>]
            /\ misfreed' = TRUE
    /\ UNCHANGED <<memory, vm_areas, tables, frames, owner, raced, stopped>>

\* A caller frees an object of size c.
Free(t, p, c) ==
    /\ stopped = "no" /\ todo[t] = <<>> /\ <<p, c>> \in live /\ c # WHOLE
    /\ IF Refuses(p) # "no" THEN Fail(Refuses(p))
       ELSE Dispatch(t, p, <<>>, <<>>) /\ live' = live \ {<<p, c>>}

\* A structure is freed, which may lie on such a page itself.
FreeStructure(t) ==
    /\ Does(t, "kfree")
    /\ IF Refuses(Top(t)) # "no" THEN Fail(Refuses(Top(t)))
       ELSE Dispatch(t, Top(t), Front(vals[t]), Tail(todo[t])) /\ UNCHANGED live

\* The list_del() of kfree_fullpages(), under no lock.  It meets those who move slabs
\* of the size, so any of these may be gone from the lists, and this one may still
\* be there.  If another has freed the structure meanwhile, its words are
\* a free object's or a new holder's: an abort, or a loss for whoever linked it.
Unlink(t) ==
    LET sl == Arg(t)
        linked == {x \in DOMAIN slabs : sl \in DOMAIN slabs /\ slabs[x].size = slabs[sl].size}
    IN  /\ Does(t, "unlink")
        /\ \/ (\A c \in Size, l \in {"free", "part", "busy"} : sl \notin Range(lists[c][l])) /\ Fail("abort")
           \/ \E gone \in SUBSET linked :
                 /\ lists' = [c \in DOMAIN lists |-> [l \in DOMAIN lists[c] |->
                                  SelectSeq(lists[c][l], LAMBDA x : x \notin gone)]]
                 /\ whole' = whole \ {sl}
                 /\ vm_areas' = SelectSeq(vm_areas, LAMBDA seg : seg[1] # sl)
                 /\ Then(t, <<>>)
                 /\ UNCHANGED <<slabs, slub_16byte_free, tables, frames, owner, vals, live, raced, misfreed, stopped>>

\* pm_ram_free(), which does not see a frame that is free already.
FreeFrame(t) ==
    /\ Does(t, "ramfree") /\ owner[RAM] = NoThread
    /\ ram' = ram \ {Top(t)[1]}
    /\ ram_map' = [ram_map EXCEPT ![Top(t)[1]].va = NoPt]
    /\ Pop(t, 1) /\ Then(t, <<>>)
    /\ UNCHANGED <<memory, vm_areas, tables, owner, live, raced, misfreed, stopped>>

\* vm_free() looks for a segment that starts at the object, unlinks it and frees its
\* structure ...
FreeRange(t) ==
    LET found == {i \in DOMAIN vm_areas : <<vm_areas[i][2], 0>> = Top(t)} IN
    /\ Does(t, "vmfree") /\ owner[VM] = NoThread
    /\ IF found = {}
       THEN Pop(t, 1) /\ Then(t, <<>>) /\ UNCHANGED <<vm_areas, owner>>
       ELSE /\ owner' = [owner EXCEPT ![VM] = t]
            /\ vm_areas' = RemoveAt(vm_areas, Min(found))
            /\ Push(t, vm_areas[Min(found)][1])
            /\ Then(t, << <<"kfree">>, <<"walk">> >>)
    /\ UNCHANGED <<memory, tables, frames, live, raced, misfreed, stopped>>

\* ... and follows the list on from there.  The structure's first word is the index
\* of a free object: a data abort.  (If another has got it, the walk may never end.)
WalkOn(t) == Does(t, "walk") /\ Fail("abort")

Frees(t) == FreeStructure(t) \/ Unlink(t) \/ FreeFrame(t) \/ FreeRange(t) \/ WalkOn(t)

-----------------------------------------------------------------------------
Call(t, ops) ==
    /\ stopped = "no" /\ todo[t] = <<>>
    /\ todo' = [todo EXCEPT ![t] = ops]
    /\ UNCHANGED <<memory, vm_areas, tables, frames, owner, vals, live, raced, misfreed, stopped>>

\* kmalloc() returns.
Give(t) ==
    /\ Does(t, "give")
    /\ live' = live \union {<<Top(t), Arg(t)>>}
    /\ Pop(t, 1) /\ Then(t, <<>>)
    /\ UNCHANGED <<memory, vm_areas, tables, frames, owner, raced, misfreed, stopped>>

\* After slub_init() and vm_init(): a page for each size, at the end of the area,
\* the structures of their slabs in the second, which holds 16-byte objects,
\* and the segment of these pages there too.  The page table that maps them is the
\* first object of mmu_slub_area; a second one may be that of the exception
\* vectors (excpt_init()), which lie outside the area.
Init ==
    \E pts \in 1 .. 2 :
    LET page(i) == NVa - NSizes + i
        sl(i)   == <<page(C16), i>>
        ptsl    == <<Static, -1>>       \* mmu_pt_slab, a variable of its own
        Taken(c, p, n) == [NewSlab(c, p) EXCEPT !.nfree = @ - n, !.chain = SubSeq(@, n + 1, Len(@))]
    IN  /\ slabs = With([s \in {sl(i) : i \in Size} |->
                            Taken(s[2], page(s[2]), IF s[2] = C16 THEN 1 ELSE 0)],
                        ptsl, Taken(PT, Static, pts))
        /\ lists = [c \in Size \union {PT} |->
              [l \in {"free", "part", "busy"} |->
                  IF l = (IF c \in {C16, PT} THEN "part" ELSE "free")
                  THEN <<IF c = PT THEN ptsl ELSE sl(c)>> ELSE <<>>]]
        /\ slub_16byte_free = NObj[C16] - NSizes - 1
        /\ whole = {}
        /\ vm_areas = << <<<<page(C16), NSizes>>, page(0), NSizes>> >>
        /\ pd = [d \in 0 .. Pde(NVa - 1) |-> IF d = Pde(NVa - 1) THEN <<1, 0>> ELSE NoPt]
        /\ ptes = [pt \in {1} \X (0 .. pts - 1) |-> [i \in 0 .. NPte - 1 |->
                     IF pt[2] = 0 /\ i >= NPte - NSizes THEN i - NPte + NSizes + 2 ELSE 0]]
        /\ ram = 1 .. NSizes + 1
        /\ ram_map = [f \in 1 .. NRam |->
              IF f = 1 THEN [lsize |-> {PT}, va |-> ptsl]
              ELSE IF f <= NSizes + 1 THEN [lsize |-> {f - 2}, va |-> sl(f - 2)]
              ELSE [lsize |-> {}, va |-> NoPt]]
        /\ owner = [m \in Mutexes |-> NoThread]
        /\ todo = [t \in Thread |-> <<>>] /\ vals = [t \in Thread |-> <<>>]
        /\ live = {} /\ raced = FALSE /\ misfreed = FALSE /\ stopped = "no"

\* fb_init() runs once.
FbStarted == \/ \E i \in DOMAIN vm_areas : vm_areas[i][3] = FbPages
             \/ \E t \in Thread : \E i \in DOMAIN todo[t] : todo[t][i] = <<"sections">>

Step(t) == \/ Alloc(t) \/ TakeAfterGrow(t) \/ Unlock(t) \/ Find(t) \/ AddSeg(t)
           \/ LockRam(t) \/ TakeFrame(t) \/ Map(t) \/ Install(t) \/ Track(t)
           \/ NewSubpages(t) \/ MapSections(t) \/ Put(t) \/ Give(t)

Next == \E t \in Thread :
    \/ \E c \in Want : Call(t, Kmalloc(c) \o << <<"give", c>> >>)
    \/ ~FbStarted /\ Call(t, VmAlloc(FbPages) \o << <<"sections">> >>)
    \/ \E o \in live : Free(t, o[1], o[2])
    \/ Step(t) \/ Frees(t)

Spec == Init /\ [][Next]_vars

-----------------------------------------------------------------------------
(* Properties.  Once kfree() has taken a page of objects for a whole page,   *)
(* the objects of others lie in free memory, and kfree_fullpages() has       *)
(* changed a list under no lock: two kfree() of one such page even put its   *)
(* structure on a chain twice.  ObjectsKept says that this does not happen;  *)
(* the others are about the runs before it (misfreed).                       *)

PtObject(d) == <<slabs[ram_map[d[1]].va].page, d[2]>>

\* Who has the object at q: a caller, a call under way, a slab, a segment, a
\* whole page, or the page tables.
Owners(q) ==
    Cardinality(UNION {{t} \X {i \in DOMAIN vals[t] : vals[t][i] = q} : t \in Thread})
    + Cardinality({o \in live : o[1] = q})
    + Cardinality({q} \intersect DOMAIN slabs)
    + Cardinality({i \in DOMAIN vm_areas : vm_areas[i][1] = q})
    + Cardinality({q} \intersect whole)
    + Cardinality({d \in DOMAIN ptes : PtObject(d) = q})

\* Every object of a slab's page is on the slab's chain or has one owner, never
\* both, two or none, whatever calls are under way: nothing is handed out
\* twice or lost, the structures and page tables that slub takes from itself
\* included.
OneOwner == ~misfreed =>
    \A sl \in DOMAIN slabs : LET s == slabs[sl] IN
        /\ IsInjective(s.chain) /\ Len(s.chain) = s.nfree
        /\ \A i \in 0 .. NObj[s.size] - 1 :
               Owners(<<s.page, i>>) = IF i \in Range(s.chain) THEN 0 ELSE 1

\* A slab is on the one list that its number of free objects asks for: a slab
\* on the wrong one is either handed out when it is full or forgotten.
ListsMatch == ~misfreed =>
    \A sl \in DOMAIN slabs : LET s == slabs[sl] IN
        \A c \in Size \union {PT}, l \in {"free", "part", "busy"} :
            Cardinality({i \in DOMAIN lists[c][l] : lists[c][l][i] = sl}) =
                IF c = s.size /\ l = (IF s.nfree = NObj[c] THEN "free"
                                      ELSE IF s.nfree = 0 THEN "busy" ELSE "part")
                THEN 1 ELSE 0

\* The mutex that the next step of t takes first.
Needs(t) == CASE Head(todo[t])[1] = "alloc" -> {Arg(t)}
              [] Head(todo[t])[1] \in {"find", "vmfree"} -> {VM}
              [] Head(todo[t])[1] \in {"pm", "track", "init1", "ramfree"} -> {RAM}
              [] Head(todo[t])[1] = "put" -> {slabs[Arg(t)].size}
              [] OTHER -> {}
Waits(t, u) == todo[t] # <<>> /\ \E m \in Mutexes : m \in Needs(t) /\ owner[m] = u

\* t refills the list that it needs an object of: 16 bytes at the low water mark
\* (slub.c:374-377, against slub.c:93-97), or page tables when none is left.
WaitsForItself(t) ==
    \/ owner[C16] = t /\ Needs(t) = {C16} /\ slub_16byte_free = LowWater
    \/ owner[PT] = t /\ Needs(t) = {PT} /\ Empty(PT)

\* Nobody waits in a circle, but for a thread that waits for itself: of threads
\* that all wait for one of them, one refills the list that it needs.
OnlyRefillsBlock == ~misfreed =>
    \A S \in (SUBSET Thread) \ {{}} :
        (\A t \in S : \E u \in S : Waits(t, u)) => \E t \in S : WaitsForItself(t)

\* slub_16byte_free never promises an object that is not there, and there is
\* one when kmalloc_subpages() asserts so (slub.c:343).
NeverDry == ~misfreed =>
    /\ stopped # "dry"
    /\ slub_16byte_free <=
          FoldSet(LAMBDA sl, n : n + slabs[sl].nfree, 0,
                      {sl \in DOMAIN slabs : slabs[sl].size = C16})

\* Ranges of virtual memory never meet, though the lock of vm.c is held over the
\* allocation of a segment's structure, and pages and the framebuffer share one area.
RangesApart == ~misfreed =>
    \A i, j \in DOMAIN vm_areas : i # j =>
          LET a == vm_areas[i]  b == vm_areas[j] IN
          a[2] + a[3] <= b[2] \/ b[2] + b[3] <= a[2]

\* Nothing is mapped over something else: the assertions of mmu_map_pages() and
\* mmu_map_sections() on the entries (mmu.c:158,218,254) hold.
NothingMappedOver == ~misfreed => stopped \notin {"mapped", "section"}

\* Every page of slub stays mapped to a frame that is in use and whose entry
\* leads to the page's slab, unless two threads met in mmu_map_pages() (mmu.c:224-227),
\* where the second page table replaces the first and its entries.
MappingsKept ==
    ~raced /\ ~misfreed =>
        /\ stopped # "unmapped"
        /\ \A sl \in DOMAIN slabs : LET p == slabs[sl].page IN
               p # Static => /\ IsPt(pd[Pde(p)])
                             /\ Frame(p) \in ram /\ ram_map[Frame(p)].va = sl
        /\ \A o \in live : IsPt(pd[Pde(o[1][1])]) /\ Frame(o[1][1]) # 0

\* kfree() of an object leaves the page of the others alone: the page of an object
\* that a caller holds is not given back to the page allocator.  For
\* that the entry of the page holds "the log(sz of the allocation unit)" (slub.c:156).
ObjectsKept == \A o \in live : VaToPa(o[1][1]) = "no" => Frame(o[1][1]) \in ram
=============================================================================
