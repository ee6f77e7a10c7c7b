----------------------------- MODULE HeapProofs -----------------------------
(***************************************************************************)
(* Proofs about module Slub, for every number of threads, sizes and pages: *)
(* the page tables, the frames and what is freed keep the invariant of the *)
(* heap (HeapInv) too, and the state of boot has it.  With the invariants  *)
(* of the locks and of the ranges it gives what the properties of Slub say.*)
(***************************************************************************)
EXTENDS SlubProofs

-----------------------------------------------------------------------------
(* An entry of a page table.                                               *)

IsPair(w, a, b) == w = <<a, b>>
LEMMA TwoInFront ==
    ASSUME NEW a, NEW b, NEW r, IsSeq(r), NEW w, IsPair(w, a, b)
    PROVE  w \o r = Cons(a, Cons(b, r))
<1>1. PICK v : v = <<b>>
  OBVIOUS
<1>2. IsSeq(v)
  BY <1>1, OneForm, ConsFacts, EmptyIsSeq
<1>3. w = Cons(a, v)
  BY <1>1, PairCons DEF IsPair
<1>4. v \o r = Cons(b, r)
  BY <1>1 DEF Cons
<1>5. Cons(a, v) \o r = Cons(a, v \o r)
  BY <1>2, ConsConcat
<1> QED BY <1>4, <1>5, <1>3

\* A page table that mmu.c looks up is that of the page of boot.
LEMMA WalkFinds ==
    ASSUME FramesOk, TablesOk, NEW x \in Pdes, IsPt(pd[x]), Walk(pd[x]) = "no"
    PROVE  Usable(pd[x]) /\ pd[x] \in DOMAIN ptes
<1> DEFINE d == pd[x]
<1>1. d \in DOMAIN ptes /\ d[1] \in 1 .. NRam
  BY DEF TablesOk, PtesOk
<1>2. ram_map[d[1]].lsize = {PT}
  BY DEF Walk
<1> HIDE DEF d
<1>3. d[1] = 1
  <2>1. ASSUME d[1] \notin BootFrames PROVE FALSE
    BY <1>1, <1>2, <2>1, Numbers DEF FramesOk
  <2>2. ASSUME d[1] \in BootFrames, d[1] # 1 PROVE FALSE
    <3>1. d[1] - 2 \in Size /\ d[1] = (d[1] - 2) + 2
      BY <2>2, BootFrameOf
    <3>2. ram_map[d[1]].lsize = {d[1] - 2}
      BY <3>1 DEF FramesOk
    <3> QED BY <1>2, <3>1, <3>2, Numbers
  <2> QED BY <2>1, <2>2
<1> QED BY <1>1, <1>3 DEF Usable, d

LEMMA MapHeap == ASSUME LockInv, HeapInv, NEW t \in Thread, Map(t) PROVE HeapInv'
<1>1. PICK va, f, n : va = Below(t)[1] /\ f = Top(t)[1] /\ n = Len(vals[t])
  OBVIOUS
<1>2. PICK d, i : d = pd[Pde(va)] /\ i = Pte(va)
  OBVIOUS
<1>3. Does(t, "map")
  BY DEF Map
<1>4. After(Head(todo[t]), Tail(todo[t])) /\ Finds(Head(todo[t]), vals[t]) /\ Head(todo[t])[1] = "map"
  BY <1>3, StepFacts
<1>5. n \in Nat /\ n >= 2 /\ Mapping(vals[t][n - 1], vals[t][n])
  BY <1>1, <1>4 DEF Finds
<1>6. Top(t) = vals[t][n] /\ Below(t) = vals[t][n - 1]
  BY <1>1 DEF Top, Last, Below
<1>7. va \in VA /\ Below(t) = <<va, -1>> /\ f \in 1 .. NRam /\ Top(t) = <<f>>
  BY <1>1, <1>5, <1>6 DEF Mapping, IsPage, IsFrame
<1>8. ValAt(t, n - 1, <<va, -1>>) /\ ValAt(t, n, <<f>>)
  BY <1>1, <1>5, <1>6, <1>7, ValsTyped DEF ValAt
<1>9. SlabsOk /\ FramesOk /\ TablesOk /\ MapsOk
  BY DEF HeapInv
<1>10. Pde(va) \in Pdes /\ i \in 0 .. NPte - 1
  BY <1>2, <1>7, PdeOf
<1>11. CASE d # NoPt /\ (d = Section \/ Walk(d) # "no" \/ ptes[d][i] # 0)
  <2>1. \E why : Fail(why)
    BY <1>1, <1>2, <1>11 DEF Map
  <2> QED BY <2>1, FailHeap
<1>12. SameOthers(t) /\ \A q : Pending(q) => Pending(q)'
  <2>1. UNCHANGED owner /\ SameOthers(t)
    <3>1. CASE UNCHANGED <<owner, todo, vals>>
      BY <3>1 DEF SameOthers
    <3>2. CASE UNCHANGED <<owner, vals>> /\ \E a : Then(t, a)
      BY <3>2, OnlyMine DEF SameOthers, LockInv
    <3> QED BY <3>1, <3>2 DEF Map, Fail
  <2>2. owner[VM] = t => owner[C16] # t /\ HeadOp(t) \notin {"alloc", "seg"}
    BY <1>3, NotHolding
  <2> QED BY <2>1, <2>2, PendingStays
<1>13. CASE d = NoPt
  <2>1. /\ Then(t, << <<"alloc", PT>>, <<"install">> >>)
        /\ UNCHANGED <<memory, vm_areas, tables, frames, owner, vals, live>>
    BY <1>1, <1>2, <1>13 DEF Map
  <2>2. NowOk(t)'
    <3>1. IsSeq(Tail(todo[t]))
      BY <1>3, Doing
    <3>2. PICK a, b : a = <<"alloc", PT>> /\ b = <<"install">>
      OBVIOUS
    <3>3. todo'[t] = Cons(a, Cons(b, Tail(todo[t])))
      <4>1. PICK w : IsPair(w, a, b)
        BY DEF IsPair
      <4>2. todo'[t] = w \o Tail(todo[t])
        BY <2>1, <3>2, <4>1 DEF Then, LockInv, Kept, IsPair
      <4>3. PICK r : r = Tail(todo[t])
        OBVIOUS
      <4>4. IsSeq(r)
        BY <3>1, <4>3
      <4>5. w \o r = Cons(a, Cons(b, r))
        BY <4>1, <4>4, TwoInFront
      <4>6. w \o Tail(todo[t]) = Cons(a, Cons(b, Tail(todo[t])))
        BY <4>3, <4>5
      <4> QED BY <4>2, <4>6
    <3>4. a[1] \in {"alloc"}
      BY <3>2
    <3>5. Begins(todo'[t], {"alloc"})
      BY <3>1, <3>3, <3>4, ConsFacts, BeginsCons
    <3> QED BY <3>5, QuietBegins, QuietHead DEF Acting
  <2> QED BY <1>12, <2>1, <2>2, QuietStep
<1>14. CASE d # NoPt /\ ~ (d = Section \/ Walk(d) # "no" \/ ptes[d][i] # 0)
  <2>1. /\ ptes' = [ptes EXCEPT ![d][i] = f] /\ Then(t, <<>>)
        /\ UNCHANGED <<memory, vm_areas, pd, frames, owner, vals, live>>
    BY <1>1, <1>2, <1>14 DEF Map
  <2>2. Usable(d) /\ d \in DOMAIN ptes /\ d[1] = 1
    <3>1. IsPt(d)
      BY <1>14 DEF IsPt
    <3>2. Usable(d) /\ d \in DOMAIN ptes
      BY <1>2, <1>9, <1>10, <1>14, <3>1, WalkFinds
    <3> QED BY <3>2 DEF Usable
  <2>3. /\ DOMAIN ptes' = DOMAIN ptes /\ ptes' = [e \in DOMAIN ptes |-> ptes'[e]]
        /\ \A e \in DOMAIN ptes : e # d => ptes'[e] = ptes[e]
        /\ ptes'[d] = [j \in 0 .. NPte - 1 |-> IF j = i THEN f ELSE ptes[d][j]]
    <3>1. ptes = [e \in DOMAIN ptes |-> ptes[e]] /\ ptes[d] = [j \in 0 .. NPte - 1 |-> ptes[d][j]]
      BY <1>9, <2>2 DEF TablesOk, PtesOk
    <3>2. ptes'[d] = [ptes[d] EXCEPT ![i] = f]
      BY <2>1, <2>2, <3>1
    <3> QED BY <1>10, <2>1, <2>2, <3>1, <3>2
  <2>4. UNCHANGED <<slabs, lists, slub_16byte_free, whole, ram, ram_map, pd>>
    BY <2>1 DEF memory, frames
  <2>5. SlabsOk' /\ ListsOk' /\ SameSlabs /\ \A a, l : Filed(a, l)' = Filed(a, l)
    BY <2>4, SlabsStay
  <2>6. LowOk'
    BY <2>1, <2>4 DEF HeapInv, LowOk
  <2>7. FramesOk'
    BY <1>9, <2>1, FramesStay
  <2>8. \A q \in VA : Fr(q)' = IF q = va THEN f ELSE Fr(q)
    <3> SUFFICES ASSUME NEW q \in VA PROVE Fr(q)' = IF q = va THEN f ELSE Fr(q)
      OBVIOUS
    <3>1. PICK e : e = pd[Pde(q)]
      OBVIOUS
    <3>2. Pde(q) \in Pdes /\ Pte(q) \in 0 .. NPte - 1 /\ q = Pde(q) * NPte + Pte(q)
      BY PdeOf
    <3>3. va = Pde(va) * NPte + i
      BY <1>2, <1>7, PdeOf
    <3>4. Fr(q)' = IF Usable(e) THEN ptes'[e][Pte(q)] ELSE 0
      BY <2>1, <3>1 DEF Fr, Usable, IsPt
    <3>5. Fr(q) = IF Usable(e) THEN ptes[e][Pte(q)] ELSE 0
      BY <3>1 DEF Fr
    <3>6. CASE e = d
      <4>1. Pde(q) = Pde(va)
        BY <1>2, <1>9, <1>10, <2>2, <3>1, <3>2, <3>6 DEF TablesOk
      <4>2. q = va <=> Pte(q) = i
        BY <1>2, <3>2, <3>3, <4>1
      <4>3. Fr(q)' = (IF Pte(q) = i THEN f ELSE ptes[d][Pte(q)]) /\ Fr(q) = ptes[d][Pte(q)]
        BY <2>2, <2>3, <3>2, <3>4, <3>5, <3>6
      <4> QED BY <4>2, <4>3
    <3>7. CASE e # d
      <4>1. Usable(e) => e \in DOMAIN ptes
        BY <1>9, <3>1, <3>2 DEF TablesOk, Usable
      <4>2. q # va
        BY <1>2, <3>1, <3>7
      <4> QED BY <2>3, <3>4, <3>5, <3>7, <4>1, <4>2
    <3> QED BY <3>6, <3>7
  <2>9. f \in ram \ BootFrames /\ f \in 2 .. NRam /\ PageVal(va) /\ ~ SlabPage(va)
    <3>1. FrameVal(f) /\ PageVal(va)
      BY <1>8 DEF FrameVal, PageVal
    <3>2. f \in ram \ BootFrames
      BY <1>9, <3>1 DEF MapsOk, FramesUsed
    <3>3. 1 \in BootFrames
      BY Numbers DEF BootFrames
    <3>4. f # 1
      BY <3>2, <3>3
    <3> QED BY <1>7, <3>1, <3>2, <3>4, PageNotSlab, Numbers
  <2>10. TablesOk'
    <3>1. PtesOk'
      <4> SUFFICES ASSUME NEW e \in DOMAIN ptes
                   PROVE  /\ e = <<e[1], e[2]>> /\ e[1] \in 1 .. NRam
                          /\ ptes'[e] = [j \in 0 .. NPte - 1 |-> ptes'[e][j]]
                          /\ e[1] = 1 => \A j \in 0 .. NPte - 1 : ptes'[e][j] \in {0} \union 2 .. NRam
        BY <2>3 DEF PtesOk
      <4>1. /\ e = <<e[1], e[2]>> /\ e[1] \in 1 .. NRam
            /\ ptes[e] = [j \in 0 .. NPte - 1 |-> ptes[e][j]]
            /\ e[1] = 1 => \A j \in 0 .. NPte - 1 : ptes[e][j] \in {0} \union 2 .. NRam
        BY <1>9 DEF TablesOk, PtesOk
      <4>2. CASE e = d
        BY <2>2, <2>3, <2>9, <4>1, <4>2
      <4>3. CASE e # d
        BY <2>3, <4>1, <4>3
      <4> QED BY <4>2, <4>3
    <3>2. (pd = [x \in Pdes |-> pd[x]])' /\ (pd[Pde(NVa - 1)] = <<1, 0>>)'
      BY <1>9, <2>4 DEF TablesOk
    <3>3. (\A x \in Pdes : IsPt(pd[x]) => pd[x] \in DOMAIN ptes)'
      BY <1>9, <2>3, <2>4 DEF TablesOk, IsPt
    <3>4. (\A x, y \in Pdes : Usable(pd[x]) /\ pd[x] = pd[y] => x = y)'
      BY <1>9, <2>4 DEF TablesOk, Usable, IsPt
    <3>5. (\A j \in Size : Fr(BootPage(j)) = j + 2)'
      <4>1. \A j \in Size : BootPage(j) \in VA /\ SlabPage(BootPage(j))
        BY <1>9, BootFacts DEF SlabPage
      <4>2. \A j \in Size : BootPage(j) # va
        BY <2>9, <4>1
      <4> QED BY <1>9, <2>8, <4>1, <4>2 DEF TablesOk
    <3> QED BY <3>1, <3>2, <3>3, <3>4, <3>5 DEF TablesOk
  <2>11. SamePages
    BY <2>1, SameVals
  <2>12. MapsOk'
    <3>1. Remap(va, f)
      BY <2>8 DEF Remap
    <3>2. n - 1 \in Nat /\ ValAt(t, (n - 1) + 1, <<f>>) /\ UNCHANGED frames
      BY <1>5, <1>8, <2>1
    <3>3. /\ OneFrame' /\ FrameBeside' /\ FramesUsed' /\ WholeFirst' /\ Leads'
          /\ \A e \in DOMAIN ptes, q \in VA : Tracked(q)' /\ Fr(q)' = e[1] => q = slabs[ram_map[e[1]].va].page
      BY <1>7, <1>8, <2>5, <2>11, <3>1, <3>2, MapsRemapped
    <3>4. TableFrames'
      <4> SUFFICES ASSUME NEW e \in DOMAIN ptes
                   PROVE  /\ e[1] \in ram /\ ~ FrameVal(e[1])'
                          /\ ram_map[e[1]].va \in DOMAIN slabs /\ slabs[ram_map[e[1]].va].size = PT
                          /\ \A q \in VA : Tracked(q)' /\ Fr(q)' = e[1] => q = slabs[ram_map[e[1]].va].page
        BY <2>3, <2>4 DEF TableFrames
      <4>1. /\ e[1] \in ram /\ ~ FrameVal(e[1])
            /\ ram_map[e[1]].va \in DOMAIN slabs /\ slabs[ram_map[e[1]].va].size = PT
        BY <1>9 DEF MapsOk, TableFrames
      <4>2. \A x : FrameVal(x)' <=> FrameVal(x)
        BY <2>11 DEF SamePages, FrameVal
      <4> QED BY <3>3, <4>1, <4>2
    <3> QED BY <3>3, <3>4 DEF MapsOk
  <2>13. TokensOk' /\ \A q : Held(q)' <=> Held(q)
    <3>1. \A k, a, b, q : Has(k, a, b, q)' <=> Has(k, a, b, q)
      BY <2>1, <2>3, <2>4 DEF Has, PtObject, OnChain, IsSeg, ValAt
    <3> QED BY <2>5, <3>1, TokensSame
  <2>14. KnownOk'
    <3>1. \A q \in VA : Used(q)' => Used(q)
      <4>1. Used(va)
        <5>1. Held(<<va, -1>>)
          BY <1>8 DEF Held, Has
        <5> QED BY <5>1 DEF Used
      <4> QED BY <2>8, <2>13, <4>1 DEF Used
    <3> QED BY <1>12, <2>1, <3>1, KnownStays DEF HeapInv
  <2>15. ThreadsOk'
    <3>1. Begins(Tail(todo[t]), {"alloc"})
      BY <1>4 DEF After
    <3>2. {"alloc"} \intersect Acting = {} /\ "map" # "alloc"
      BY DEF Acting
    <3>3. NowOk(t)'
      BY <1>3, <2>1, <3>1, <3>2, QuietNext
    <3> QED BY <1>12, <2>5, <3>3, ThreadsFollow
  <2>16. LiveOk' /\ StructsOk'
    <3>1. LiveOk /\ StructsOk /\ live' \subseteq live
      BY <2>1 DEF HeapInv
    <3> QED BY <2>1, <2>4, <2>5, <3>1, LiveStays, StructsSame
  <2> QED BY <2>5, <2>6, <2>7, <2>10, <2>12, <2>13, <2>14, <2>15, <2>16 DEF HeapInv
<1> QED BY <1>11, <1>13, <1>14

-----------------------------------------------------------------------------
(* A page table for an empty entry.                                        *)

LEMMA Quotient ==
    ASSUME NEW n \in Nat \ {0}, NEW a \in Int, NEW b \in Int, NEW r \in 0 .. n - 1, NEW s \in 0 .. n - 1,
           a * n + r = b * n + s
    PROVE  a = b
<1>1. \A c \in Nat \ {0} : c * n >= n
  BY SMT
<1>2. ASSUME a < b PROVE FALSE
  <2>1. (b - a) * n >= n
    BY <1>1, <1>2
  <2>2. (b - a) * n = b * n - a * n
    BY SMT
  <2> QED BY <2>1, <2>2
<1>3. ASSUME b < a PROVE FALSE
  <2>1. (a - b) * n >= n
    BY <1>1, <1>3
  <2>2. (a - b) * n = a * n - b * n
    BY SMT
  <2> QED BY <2>1, <2>2
<1> QED BY <1>2, <1>3

\* The pages of boot lie in the last page table's part of the area.
LEMMA BootTable ==
    ASSUME NEW i \in Size
    PROVE  Pde(BootPage(i)) = Pde(NVa - 1) /\ BootPage(i) \in VA
<1>1. PICK m : m = NVa \div NPte
  OBVIOUS
<1>2. /\ NVa \in Nat /\ NPte \in Nat \ {0} /\ NVa % NPte = 0 /\ NSizes <= NPte /\ NSizes \in Nat \ {0, 1}
      /\ i \in 0 .. NSizes - 1
  BY SlubConstants DEF Size
<1>3. m \in Nat /\ NVa = m * NPte
  BY <1>1, <1>2
<1>4. BootPage(i) \in VA /\ NVa - 1 \in VA
  <2>1. NVa > 0
    BY SlubConstants
  <2>2. m # 0
    BY <1>2, <1>3, <2>1
  <2>3. m * NPte >= NPte
    BY <1>2, <1>3, <2>2
  <2> QED BY <1>2, <1>3, <2>3 DEF BootPage, VA
<1>5. (m - 1) * NPte = NVa - NPte
  BY <1>2, <1>3
<1>6. \A q \in VA : q >= NVa - NPte => Pde(q) = m - 1
  <2> SUFFICES ASSUME NEW q \in VA, q >= NVa - NPte PROVE Pde(q) = m - 1
    OBVIOUS
  <2>1. q = Pde(q) * NPte + Pte(q) /\ Pde(q) \in Nat /\ Pte(q) \in 0 .. NPte - 1
    BY PdeOf
  <2>2. PICK r : r = q - (NVa - NPte)
    OBVIOUS
  <2>3. r \in 0 .. NPte - 1 /\ q = (m - 1) * NPte + r
    BY <1>2, <1>5, <2>2 DEF VA
  <2>4. PICK a, b, s : a = Pde(q) /\ b = m - 1 /\ s = Pte(q)
    OBVIOUS
  <2>5. a \in Int /\ b \in Int /\ s \in 0 .. NPte - 1 /\ a * NPte + s = b * NPte + r /\ NPte \in Nat \ {0}
    BY <1>2, <1>3, <2>1, <2>3, <2>4
  <2>6. a = b
    BY <2>3, <2>5, Quotient
  <2> QED BY <2>4, <2>6
<1>7. BootPage(i) >= NVa - NPte /\ NVa - 1 >= NVa - NPte
  BY <1>2 DEF BootPage
<1> QED BY <1>4, <1>6, <1>7

LEMMA FrInRange ==
    ASSUME TablesOk, NEW q \in VA
    PROVE  Fr(q) \in {0} \union 2 .. NRam
<1>1. Pde(q) \in Pdes /\ Pte(q) \in 0 .. NPte - 1
  BY PdeOf
<1>2. CASE Usable(pd[Pde(q)])
  <2>1. pd[Pde(q)] \in DOMAIN ptes /\ pd[Pde(q)][1] = 1
    BY <1>1, <1>2 DEF TablesOk, Usable
  <2> QED BY <1>1, <1>2, <2>1 DEF TablesOk, PtesOk, Fr
<1> QED BY <1>2 DEF Fr
LEMMA InstallHeap == ASSUME LockInv, HeapInv, NEW t \in Thread, Install(t) PROVE HeapInv'
<1>1. PICK n, va, f, p, k : /\ n = Len(vals[t]) /\ va = vals[t][n - 2][1] /\ f = vals[t][n - 1][1]
                            /\ p = vals[t][n][1] /\ k = vals[t][n][2]
  OBVIOUS
<1>2. Does(t, "install")
  BY DEF Install
<1>3. /\ After(Head(todo[t]), Tail(todo[t])) /\ Finds(Head(todo[t]), vals[t]) /\ Head(todo[t])[1] = "install"
      /\ HeadOp(t) = "install"
  BY <1>2, StepFacts
<1>4. n \in Nat /\ n >= 3 /\ NewTable(vals[t][n - 2], vals[t][n - 1]) /\ IsPtObj(vals[t][n])
  BY <1>1, <1>3 DEF Finds
<1>5. Top(t) = vals[t][n] /\ Below(t) = vals[t][n - 1]
  BY <1>1 DEF Top, Last, Below
<1>6. /\ va \in VA /\ vals[t][n - 2] = <<va, -1>> /\ f \in 1 .. NRam /\ vals[t][n - 1] = <<f>>
      /\ Pde(va) # Pde(NVa - 1) /\ p \in VA \union {Static} /\ k \in Nat /\ vals[t][n] = <<p, k>>
  BY <1>1, <1>4, Tuples DEF NewTable, IsPage, IsFrame, IsPtObj
<1>7. ValAt(t, n - 2, <<va, -1>>) /\ ValAt(t, n - 1, <<f>>) /\ ValAt(t, n, <<p, k>>)
  BY <1>1, <1>4, <1>6, ValsTyped DEF ValAt
<1>8. SlabsOk /\ FramesOk /\ TablesOk /\ MapsOk /\ TokensOk
  BY DEF HeapInv
<1>9. Pde(va) \in Pdes /\ Pte(va) \in 0 .. NPte - 1
  BY <1>6, PdeOf
<1>10. CASE VaToPa(p) # "no"
  <2>1. Fail(VaToPa(p))
    BY <1>1, <1>5, <1>10 DEF Install
  <2> QED BY <2>1, FailHeap
<1>11. CASE VaToPa(p) = "no"
  <2>1. PICK pt : pt = <<Frame(p), k>>
    OBVIOUS
  <2>2. PICK new : new = [i \in 0 .. NPte - 1 |-> IF i = Pte(va) THEN f ELSE 0]
    OBVIOUS
  <2>3. /\ pd' = [pd EXCEPT ![Pde(va)] = pt] /\ ptes' = With(ptes, pt, new)
        /\ Pop(t, 1) /\ Then(t, <<>>)
        /\ UNCHANGED <<memory, vm_areas, frames, owner, live>>
    BY <1>1, <1>5, <1>11, <2>1, <2>2 DEF Install
  <2>4. UNCHANGED <<slabs, lists, slub_16byte_free, whole, ram, ram_map>>
    BY <2>3 DEF memory, frames
  <2>5. PICK sl \in DOMAIN slabs : slabs[sl].page = p /\ slabs[sl].size = PT
    <3>1. InstallsOk(t) /\ DoesNow(t, "install")
      BY <1>2, <1>3 DEF HeapInv, ThreadsOk, Does, DoesNow
    <3> QED BY <1>1, <1>5, <3>1 DEF InstallsOk
  <2>6. /\ pt = <<pt[1], pt[2]>> /\ pt[2] = k /\ pt[1] \in 1 .. NRam /\ pt[1] \in ram
        /\ ram_map[pt[1]].va = sl /\ ~ FrameVal(pt[1])
        /\ \A q \in VA : Tracked(q) /\ Fr(q) = pt[1] => q = p
    <3>1. pt[1] = Frame(p) /\ pt[2] = k /\ pt = <<pt[1], pt[2]>>
      BY <2>1, Tuples
    <3>2. CASE p = Static
      <4>1. pt[1] = 1 /\ sl = PtSl /\ ram_map[1].va = PtSl
        BY <1>8, <2>5, <3>1, <3>2, SlabFacts DEF Frame, FramesOk
      <4>2. 1 \in BootFrames /\ 1 \in ram /\ 1 \in 1 .. NRam
        BY <1>8, Numbers DEF FramesOk, BootFrames
      <4>3. ~ FrameVal(1)
        BY <1>8, <4>2 DEF MapsOk, FramesUsed
      <4>4. \A q \in VA : Fr(q) # 1
        BY <1>8, FrInRange
      <4> QED BY <3>1, <4>1, <4>2, <4>3, <4>4
    <3>3. CASE p # Static
      <4>1. p \in VA /\ SlabPage(p) /\ Tracked(p)
        BY <1>6, <2>5, <3>3 DEF Tracked, SlabPage
      <4>2. Frame(p) = Fr(p) /\ Fr(p) \in 2 .. NRam
        BY <1>8, <1>11, <4>1, LookedUp
      <4>3. Fr(p) \in ram /\ ram_map[Fr(p)].va = sl
        BY <1>8, <2>5, <4>1, <4>2 DEF MapsOk, FramesUsed, Leads
      <4>4. ~ FrameVal(Fr(p))
        <5>1. ~ PageVal(p)
          BY <4>1, PageNotSlab
        <5>2. Fr(p) # 0
          BY <4>2
        <5> QED BY <1>8, <4>1, <5>1, <5>2 DEF MapsOk, FrameBeside, FrameVal, PageVal
      <4>5. \A q \in VA : Tracked(q) /\ Fr(q) = Fr(p) => q = p
        BY <1>8, <4>1, <4>2 DEF MapsOk, OneFrame
      <4> QED BY <3>1, <4>2, <4>3, <4>4, <4>5
    <3> QED BY <3>2, <3>3
  <2>7. pt \notin DOMAIN ptes
    <3>1. ASSUME pt \in DOMAIN ptes PROVE FALSE
      <4>1. PtObject(pt) = <<p, k>>
        BY <2>5, <2>6 DEF PtObject
      <4>2. Has("pt", pt, 0, <<p, k>>) /\ Has("val", t, n, <<p, k>>)
        BY <1>7, <3>1, <4>1 DEF Has
      <4> QED BY <1>8, <4>2 DEF TokensOk, Own
    <3> QED BY <3>1
  <2>8. /\ DOMAIN ptes' = DOMAIN ptes \union {pt} /\ ptes'[pt] = new
        /\ \A e \in DOMAIN ptes : ptes'[e] = ptes[e] /\ e # pt
        /\ ptes' = [e \in DOMAIN ptes' |-> ptes'[e]]
    BY <2>3, <2>7 DEF With
  <2>9. /\ pd' = [x \in Pdes |-> pd'[x]]
        /\ \A x \in Pdes : pd'[x] = IF x = Pde(va) THEN pt ELSE pd[x]
    BY <1>8, <1>9, <2>3 DEF TablesOk
  <2>10. SlabsOk' /\ ListsOk' /\ SameSlabs /\ \A a, l : Filed(a, l)' = Filed(a, l)
    BY <2>4, SlabsStay
  <2>11. LowOk'
    BY <2>3, <2>4 DEF HeapInv, LowOk
  <2>12. FramesOk'
    BY <1>8, <2>3, FramesStay
  <2>13. \A q \in VA : IF Pde(q) = Pde(va) THEN Fr(q)' = 0 \/ (q = va /\ Fr(q)' = f) ELSE Fr(q)' = Fr(q)
    <3> SUFFICES ASSUME NEW q \in VA
                 PROVE  IF Pde(q) = Pde(va) THEN Fr(q)' = 0 \/ (q = va /\ Fr(q)' = f) ELSE Fr(q)' = Fr(q)
      OBVIOUS
    <3>1. Pde(q) \in Pdes /\ Pte(q) \in 0 .. NPte - 1 /\ q = Pde(q) * NPte + Pte(q)
      BY PdeOf
    <3>2. va = Pde(va) * NPte + Pte(va)
      BY <1>6, PdeOf
    <3>3. CASE Pde(q) = Pde(va)
      <4>1. Fr(q)' = IF Usable(pt) THEN ptes'[pt][Pte(q)] ELSE 0
        BY <2>9, <3>1, <3>3 DEF Fr, Usable, IsPt
      <4>2. ptes'[pt][Pte(q)] = IF Pte(q) = Pte(va) THEN f ELSE 0
        BY <2>2, <2>8, <3>1
      <4>3. Pte(q) = Pte(va) => q = va
        BY <3>1, <3>2, <3>3
      <4> QED BY <3>3, <4>1, <4>2, <4>3
    <3>4. CASE Pde(q) # Pde(va)
      <4>1. PICK e : e = pd[Pde(q)]
        OBVIOUS
      <4>2. pd'[Pde(q)] = e
        BY <2>9, <3>1, <3>4, <4>1
      <4>3. Fr(q)' = IF Usable(e) THEN ptes'[e][Pte(q)] ELSE 0
        BY <4>2 DEF Fr, Usable, IsPt
      <4>4. Usable(e) => e \in DOMAIN ptes
        BY <1>8, <3>1, <4>1 DEF TablesOk, Usable
      <4> QED BY <2>8, <3>4, <4>1, <4>3, <4>4 DEF Fr
    <3> QED BY <3>3, <3>4
  <2>14. f \in ram \ BootFrames /\ f \in 2 .. NRam /\ FrameVal(f)
    <3>1. FrameVal(f)
      BY <1>7 DEF FrameVal
    <3>2. f \in ram \ BootFrames
      BY <1>8, <3>1 DEF MapsOk, FramesUsed
    <3>3. 1 \in BootFrames
      BY Numbers DEF BootFrames
    <3>4. f # 1
      BY <3>2, <3>3
    <3> QED BY <1>6, <3>1, <3>2, <3>4, Numbers
  <2>15. TablesOk'
    <3>1. PtesOk'
      <4> SUFFICES ASSUME NEW e \in DOMAIN ptes \union {pt}
                   PROVE  /\ e = <<e[1], e[2]>> /\ e[1] \in 1 .. NRam
                          /\ ptes'[e] = [j \in 0 .. NPte - 1 |-> ptes'[e][j]]
                          /\ e[1] = 1 => \A j \in 0 .. NPte - 1 : ptes'[e][j] \in {0} \union 2 .. NRam
        BY <2>8 DEF PtesOk
      <4>1. CASE e = pt
        BY <2>2, <2>6, <2>8, <2>14, <4>1
      <4>2. CASE e \in DOMAIN ptes
        <5>1. /\ e = <<e[1], e[2]>> /\ e[1] \in 1 .. NRam
              /\ ptes[e] = [j \in 0 .. NPte - 1 |-> ptes[e][j]]
              /\ e[1] = 1 => \A j \in 0 .. NPte - 1 : ptes[e][j] \in {0} \union 2 .. NRam
          BY <1>8, <4>2 DEF TablesOk, PtesOk
        <5> QED BY <2>8, <4>2, <5>1
      <4> QED BY <4>1, <4>2
    <3>2. (pd = [x \in Pdes |-> pd[x]])'
      BY <2>9
    <3>3. NVa - 1 \in VA
      BY SlubConstants DEF VA
    <3>4. (pd[Pde(NVa - 1)] = <<1, 0>>)'
      BY <1>6, <1>8, <2>9, <3>3, PdeOf DEF TablesOk
    <3>5. (\A x \in Pdes : IsPt(pd[x]) => pd[x] \in DOMAIN ptes)'
      BY <1>8, <2>8, <2>9 DEF TablesOk, IsPt
    <3>6. (\A x, y \in Pdes : Usable(pd[x]) /\ pd[x] = pd[y] => x = y)'
      <4> SUFFICES ASSUME NEW x \in Pdes, NEW y \in Pdes, Usable(pd'[x]), pd'[x] = pd'[y] PROVE x = y
        BY DEF Usable, IsPt
      <4>1. \A z \in Pdes : Usable(pd[z]) => pd[z] \in DOMAIN ptes
        BY <1>8 DEF TablesOk, Usable
      <4>2. CASE x # Pde(va) /\ y # Pde(va)
        BY <1>8, <2>9, <4>2 DEF TablesOk
      <4>3. CASE x = Pde(va) \/ y = Pde(va)
        BY <2>7, <2>9, <4>1, <4>3
      <4> QED BY <4>2, <4>3
    <3>7. (\A j \in Size : Fr(BootPage(j)) = j + 2)'
      <4>1. \A j \in Size : BootPage(j) \in VA /\ Pde(BootPage(j)) # Pde(va)
        BY <1>6, BootTable
      <4> QED BY <1>8, <2>13, <4>1 DEF TablesOk
    <3> QED BY <3>1, <3>2, <3>4, <3>5, <3>6, <3>7 DEF TablesOk
  <2>16. /\ ValAt(t, n, <<p, k>>) /\ Top(t) = <<p, k>> /\ Len(vals[t]) >= 1
         /\ \A u, i, q : ValAt(u, i, q)' <=> ValAt(u, i, q) /\ ~ (u = t /\ i > n - 1)
         /\ \A i, q : i > n - 1 /\ ValAt(t, i, q) => i = n /\ q = Top(t)
    BY <1>1, <1>4, <1>5, <1>6, <1>7, <2>3, PopOne
  <2>17. SamePages
    <3>1. \A i, q : i > n - 1 /\ ValAt(t, i, q) => Object(q)
      BY <1>6, <2>16 DEF Object
    <3> QED BY <2>16, <3>1, SameByPop
  <2>18. MapsOk'
    <3>1. Remap(va, f)
      BY <2>13 DEF Remap
    <3>2. n - 2 \in Nat /\ ValAt(t, (n - 2) + 1, <<f>>) /\ UNCHANGED frames
      BY <1>4, <1>7, <2>3
    <3>3. /\ OneFrame' /\ FrameBeside' /\ FramesUsed' /\ WholeFirst' /\ Leads'
          /\ \A e \in DOMAIN ptes, q \in VA : Tracked(q)' /\ Fr(q)' = e[1] => q = slabs[ram_map[e[1]].va].page
      BY <1>6, <1>7, <2>10, <2>17, <3>1, <3>2, MapsRemapped
    <3>4. (\A x : FrameVal(x)' <=> FrameVal(x)) /\ (\A x : PageVal(x)' <=> PageVal(x))
      BY <2>17 DEF SamePages, FrameVal, PageVal
    <3>5. \A q \in VA : Tracked(q)' /\ Fr(q)' = pt[1] => q = p
      <4> SUFFICES ASSUME NEW q \in VA, Tracked(q)', Fr(q)' = pt[1] PROVE q = p
        OBVIOUS
      <4>1. Tracked(q)
        BY <2>10, <3>4, SlabPageSame DEF Tracked
      <4>2. pt[1] # 0 /\ pt[1] # f
        BY <2>6, <2>14
      <4>3. Fr(q) = pt[1]
        BY <2>13, <4>2
      <4> QED BY <2>6, <4>1, <4>3
    <3>6. TableFrames'
      <4> SUFFICES ASSUME NEW e \in DOMAIN ptes \union {pt}
                   PROVE  /\ e[1] \in ram /\ ~ FrameVal(e[1])'
                          /\ ram_map[e[1]].va \in DOMAIN slabs /\ slabs[ram_map[e[1]].va].size = PT
                          /\ \A q \in VA : Tracked(q)' /\ Fr(q)' = e[1] => q = slabs[ram_map[e[1]].va].page
        BY <2>4, <2>8 DEF TableFrames
      <4>1. CASE e = pt
        BY <2>5, <2>6, <3>4, <3>5, <4>1
      <4>2. CASE e \in DOMAIN ptes
        <5>1. /\ e[1] \in ram /\ ~ FrameVal(e[1])
              /\ ram_map[e[1]].va \in DOMAIN slabs /\ slabs[ram_map[e[1]].va].size = PT
          BY <1>8, <4>2 DEF MapsOk, TableFrames
        <5> QED BY <3>3, <3>4, <4>2, <5>1
      <4> QED BY <4>1, <4>2
    <3> QED BY <3>3, <3>6 DEF MapsOk
  <2>19. TokensOk' /\ \A q : Held(q)' <=> Held(q)
    <3>1. \A d : PtObject(d)' = PtObject(d)
      BY <2>4 DEF PtObject
    <3>2. PtObject(pt) = <<p, k>>
      BY <2>5, <2>6 DEF PtObject
    <3>3. OtherAdded("pt", pt, 0, <<p, k>>)
      <4> SUFFICES ASSUME NEW a, NEW b, NEW c, NEW q, a # "val"
                   PROVE  Has(a, b, c, q)' <=> Has(a, b, c, q) \/ (a = "pt" /\ b = pt /\ c = 0 /\ q = <<p, k>>)
        BY DEF OtherAdded
      <4>1. CASE a = "pt"
        BY <2>8, <3>1, <3>2, <4>1 DEF Has
      <4>2. CASE a # "pt"
        BY <2>3, <2>4, <4>2 DEF Has, OnChain, IsSeg
      <4> QED BY <4>1, <4>2
    <3>4. PICK q0 : q0 = <<p, k>>
      OBVIOUS
    <3>5. MovedTo(q0, "pt", pt, 0) /\ Held(q0)
      BY <2>3, <2>16, <3>3, <3>4, TopMoved
    <3>6. \A q : PageVal(q)' => PageVal(q)
      BY <2>17 DEF SamePages, PageVal
    <3> QED BY <2>10, <3>5, <3>6, TokensMoved
  <2>20. SameOthers(t) /\ \A q : Pending(q) => Pending(q)'
    <3>1. SameOthers(t)
      BY <2>3, OnlyMine DEF SameOthers, LockInv
    <3>2. owner[VM] = t => owner[C16] # t /\ HeadOp(t) \notin {"alloc", "seg"}
      BY <1>2, NotHolding
    <3> QED BY <2>3, <3>1, <3>2, PendingStays
  <2>21. KnownOk'
    <3>1. \A q \in VA : Used(q)' => Used(q)
      <4>1. Used(va)
        <5>1. Held(<<va, -1>>)
          BY <1>7 DEF Held, Has
        <5> QED BY <5>1 DEF Used
      <4> QED BY <2>13, <2>19, <4>1 DEF Used
    <3> QED BY <2>3, <2>20, <3>1, KnownStays DEF HeapInv
  <2>22. ThreadsOk'
    <3>1. Begins(Tail(todo[t]), {"alloc"})
      BY <1>3 DEF After
    <3>2. {"alloc"} \intersect Acting = {} /\ "install" # "alloc"
      BY DEF Acting
    <3>3. NowOk(t)'
      BY <1>2, <2>3, <3>1, <3>2, QuietNext
    <3> QED BY <2>10, <2>20, <3>3, ThreadsFollow
  <2>23. LiveOk' /\ StructsOk'
    <3>1. LiveOk /\ StructsOk /\ live' \subseteq live
      BY <2>3 DEF HeapInv
    <3> QED BY <2>3, <2>4, <2>10, <3>1, LiveStays, StructsSame
  <2> QED BY <2>10, <2>11, <2>12, <2>15, <2>18, <2>19, <2>21, <2>22, <2>23 DEF HeapInv
<1> QED BY <1>10, <1>11

-----------------------------------------------------------------------------
(* The structure of a whole page.                                          *)

LEMMA PopPair ==
    ASSUME LockInv, NEW t \in Thread, NEW n, n = Len(vals[t]), n >= 2, Pop(t, 2)
    PROVE  \A u, i, q : ValAt(u, i, q)' <=> ValAt(u, i, q) /\ ~ (u = t /\ (i = n - 1 \/ i = n))
<1>1. n \in Nat /\ DOMAIN vals[t] = 1 .. n
  BY ValsTyped
<1>2. \A u, i, q : ValAt(u, i, q)' <=> ValAt(u, i, q) /\ ~ (u = t /\ i > n - 2)
  BY Popped
<1>3. \A i, q : ValAt(t, i, q) => (i > n - 2 <=> i = n - 1 \/ i = n)
  BY <1>1 DEF ValAt
<1> QED BY <1>2, <1>3

\* An object changes hands, and what is no object of a slab's page goes.
MovedLost(q0, k1, a1, b1, q1) == \A k, a, b, q :
    Has(k, a, b, q)' <=> IF q = q0 THEN k = k1 /\ a = a1 /\ b = b1 ELSE q # q1 /\ Has(k, a, b, q)

LEMMA TokensMovedLost ==
    ASSUME HeapInv, SameSlabs, NEW q0, NEW k1, NEW a1, NEW b1, NEW q1, MovedLost(q0, k1, a1, b1, q1),
           Held(q0), q0 # q1, Bystander(q1), \A q : PageVal(q)' => PageVal(q)
    PROVE  TokensOk' /\ \A q : Held(q)' <=> Held(q) /\ q # q1
<1>1. TokensOk /\ SlabsOk
  BY DEF HeapInv
<1>2. Own'
  BY <1>1 DEF TokensOk, Own, MovedLost
<1>3. \A q : Held(q)' <=> Held(q) /\ q # q1
  BY DEF Held, MovedLost
<1>4. \A sl \in DOMAIN slabs, k \in Nat : Held(<<slabs[sl].page, k>>) => Held(<<slabs[sl].page, k>>)'
  <2> SUFFICES ASSUME NEW sl \in DOMAIN slabs, NEW k \in Nat, Held(<<slabs[sl].page, k>>)
               PROVE  Held(<<slabs[sl].page, k>>)'
    OBVIOUS
  <2>1. PICK x : x = <<slabs[sl].page, k>>
    OBVIOUS
  <2>2. slabs'[sl].page = slabs[sl].page
    BY DEF SameSlabs
  <2>3. x # q1
    BY <2>1 DEF Bystander
  <2>4. Held(x)'
    BY <1>3, <2>1, <2>3
  <2> QED BY <2>1, <2>2, <2>4
<1>5. \A q : Held(q)' => Held(q)
  BY <1>3
<1>6. TokensOk'
  BY <1>1, <1>2, <1>4, <1>5, TokensFollow
<1> QED BY <1>3, <1>6

LEMMA TrackHeap == ASSUME LockInv, HeapInv, NEW t \in Thread, Track(t) PROVE HeapInv'
<1>1. PICK n, p, f, s : n = Len(vals[t]) /\ p = vals[t][n - 2][1] /\ f = vals[t][n - 1][1] /\ s = vals[t][n]
  OBVIOUS
<1>2. Does(t, "track")
  BY DEF Track
<1>3. /\ After(Head(todo[t]), Tail(todo[t])) /\ Finds(Head(todo[t]), vals[t]) /\ Head(todo[t])[1] = "track"
      /\ HeadOp(t) = "track"
  BY <1>2, StepFacts
<1>4. n \in Nat /\ n >= 3 /\ Mapping(vals[t][n - 2], vals[t][n - 1]) /\ IsStruct(s)
  BY <1>1, <1>3 DEF Finds
<1>5. Top(t) = s /\ Below(t) = vals[t][n - 1]
  BY <1>1 DEF Top, Last, Below
<1>6. /\ p \in VA /\ vals[t][n - 2] = <<p, -1>> /\ f \in 1 .. NRam /\ vals[t][n - 1] = <<f>>
      /\ Object(s)
  BY <1>1, <1>4, Tuples, KindsAreObjects DEF Mapping, IsPage, IsFrame
<1>7. ValAt(t, n - 2, <<p, -1>>) /\ ValAt(t, n - 1, <<f>>) /\ ValAt(t, n, s)
  BY <1>1, <1>4, <1>6, ValsTyped DEF ValAt
<1>8. SlabsOk /\ FramesOk /\ TablesOk /\ MapsOk /\ TokensOk
  BY DEF HeapInv
<1>9. /\ ram_map' = [ram_map EXCEPT ![f] = [lsize |-> @.lsize \union {WHOLE}, va |-> s]]
      /\ whole' = whole \union {s} /\ Pop(t, 2) /\ Then(t, <<>>)
      /\ UNCHANGED <<slabs, lists, slub_16byte_free, vm_areas, tables, ram, owner, live>>
  BY <1>1, <1>5 DEF Track, AddSize
<1>10. UNCHANGED <<pd, ptes>>
  BY <1>9 DEF tables
<1>11. SlabsOk' /\ ListsOk' /\ SameSlabs /\ \A a, l : Filed(a, l)' = Filed(a, l)
  BY <1>9, SlabsStay
<1>12. LowOk'
  BY <1>9 DEF HeapInv, LowOk
<1>13. f \in ram \ BootFrames /\ FrameVal(f)
  <2>1. FrameVal(f)
    BY <1>7 DEF FrameVal
  <2> QED BY <1>8, <2>1 DEF MapsOk, FramesUsed
<1>14. \A g \in 1 .. NRam : /\ g # f => ram_map'[g] = ram_map[g]
                            /\ ram_map'[f].lsize = ram_map[f].lsize \union {WHOLE} /\ ram_map'[f].va = s
                            /\ ram_map'[f] = [lsize |-> ram_map'[f].lsize, va |-> ram_map'[f].va]
  BY <1>6, <1>8, <1>9 DEF FramesOk
<1>15. s \notin DOMAIN slabs
  <2>1. Has("val", t, n, s)
    BY <1>7 DEF Has
  <2>2. s \in DOMAIN slabs => Has("slab", 0, 0, s)
    BY DEF Has
  <2> QED BY <1>8, <2>1, <2>2 DEF TokensOk, Own
<1>16. FramesOk'
  <2>1. BootFrames \subseteq 1 .. NRam /\ 1 \in BootFrames /\ \A i \in Size : i + 2 \in BootFrames
    BY <1>8, Numbers DEF FramesOk, BootFrames
  <2>2. ram_map' = [x \in 1 .. NRam |-> ram_map'[x]]
    BY <1>8, <1>9 DEF FramesOk
  <2>3. \A x \in 1 .. NRam : ram_map'[x] = [lsize |-> ram_map'[x].lsize, va |-> ram_map'[x].va]
    BY <1>8, <1>14 DEF FramesOk
  <2>4. \A x \in BootFrames : ram_map'[x] = ram_map[x]
    BY <1>13, <1>14, <2>1
  <2>5. \A x \in 1 .. NRam : x \notin BootFrames =>
            /\ ram_map'[x].lsize = {} \/ WHOLE \in ram_map'[x].lsize
            /\ ram_map'[x].va # NoPt => WHOLE \in ram_map'[x].lsize
            /\ ram_map'[x].va \notin BootSlabs
    <3> SUFFICES ASSUME NEW x \in 1 .. NRam, x \notin BootFrames
                 PROVE  /\ ram_map'[x].lsize = {} \/ WHOLE \in ram_map'[x].lsize
                        /\ ram_map'[x].va # NoPt => WHOLE \in ram_map'[x].lsize
                        /\ ram_map'[x].va \notin BootSlabs
      OBVIOUS
    <3>1. CASE x = f
      <4>1. WHOLE \in ram_map'[x].lsize /\ ram_map'[x].va = s
        BY <1>14, <3>1
      <4>2. s \notin BootSlabs
        BY <1>8, <1>15, BootFacts
      <4> QED BY <4>1, <4>2
    <3>2. CASE x # f
      BY <1>8, <1>14, <3>2 DEF FramesOk
    <3> QED BY <3>1, <3>2
  <2>6. ram' \subseteq 1 .. NRam /\ BootFrames \subseteq ram'
    BY <1>8, <1>9 DEF FramesOk
  <2> QED BY <1>8, <2>1, <2>2, <2>3, <2>4, <2>5, <2>6 DEF FramesOk
<1>17. TablesOk' /\ \A q : Fr(q)' = Fr(q)
  BY <1>8, <1>9, TablesStay
<1>18. \A u, i, q : ValAt(u, i, q)' <=> ValAt(u, i, q) /\ ~ (u = t /\ (i = n - 1 \/ i = n))
  <2>1. n >= 2
    BY <1>4
  <2> QED BY <1>1, <1>9, <2>1, PopPair
<1>19. /\ \A q : ValAt(t, n - 1, q) => q = <<f>>
       /\ \A q : ValAt(t, n, q) => q = s
  BY <1>7 DEF ValAt
<1>20. /\ \A u, i, q : ValAt(u, i, <<q, -1>>)' <=> ValAt(u, i, <<q, -1>>)
       /\ \A q : PageVal(q)' <=> PageVal(q)
       /\ \A u, i, g : ValAt(u, i, <<g>>)' <=> ValAt(u, i, <<g>>) /\ ~ (u = t /\ i = n - 1)
       /\ \A g : FrameVal(g)' => FrameVal(g)
  <2>1. \A q : s # <<q, -1>> /\ s # <<q>>
    BY <1>6, ObjectsDiffer
  <2>2. \A u, i, q : ValAt(u, i, <<q, -1>>)' <=> ValAt(u, i, <<q, -1>>)
    BY <1>18, <1>19, <2>1, Tuples
  <2>3. \A u, i, g : ValAt(u, i, <<g>>)' <=> ValAt(u, i, <<g>>) /\ ~ (u = t /\ i = n - 1)
    BY <1>18, <1>19, <2>1
  <2> QED BY <2>2, <2>3 DEF PageVal, FrameVal
<1>21. \A q : Tracked(q)' <=> Tracked(q)
  BY <1>11, <1>20, SlabPageSame DEF Tracked
<1>22. \A d \in DOMAIN ptes : ram_map'[d[1]] = ram_map[d[1]]
  <2>1. \A d \in DOMAIN ptes : d[1] \in 1 .. NRam /\ d[1] # f
    BY <1>8, <1>13 DEF MapsOk, TableFrames, TablesOk, PtesOk
  <2> QED BY <1>14, <2>1
<1>23. MapsOk'
  <2>1. OneFrame'
    BY <1>8, <1>17, <1>21 DEF MapsOk, OneFrame
  <2>2. FrameBeside'
    <3> SUFFICES ASSUME NEW q \in VA, Tracked(q)', Fr(q)' # 0, NEW u, NEW i, ValAt(u, i, <<Fr(q)>>)'
                 PROVE  ValAt(u, i - 1, <<q, -1>>)'
      BY DEF FrameBeside
    <3>1. PICK g : g = Fr(q)
      OBVIOUS
    <3>2. Tracked(q) /\ Fr(q) # 0 /\ ValAt(u, i, <<g>>)'
      BY <1>17, <1>21, <3>1
    <3>3. ValAt(u, i, <<g>>)
      BY <1>20, <3>2
    <3>4. ValAt(u, i - 1, <<q, -1>>)
      BY <1>8, <3>1, <3>2, <3>3 DEF MapsOk, FrameBeside
    <3> QED BY <1>20, <3>4
  <2>3. FramesUsed'
    <3>1. \A x : FrameVal(x)' => x \in ram' \ BootFrames
      BY <1>8, <1>9, <1>20 DEF MapsOk, FramesUsed
    <3>2. \A q \in VA : Tracked(q)' /\ Fr(q)' # 0 =>
             Fr(q)' \in ram' /\ (Fr(q)' \in BootFrames => \E i \in Size : q = BootPage(i))
      BY <1>8, <1>9, <1>17, <1>21 DEF MapsOk, FramesUsed
    <3> QED BY <3>1, <3>2 DEF FramesUsed
  <2>4. WholeFirst'
    <3> SUFFICES ASSUME NEW u, NEW i, NEW q \in VA, ValAt(u, i, <<q, -1>>)', Fr(q)' # 0
                 PROVE  WHOLE \in ram_map'[Fr(q)'].lsize \/ ValAt(u, i + 1, <<Fr(q)>>)'
      BY DEF WholeFirst
    <3>1. PICK g : g = Fr(q)
      OBVIOUS
    <3>2. ValAt(u, i, <<q, -1>>) /\ Fr(q) # 0 /\ Fr(q)' = g
      BY <1>17, <1>20, <3>1
    <3>3. Tracked(q)
      BY <3>2 DEF Tracked, PageVal
    <3>4. g \in 1 .. NRam
      BY <1>8, <3>1, <3>2, <3>3 DEF MapsOk, FramesUsed, FramesOk
    <3>5. WHOLE \in ram_map[g].lsize \/ ValAt(u, i + 1, <<g>>)
      BY <1>8, <3>1, <3>2 DEF MapsOk, WholeFirst
    <3>6. CASE WHOLE \in ram_map[g].lsize
      <4>1. WHOLE \in ram_map'[g].lsize
        BY <1>14, <3>4, <3>6
      <4> QED BY <3>2, <4>1
    <3>7. CASE ValAt(u, i + 1, <<g>>)
      <4>1. CASE u = t /\ i + 1 = n - 1
        <5>1. g = f
          BY <1>19, <3>7, <4>1, Tuples
        <5>2. WHOLE \in ram_map'[g].lsize
          BY <1>14, <3>4, <5>1
        <5> QED BY <3>2, <5>2
      <4>2. CASE ~ (u = t /\ i + 1 = n - 1)
        <5>1. ValAt(u, i + 1, <<g>>)'
          BY <1>20, <3>7, <4>2
        <5> QED BY <3>2, <5>1
      <4> QED BY <4>1, <4>2
    <3> QED BY <3>5, <3>6, <3>7
  <2>5. Leads'
    <3> SUFFICES ASSUME NEW sl \in DOMAIN slabs, slabs[sl].page \in VA, Fr(slabs[sl].page)' # 0
                 PROVE  ram_map'[Fr(slabs[sl].page)'].va = sl
      BY <1>9, <1>11 DEF Leads
    <3>1. PICK x : x = slabs[sl].page
      OBVIOUS
    <3>2. x \in VA /\ Fr(x)' = Fr(x) /\ Fr(x) # 0 /\ Tracked(x) /\ ~ PageVal(x)
      <4>1. SlabPage(x)
        BY <3>1 DEF SlabPage
      <4> QED BY <1>9, <1>17, <3>1, <4>1, PageNotSlab DEF Tracked
    <3>3. Fr(x) # f
      <4>1. Fr(x) = f => ValAt(t, (n - 1) - 1, <<x, -1>>)
        BY <1>7, <1>8, <3>2 DEF MapsOk, FrameBeside
      <4> QED BY <3>2, <4>1 DEF PageVal
    <3>4. ram_map[Fr(x)].va = sl /\ Fr(x) \in 1 .. NRam
      BY <1>8, <3>1, <3>2 DEF MapsOk, Leads, FramesUsed, FramesOk
    <3>5. ram_map'[Fr(x)].va = sl
      BY <1>14, <3>3, <3>4
    <3> QED BY <1>9, <3>1, <3>2, <3>5
  <2>6. TableFrames'
    <3> SUFFICES ASSUME NEW d \in DOMAIN ptes
                 PROVE  /\ d[1] \in ram /\ ~ FrameVal(d[1])'
                        /\ ram_map'[d[1]].va \in DOMAIN slabs /\ slabs[ram_map'[d[1]].va].size = PT
                        /\ \A q \in VA : Tracked(q)' /\ Fr(q)' = d[1] => q = slabs[ram_map'[d[1]].va].page
      BY <1>9, <1>10 DEF TableFrames
    <3>1. /\ d[1] \in ram /\ ~ FrameVal(d[1])
          /\ ram_map[d[1]].va \in DOMAIN slabs /\ slabs[ram_map[d[1]].va].size = PT
          /\ \A q \in VA : Tracked(q) /\ Fr(q) = d[1] => q = slabs[ram_map[d[1]].va].page
      BY <1>8 DEF MapsOk, TableFrames
    <3> QED BY <1>17, <1>20, <1>21, <1>22, <3>1
  <2> QED BY <2>1, <2>2, <2>3, <2>4, <2>5, <2>6 DEF MapsOk
<1>24. TokensOk' /\ \A q : Held(q)' => Held(q)
  <2>1. \A d \in DOMAIN ptes : PtObject(d)' = PtObject(d)
    BY <1>9, <1>22 DEF PtObject
  <2>2. Has("val", t, n, s) /\ Has("val", t, n - 1, <<f>>)
    BY <1>7 DEF Has
  <2>3. \A k, a, b : Has(k, a, b, s) => k = "val" /\ a = t /\ b = n
    BY <1>8, <2>2 DEF TokensOk, Own
  <2>4. \A k, a, b : Has(k, a, b, <<f>>) => k = "val" /\ a = t /\ b = n - 1
    BY <1>8, <2>2 DEF TokensOk, Own
  <2>5. s # <<f>>
    BY <1>6, ObjectsDiffer
  <2>6. PICK g : g = <<f>>
    OBVIOUS
  <2>7. MovedLost(s, "whole", 0, 0, g)
    <3> SUFFICES ASSUME NEW k, NEW a, NEW b, NEW q
                 PROVE  Has(k, a, b, q)' <=> IF q = s THEN k = "whole" /\ a = 0 /\ b = 0 ELSE q # g /\ Has(k, a, b, q)
      BY DEF MovedLost
    <3>1. CASE k = "val"
      <4>1. Has(k, a, b, q)' <=> ValAt(a, b, q)'
        BY <3>1 DEF Has
      <4>2. Has(k, a, b, q) <=> ValAt(a, b, q)
        BY <3>1 DEF Has
      <4>3. q = s => ~ ValAt(a, b, q)'
        BY <1>18, <2>3, <3>1, <4>2
      <4>4. q = g => ~ ValAt(a, b, q)'
        BY <1>18, <2>4, <2>6, <3>1, <4>2
      <4>5. q # s /\ q # g => (ValAt(a, b, q)' <=> ValAt(a, b, q))
        BY <1>18, <1>19, <2>6
      <4>6. k # "whole"
        BY <3>1
      <4> QED BY <4>1, <4>2, <4>3, <4>4, <4>5, <4>6
    <3>2. CASE k = "whole"
      <4>1. Has(k, a, b, q)' <=> a = 0 /\ b = 0 /\ (q \in whole \/ q = s)
        BY <1>9, <3>2 DEF Has
      <4>2. Has(k, a, b, q) <=> a = 0 /\ b = 0 /\ q \in whole
        BY <3>2 DEF Has
      <4>3. q = g => ~ Has(k, a, b, q)
        BY <2>4, <2>6, <3>2
      <4> QED BY <2>5, <2>6, <3>2, <4>1, <4>2, <4>3
    <3>3. CASE k \notin {"val", "whole"}
      <4>1. Has(k, a, b, q)' <=> Has(k, a, b, q)
        BY <1>9, <1>10, <2>1, <3>3 DEF Has, OnChain, IsSeg
      <4>2. q = g \/ q = s => ~ Has(k, a, b, q)
        BY <2>3, <2>4, <2>6, <3>3
      <4> QED BY <3>3, <4>1, <4>2
    <3> QED BY <3>1, <3>2, <3>3
  <2>8. Held(s) /\ s # g
    BY <2>2, <2>5, <2>6 DEF Held
  <2>9. Bystander(g)
    BY <2>6, Tuples DEF Bystander
  <2>10. \A q : PageVal(q)' => PageVal(q)
    BY <1>20
  <2>11. TokensOk' /\ \A q : Held(q)' <=> Held(q) /\ q # g
    BY <1>11, <2>7, <2>8, <2>9, <2>10, TokensMovedLost
  <2> QED BY <2>11
<1>25. SameOthers(t) /\ \A q : Pending(q) => Pending(q)'
  <2>1. SameOthers(t)
    BY <1>9, OnlyMine DEF SameOthers, LockInv
  <2>2. owner[VM] = t => owner[C16] # t /\ HeadOp(t) \notin {"alloc", "seg"}
    BY <1>2, NotHolding
  <2> QED BY <1>9, <2>1, <2>2, PendingStays
<1>26. KnownOk'
  <2>1. \A q \in VA : Used(q)' => Used(q)
    BY <1>17, <1>24 DEF Used
  <2> QED BY <1>9, <1>25, <2>1, KnownStays DEF HeapInv
<1>27. ThreadsOk'
  <2>1. todo'[t] = Tail(todo[t])
    BY <1>2, <1>9, TailNext
  <2>2. (todo'[t] # <<>> /\ Head(todo'[t]) = <<"give", WHOLE>>) \/ Begins(todo'[t], {"init1"})
    BY <1>3, <2>1 DEF After
  <2>3. NowOk(t)'
    <3>1. CASE Begins(todo'[t], {"init1"})
      <4>1. {"init1"} \intersect Acting = {}
        BY DEF Acting
      <4> QED BY <3>1, <4>1, QuietBegins, QuietHead
    <3>2. CASE Head(todo'[t]) = <<"give", WHOLE>>
      <4>1. Head(todo'[t])[1] = "give" /\ Head(todo'[t])[2] = WHOLE
        BY <3>2, Tuples
      <4> QED BY <4>1 DEF NowOk, GivesOk, InstallsOk, TakesOk, DoesNow, HeadOp, Arg
    <3> QED BY <2>2, <3>1, <3>2
  <2> QED BY <1>11, <1>25, <2>3, ThreadsFollow
<1>28. LiveOk' /\ StructsOk'
  <2>1. LiveOk /\ StructsOk /\ live' \subseteq live
    BY <1>9 DEF HeapInv
  <2>2. StructsOk'
    BY <1>4, <1>9, <2>1 DEF StructsOk, IsSeg
  <2> QED BY <1>11, <2>1, <2>2, LiveStays
<1> QED BY <1>11, <1>12, <1>16, <1>17, <1>23, <1>24, <1>26, <1>27, <1>28 DEF HeapInv

-----------------------------------------------------------------------------
(* A new slab.                                                             *)

\* A structure becomes that of a slab of the page p with n objects, all free.
SlabMade(s, p, n) == \A k, a, b, q :
    Has(k, a, b, q)' <=> IF q = s THEN k = "slab" /\ a = 0 /\ b = 0
                         ELSE IF q = <<p, -1>> THEN FALSE
                         ELSE Has(k, a, b, q) \/ (k = "free" /\ a = s /\ b = 0 /\ \E j \in 0 .. n - 1 : q = <<p, j>>)

SlabsPlus(s, p, c) ==
    /\ DOMAIN slabs' = DOMAIN slabs \union {s} /\ s \notin DOMAIN slabs
    /\ \A sl \in DOMAIN slabs : slabs'[sl] = slabs[sl]
    /\ slabs'[s] = [size |-> c, page |-> p, nfree |-> NObj[c], chain |-> [i \in 1 .. NObj[c] |-> i - 1]]
    /\ slabs' = [sl \in DOMAIN slabs' |-> slabs'[sl]]

LEMMA NewChain ==
    ASSUME NEW n \in Nat, NEW ch, ch = [i \in 1 .. n |-> i - 1]
    PROVE  /\ ch \in Seq(Nat) /\ Len(ch) = n /\ IsInjective(ch) /\ DOMAIN ch = 1 .. n
           /\ \A x : (\E i \in DOMAIN ch : x = ch[i]) <=> x \in 0 .. n - 1
<1>1. DOMAIN ch = 1 .. n /\ \A i \in 1 .. n : ch[i] = i - 1
  OBVIOUS
<1>2. ch \in Seq(Nat) /\ Len(ch) = n
  OBVIOUS
<1>3. IsInjective(ch)
  BY <1>1 DEF IsInjective
<1>4. \A x : (\E i \in DOMAIN ch : x = ch[i]) <=> x \in 0 .. n - 1
  <2> SUFFICES ASSUME NEW x PROVE (\E i \in DOMAIN ch : x = ch[i]) <=> x \in 0 .. n - 1
    OBVIOUS
  <2>1. ASSUME x \in 0 .. n - 1 PROVE \E i \in DOMAIN ch : x = ch[i]
    <3>1. x + 1 \in 1 .. n /\ ch[x + 1] = x
      BY <1>1, <2>1
    <3> QED BY <1>1, <3>1
  <2>2. ASSUME NEW i \in DOMAIN ch, x = ch[i] PROVE x \in 0 .. n - 1
    BY <1>1, <2>2
  <2> QED BY <2>1, <2>2
<1> QED BY <1>1, <1>2, <1>3, <1>4

LEMMA SlabsMore ==
    ASSUME SlabsOk, NEW s, NEW p \in VA, NEW c \in (Size \ {C16}) \union {PT}, IsStruct(s), ~ SlabPage(p), SlabsPlus(s, p, c)
    PROVE  /\ SlabsOk'
           /\ \A d, l, x : x \in Filed(d, l)' <=> IF x = s THEN d = c /\ l = "free" ELSE x \in Filed(d, l)
<1>1. /\ NObj[c] \in Nat /\ 2 <= NObj[c] /\ c # C16 /\ C16 \in Size /\ c \in Size \union {PT} /\ Static \notin VA
  BY Numbers
<1>2. PICK ch : ch = [i \in 1 .. NObj[c] |-> i - 1]
  OBVIOUS
<1>3. ch \in Seq(Nat) /\ Len(ch) = NObj[c] /\ IsInjective(ch)
  BY <1>1, <1>2, NewChain
<1>4. /\ slabs'[s].size = c /\ slabs'[s].page = p /\ slabs'[s].nfree = NObj[c] /\ slabs'[s].chain = ch
      /\ slabs'[s] = [size |-> c, page |-> p, nfree |-> NObj[c], chain |-> ch]
  BY <1>2 DEF SlabsPlus
<1>5. s # PtSl
  BY Numbers, Tuples DEF PtSl, IsStruct
<1>6. \A sl \in DOMAIN slabs' : SlabOk(sl)'
  <2> SUFFICES ASSUME NEW sl \in DOMAIN slabs' PROVE SlabOk(sl)'
    OBVIOUS
  <2>1. CASE sl = s
    <3>1. slabs'[s] \in SlabRec
      BY <1>1, <1>3, <1>4 DEF SlabRec
    <3>2. slabs'[s].page # Static /\ slabs'[s].size # C16
      BY <1>1, <1>4
    <3> QED BY <1>3, <1>4, <1>5, <2>1, <3>1, <3>2 DEF SlabOk
  <2>2. CASE sl # s
    <3>1. sl \in DOMAIN slabs /\ slabs'[sl] = slabs[sl] /\ SlabOk(sl)
      BY <2>2 DEF SlabsPlus, SlabsOk
    <3> QED BY <3>1 DEF SlabOk
  <2> QED BY <2>1, <2>2
<1>7. \A a, b \in DOMAIN slabs' : slabs'[a].page = slabs'[b].page => a = b
  <2> SUFFICES ASSUME NEW a \in DOMAIN slabs', NEW b \in DOMAIN slabs', slabs'[a].page = slabs'[b].page PROVE a = b
    OBVIOUS
  <2>1. \A x \in DOMAIN slabs' : x # s => x \in DOMAIN slabs /\ slabs'[x].page = slabs[x].page /\ slabs[x].page # p
    BY DEF SlabsPlus, SlabPage
  <2> QED BY <1>4, <2>1 DEF SlabsOk
<1>8. \A i \in Size : /\ <<P16, i>> \in DOMAIN slabs'
                      /\ slabs'[<<P16, i>>].size = i /\ slabs'[<<P16, i>>].page = BootPage(i)
  BY DEF SlabsOk, SlabsPlus
<1>9. PtSl \in DOMAIN slabs' /\ slabs'[PtSl].size = PT
  BY DEF SlabsOk, SlabsPlus
<1>10. SlabsOk'
  <2>1. slabs' = [sl \in DOMAIN slabs' |-> slabs'[sl]]
    BY DEF SlabsPlus
  <2> QED BY <1>6, <1>7, <1>8, <1>9, <2>1 DEF SlabsOk
<1>11. \A d, l, x : x \in Filed(d, l)' <=> IF x = s THEN d = c /\ l = "free" ELSE x \in Filed(d, l)
  <2> SUFFICES ASSUME NEW d, NEW l, NEW x
               PROVE  x \in Filed(d, l)' <=> IF x = s THEN d = c /\ l = "free" ELSE x \in Filed(d, l)
    OBVIOUS
  <2>1. x \in Filed(d, l)' <=> x \in DOMAIN slabs' /\ slabs'[x].size = d /\ ListOf(slabs'[x]) = l
    BY DEF Filed, ListOf
  <2>2. CASE x = s
    <3>1. ListOf(slabs'[s]) = "free"
      BY <1>4 DEF ListOf
    <3>2. s \in DOMAIN slabs'
      BY DEF SlabsPlus
    <3> QED BY <1>4, <2>1, <2>2, <3>1, <3>2
  <2>3. CASE x # s
    <3>1. x \in DOMAIN slabs' <=> x \in DOMAIN slabs
      BY <2>3 DEF SlabsPlus
    <3>2. x \in DOMAIN slabs => slabs'[x] = slabs[x]
      BY DEF SlabsPlus
    <3> QED BY <2>1, <2>3, <3>1, <3>2 DEF Filed
  <2> QED BY <2>2, <2>3
<1> QED BY <1>10, <1>11

LEMMA TokensOfNew ==
    ASSUME HeapInv, NEW s, NEW p \in VA, NEW c \in Size \union {PT}, SlabsPlus(s, p, c), SlabMade(s, p, NObj[c]),
           Held(s), \A k \in Nat : ~ Held(<<p, k>>), \A q : PageVal(q)' => PageVal(q) /\ q # p
    PROVE  TokensOk' /\ \A q, k : Held(<<q, k>>)' => Held(<<q, k>>) \/ q = p
<1>1. TokensOk /\ SlabsOk
  BY DEF HeapInv
<1>2. PICK n : n = NObj[c]
  OBVIOUS
<1>3. n \in Nat
  BY <1>2, Numbers
<1>4. \A j \in Nat : s # <<p, j>>
  OBVIOUS
<1>5. \A k, a, b : \A j \in Nat : ~ Has(k, a, b, <<p, j>>)
  BY DEF Held
<1>6. \A j \in 0 .. n - 1 : j \in Nat
  BY <1>3
<1>7. Own'
  <2> SUFFICES ASSUME NEW q, NEW k, NEW a, NEW b, NEW l, NEW d, NEW e, Has(k, a, b, q)', Has(l, d, e, q)'
               PROVE  k = l /\ a = d /\ b = e
    BY DEF Own
  <2>1. CASE q = s
    BY <2>1 DEF SlabMade
  <2>2. CASE q # s /\ \E j \in 0 .. n - 1 : q = <<p, j>>
    <3>1. ~ Has(k, a, b, q) /\ ~ Has(l, d, e, q)
      BY <1>5, <1>6, <2>2
    <3> QED BY <1>2, <2>2, <3>1 DEF SlabMade
  <2>3. CASE q # s /\ ~ \E j \in 0 .. n - 1 : q = <<p, j>>
    <3>1. Has(k, a, b, q) /\ Has(l, d, e, q)
      BY <1>2, <2>3 DEF SlabMade
    <3> QED BY <1>1, <3>1 DEF TokensOk, Own
  <2> QED BY <2>1, <2>2, <2>3
<1>8. \A q : Held(q) /\ q # <<p, -1>> => Held(q)'
  <2> SUFFICES ASSUME NEW q, Held(q), q # <<p, -1>> PROVE Held(q)'
    OBVIOUS
  <2>1. CASE q = s
    <3>1. Has("slab", 0, 0, q)'
      BY <2>1 DEF SlabMade
    <3> QED BY <3>1 DEF Held
  <2>2. CASE q # s
    <3>1. PICK k, a, b : Has(k, a, b, q)
      BY DEF Held
    <3>2. Has(k, a, b, q)'
      BY <2>2, <3>1 DEF SlabMade
    <3> QED BY <3>2 DEF Held
  <2> QED BY <2>1, <2>2
<1>9. \A q : Held(q)' => Held(q) \/ \E j \in 0 .. n - 1 : q = <<p, j>>
  <2> SUFFICES ASSUME NEW q, Held(q)' PROVE Held(q) \/ \E j \in 0 .. n - 1 : q = <<p, j>>
    OBVIOUS
  <2>1. PICK k, a, b : Has(k, a, b, q)'
    BY DEF Held
  <2>2. q = s \/ Has(k, a, b, q) \/ \E j \in 0 .. n - 1 : q = <<p, j>>
    BY <1>2, <2>1 DEF SlabMade
  <2> QED BY <2>2 DEF Held
<1>10. \A j \in 0 .. n - 1 : Held(<<p, j>>)'
  <2> SUFFICES ASSUME NEW j \in 0 .. n - 1 PROVE Held(<<p, j>>)'
    OBVIOUS
  <2>1. PICK q : q = <<p, j>>
    OBVIOUS
  <2>2. q # s /\ q # <<p, -1>>
    BY <1>4, <1>6, <2>1, Tuples
  <2>3. Has("free", s, 0, q)'
    BY <1>2, <2>1, <2>2 DEF SlabMade
  <2>4. Held(q)'
    BY <2>3 DEF Held
  <2> QED BY <2>1, <2>4
<1>11. \A sl \in DOMAIN slabs' : (sl = s /\ slabs'[sl].page = p /\ slabs'[sl].size = c) \/
           (sl \in DOMAIN slabs /\ slabs'[sl].page = slabs[sl].page /\ slabs'[sl].size = slabs[sl].size)
  BY DEF SlabsPlus
<1>12. \A sl \in DOMAIN slabs : slabs[sl].page # p
  <2>1. ~ Held(<<p, 0>>)
    OBVIOUS
  <2> QED BY <1>1, <2>1, SlabPageHeld DEF TokensOk
<1>13. NoneLost'
  <2> SUFFICES ASSUME NEW sl \in DOMAIN slabs', NEW k \in 0 .. NObj[slabs'[sl].size] - 1
               PROVE  Held(<<slabs[sl].page, k>>)'
    BY DEF NoneLost
  <2>1. PICK x : x = slabs'[sl].page
    OBVIOUS
  <2>2. Held(<<x, k>>)'
    <3>1. CASE sl = s
      <4>1. x = p /\ k \in 0 .. n - 1
        BY <1>2, <2>1, <3>1 DEF SlabsPlus
      <4> QED BY <1>10, <4>1
    <3>2. CASE sl # s
      <4>1. sl \in DOMAIN slabs /\ x = slabs[sl].page /\ k \in 0 .. NObj[slabs[sl].size] - 1
        BY <1>11, <2>1, <3>2
      <4>2. Held(<<x, k>>)
        BY <1>1, <4>1 DEF TokensOk, NoneLost
      <4>3. <<x, k>> # <<p, -1>>
        BY <1>12, <4>1, Tuples
      <4> QED BY <1>8, <4>2, <4>3
    <3> QED BY <3>1, <3>2
  <2> QED BY <2>1, <2>2
<1>14. InPage'
  <2> SUFFICES ASSUME NEW sl \in DOMAIN slabs', NEW k \in Nat, Held(<<slabs[sl].page, k>>)'
               PROVE  k < NObj[slabs'[sl].size]
    BY DEF InPage
  <2>1. PICK x : x = slabs'[sl].page
    OBVIOUS
  <2>2. PICK q : q = <<x, k>>
    OBVIOUS
  <2>3. Held(q)'
    BY <2>1, <2>2
  <2>4. Held(q) \/ \E j \in 0 .. n - 1 : q = <<p, j>>
    BY <1>9, <2>3
  <2>5. CASE sl = s
    <3>1. x = p /\ slabs'[sl].size = c
      BY <2>1, <2>5 DEF SlabsPlus
    <3>2. \E j \in 0 .. n - 1 : k = j
      BY <2>2, <2>4, <3>1, Tuples
    <3> QED BY <1>2, <1>3, <3>1, <3>2
  <2>6. CASE sl # s
    <3>1. sl \in DOMAIN slabs /\ x = slabs[sl].page /\ slabs'[sl].size = slabs[sl].size /\ x # p
      BY <1>11, <1>12, <2>1, <2>6
    <3>2. Held(<<x, k>>)
      BY <2>2, <2>4, <3>1, Tuples
    <3> QED BY <1>1, <3>1, <3>2 DEF TokensOk, InPage
  <2> QED BY <2>5, <2>6
<1>15. PageAlone'
  <2> SUFFICES ASSUME NEW q \in VA, NEW k \in Nat, PageVal(q)', Held(<<q, k>>)' PROVE FALSE
    BY DEF PageAlone
  <2>1. PageVal(q) /\ q # p
    OBVIOUS
  <2>2. ~ Held(<<q, k>>)
    BY <1>1, <2>1 DEF TokensOk, PageAlone
  <2>3. PICK x : x = <<q, k>>
    OBVIOUS
  <2>4. Held(x)' /\ ~ Held(x)
    BY <2>2, <2>3
  <2>5. \E j \in 0 .. n - 1 : x = <<p, j>>
    BY <1>9, <2>4
  <2> QED BY <2>1, <2>3, <2>5, Tuples
<1>16. \A q, k : Held(<<q, k>>)' => Held(<<q, k>>) \/ q = p
  <2> SUFFICES ASSUME NEW q, NEW k, Held(<<q, k>>)' PROVE Held(<<q, k>>) \/ q = p
    OBVIOUS
  <2>1. PICK x : x = <<q, k>>
    OBVIOUS
  <2>2. Held(x)'
    BY <2>1
  <2>3. Held(x) \/ \E j \in 0 .. n - 1 : x = <<p, j>>
    BY <1>9, <2>2
  <2> QED BY <2>1, <2>3, Tuples
<1> QED BY <1>7, <1>13, <1>14, <1>15, <1>16 DEF TokensOk

\* What other threads are about to do with objects does not touch a new slab.
LEMMA OthersHold ==
    ASSUME LockInv, HeapInv, NEW u \in Thread, stopped = "no", NEW p \in VA, \A k \in Nat : ~ Held(<<p, k>>)
    PROVE  DoesNow(u, "give") /\ Arg(u) # WHOLE => Top(u)[1] # p
<1>1. ASSUME NEW i, i \in DOMAIN vals[u], IsObj(vals[u][i]) PROVE vals[u][i][1] # p
  <2>1. PICK x \in VA, k \in Nat : vals[u][i] = <<x, k>>
    BY <1>1 DEF IsObj
  <2>2. Held(<<x, k>>)
    BY <1>1, <2>1 DEF Held, Has, ValAt
  <2> QED BY <2>1, <2>2, Tuples
<1>2. Len(vals[u]) \in Nat /\ DOMAIN vals[u] = 1 .. Len(vals[u])
  BY ValsTyped
<1>3. \A op : DoesNow(u, op) /\ op # "alloc" => Finds(Head(todo[u]), vals[u]) /\ Head(todo[u])[1] = op /\ Head(todo[u])[2] = Arg(u)
  <2> SUFFICES ASSUME NEW op, DoesNow(u, op), op # "alloc"
               PROVE  Finds(Head(todo[u]), vals[u]) /\ Head(todo[u])[1] = op /\ Head(todo[u])[2] = Arg(u)
    OBVIOUS
  <2>1. Does(u, op)
    BY DEF DoesNow, Does, HeadOp
  <2> QED BY <2>1, StepFacts
<1>4. DoesNow(u, "give") /\ Arg(u) # WHOLE => Top(u)[1] # p
  <2> SUFFICES ASSUME DoesNow(u, "give"), Arg(u) # WHOLE PROVE Top(u)[1] # p
    OBVIOUS
  <2>1. Len(vals[u]) = 1 /\ IsObj(vals[u][1])
    BY <1>3 DEF Finds
  <2> QED BY <1>1, <1>2, <2>1 DEF Top, Last
<1> QED BY <1>4

LEMMA NewSubpagesHeap == ASSUME LockInv, HeapInv, NEW t \in Thread, NewSubpages(t) PROVE HeapInv'
<1>1. PICK n, c, p, s : n = Len(vals[t]) /\ c = Arg(t) /\ p = vals[t][n][1] /\ s = vals[t][n - 1]
  OBVIOUS
<1>2. Does(t, "init1") /\ stopped = "no"
  BY DEF NewSubpages, Does
<1>3. /\ After(Head(todo[t]), Tail(todo[t])) /\ Finds(Head(todo[t]), vals[t]) /\ Head(todo[t])[1] = "init1"
      /\ HeadOp(t) = "init1" /\ Head(todo[t])[2] = c
  BY <1>1, <1>2, StepFacts
<1>4. n \in Nat /\ n >= 2 /\ IsStruct(s) /\ IsPage(vals[t][n]) /\ c \in (Size \ {C16}) \union {PT}
  BY <1>1, <1>3 DEF Finds
<1>5. Top(t) = vals[t][n] /\ Below(t) = s
  BY <1>1 DEF Top, Last, Below
<1>6. p \in VA /\ vals[t][n] = <<p, -1>> /\ Object(s) /\ c # C16 /\ c \in Size \union {PT} /\ c # WHOLE
  BY <1>1, <1>4, Tuples, KindsAreObjects, Numbers DEF IsPage
<1>7. ValAt(t, n, <<p, -1>>) /\ ValAt(t, n - 1, s) /\ \A q : ~ ValAt(t, n + 1, q)
  BY <1>1, <1>4, <1>6, ValsTyped DEF ValAt
<1>8. SlabsOk /\ ListsOk /\ FramesOk /\ TablesOk /\ MapsOk /\ TokensOk
  BY DEF HeapInv
<1>9. CASE VaToPa(p) # "no"
  <2>1. Fail(VaToPa(p))
    BY <1>1, <1>5, <1>9 DEF NewSubpages
  <2> QED BY <2>1, FailHeap
<1>10. CASE VaToPa(p) = "no"
  <2>1. PICK f : f = Fr(p)
    OBVIOUS
  <2>2. Frame(p) = f /\ f \in 2 .. NRam /\ f \in 1 .. NRam /\ f # 0
    BY <1>6, <1>8, <1>10, <2>1, LookedUp, Numbers
  <2>3. /\ ram_map' = [ram_map EXCEPT ![f] = [lsize |-> @.lsize \union {c}, va |-> s]]
        /\ slabs' = With(slabs, s, NewSlab(c, p))
        /\ lists' = [lists EXCEPT ![c]["free"] = Append(@, s)]
        /\ slub_16byte_free' = slub_16byte_free + 0
        /\ Pop(t, 2) /\ Then(t, <<>>)
        /\ UNCHANGED <<whole, vm_areas, tables, ram, owner, live>>
    BY <1>1, <1>5, <1>6, <1>10, <2>2 DEF NewSubpages, AddSize
  <2>4. UNCHANGED <<pd, ptes>>
    BY <2>3 DEF tables
  <2>5. Has("val", t, n, <<p, -1>>) /\ Has("val", t, n - 1, s) /\ Held(s) /\ PageVal(p) /\ Tracked(p) /\ Held(<<p, -1>>)
    BY <1>7 DEF Has, Held, PageVal, Tracked
  <2>6. s \notin DOMAIN slabs
    <3>1. s \in DOMAIN slabs => Has("slab", 0, 0, s)
      BY DEF Has
    <3> QED BY <1>8, <2>5, <3>1 DEF TokensOk, Own
  <2>7. ~ SlabPage(p) /\ \A sl \in DOMAIN slabs : slabs[sl].page # p
    BY <1>6, <2>5, PageNotSlab DEF SlabPage
  <2>8. SlabsPlus(s, p, c)
    <3>1. NewSlab(c, p) = [size |-> c, page |-> p, nfree |-> NObj[c], chain |-> [i \in 1 .. NObj[c] |-> i - 1]]
      <4>1. InUse(c) = 0 /\ NObj[c] \in Nat
        BY <1>6, Numbers DEF InUse
      <4>2. NObj[c] - 0 = NObj[c] /\ \A i \in 1 .. NObj[c] : 0 + i - 1 = i - 1
        BY <4>1
      <4>3. [i \in 1 .. NObj[c] |-> 0 + i - 1] = [i \in 1 .. NObj[c] |-> i - 1]
        BY <4>2
      <4> QED BY <4>1, <4>2, <4>3 DEF NewSlab
    <3> QED BY <2>3, <2>6, <3>1 DEF SlabsPlus, With
  <2>9. /\ SlabsOk'
        /\ \A d, l, x : x \in Filed(d, l)' <=> IF x = s THEN d = c /\ l = "free" ELSE x \in Filed(d, l)
    BY <1>4, <1>6, <1>8, <2>7, <2>8, SlabsMore
  <2>10. ListsOk'
    <3> SUFFICES ASSUME NEW d \in Size \union {PT}, NEW l \in {"free", "part", "busy"}
                 PROVE  Enumerates(lists'[d][l], Filed(d, l)')
      BY DEF ListsOk
    <3>1. Enumerates(lists[d][l], Filed(d, l))
      BY <1>8 DEF ListsOk
    <3>2. CASE d = c /\ l = "free"
      <4>1. lists'[d][l] = Append(lists[d][l], s)
        BY <1>6, <2>3, <3>2 DEF LockInv, ListsTyped
      <4>2. s \notin Filed(d, l)
        BY <2>6 DEF Filed
      <4>3. Filed(d, l)' = Filed(d, l) \union {s}
        BY <2>9, <3>2
      <4> QED BY <3>1, <4>1, <4>2, <4>3, LastKeeps
    <3>3. CASE ~ (d = c /\ l = "free")
      <4>1. lists'[d][l] = lists[d][l]
        BY <1>6, <2>3, <3>3 DEF LockInv, ListsTyped
      <4>2. s \notin Filed(d, l)
        BY <2>6 DEF Filed
      <4>3. Filed(d, l)' = Filed(d, l)
        BY <2>9, <3>3, <4>2
      <4> QED BY <3>1, <4>1, <4>3
    <3> QED BY <3>2, <3>3
  <2>11. LowOk'
    <3>1. slabs'[Sl16] = slabs[Sl16]
      BY <1>8, <2>8, BootFacts DEF SlabsPlus
    <3>2. slub_16byte_free' = slub_16byte_free
      BY <2>3 DEF HeapInv, LowOk
    <3> QED BY <2>3, <3>1, <3>2 DEF HeapInv, LowOk
  <2>12. WHOLE \in ram_map[f].lsize
    BY <1>6, <1>7, <1>8, <2>1, <2>2 DEF MapsOk, WholeFirst
  <2>13. f \notin BootFrames /\ f \in ram
    <3>1. f \in BootFrames => \E i \in Size : p = BootPage(i)
      BY <1>6, <1>8, <2>1, <2>2, <2>5 DEF MapsOk, FramesUsed
    <3>2. \A i \in Size : p # BootPage(i)
      BY <1>8, <2>7, BootFacts
    <3>3. f \in ram
      BY <1>6, <1>8, <2>1, <2>2, <2>5 DEF MapsOk, FramesUsed
    <3> QED BY <3>1, <3>2, <3>3
  <2>14. /\ \A g \in 1 .. NRam : g # f => ram_map'[g] = ram_map[g]
         /\ ram_map'[f].lsize = ram_map[f].lsize \union {c} /\ ram_map'[f].va = s
         /\ ram_map'[f] = [lsize |-> ram_map'[f].lsize, va |-> ram_map'[f].va]
    BY <1>8, <2>2, <2>3 DEF FramesOk
  <2>15. FramesOk'
    <3>1. BootFrames \subseteq 1 .. NRam /\ 1 \in BootFrames /\ \A i \in Size : i + 2 \in BootFrames
      BY <1>8, Numbers DEF FramesOk, BootFrames
    <3>2. ram_map' = [x \in 1 .. NRam |-> ram_map'[x]]
      BY <1>8, <2>3 DEF FramesOk
    <3>3. \A x \in 1 .. NRam : ram_map'[x] = [lsize |-> ram_map'[x].lsize, va |-> ram_map'[x].va]
      BY <1>8, <2>14 DEF FramesOk
    <3>4. \A x \in BootFrames : ram_map'[x] = ram_map[x]
      BY <2>13, <2>14, <3>1
    <3>5. \A x \in 1 .. NRam : x \notin BootFrames =>
              /\ ram_map'[x].lsize = {} \/ WHOLE \in ram_map'[x].lsize
              /\ ram_map'[x].va # NoPt => WHOLE \in ram_map'[x].lsize
              /\ ram_map'[x].va \notin BootSlabs
      <4> SUFFICES ASSUME NEW x \in 1 .. NRam, x \notin BootFrames
                   PROVE  /\ ram_map'[x].lsize = {} \/ WHOLE \in ram_map'[x].lsize
                          /\ ram_map'[x].va # NoPt => WHOLE \in ram_map'[x].lsize
                          /\ ram_map'[x].va \notin BootSlabs
        OBVIOUS
      <4>1. CASE x = f
        <5>1. WHOLE \in ram_map'[x].lsize /\ ram_map'[x].va = s
          BY <2>12, <2>14, <4>1
        <5>2. s \notin BootSlabs
          BY <1>8, <2>6, BootFacts
        <5> QED BY <5>1, <5>2
      <4>2. CASE x # f
        BY <1>8, <2>14, <4>2 DEF FramesOk
      <4> QED BY <4>1, <4>2
    <3>6. ram' \subseteq 1 .. NRam /\ BootFrames \subseteq ram'
      BY <1>8, <2>3 DEF FramesOk
    <3> QED BY <1>8, <3>1, <3>2, <3>3, <3>4, <3>5, <3>6 DEF FramesOk
  <2>16. TablesOk' /\ \A q : Fr(q)' = Fr(q)
    BY <1>8, <2>3, TablesStay
  <2>17. \A u, i, q : ValAt(u, i, q)' <=> ValAt(u, i, q) /\ ~ (u = t /\ (i = n - 1 \/ i = n))
    BY <1>1, <1>4, <2>3, PopPair
  <2>18. /\ \A q : ValAt(t, n - 1, q) => q = s
         /\ \A q : ValAt(t, n, q) => q = <<p, -1>>
         /\ \A u, i : ValAt(u, i, <<p, -1>>) => u = t /\ i = n
    <3>1. \A u, i : ValAt(u, i, <<p, -1>>) => Has("val", u, i, <<p, -1>>)
      BY DEF Has
    <3>2. \A u, i : ValAt(u, i, <<p, -1>>) => u = t /\ i = n
      BY <1>8, <2>5, <3>1 DEF TokensOk, Own
    <3> QED BY <1>7, <3>2 DEF ValAt
  <2>19. /\ \A u, i, q : ValAt(u, i, <<q, -1>>)' <=> ValAt(u, i, <<q, -1>>) /\ q # p
         /\ \A q : PageVal(q)' <=> PageVal(q) /\ q # p
         /\ \A u, i, g : ValAt(u, i, <<g>>)' <=> ValAt(u, i, <<g>>)
         /\ \A g : FrameVal(g)' <=> FrameVal(g)
    <3>1. \A q : s # <<q, -1>> /\ s # <<q>>
      BY <1>6, ObjectsDiffer
    <3>2. \A u, i, q : ValAt(u, i, <<q, -1>>)' <=> ValAt(u, i, <<q, -1>>) /\ q # p
      BY <2>17, <2>18, <3>1, Tuples
    <3>3. \A u, i, g : ValAt(u, i, <<g>>)' <=> ValAt(u, i, <<g>>)
      BY <2>17, <2>18, <3>1, Tuples
    <3> QED BY <3>2, <3>3 DEF PageVal, FrameVal
  <2>20. \A q : SlabPage(q)' <=> SlabPage(q) \/ q = p
    BY <2>8 DEF SlabPage, SlabsPlus
  <2>21. \A q : Tracked(q)' <=> Tracked(q)
    BY <2>5, <2>19, <2>20 DEF Tracked
  <2>22. \A d \in DOMAIN ptes : ram_map'[d[1]] = ram_map[d[1]]
    <3> SUFFICES ASSUME NEW d \in DOMAIN ptes PROVE ram_map'[d[1]] = ram_map[d[1]]
      OBVIOUS
    <3>1. d[1] \in 1 .. NRam
      BY <1>8 DEF TablesOk, PtesOk
    <3>2. /\ ram_map[d[1]].va \in DOMAIN slabs
          /\ \A q \in VA : Tracked(q) /\ Fr(q) = d[1] => q = slabs[ram_map[d[1]].va].page
      BY <1>8 DEF MapsOk, TableFrames
    <3>3. d[1] # f
      BY <1>6, <2>1, <2>5, <2>7, <3>2
    <3> QED BY <2>14, <3>1, <3>3
  <2>23. MapsOk'
    <3>1. OneFrame'
      BY <1>8, <2>16, <2>21 DEF MapsOk, OneFrame
    <3>2. FrameBeside'
      <4> SUFFICES ASSUME NEW q \in VA, Tracked(q)', Fr(q)' # 0, NEW u, NEW i, ValAt(u, i, <<Fr(q)>>)'
                   PROVE  ValAt(u, i - 1, <<q, -1>>)'
        BY DEF FrameBeside
      <4>1. PICK g : g = Fr(q)
        OBVIOUS
      <4>2. Tracked(q) /\ Fr(q) # 0 /\ ValAt(u, i, <<g>>)
        BY <2>16, <2>19, <2>21, <4>1
      <4>3. ValAt(u, i - 1, <<q, -1>>)
        BY <1>8, <4>1, <4>2 DEF MapsOk, FrameBeside
      <4>4. q # p
        <5>1. ASSUME q = p PROVE FALSE
          <6>1. u = t /\ i - 1 = n
            BY <2>18, <4>3, <5>1
          <6>2. i \in DOMAIN vals[t]
            BY <4>2, <6>1 DEF ValAt
          <6>3. i = n + 1
            BY <1>1, <1>4, <6>1, <6>2, ValsTyped
          <6> QED BY <1>7, <4>2, <6>1, <6>3
        <5> QED BY <5>1
      <4> QED BY <2>19, <4>3, <4>4
    <3>3. FramesUsed'
      <4>1. \A x : FrameVal(x)' => x \in ram' \ BootFrames
        BY <1>8, <2>3, <2>19 DEF MapsOk, FramesUsed
      <4>2. \A q \in VA : Tracked(q)' /\ Fr(q)' # 0 =>
               Fr(q)' \in ram' /\ (Fr(q)' \in BootFrames => \E i \in Size : q = BootPage(i))
        BY <1>8, <2>3, <2>16, <2>21 DEF MapsOk, FramesUsed
      <4> QED BY <4>1, <4>2 DEF FramesUsed
    <3>4. WholeFirst'
      <4> SUFFICES ASSUME NEW u, NEW i, NEW q \in VA, ValAt(u, i, <<q, -1>>)', Fr(q)' # 0
                   PROVE  WHOLE \in ram_map'[Fr(q)'].lsize \/ ValAt(u, i + 1, <<Fr(q)>>)'
        BY DEF WholeFirst
      <4>1. PICK g : g = Fr(q)
        OBVIOUS
      <4>2. ValAt(u, i, <<q, -1>>) /\ Fr(q) # 0 /\ Fr(q)' = g
        BY <2>16, <2>19, <4>1
      <4>3. Tracked(q)
        BY <4>2 DEF Tracked, PageVal
      <4>4. g \in 1 .. NRam
        BY <1>8, <4>1, <4>2, <4>3 DEF MapsOk, FramesUsed, FramesOk
      <4>5. WHOLE \in ram_map[g].lsize \/ ValAt(u, i + 1, <<g>>)
        BY <1>8, <4>1, <4>2 DEF MapsOk, WholeFirst
      <4>6. WHOLE \in ram_map'[g].lsize \/ ValAt(u, i + 1, <<g>>)'
        BY <2>14, <2>19, <4>4, <4>5
      <4> QED BY <4>2, <4>6
    <3>5. Leads'
      <4> SUFFICES ASSUME NEW sl \in DOMAIN slabs', slabs'[sl].page \in VA, Fr(slabs[sl].page)' # 0
                   PROVE  ram_map'[Fr(slabs[sl].page)'].va = sl
        BY DEF Leads
      <4>1. PICK x : x = slabs'[sl].page
        OBVIOUS
      <4>2. x \in VA /\ Fr(x)' = Fr(x) /\ Fr(x) # 0
        BY <2>16, <4>1
      <4>3. ram_map'[Fr(x)].va = sl
        <5>1. CASE sl = s
          <6>1. x = p
            BY <2>8, <4>1, <5>1 DEF SlabsPlus
          <6> QED BY <2>1, <2>14, <5>1, <6>1
        <5>2. CASE sl # s
          <6>1. sl \in DOMAIN slabs /\ x = slabs[sl].page /\ x # p
            BY <2>7, <2>8, <4>1, <5>2 DEF SlabsPlus
          <6>2. Tracked(x)
            BY <6>1 DEF Tracked, SlabPage
          <6>3. Fr(x) # f
            BY <1>6, <1>8, <2>1, <2>2, <2>5, <4>2, <6>1, <6>2 DEF MapsOk, OneFrame
          <6>4. ram_map[Fr(x)].va = sl /\ Fr(x) \in 1 .. NRam
            BY <1>8, <4>2, <6>1, <6>2 DEF MapsOk, Leads, FramesUsed, FramesOk
          <6> QED BY <2>14, <6>3, <6>4
        <5> QED BY <5>1, <5>2
      <4> QED BY <4>1, <4>2, <4>3
    <3>6. TableFrames'
      <4> SUFFICES ASSUME NEW d \in DOMAIN ptes
                   PROVE  /\ d[1] \in ram /\ ~ FrameVal(d[1])'
                          /\ ram_map'[d[1]].va \in DOMAIN slabs' /\ slabs'[ram_map'[d[1]].va].size = PT
                          /\ \A q \in VA : Tracked(q)' /\ Fr(q)' = d[1] => q = slabs'[ram_map'[d[1]].va].page
        BY <2>3, <2>4 DEF TableFrames
      <4>1. /\ d[1] \in ram /\ ~ FrameVal(d[1])
            /\ ram_map[d[1]].va \in DOMAIN slabs /\ slabs[ram_map[d[1]].va].size = PT
            /\ \A q \in VA : Tracked(q) /\ Fr(q) = d[1] => q = slabs[ram_map[d[1]].va].page
        BY <1>8 DEF MapsOk, TableFrames
      <4>2. ram_map[d[1]].va \in DOMAIN slabs' /\ slabs'[ram_map[d[1]].va] = slabs[ram_map[d[1]].va]
        BY <2>8, <4>1 DEF SlabsPlus
      <4> QED BY <2>16, <2>19, <2>21, <2>22, <4>1, <4>2
    <3> QED BY <3>1, <3>2, <3>3, <3>4, <3>5, <3>6 DEF MapsOk
  <2>24. \A k \in Nat : ~ Held(<<p, k>>)
    BY <1>6, <1>8, <2>5 DEF TokensOk, PageAlone
  <2>25. TokensOk' /\ \A q, k : Held(<<q, k>>)' => Held(<<q, k>>) \/ q = p
    <3>1. \A d \in DOMAIN ptes : PtObject(d)' = PtObject(d)
      <4> SUFFICES ASSUME NEW d \in DOMAIN ptes PROVE PtObject(d)' = PtObject(d)
        OBVIOUS
      <4>1. ram_map[d[1]].va \in DOMAIN slabs /\ ram_map'[d[1]].va = ram_map[d[1]].va
        BY <1>8, <2>22 DEF MapsOk, TableFrames
      <4>2. slabs'[ram_map'[d[1]].va].page = slabs[ram_map[d[1]].va].page
        BY <2>8, <4>1 DEF SlabsPlus
      <4> QED BY <4>2 DEF PtObject
    <3>2. \A k, a, b : Has(k, a, b, s) => k = "val" /\ a = t /\ b = n - 1
      BY <1>8, <2>5 DEF TokensOk, Own
    <3>3. PICK g : g = <<p, -1>>
      OBVIOUS
    <3>4. \A k, a, b : Has(k, a, b, g) => k = "val" /\ a = t /\ b = n
      BY <1>8, <2>5, <3>3 DEF TokensOk, Own
    <3>5. s # g
      BY <1>6, <3>3, ObjectsDiffer
    <3>6. SlabMade(s, p, NObj[c])
      <4> SUFFICES ASSUME NEW k, NEW a, NEW b, NEW q
                   PROVE  Has(k, a, b, q)' <=>
                            IF q = s THEN k = "slab" /\ a = 0 /\ b = 0
                            ELSE IF q = g THEN FALSE
                            ELSE Has(k, a, b, q) \/ (k = "free" /\ a = s /\ b = 0 /\ \E j \in 0 .. NObj[c] - 1 : q = <<p, j>>)
        BY <3>3 DEF SlabMade
      <4>1. CASE k = "val"
        <5>1. Has(k, a, b, q)' <=> ValAt(a, b, q)'
          BY <4>1 DEF Has
        <5>2. Has(k, a, b, q) <=> ValAt(a, b, q)
          BY <4>1 DEF Has
        <5>3. q = s => ~ ValAt(a, b, q)'
          BY <2>17, <3>2, <4>1, <5>2
        <5>4. q = g => ~ ValAt(a, b, q)'
          BY <2>17, <3>4, <4>1, <5>2
        <5>5. q # s /\ q # g => (ValAt(a, b, q)' <=> ValAt(a, b, q))
          BY <2>17, <2>18, <3>3
        <5>6. k # "slab" /\ k # "free"
          BY <4>1
        <5> QED BY <5>1, <5>2, <5>3, <5>4, <5>5, <5>6
      <4>2. CASE k = "slab"
        <5>1. Has(k, a, b, q)' <=> a = 0 /\ b = 0 /\ (q \in DOMAIN slabs \/ q = s)
          BY <2>8, <4>2 DEF Has, SlabsPlus
        <5>2. Has(k, a, b, q) <=> a = 0 /\ b = 0 /\ q \in DOMAIN slabs
          BY <4>2 DEF Has
        <5>3. q = g => ~ Has(k, a, b, q)
          BY <3>4, <4>2
        <5>4. k # "free"
          BY <4>2
        <5> QED BY <3>5, <4>2, <5>1, <5>2, <5>3, <5>4
      <4>3. CASE k = "free"
        <5>1. Has(k, a, b, q)' <=> b = 0 /\ OnChain(a, q)'
          BY <4>3 DEF Has
        <5>2. Has(k, a, b, q) <=> b = 0 /\ OnChain(a, q)
          BY <4>3 DEF Has
        <5>3. a # s => (OnChain(a, q)' <=> OnChain(a, q))
          BY <2>8 DEF OnChain, SlabsPlus
        <5>4. a = s => ~ OnChain(a, q)
          BY <2>6 DEF OnChain
        <5>5. a = s => (OnChain(a, q)' <=> \E j \in 0 .. NObj[c] - 1 : q = <<p, j>>)
          <6> SUFFICES OnChain(s, q)' <=> \E j \in 0 .. NObj[c] - 1 : q = <<p, j>>
            OBVIOUS
          <6>1. PICK ch : ch = [i \in 1 .. NObj[c] |-> i - 1]
            OBVIOUS
          <6>2. s \in DOMAIN slabs' /\ slabs'[s].page = p /\ slabs'[s].chain = ch
            BY <2>8, <6>1 DEF SlabsPlus
          <6>3. \A x : (\E i \in DOMAIN ch : x = ch[i]) <=> x \in 0 .. NObj[c] - 1
            <7>1. PICK m : m = NObj[c]
              OBVIOUS
            <7>2. m \in Nat /\ ch = [i \in 1 .. m |-> i - 1]
              BY <1>6, <6>1, <7>1, Numbers
            <7>3. \A x : (\E i \in DOMAIN ch : x = ch[i]) <=> x \in 0 .. m - 1
              BY <7>2, NewChain
            <7> QED BY <7>1, <7>3
          <6>4. OnChain(s, q)' <=> \E i \in DOMAIN ch : q = <<p, ch[i]>>
            BY <6>2 DEF OnChain
          <6> QED BY <6>3, <6>4
        <5>6. q = s => \A j \in 0 .. NObj[c] - 1 : q # <<p, j>>
          <6>1. \A j \in 0 .. NObj[c] - 1 : j \in Nat
            BY <1>6, Numbers
          <6> QED BY <2>5, <2>24, <6>1
        <5>7. q = g => \A j \in 0 .. NObj[c] - 1 : q # <<p, j>>
          <6>1. \A j \in 0 .. NObj[c] - 1 : j # -1
            BY <1>6, Numbers
          <6> QED BY <3>3, <6>1, Tuples
        <5>8. q = s \/ q = g => ~ Has(k, a, b, q)
          BY <3>2, <3>4, <4>3
        <5>9. k # "slab"
          BY <4>3
        <5> QED BY <4>3, <5>1, <5>2, <5>3, <5>4, <5>5, <5>6, <5>7, <5>8, <5>9
      <4>4. CASE k \notin {"val", "slab", "free"}
        <5>1. Has(k, a, b, q)' <=> Has(k, a, b, q)
          BY <2>3, <2>4, <3>1, <4>4 DEF Has, IsSeg
        <5>2. q = g \/ q = s => ~ Has(k, a, b, q)
          BY <3>2, <3>4, <4>4
        <5> QED BY <4>4, <5>1, <5>2
      <4> QED BY <4>1, <4>2, <4>3, <4>4
    <3>7. \A q : PageVal(q)' => PageVal(q) /\ q # p
      BY <2>19
    <3> QED BY <1>6, <2>5, <2>8, <2>24, <3>6, <3>7, TokensOfNew
  <2>26. SameOthers(t) /\ \A q : Pending(q) => Pending(q)'
    <3>1. SameOthers(t)
      BY <2>3, OnlyMine DEF SameOthers, LockInv
    <3>2. owner[VM] = t => owner[C16] # t /\ HeadOp(t) \notin {"alloc", "seg"}
      BY <1>2, NotHolding
    <3> QED BY <2>3, <3>1, <3>2, PendingStays
  <2>27. KnownOk'
    <3>1. \A q \in VA : Used(q)' => Used(q)
      <4>1. Used(p)
        BY <2>5 DEF Used
      <4> QED BY <2>16, <2>25, <4>1 DEF Used
    <3> QED BY <2>3, <2>26, <3>1, KnownStays DEF HeapInv
  <2>28. \A q : Home(q) => Home(q)'
    BY <2>6, <2>8 DEF SlabsPlus, Home
  <2>29. ThreadsOk'
    <3>1. NowOk(t)'
      <4>1. todo'[t] = Tail(todo[t])
        BY <1>2, <2>3, TailNext
      <4>2. todo'[t] # <<>> /\ Head(todo'[t]) = <<"take", c>>
        BY <1>3, <4>1 DEF After
      <4>3. Head(todo'[t])[1] = "take" /\ Head(todo'[t])[2] = c
        BY <4>2, Tuples
      <4>4. s \in Filed(c, "free")'
        BY <2>9
      <4>5. TakesOk(t)'
        BY <4>3, <4>4 DEF TakesOk, Arg
      <4> QED BY <4>3, <4>5 DEF NowOk, GivesOk, InstallsOk, DoesNow, HeadOp
    <3>2. \A u \in Thread \ {t} : NowOk(u)'
      <4> SUFFICES ASSUME NEW u \in Thread, u # t PROVE NowOk(u)'
        OBVIOUS
      <4>1. todo'[u] = todo[u] /\ vals'[u] = vals[u]
        BY <2>26 DEF SameOthers
      <4>3. GivesOk(u) /\ InstallsOk(u) /\ TakesOk(u)
        BY DEF HeapInv, ThreadsOk
      <4>4. GivesOk(u)'
        BY <2>28, <4>1, <4>3 DEF GivesOk, DoesNow, HeadOp, Arg, Top
      <4>5. InstallsOk(u)'
        BY <2>8, <4>1, <4>3 DEF InstallsOk, DoesNow, HeadOp, Top, SlabsPlus
      <4>6. TakesOk(u)'
        <5>1. \A a : Filed(a, "free") \subseteq Filed(a, "free")'
          <6>1. \A a : s \notin Filed(a, "free")
            BY <2>6 DEF Filed
          <6> QED BY <2>9, <6>1
        <5> QED BY <4>1, <4>3, <5>1 DEF TakesOk, DoesNow, HeadOp, Arg
      <4> QED BY <4>4, <4>5, <4>6 DEF NowOk
    <3> QED BY <3>1, <3>2 DEF ThreadsOk, NowOk
  <2>30. LiveOk'
    BY <2>3, <2>28 DEF HeapInv, LiveOk
  <2>31. StructsOk'
    BY <2>3, StructsSame DEF HeapInv
  <2> QED BY <2>9, <2>10, <2>11, <2>15, <2>16, <2>23, <2>25, <2>27, <2>29, <2>30, <2>31 DEF HeapInv
<1> QED BY <1>9, <1>10

-----------------------------------------------------------------------------
(* kfree().                                                                *)

\* The sequence of a thread that starts with kfree().
LEMMA ValsSet ==
    ASSUME LockInv, NEW t \in Thread, vals[t] = <<>>, NEW w, IsSeq(w), vals' = [vals EXCEPT ![t] = w]
    PROVE  \A u, i, q : ValAt(u, i, q)' <=> ValAt(u, i, q) \/ (u = t /\ i \in 1 .. Len(w) /\ w[i] = q)
<1>1. vals = [u \in Thread |-> vals[u]] /\ DOMAIN w = 1 .. Len(w)
  BY ValsTyped, SeqFacts
<1>2. vals'[t] = w /\ \A u \in Thread : u # t => vals'[u] = vals[u]
  BY <1>1
<1>3. \A i, q : ~ ValAt(t, i, q)
  BY DEF ValAt
<1> QED BY <1>1, <1>2, <1>3 DEF ValAt

\* A frame is kept by threads only.
LEMMA FrameKept ==
    ASSUME HeapInv, NEW f, Held(<<f>>)
    PROVE  FrameVal(f)
<1>1. PICK k, a, b : Has(k, a, b, <<f>>)
  BY DEF Held
<1>2. k # "live"
  <2> SUFFICES ASSUME <<<<f>>, a>> \in live PROVE FALSE
    BY <1>1 DEF Has
  <2>1. PICK o : o = <<<<f>>, a>>
    OBVIOUS
  <2>2. o \in live /\ o[1] = <<f>>
    BY <2>1
  <2>3. IsPage(<<f>>) \/ IsObj(<<f>>)
    BY <2>2 DEF HeapInv, LiveOk
  <2> QED BY <2>3, Tuples DEF IsPage, IsObj
<1>3. k # "slab"
  <2>1. <<f>> \in DOMAIN slabs => <<f>> = PtSl \/ IsStruct(<<f>>)
    BY SlabFacts DEF HeapInv
  <2>2. <<f>> \notin DOMAIN slabs
    BY <2>1, Tuples DEF PtSl, IsStruct
  <2> QED BY <1>1, <2>2 DEF Has
<1>4. k # "seg" /\ k # "whole"
  BY <1>1, Tuples DEF Has, HeapInv, StructsOk, IsStruct
<1>5. k # "pt" /\ k # "free"
  BY <1>1, Tuples DEF Has, PtObject, OnChain
<1> QED BY <1>1, <1>2, <1>3, <1>4, <1>5 DEF Has, FrameVal

LEMMA IdlePending ==
    ASSUME LockInv, NEW t \in Thread, todo[t] = <<>>, SameOthers(t), UNCHANGED owner
    PROVE  \A q : Pending(q) => Pending(q)'
<1>1. owner[VM] # t /\ owner[C16] # t
  BY Idle
<1> SUFFICES ASSUME NEW q, Pending(q) PROVE Pending(q)'
  OBVIOUS
<1>2. PICK u \in Thread : /\ owner[VM] = u
                          /\ \/ owner[C16] = u
                             \/ HeadOp(u) = "alloc" /\ Top(u) = <<q, -1>>
                             \/ HeadOp(u) = "seg" /\ Below(u) = <<q, -1>>
  BY DEF Pending
<1>3. todo'[u] = todo[u] /\ vals'[u] = vals[u]
  BY <1>1, <1>2 DEF SameOthers
<1> QED BY <1>2, <1>3 DEF Pending, HeadOp, Top, Below

LEMMA FreeObjectHeap ==
    ASSUME LockInv, HeapInv, NEW t \in Thread, NEW p, NEW c, todo[t] = <<>>, <<p, c>> \in live, Object(p),
           NEW sl, todo' = [todo EXCEPT ![t] = << <<"put", sl>> >>],
           vals' = [vals EXCEPT ![t] = <<p>>], live' = live \ {<<p, c>>},
           UNCHANGED <<memory, vm_areas, tables, frames, owner>>
    PROVE  HeapInv'
<1>1. vals[t] = <<>>
  BY Idle
<1>2. UNCHANGED <<slabs, lists, slub_16byte_free, whole, ptes, pd, ram, ram_map>>
  BY DEF memory, tables, frames
<1>3. PICK w : w = <<p>>
  OBVIOUS
<1>4. IsSeq(w) /\ Len(w) = 1 /\ w[1] = p
  <2>1. w \in Seq({p})
    BY <1>3
  <2> QED BY <1>3, <2>1 DEF IsSeq
<1>5. \A u, i, q : ValAt(u, i, q)' <=> ValAt(u, i, q) \/ (u = t /\ i = 1 /\ q = p)
  <2>1. IsSeq(w)
    BY <1>4
  <2>2. vals' = [vals EXCEPT ![t] = w]
    BY <1>3
  <2>3. \A u, i, q : ValAt(u, i, q)' <=> ValAt(u, i, q) \/ (u = t /\ i \in 1 .. Len(w) /\ w[i] = q)
    BY <1>1, <2>1, <2>2, ValsSet, ZenonT(60)
  <2> QED BY <1>4, <2>3
<1>6. SamePages
  BY <1>5, SameByPush
<1>7. /\ SlabsOk' /\ ListsOk' /\ LowOk' /\ FramesOk' /\ TablesOk' /\ MapsOk' /\ SameSlabs
      /\ \A q : Fr(q)' = Fr(q)
      /\ \A d \in DOMAIN ptes : PtObject(d)' = PtObject(d)
      /\ \A a, l : Filed(a, l)' = Filed(a, l)
  BY <1>6, StillHeap
<1>8. MovedTo(p, "val", t, 1) /\ Held(p)
  <2>1. Has("live", c, 0, p)
    BY DEF Has
  <2>2. \A k, a, b : Has(k, a, b, p) => k = "live" /\ a = c /\ b = 0
    BY <2>1 DEF HeapInv, TokensOk, Own
  <2>3. MovedTo(p, "val", t, 1)
    <3> SUFFICES ASSUME NEW k, NEW a, NEW b, NEW q
                 PROVE  Has(k, a, b, q)' <=> IF q = p THEN k = "val" /\ a = t /\ b = 1 ELSE Has(k, a, b, q)
      BY DEF MovedTo
    <3>1. CASE k = "val"
      <4>1. Has(k, a, b, q)' <=> ValAt(a, b, q)'
        BY <3>1 DEF Has
      <4>2. Has(k, a, b, q) <=> ValAt(a, b, q)
        BY <3>1 DEF Has
      <4>3. q = p => ~ ValAt(a, b, q)
        BY <2>2, <3>1, <4>2
      <4> QED BY <1>5, <3>1, <4>1, <4>2, <4>3
    <3>2. CASE k = "live"
      <4>1. Has(k, a, b, q)' <=> b = 0 /\ <<q, a>> \in live /\ <<q, a>> # <<p, c>>
        BY <3>2 DEF Has
      <4>2. Has(k, a, b, q) <=> b = 0 /\ <<q, a>> \in live
        BY <3>2 DEF Has
      <4>3. q = p /\ Has(k, a, b, q) => a = c
        BY <2>2
      <4> QED BY <3>2, <4>1, <4>2, <4>3, Tuples
    <3>3. CASE k \notin {"val", "live"}
      <4>1. Has(k, a, b, q)' <=> Has(k, a, b, q)
        BY <1>2, <1>7, <3>3 DEF Has, OnChain, IsSeg
      <4>2. q = p => ~ Has(k, a, b, q)
        BY <2>2, <3>3
      <4> QED BY <3>3, <4>1, <4>2
    <3> QED BY <3>1, <3>2, <3>3
  <2> QED BY <2>1, <2>3 DEF Held
<1>9. TokensOk' /\ \A q : Held(q)' <=> Held(q)
  <2>1. \A q : PageVal(q)' => PageVal(q)
    BY <1>6 DEF SamePages, PageVal
  <2> QED BY <1>7, <1>8, <2>1, TokensMoved
<1>10. SameOthers(t)
  BY OnlyMine DEF SameOthers, LockInv
<1>11. KnownOk'
  <2>1. \A q \in VA : Used(q)' => Used(q)
    BY <1>7, <1>9 DEF Used
  <2>2. \A q : Pending(q) => Pending(q)'
    BY <1>10, IdlePending
  <2> QED BY <2>1, <2>2, KnownStays DEF HeapInv
<1>12. ThreadsOk'
  <2>1. NowOk(t)'
    <3>1. todo'[t] = << <<"put", sl>> >> /\ vals'[t] = w
      BY <1>3 DEF LockInv, Kept
    <3>2. Head(todo'[t])[1] = "put" /\ todo'[t] # <<>> /\ Len(vals'[t]) = 1
      BY <1>4, <3>1
    <3> QED BY <3>2 DEF NowOk, GivesOk, InstallsOk, TakesOk, DoesNow, HeadOp
  <2> QED BY <1>7, <1>10, <2>1, ThreadsFollow
<1>13. LiveOk' /\ StructsOk'
  <2>1. LiveOk /\ StructsOk /\ live' \subseteq live
    BY DEF HeapInv
  <2> QED BY <1>2, <1>7, <2>1, LiveStays, StructsSame
<1> QED BY <1>7, <1>9, <1>11, <1>12, <1>13 DEF HeapInv

LEMMA FreeHeap ==
    ASSUME LockInv, HeapInv, NEW t \in Thread, NEW p, NEW c, FreesObject(t, p, c)
    PROVE  HeapInv'
<1>1. <<p, c>> \in live /\ c # WHOLE
  BY DEF FreesObject
<1>2. PICK o : o = <<p, c>>
  OBVIOUS
<1>3. o \in live /\ o[1] = p /\ o[2] # WHOLE
  BY <1>1, <1>2
<1>4. IsObj(p)
  BY <1>3 DEF HeapInv, LiveOk
<1>5. Object(p)
  BY <1>4 DEF Object, IsObj
<1> QED BY <1>1, <1>5, FreeObjectHeap DEF FreesObject

-----------------------------------------------------------------------------
(* The state of boot.                                                      *)

\* The last page table of the area maps its last pages.
LEMMA LastTable ==
    ASSUME NEW q \in VA, Pde(q) = Pde(NVa - 1)
    PROVE  q = NVa - NPte + Pte(q)
<1>1. PICK m, a, b, s, r : /\ m = NVa \div NPte /\ a = Pde(NVa - 1) /\ b = m - 1 /\ s = Pte(NVa - 1)
                           /\ r = NPte - 1
  OBVIOUS
<1>2. NVa \in Nat \ {0} /\ NPte \in Nat \ {0} /\ NVa % NPte = 0
  BY SlubConstants
<1>3. m \in Nat /\ NVa = m * NPte /\ NVa - 1 \in VA
  BY <1>1, <1>2 DEF VA
<1>4. NVa - 1 = a * NPte + s /\ a \in Int /\ s \in 0 .. NPte - 1 /\ b \in Int /\ r \in 0 .. NPte - 1
  BY <1>1, <1>2, <1>3, PdeOf
<1>5. b * NPte = NVa - NPte
  BY <1>1, <1>2, <1>3
<1>6. a * NPte + s = b * NPte + r
  <2>1. b * NPte + r = NVa - 1
    BY <1>1, <1>2, <1>5
  <2> QED BY <1>4, <2>1
<1>7. a = b
  BY <1>2, <1>4, <1>6, Quotient
<1>8. q = Pde(q) * NPte + Pte(q) /\ Pte(q) \in 0 .. NPte - 1
  BY PdeOf
<1> QED BY <1>1, <1>2, <1>5, <1>7, <1>8

LEMMA CountUp ==
    ASSUME NEW a \in Nat, NEW m \in Nat, NEW ch, DOMAIN ch = 1 .. m, \A i \in 1 .. m : ch[i] = a + i - 1
    PROVE  /\ IsInjective(ch)
           /\ \A x : (\E i \in DOMAIN ch : x = ch[i]) <=> x \in a .. a + m - 1
<1>1. IsInjective(ch)
  <2> SUFFICES ASSUME NEW i \in 1 .. m, NEW j \in 1 .. m, ch[i] = ch[j] PROVE i = j
    BY DEF IsInjective
  <2>1. ch[i] = a + i - 1 /\ ch[j] = a + j - 1
    OBVIOUS
  <2>2. a + i - 1 = a + j - 1
    BY <2>1
  <2>3. i \in Int /\ j \in Int
    OBVIOUS
  <2> QED BY <2>2, <2>3
<1>2. \A x : (\E i \in DOMAIN ch : x = ch[i]) <=> x \in a .. a + m - 1
  <2> SUFFICES ASSUME NEW x PROVE (\E i \in DOMAIN ch : x = ch[i]) <=> x \in a .. a + m - 1
    OBVIOUS
  <2>1. ASSUME x \in a .. a + m - 1 PROVE \E i \in DOMAIN ch : x = ch[i]
    <3>1. x - a + 1 \in 1 .. m
      BY <2>1
    <3>2. ch[x - a + 1] = x
      BY <2>1, <3>1
    <3> QED BY <3>1, <3>2
  <2>2. ASSUME NEW i \in DOMAIN ch, x = ch[i] PROVE x \in a .. a + m - 1
    BY <2>2
  <2> QED BY <2>1, <2>2
<1> QED BY <1>1, <1>2

CountsUp(w, a, b) == w = [i \in 1 .. b |-> a + i - 1]
IsTail(ch, w, n)  == ch = SubSeq(w, n + 1, Len(w))

LEMMA TakenElements ==
    ASSUME NEW a \in Nat, NEW b \in Nat, NEW n \in Nat, n <= b, NEW w, CountsUp(w, a, b), NEW ch, IsTail(ch, w, n)
    PROVE  /\ ch \in Seq(Nat) /\ Len(ch) = b - n /\ DOMAIN ch = 1 .. b - n
           /\ \A i \in 1 .. b - n : ch[i] = a + n + i - 1
<1>1. w \in Seq(Nat) /\ Len(w) = b /\ \A i \in 1 .. b : w[i] = a + i - 1
  BY DEF CountsUp
<1>2. ch \in Seq(Nat) /\ Len(ch) = b - n /\ DOMAIN ch = 1 .. b - n
  BY <1>1 DEF IsTail
<1>3. \A i \in 1 .. b - n : ch[i] = a + n + i - 1
  <2> SUFFICES ASSUME NEW i \in 1 .. b - n PROVE ch[i] = a + n + i - 1
    OBVIOUS
  <2>1. ch[i] = w[(n + 1) + i - 1]
    BY <1>1 DEF IsTail
  <2>2. (n + 1) + i - 1 = n + i /\ n + i \in 1 .. b
    OBVIOUS
  <2>3. w[n + i] = a + (n + i) - 1
    BY <1>1, <2>2
  <2> QED BY <2>1, <2>2, <2>3
<1> QED BY <1>2, <1>3

LEMMA TakenChain ==
    ASSUME NEW a \in Nat, NEW b \in Nat, NEW n \in Nat, n <= b, NEW w, CountsUp(w, a, b), NEW ch, IsTail(ch, w, n)
    PROVE  /\ ch \in Seq(Nat) /\ Len(ch) = b - n /\ IsInjective(ch)
           /\ \A x : (\E i \in DOMAIN ch : x = ch[i]) <=> x \in a + n .. a + b - 1
<1>1. PICK k, m : k = a + n /\ m = b - n
  OBVIOUS
<1>2. /\ ch \in Seq(Nat) /\ Len(ch) = m /\ DOMAIN ch = 1 .. m /\ \A i \in 1 .. m : ch[i] = k + i - 1
  BY <1>1, TakenElements
<1>3. k \in Nat /\ m \in Nat /\ k + m = a + b
  BY <1>1
<1>4. IsInjective(ch) /\ \A x : (\E i \in DOMAIN ch : x = ch[i]) <=> x \in k .. k + m - 1
  <2>1. DOMAIN ch = 1 .. m
    BY <1>2
  <2>2. \A i \in 1 .. m : ch[i] = k + i - 1
    BY <1>2
  <2>3. k \in Nat /\ m \in Nat
    BY <1>3
  <2> QED BY <2>1, <2>2, <2>3, CountUp
<1> QED BY <1>1, <1>2, <1>3, <1>4

\* A slab of boot, of whose page the first n objects are in use.
BootSlab(s, c, p, n) ==
    /\ s = [size |-> c, page |-> p, nfree |-> s.nfree, chain |-> s.chain]
    /\ s.size = c /\ s.page = p /\ s.nfree = NObj[c] - n
    /\ s.chain \in Seq(Nat) /\ Len(s.chain) = s.nfree /\ IsInjective(s.chain)
    /\ \A x : (\E i \in DOMAIN s.chain : x = s.chain[i]) <=> x \in n .. NObj[c] - 1
Used0(c, pts) == IF c = C16 THEN NSizes + 1 ELSE IF c = PT THEN pts ELSE 0

LEMMA Used0Is ==
    ASSUME NEW pts \in 1 .. 2, NEW c \in Size \union {PT}
    PROVE  /\ Used0(c, pts) \in Nat /\ NObj[c] \in Nat /\ Used0(c, pts) < NObj[c] /\ InUse(c) \in Nat
           /\ InUse(c) <= NObj[c]
           /\ (Used0(c, pts) = 0) <=> c \notin {C16, PT}
  BY Numbers, SlubConstants DEF Used0, InUse

Takes(s, e, n) == s = [e EXCEPT !.nfree = @ - n, !.chain = SubSeq(@, n + 1, Len(@))]

IsRecord(s, c, p, b, w) == s = [size |-> c, page |-> p, nfree |-> b, chain |-> w]

LEMMA TakenRecord ==
    ASSUME NEW c, NEW p, NEW b, NEW w, NEW n, NEW e, IsRecord(e, c, p, b, w), NEW s, Takes(s, e, n),
           NEW ch, IsTail(ch, w, n), NEW m, m = b - n
    PROVE  IsRecord(s, c, p, m, ch)
  BY DEF Takes, IsTail, IsRecord

LEMMA RecordFields ==
    ASSUME NEW c, NEW p, NEW b, NEW w, NEW s, IsRecord(s, c, p, b, w)
    PROVE  /\ s.size = c /\ s.page = p /\ s.nfree = b /\ s.chain = w
           /\ s = [size |-> c, page |-> p, nfree |-> s.nfree, chain |-> s.chain]
  BY DEF IsRecord

LEMMA TakenSlab ==
    ASSUME NEW pts \in 1 .. 2, NEW c \in Size \union {PT}, NEW p, NEW n, n = Used0(c, pts) - InUse(c),
           NEW s, Takes(s, NewSlab(c, p), n)
    PROVE  BootSlab(s, c, p, Used0(c, pts))
<1>1. PICK a, b : a = InUse(c) /\ b = NObj[c] - InUse(c)
  OBVIOUS
<1>2. a \in Nat /\ b \in Nat /\ n \in Nat /\ n <= b /\ a + n = Used0(c, pts) /\ a + b = NObj[c]
  BY <1>1, Numbers, SlubConstants, Used0Is DEF Used0, InUse
<1>3. PICK w : CountsUp(w, a, b)
  BY DEF CountsUp
<1>4. PICK ch : IsTail(ch, w, n)
  BY DEF IsTail
<1>5. IsRecord(NewSlab(c, p), c, p, b, w)
  BY <1>1, <1>3 DEF NewSlab, CountsUp, IsRecord
<1>6. PICK m : m = b - n
  OBVIOUS
<1>7. /\ ch \in Seq(Nat) /\ Len(ch) = b - n /\ IsInjective(ch)
      /\ \A x : (\E i \in DOMAIN ch : x = ch[i]) <=> x \in a + n .. a + b - 1
  <2>1. a \in Nat /\ b \in Nat /\ n \in Nat /\ n <= b
    BY <1>2
  <2> QED BY <1>3, <1>4, <2>1, TakenChain, SMTT(40)
<1>8. /\ s.size = c /\ s.page = p /\ s.nfree = m /\ s.chain = ch
      /\ s = [size |-> c, page |-> p, nfree |-> s.nfree, chain |-> s.chain]
  <2>1. PICK e : e = NewSlab(c, p)
    OBVIOUS
  <2>2. Takes(s, e, n) /\ IsRecord(e, c, p, b, w)
    BY <1>5, <2>1
  <2>3. IsRecord(s, c, p, m, ch)
    BY <1>4, <1>6, <2>2, TakenRecord
  <2> QED BY <2>3, RecordFields
<1>9. b - n = NObj[c] - Used0(c, pts)
  BY <1>2, Used0Is
<1>10. s.nfree = NObj[c] - Used0(c, pts) /\ Len(s.chain) = s.nfree
  BY <1>6, <1>7, <1>8, <1>9
<1>11. \A x : (\E i \in DOMAIN s.chain : x = s.chain[i]) <=> x \in Used0(c, pts) .. NObj[c] - 1
  <2>1. a + n .. a + b - 1 = Used0(c, pts) .. NObj[c] - 1
    BY <1>2
  <2> QED BY <1>7, <1>8, <2>1
<1> QED BY <1>7, <1>8, <1>10, <1>11 DEF BootSlab

\* The state of boot, with pts page tables.
Lead(c) == IF c = PT THEN PtSl ELSE <<P16, c>>
LeadPage(c) == IF c = PT THEN Static ELSE BootPage(c)
BootSeg == << <<P16, NSizes>>, NVa - NSizes, NSizes >>
BootSlabsAre(pts) ==
    /\ slabs = [sl \in DOMAIN slabs |-> slabs[sl]] /\ \A x : x \in DOMAIN slabs <=> \E c \in Size \union {PT} : x = Lead(c)
    /\ \A c \in Size \union {PT} : BootSlab(slabs[Lead(c)], c, LeadPage(c), Used0(c, pts))
BootListsAre ==
    /\ \A c \in Size \union {PT}, l \in {"free", "part", "busy"} :
           lists[c][l] = IF l = (IF c \in {C16, PT} THEN "part" ELSE "free") THEN <<Lead(c)>> ELSE <<>>
    /\ slub_16byte_free = NObj[C16] - NSizes - 1 /\ whole = {}
BootTables(pts) ==
    /\ pd = [x \in Pdes |-> pd[x]] /\ \A x \in Pdes : pd[x] = IF x = Pde(NVa - 1) THEN <<1, 0>> ELSE NoPt
    /\ ptes = [d \in DOMAIN ptes |-> ptes[d]] /\ \A d : d \in DOMAIN ptes <=> \E j \in 0 .. pts - 1 : d = <<1, j>>
    /\ \A j \in 0 .. pts - 1 : ptes[<<1, j>>] = [i \in 0 .. NPte - 1 |-> ptes[<<1, j>>][i]]
    /\ \A j \in 0 .. pts - 1, i \in 0 .. NPte - 1 :
           ptes[<<1, j>>][i] = IF j = 0 /\ i >= NPte - NSizes THEN i - NPte + NSizes + 2 ELSE 0
BootEntries ==
    /\ ram = BootFrames /\ ram_map = [f \in 1 .. NRam |-> ram_map[f]]
    /\ \A f \in 1 .. NRam :
           ram_map[f] = IF f = 1 THEN [lsize |-> {PT}, va |-> PtSl]
                        ELSE IF f <= NSizes + 1 THEN [lsize |-> {f - 2}, va |-> <<P16, f - 2>>]
                        ELSE [lsize |-> {}, va |-> NoPt]
BootThreads ==
    /\ vm_areas = <<BootSeg>> /\ live = {}
    /\ \A m \in Mutexes : owner[m] = NoThread
    /\ \A t \in Thread : todo[t] = <<>> /\ vals[t] = <<>>
Boot(pts) == BootSlabsAre(pts) /\ BootListsAre /\ BootTables(pts) /\ BootEntries /\ BootThreads

LEMMA TakenAtBoot ==
    ASSUME NEW pts \in 1 .. 2
    PROVE  /\ pts = Used0(PT, pts) - InUse(PT)
           /\ \A c \in Size : (IF c = C16 THEN 1 ELSE 0) = Used0(c, pts) - InUse(c)
           /\ \A c \in Size : c # PT /\ <<P16, c>> # PtSl
<1>1. pts = Used0(PT, pts) - InUse(PT)
  BY Numbers DEF Used0, InUse
<1>2. \A c \in Size : (IF c = C16 THEN 1 ELSE 0) = Used0(c, pts) - InUse(c)
  BY Numbers DEF Used0, InUse
<1>3. \A c \in Size : <<P16, c>> # PtSl
  <2> SUFFICES ASSUME NEW c \in Size, <<P16, c>> = PtSl PROVE FALSE
    OBVIOUS
  <2>1. c = -1
    BY Tuples DEF PtSl
  <2> QED BY <2>1, Numbers
<1> QED BY <1>1, <1>2, <1>3, Numbers

LEMMA InitSlabs ==
    ASSUME NEW pts \in 1 .. 2, NEW S, S = {<<P16, i>> : i \in Size},
           slabs = With([s \in S |->
                         [NewSlab(s[2], NVa - NSizes + s[2]) EXCEPT
                             !.nfree = @ - (IF s[2] = C16 THEN 1 ELSE 0),
                             !.chain = SubSeq(@, (IF s[2] = C16 THEN 1 ELSE 0) + 1, Len(@))]],
                     PtSl,
                     [NewSlab(PT, Static) EXCEPT !.nfree = @ - pts, !.chain = SubSeq(@, pts + 1, Len(@))])
    PROVE  BootSlabsAre(pts)
<1> DEFINE one(s) == IF s[2] = C16 THEN 1 ELSE 0
           T(s) == [NewSlab(s[2], NVa - NSizes + s[2]) EXCEPT
                        !.nfree = @ - one(s), !.chain = SubSeq(@, one(s) + 1, Len(@))]
           tp == [NewSlab(PT, Static) EXCEPT !.nfree = @ - pts, !.chain = SubSeq(@, pts + 1, Len(@))]
<1>1. slabs = [y \in S \union {PtSl} |-> IF y = PtSl THEN tp ELSE [s \in S |-> T(s)][y]]
  BY DEF With
<1>2. \A s : Takes(T(s), NewSlab(s[2], NVa - NSizes + s[2]), one(s))
  BY DEF Takes
<1>3. Takes(tp, NewSlab(PT, Static), pts)
  BY DEF Takes
<1>4. PtSl \notin S
  <2>1. \A i \in Size : <<P16, i>> # PtSl
    BY TakenAtBoot
  <2> QED BY <2>1
<1> HIDE DEF T, tp
<1>5. DOMAIN slabs = S \union {PtSl} /\ slabs[PtSl] = tp /\ \A s \in S : slabs[s] = T(s)
  BY <1>1, <1>4
<1>6. slabs = [sl \in DOMAIN slabs |-> slabs[sl]]
  BY <1>1
<1>7. \A x : x \in DOMAIN slabs <=> \E c \in Size \union {PT} : x = Lead(c)
  <2>1. \A c \in Size : Lead(c) = <<P16, c>>
    BY Numbers DEF Lead
  <2>2. Lead(PT) = PtSl
    BY DEF Lead
  <2> QED BY <1>5, <2>1, <2>2
<1>8. \A c \in Size \union {PT} : BootSlab(slabs[Lead(c)], c, LeadPage(c), Used0(c, pts))
  <2> SUFFICES ASSUME NEW c \in Size \union {PT} PROVE BootSlab(slabs[Lead(c)], c, LeadPage(c), Used0(c, pts))
    OBVIOUS
  <2>1. CASE c = PT
    <3>1. pts = Used0(c, pts) - InUse(c)
      BY <2>1, TakenAtBoot
    <3>2. Takes(slabs[PtSl], NewSlab(c, Static), pts)
      BY <1>3, <1>5, <2>1
    <3>3. BootSlab(slabs[PtSl], c, Static, Used0(c, pts))
      BY <3>1, <3>2, TakenSlab
    <3> QED BY <2>1, <3>3 DEF Lead, LeadPage
  <2>2. CASE c \in Size
    <3>1. PICK s : s = <<P16, c>>
      OBVIOUS
    <3>2. s \in S /\ s[2] = c /\ NVa - NSizes + s[2] = BootPage(c)
      BY <2>2, <3>1, Tuples DEF BootPage
    <3>3. one(s) = Used0(c, pts) - InUse(c)
      BY <2>2, <3>2, TakenAtBoot
    <3>4. Takes(slabs[s], NewSlab(c, BootPage(c)), one(s))
      BY <1>2, <1>5, <3>2
    <3>5. PICK n : n = one(s)
      OBVIOUS
    <3>6. BootSlab(slabs[s], c, BootPage(c), Used0(c, pts))
      BY <3>3, <3>4, <3>5, TakenSlab
    <3>7. c # PT
      BY <2>2, Numbers
    <3> QED BY <3>1, <3>6, <3>7 DEF Lead, LeadPage
  <2> QED BY <2>1, <2>2
<1> QED BY <1>6, <1>7, <1>8 DEF BootSlabsAre

LEMMA InitBoots == ASSUME Init PROVE \E pts \in 1 .. 2 : Boot(pts)
<1>1. PICK pts \in 1 .. 2 :
        /\ slabs = With([s \in {<<P16, i>> : i \in Size} |->
                         [NewSlab(s[2], NVa - NSizes + s[2]) EXCEPT
                             !.nfree = @ - (IF s[2] = C16 THEN 1 ELSE 0),
                             !.chain = SubSeq(@, (IF s[2] = C16 THEN 1 ELSE 0) + 1, Len(@))]],
                     PtSl,
                     [NewSlab(PT, Static) EXCEPT !.nfree = @ - pts, !.chain = SubSeq(@, pts + 1, Len(@))])
        /\ ptes = [pt \in {1} \X (0 .. pts - 1) |-> [i \in 0 .. NPte - 1 |->
                     IF pt[2] = 0 /\ i >= NPte - NSizes THEN i - NPte + NSizes + 2 ELSE 0]]
  BY DEF Init, P16, PtSl
<1>2. BootSlabsAre(pts)
  BY <1>1, InitSlabs
<1>3. BootListsAre
  <2>1. lists = [c \in Size \union {PT} |->
              [l \in {"free", "part", "busy"} |->
                  IF l = (IF c \in {C16, PT} THEN "part" ELSE "free") THEN <<Lead(c)>> ELSE <<>>]]
    BY DEF Init, Lead, PtSl, P16
  <2>2. slub_16byte_free = NObj[C16] - NSizes - 1 /\ whole = {}
    BY DEF Init
  <2> HIDE DEF Lead
  <2> QED BY <2>1, <2>2 DEF BootListsAre
<1>4. BootTables(pts)
  <2>1. pd = [x \in Pdes |-> IF x = Pde(NVa - 1) THEN <<1, 0>> ELSE NoPt]
    BY DEF Init, Pdes
  <2>2. pd = [x \in Pdes |-> pd[x]] /\ \A x \in Pdes : pd[x] = IF x = Pde(NVa - 1) THEN <<1, 0>> ELSE NoPt
    BY <2>1
  <2>3. PICK E : E = [d \in {1} \X (0 .. pts - 1) |-> [i \in 0 .. NPte - 1 |->
                     IF d[2] = 0 /\ i >= NPte - NSizes THEN i - NPte + NSizes + 2 ELSE 0]]
    OBVIOUS
  <2>4. ptes = E
    BY <1>1, <2>3
  <2>5. /\ E = [d \in DOMAIN E |-> E[d]] /\ \A d : d \in DOMAIN E <=> \E j \in 0 .. pts - 1 : d = <<1, j>>
    BY <2>3
  <2>6. \A j \in 0 .. pts - 1 : /\ <<1, j>> \in {1} \X (0 .. pts - 1) /\ <<1, j>>[2] = j
    OBVIOUS
  <2>7. \A j \in 0 .. pts - 1 : E[<<1, j>>] = [i \in 0 .. NPte - 1 |->
             IF j = 0 /\ i >= NPte - NSizes THEN i - NPte + NSizes + 2 ELSE 0]
    BY <2>3, <2>6
  <2>8. \A j \in 0 .. pts - 1 : E[<<1, j>>] = [i \in 0 .. NPte - 1 |-> E[<<1, j>>][i]]
    BY <2>7
  <2>9. \A j \in 0 .. pts - 1, i \in 0 .. NPte - 1 :
           E[<<1, j>>][i] = IF j = 0 /\ i >= NPte - NSizes THEN i - NPte + NSizes + 2 ELSE 0
    BY <2>7
  <2> QED BY <2>2, <2>4, <2>5, <2>8, <2>9 DEF BootTables
<1>5. BootEntries
  BY DEF Init, BootEntries, BootFrames, PtSl, P16
<1>6. BootThreads
  <2>1. vm_areas = << << <<NVa - NSizes + C16, NSizes>>, NVa - NSizes + 0, NSizes>> >>
    BY DEF Init
  <2>2. NVa - NSizes + 0 = NVa - NSizes
    BY SlubConstants
  <2>3. vm_areas = <<BootSeg>>
    BY <2>1, <2>2 DEF BootSeg, P16
  <2>4. live = {} /\ owner = [m \in Mutexes |-> NoThread] /\ todo = [t \in Thread |-> <<>>] /\ vals = [t \in Thread |-> <<>>]
    BY DEF Init
  <2> QED BY <2>3, <2>4 DEF BootThreads
<1> QED BY <1>2, <1>3, <1>4, <1>5, <1>6 DEF Boot

LEMMA LeadFacts ==
    /\ \A c \in Size : Lead(c) = <<P16, c>> /\ LeadPage(c) = BootPage(c) /\ BootPage(c) \in VA /\ BootPage(c) = NVa - NSizes + c
    /\ Lead(PT) = PtSl /\ LeadPage(PT) = Static
    /\ \A c, d \in Size \union {PT} : (Lead(c) = Lead(d) => c = d) /\ (LeadPage(c) = LeadPage(d) => c = d)
    /\ LeadPage(C16) = P16 /\ \A c \in Size \union {PT} : LeadPage(c) = P16 => c = C16
<1>1. \A c \in Size : c # PT
  BY Numbers
<1>2. \A c \in Size : Lead(c) = <<P16, c>> /\ LeadPage(c) = BootPage(c) /\ BootPage(c) \in VA /\ BootPage(c) = NVa - NSizes + c
  BY <1>1, BootTable DEF Lead, LeadPage, BootPage
<1>3. Lead(PT) = PtSl /\ LeadPage(PT) = Static
  BY DEF Lead, LeadPage
<1>4. \A c, d \in Size \union {PT} : LeadPage(c) = LeadPage(d) => c = d
  <2> SUFFICES ASSUME NEW c \in Size \union {PT}, NEW d \in Size \union {PT}, LeadPage(c) = LeadPage(d) PROVE c = d
    OBVIOUS
  <2>1. Static \notin VA /\ NVa \in Int /\ NSizes \in Int /\ \A i \in Size : i \in Int
    BY Numbers
  <2>2. CASE c \in Size /\ d \in Size
    <3>1. NVa - NSizes + c = NVa - NSizes + d
      BY <1>2, <2>2
    <3>2. c \in Int /\ d \in Int /\ NVa - NSizes \in Int
      BY <2>1, <2>2
    <3>3. \A k \in Int : k + c = k + d => c = d
      BY <3>2
    <3> QED BY <3>1, <3>2, <3>3
  <2> QED BY <1>2, <1>3, <2>1, <2>2
<1>5. \A c, d \in Size \union {PT} : Lead(c) = Lead(d) => c = d
  <2> SUFFICES ASSUME NEW c \in Size \union {PT}, NEW d \in Size \union {PT}, Lead(c) = Lead(d) PROVE c = d
    OBVIOUS
  <2>1. CASE c \in Size /\ d \in Size
    BY <1>2, <2>1, Tuples
  <2>2. \A i \in Size : <<P16, i>> # PtSl
    <3>1. 1 \in 1 .. 2
      OBVIOUS
    <3> QED BY <3>1, TakenAtBoot
  <2> QED BY <1>2, <1>3, <2>1, <2>2
<1>6. LeadPage(C16) = P16
  BY <1>2, Numbers DEF P16, BootPage
<1>7. C16 \in Size \union {PT}
  BY Numbers
<1> QED BY <1>2, <1>3, <1>4, <1>5, <1>6, <1>7

LEMMA BootSlabsOk ==
    ASSUME NEW pts \in 1 .. 2, BootSlabsAre(pts)
    PROVE  /\ SlabsOk
           /\ \A c \in Size \union {PT} : Lead(c) \in DOMAIN slabs /\ slabs[Lead(c)].size = c /\ slabs[Lead(c)].page = LeadPage(c)
           /\ \A c \in Size \union {PT} : ListOf(slabs[Lead(c)]) = IF c \in {C16, PT} THEN "part" ELSE "free"
<1>1. \A c \in Size \union {PT} : /\ Lead(c) \in DOMAIN slabs /\ BootSlab(slabs[Lead(c)], c, LeadPage(c), Used0(c, pts))
                                  /\ slabs[Lead(c)].size = c /\ slabs[Lead(c)].page = LeadPage(c)
  BY DEF BootSlabsAre, BootSlab
<1>2. \A sl \in DOMAIN slabs : \E c \in Size \union {PT} : sl = Lead(c)
  BY DEF BootSlabsAre
<1>3. \A c \in Size \union {PT} : slabs[Lead(c)].nfree \in Nat /\ LeadPage(c) \in VA \union {Static}
  <2> SUFFICES ASSUME NEW c \in Size \union {PT} PROVE slabs[Lead(c)].nfree \in Nat /\ LeadPage(c) \in VA \union {Static}
    OBVIOUS
  <2>1. slabs[Lead(c)].nfree = NObj[c] - Used0(c, pts)
    BY <1>1 DEF BootSlab
  <2> QED BY <2>1, Used0Is, LeadFacts
<1>4. \A sl \in DOMAIN slabs : SlabOk(sl)
  <2> SUFFICES ASSUME NEW c \in Size \union {PT} PROVE SlabOk(Lead(c))
    BY <1>2
  <2>1. PICK s : s = slabs[Lead(c)]
    OBVIOUS
  <2>2. /\ s = [size |-> c, page |-> LeadPage(c), nfree |-> s.nfree, chain |-> s.chain]
        /\ s.size = c /\ s.page = LeadPage(c)
        /\ s.chain \in Seq(Nat) /\ Len(s.chain) = s.nfree /\ IsInjective(s.chain)
    BY <1>1, <2>1 DEF BootSlab
  <2>3. s.nfree \in Nat /\ LeadPage(c) \in VA \union {Static}
    BY <1>3, <2>1
  <2>4. s \in SlabRec
    <3>1. PICK p, n, ch : p = LeadPage(c) /\ n = s.nfree /\ ch = s.chain
      OBVIOUS
    <3>2. s = [size |-> c, page |-> p, nfree |-> n, chain |-> ch] /\ p \in VA \union {Static} /\ n \in Nat /\ ch \in Seq(Nat)
      BY <2>2, <2>3, <3>1
    <3> QED BY <3>2 DEF SlabRec
  <2>5. Lead(c) = PtSl \/ IsStruct(Lead(c))
    BY LeadFacts, Numbers DEF IsStruct
  <2>6. s.page = Static <=> Lead(c) = PtSl
    BY <2>2, LeadFacts
  <2>7. s.size = C16 => Lead(c) = Sl16
    BY <2>2, LeadFacts, Numbers DEF Sl16
  <2>8. s.nfree = Len(s.chain)
    BY <2>2
  <2> QED BY <2>1, <2>2, <2>4, <2>5, <2>6, <2>7, <2>8 DEF SlabOk
<1>5. \A a, b \in DOMAIN slabs : slabs[a].page = slabs[b].page => a = b
  BY <1>1, <1>2, LeadFacts
<1>6. SlabsOk
  <2>1. \A i \in Size : /\ <<P16, i>> \in DOMAIN slabs
                        /\ slabs[<<P16, i>>].size = i /\ slabs[<<P16, i>>].page = BootPage(i)
    BY <1>1, LeadFacts
  <2>2. PtSl \in DOMAIN slabs /\ slabs[PtSl].size = PT
    BY <1>1, LeadFacts
  <2>3. slabs = [sl \in DOMAIN slabs |-> slabs[sl]]
    BY DEF BootSlabsAre
  <2> QED BY <1>4, <1>5, <2>1, <2>2, <2>3 DEF SlabsOk
<1>7. \A c \in Size \union {PT} : ListOf(slabs[Lead(c)]) = IF c \in {C16, PT} THEN "part" ELSE "free"
  <2> SUFFICES ASSUME NEW c \in Size \union {PT}
               PROVE  ListOf(slabs[Lead(c)]) = IF c \in {C16, PT} THEN "part" ELSE "free"
    OBVIOUS
  <2>1. PICK s : s = slabs[Lead(c)]
    OBVIOUS
  <2>2. s.nfree = NObj[c] - Used0(c, pts) /\ s.size = c
    BY <1>1, <2>1 DEF BootSlab
  <2>3. (s.nfree = NObj[c] <=> c \notin {C16, PT}) /\ s.nfree # 0
    BY <2>2, Used0Is
  <2> QED BY <2>1, <2>2, <2>3 DEF ListOf
<1> QED BY <1>1, <1>6, <1>7

LEMMA BootListsOk ==
    ASSUME NEW pts \in 1 .. 2, BootSlabsAre(pts), BootListsAre
    PROVE  ListsOk
<1> SUFFICES ASSUME NEW c \in Size \union {PT}, NEW l \in {"free", "part", "busy"}
             PROVE  Enumerates(lists[c][l], Filed(c, l))
  BY DEF ListsOk
<1>1. PICK there : there <=> l = (IF c \in {C16, PT} THEN "part" ELSE "free")
  OBVIOUS
<1>2. \A x : x \in Filed(c, l) <=> there /\ x = Lead(c)
  <2>1. \A x \in DOMAIN slabs : \E d \in Size \union {PT} : x = Lead(d)
    BY DEF BootSlabsAre
  <2>2. \A d \in Size \union {PT} : Lead(d) \in DOMAIN slabs /\ slabs[Lead(d)].size = d
    BY BootSlabsOk
  <2>3. ListOf(slabs[Lead(c)]) = l <=> there
    BY <1>1, BootSlabsOk
  <2> QED BY <2>1, <2>2, <2>3 DEF Filed
<1>3. lists[c][l] = IF there THEN <<Lead(c)>> ELSE <<>>
  BY <1>1 DEF BootListsAre
<1>4. CASE there
  <2>1. PICK x, w : x = Lead(c) /\ w = <<x>>
    OBVIOUS
  <2>2. w \in Seq({x}) /\ DOMAIN w = {1} /\ w[1] = x
    BY <2>1
  <2>3. Enumerates(w, Filed(c, l))
    BY <1>2, <1>4, <2>1, <2>2 DEF Enumerates, Listed, IsInjective, IsSeq
  <2> QED BY <1>3, <1>4, <2>1, <2>3
<1>5. CASE ~ there
  <2>1. <<>> \in Seq({})
    OBVIOUS
  <2> QED BY <1>2, <1>3, <1>5, <2>1 DEF Enumerates, Listed, IsInjective, IsSeq
<1> QED BY <1>4, <1>5

LEMMA BootLowOk ==
    ASSUME NEW pts \in 1 .. 2, BootSlabsAre(pts), BootListsAre
    PROVE  LowOk
<1>1. slabs[Sl16].nfree = NObj[C16] - (NSizes + 1)
  <2>1. C16 \in Size \union {PT} /\ Lead(C16) = Sl16
    BY Numbers, LeadFacts DEF Sl16
  <2>2. slabs[Sl16].nfree = NObj[C16] - Used0(C16, pts)
    BY <2>1 DEF BootSlabsAre, BootSlab
  <2> QED BY <2>2 DEF Used0
<1>2. NObj[C16] \in Nat /\ NSizes \in Nat /\ LowWater \in Nat /\ LowWater < NObj[C16] - NSizes - 1
  BY Numbers, SlubConstants
<1> QED BY <1>1, <1>2 DEF LowOk, BootListsAre

LEMMA BootFramesOk ==
    ASSUME BootEntries
    PROVE  /\ FramesOk /\ 1 \in BootFrames /\ \A i \in Size : i + 2 \in BootFrames
<1>1. NRam \in Nat /\ NSizes \in Nat /\ NSizes + 1 <= NRam /\ NSizes > 1
  BY SlubConstants
<1>2. BootFrames \subseteq 1 .. NRam /\ 1 \in BootFrames
  BY <1>1 DEF BootFrames
<1>3. \A i \in Size : i + 2 \in BootFrames /\ i + 2 \in 1 .. NRam /\ i + 2 # 1 /\ i + 2 <= NSizes + 1 /\ (i + 2) - 2 = i
  BY <1>1, Numbers DEF BootFrames
<1>4. ram_map[1] = [lsize |-> {PT}, va |-> PtSl]
  BY <1>2 DEF BootEntries
<1>5. \A i \in Size : ram_map[i + 2] = [lsize |-> {i}, va |-> <<P16, i>>]
  <2> SUFFICES ASSUME NEW i \in Size PROVE ram_map[i + 2] = [lsize |-> {i}, va |-> <<P16, i>>]
    OBVIOUS
  <2>1. PICK f : f = i + 2
    OBVIOUS
  <2>2. f \in 1 .. NRam /\ f # 1 /\ f <= NSizes + 1 /\ f - 2 = i
    BY <1>3, <2>1
  <2>3. ram_map[f] = [lsize |-> {f - 2}, va |-> <<P16, f - 2>>]
    BY <2>2 DEF BootEntries
  <2> QED BY <2>1, <2>2, <2>3
<1>6. \A f \in 1 .. NRam : f \notin BootFrames => ram_map[f] = [lsize |-> {}, va |-> NoPt]
  <2> SUFFICES ASSUME NEW f \in 1 .. NRam, f \notin BootFrames PROVE ram_map[f] = [lsize |-> {}, va |-> NoPt]
    OBVIOUS
  <2>1. f # 1 /\ ~ (f <= NSizes + 1)
    BY <1>1 DEF BootFrames
  <2> QED BY <2>1 DEF BootEntries
<1>7. \A f \in 1 .. NRam : ram_map[f] = [lsize |-> ram_map[f].lsize, va |-> ram_map[f].va]
  BY DEF BootEntries
<1>8. NoPt \notin BootSlabs
  BY Tuples DEF NoPt, BootSlabs, PtSl
<1>9. \A f \in 1 .. NRam : f \notin BootFrames => /\ ram_map[f].lsize = {} /\ ram_map[f].va = NoPt
  BY <1>6
<1>10. ram_map = [f \in 1 .. NRam |-> ram_map[f]] /\ ram = BootFrames
  BY DEF BootEntries
<1>11. FramesOk
  <2>1. ram_map[1].lsize = {PT} /\ ram_map[1].va = PtSl
    BY <1>4
  <2>2. \A i \in Size : ram_map[i + 2].lsize = {i} /\ ram_map[i + 2].va = <<P16, i>>
    <3> SUFFICES ASSUME NEW i \in Size PROVE ram_map[i + 2].lsize = {i} /\ ram_map[i + 2].va = <<P16, i>>
      OBVIOUS
    <3>1. PICK e : e = ram_map[i + 2]
      OBVIOUS
    <3>2. e = [lsize |-> {i}, va |-> <<P16, i>>]
      BY <1>5, <3>1
    <3>3. e.lsize = {i} /\ e.va = <<P16, i>>
      BY <3>2
    <3> QED BY <3>1, <3>3
  <2>3. \A f \in 1 .. NRam : f \notin BootFrames =>
            /\ ram_map[f].lsize = {} \/ WHOLE \in ram_map[f].lsize
            /\ ram_map[f].va # NoPt => WHOLE \in ram_map[f].lsize
            /\ ram_map[f].va \notin BootSlabs
    BY <1>8, <1>9
  <2> QED BY <1>2, <1>7, <1>10, <2>1, <2>2, <2>3 DEF FramesOk
<1> QED BY <1>2, <1>3, <1>11

\* Only the pages of boot are mapped.
LEMMA BootTablesOk ==
    ASSUME NEW pts \in 1 .. 2, BootTables(pts)
    PROVE  /\ TablesOk /\ \A d \in DOMAIN ptes : d[1] = 1
           /\ \A q \in VA : Fr(q) # 0 => q >= NVa - NSizes /\ \E i \in Size : q = BootPage(i) /\ Fr(q) = i + 2
<1>1. /\ NPte \in Nat \ {0} /\ NSizes \in Nat \ {0, 1} /\ NSizes <= NPte /\ NVa \in Nat
      /\ NRam \in Nat /\ NRam > NSizes
  BY SlubConstants
<1>2. pd[Pde(NVa - 1)] = <<1, 0>>
  <2>1. NVa - 1 \in VA
    BY SlubConstants DEF VA
  <2> QED BY <2>1, PdeOf DEF BootTables
<1>3. \A x \in Pdes : IsPt(pd[x]) => x = Pde(NVa - 1) /\ pd[x] = <<1, 0>>
  BY DEF BootTables, IsPt
<1>4. 0 \in 0 .. pts - 1 /\ <<1, 0>> \in DOMAIN ptes
  <2>1. 0 \in 0 .. pts - 1
    OBVIOUS
  <2> QED BY <2>1 DEF BootTables
<1>5. \A i \in 0 .. NPte - 1 : ptes[<<1, 0>>][i] = IF i >= NPte - NSizes THEN i - NPte + NSizes + 2 ELSE 0
  BY <1>4 DEF BootTables
<1>6. \A q \in VA : Fr(q) = IF Pde(q) = Pde(NVa - 1) /\ Pte(q) >= NPte - NSizes THEN Pte(q) - NPte + NSizes + 2 ELSE 0
  <2> SUFFICES ASSUME NEW q \in VA
               PROVE  Fr(q) = IF Pde(q) = Pde(NVa - 1) /\ Pte(q) >= NPte - NSizes
                              THEN Pte(q) - NPte + NSizes + 2 ELSE 0
    OBVIOUS
  <2>1. Pde(q) \in Pdes /\ Pte(q) \in 0 .. NPte - 1
    BY PdeOf
  <2>2. CASE Pde(q) = Pde(NVa - 1)
    <3>1. Usable(pd[Pde(q)])
      <4>1. <<1, 0>> # NoPt /\ <<1, 0>> # Section /\ <<1, 0>>[1] = 1
        BY Tuples DEF NoPt, Section
      <4> QED BY <1>2, <2>2, <4>1 DEF Usable, IsPt
    <3>2. Fr(q) = ptes[<<1, 0>>][Pte(q)]
      BY <1>2, <2>2, <3>1 DEF Fr
    <3> QED BY <1>5, <2>1, <2>2, <3>2
  <2>3. CASE Pde(q) # Pde(NVa - 1)
    BY <1>3, <2>1, <2>3 DEF Fr, Usable
  <2> QED BY <2>2, <2>3
<1>7. \A i \in Size : Fr(BootPage(i)) = i + 2
  <2> SUFFICES ASSUME NEW i \in Size PROVE Fr(BootPage(i)) = i + 2
    OBVIOUS
  <2>1. PICK q : q = BootPage(i)
    OBVIOUS
  <2>2. q \in VA /\ Pde(q) = Pde(NVa - 1) /\ q = NVa - NSizes + i /\ i \in Nat /\ i < NSizes
    BY <2>1, BootTable, Numbers DEF BootPage
  <2>3. PICK k : k = Pte(q)
    OBVIOUS
  <2>4. q = NVa - NPte + k /\ k \in 0 .. NPte - 1
    BY <2>2, <2>3, LastTable, PdeOf
  <2>5. k = NPte - NSizes + i
    BY <1>1, <2>2, <2>4
  <2>6. Fr(q) = k - NPte + NSizes + 2
    BY <1>1, <1>6, <2>2, <2>3, <2>5
  <2>7. k - NPte + NSizes + 2 = i + 2
    BY <1>1, <2>2, <2>5
  <2> QED BY <2>1, <2>6, <2>7
<1>8. \A q \in VA : Fr(q) # 0 => q >= NVa - NSizes /\ \E i \in Size : q = BootPage(i) /\ Fr(q) = i + 2
  <2> SUFFICES ASSUME NEW q \in VA, Fr(q) # 0
               PROVE  q >= NVa - NSizes /\ \E i \in Size : q = BootPage(i) /\ Fr(q) = i + 2
    OBVIOUS
  <2>1. PICK k : k = Pte(q)
    OBVIOUS
  <2>2. Pde(q) = Pde(NVa - 1) /\ k >= NPte - NSizes
    BY <1>6, <2>1
  <2>3. q = NVa - NPte + k /\ k \in 0 .. NPte - 1
    BY <2>1, <2>2, LastTable, PdeOf
  <2>4. PICK i : i = k - (NPte - NSizes)
    OBVIOUS
  <2>5. i \in Size /\ q = NVa - NSizes + i /\ q >= NVa - NSizes
    BY <1>1, <2>2, <2>3, <2>4 DEF Size
  <2> QED BY <1>7, <2>5 DEF BootPage
<1>9. \A j \in 0 .. pts - 1, i \in 0 .. NPte - 1 : ptes[<<1, j>>][i] \in {0} \union 2 .. NRam
  <2> SUFFICES ASSUME NEW j \in 0 .. pts - 1, NEW i \in 0 .. NPte - 1 PROVE ptes[<<1, j>>][i] \in {0} \union 2 .. NRam
    OBVIOUS
  <2>1. ptes[<<1, j>>][i] = IF j = 0 /\ i >= NPte - NSizes THEN i - NPte + NSizes + 2 ELSE 0
    BY DEF BootTables
  <2>2. i >= NPte - NSizes => i - NPte + NSizes + 2 \in 2 .. NRam
    BY <1>1
  <2> QED BY <2>1, <2>2
<1>10. \A d \in DOMAIN ptes : d[1] = 1
  BY Tuples DEF BootTables
<1>11. PtesOk
  <2> SUFFICES ASSUME NEW d \in DOMAIN ptes
               PROVE  /\ d = <<d[1], d[2]>> /\ d[1] \in 1 .. NRam
                      /\ ptes[d] = [i \in 0 .. NPte - 1 |-> ptes[d][i]]
                      /\ d[1] = 1 => \A i \in 0 .. NPte - 1 : ptes[d][i] \in {0} \union 2 .. NRam
    BY DEF PtesOk, BootTables
  <2>1. PICK j \in 0 .. pts - 1 : d = <<1, j>>
    BY DEF BootTables
  <2>2. d = <<d[1], d[2]>> /\ d[1] = 1
    BY <2>1, Tuples
  <2>3. 1 \in 1 .. NRam
    BY <1>1
  <2>4. ptes[d] = [i \in 0 .. NPte - 1 |-> ptes[d][i]]
    BY <2>1 DEF BootTables
  <2>5. \A i \in 0 .. NPte - 1 : ptes[d][i] \in {0} \union 2 .. NRam
    BY <1>9, <2>1
  <2> QED BY <2>2, <2>3, <2>4, <2>5
<1>12. TablesOk
  <2>1. pd = [x \in Pdes |-> pd[x]]
    BY DEF BootTables
  <2>2. \A x, y \in Pdes : Usable(pd[x]) /\ pd[x] = pd[y] => x = y
    BY <1>3 DEF Usable
  <2>3. \A x \in Pdes : IsPt(pd[x]) => pd[x] \in DOMAIN ptes
    BY <1>3, <1>4
  <2> QED BY <1>2, <1>7, <1>11, <2>1, <2>2, <2>3 DEF TablesOk
<1> QED BY <1>8, <1>10, <1>12

LEMMA BootMapsOk ==
    ASSUME NEW pts \in 1 .. 2, Boot(pts)
    PROVE  MapsOk /\ (\A u, i, q : ~ ValAt(u, i, q)) /\ \A q \in VA : Tracked(q) => \E i \in Size : q = BootPage(i)
<1>1. \A u, i, q : ~ ValAt(u, i, q)
  <2>1. \A u \in Thread : DOMAIN vals[u] = {}
    BY DEF Boot, BootThreads
  <2> QED BY <2>1 DEF ValAt
<1>2. \A q : ~ PageVal(q) /\ ~ FrameVal(q)
  BY <1>1 DEF PageVal, FrameVal
<1>3. BootSlabsAre(pts) /\ BootTables(pts) /\ BootEntries
  BY DEF Boot
<1>4. /\ \A c \in Size \union {PT} : Lead(c) \in DOMAIN slabs /\ slabs[Lead(c)].size = c /\ slabs[Lead(c)].page = LeadPage(c)
      /\ \A sl \in DOMAIN slabs : \E c \in Size \union {PT} : sl = Lead(c)
  BY <1>3, BootSlabsOk DEF BootSlabsAre
<1>5. /\ TablesOk /\ \A d \in DOMAIN ptes : d[1] = 1
      /\ \A q \in VA : Fr(q) # 0 => \E i \in Size : q = BootPage(i) /\ Fr(q) = i + 2
  BY <1>3, BootTablesOk
<1>6. /\ FramesOk /\ 1 \in BootFrames /\ \A i \in Size : i + 2 \in BootFrames
      /\ ram = BootFrames
  BY <1>3, BootFramesOk DEF BootEntries
<1>7. OneFrame
  <2>1. \A i, j \in Size : i + 2 = j + 2 => i = j
    BY Numbers
  <2> QED BY <1>5, <2>1 DEF OneFrame
<1>8. FrameBeside /\ WholeFirst
  BY <1>1 DEF FrameBeside, WholeFirst
<1>9. FramesUsed
  BY <1>2, <1>5, <1>6 DEF FramesUsed
<1>10. Leads
  <2> SUFFICES ASSUME NEW sl \in DOMAIN slabs, slabs[sl].page \in VA, Fr(slabs[sl].page) # 0
               PROVE  ram_map[Fr(slabs[sl].page)].va = sl
    BY DEF Leads
  <2>1. PICK c \in Size \union {PT} : sl = Lead(c)
    BY <1>4
  <2>2. slabs[sl].page = LeadPage(c)
    BY <1>4, <2>1
  <2>3. c \in Size
    BY <2>2, LeadFacts, Numbers
  <2>4. sl = <<P16, c>> /\ slabs[sl].page = BootPage(c) /\ Fr(BootPage(c)) = c + 2
    BY <1>5, <2>1, <2>2, <2>3, LeadFacts DEF TablesOk
  <2> QED BY <1>6, <2>3, <2>4 DEF FramesOk
<1>11. TableFrames
  <2> SUFFICES ASSUME NEW d \in DOMAIN ptes
               PROVE  /\ d[1] \in ram /\ ~ FrameVal(d[1])
                      /\ ram_map[d[1]].va \in DOMAIN slabs /\ slabs[ram_map[d[1]].va].size = PT
                      /\ \A q \in VA : Tracked(q) /\ Fr(q) = d[1] => q = slabs[ram_map[d[1]].va].page
    BY DEF TableFrames
  <2>1. d[1] = 1 /\ ram_map[1].va = PtSl
    BY <1>5, <1>6 DEF FramesOk
  <2>2. PtSl \in DOMAIN slabs /\ slabs[PtSl].size = PT
    BY <1>4, LeadFacts
  <2>3. \A q \in VA : Fr(q) # 1
    <3>1. \A i \in Size : i + 2 # 1
      BY Numbers
    <3> QED BY <1>5, <3>1
  <2> QED BY <1>2, <1>6, <2>1, <2>2, <2>3
<1>12. \A q \in VA : Tracked(q) => \E i \in Size : q = BootPage(i)
  <2> SUFFICES ASSUME NEW q \in VA, Tracked(q) PROVE \E i \in Size : q = BootPage(i)
    OBVIOUS
  <2>1. PICK sl \in DOMAIN slabs : slabs[sl].page = q
    BY <1>2 DEF Tracked, SlabPage
  <2>2. PICK c \in Size \union {PT} : sl = Lead(c)
    BY <1>4
  <2> QED BY <1>4, <2>1, <2>2, LeadFacts, Numbers
<1> QED BY <1>1, <1>7, <1>8, <1>9, <1>10, <1>11, <1>12 DEF MapsOk

\* What has the object j of the page of the first slab of size c.
BootHas(k, a, b, c, j, pts) ==
    \/ k = "slab" /\ a = 0 /\ b = 0 /\ c = C16 /\ j \in Size
    \/ k = "slab" /\ a = 0 /\ b = 0 /\ c = PT /\ j = -1
    \/ k = "seg" /\ a = BootSeg /\ b = 0 /\ c = C16 /\ j = NSizes
    \/ k = "pt" /\ a = <<1, j>> /\ b = 0 /\ c = PT /\ j \in 0 .. pts - 1
    \/ k = "free" /\ a = Lead(c) /\ b = 0 /\ j \in Used0(c, pts) .. NObj[c] - 1

LEMMA BootHasOne ==
    ASSUME NEW pts \in 1 .. 2, NEW c \in Size \union {PT}, NEW j
    PROVE  /\ \A k, a, b, l, d, e : BootHas(k, a, b, c, j, pts) /\ BootHas(l, d, e, c, j, pts) => k = l /\ a = d /\ b = e
           /\ \A k, a, b : j \in Nat /\ BootHas(k, a, b, c, j, pts) => j < NObj[c]
           /\ j \in 0 .. NObj[c] - 1 => \E k, a, b : BootHas(k, a, b, c, j, pts)
<1>1. /\ NSizes \in Nat /\ Size = 0 .. NSizes - 1 /\ C16 # PT /\ NObj[c] \in Nat
      /\ c = C16 => Used0(c, pts) = NSizes + 1 /\ NSizes + 1 < NObj[c]
      /\ c = PT => Used0(c, pts) = pts /\ pts < NObj[c]
      /\ c \notin {C16, PT} => Used0(c, pts) = 0
  BY Numbers, SlubConstants, Used0Is DEF Used0, Size
<1>2. \A k, a, b, l, d, e : BootHas(k, a, b, c, j, pts) /\ BootHas(l, d, e, c, j, pts) => k = l /\ a = d /\ b = e
  <2>1. CASE c = C16
    <3>1. Used0(c, pts) = NSizes + 1
      BY <1>1, <2>1
    <3>2. \A k, a, b : BootHas(k, a, b, c, j, pts) <=>
              \/ k = "slab" /\ a = 0 /\ b = 0 /\ j \in 0 .. NSizes - 1
              \/ k = "seg" /\ a = BootSeg /\ b = 0 /\ j = NSizes
              \/ k = "free" /\ a = Lead(c) /\ b = 0 /\ j \in NSizes + 1 .. NObj[c] - 1
      BY <1>1, <2>1, <3>1 DEF BootHas
    <3>3. /\ j \in 0 .. NSizes - 1 => j # NSizes /\ j \notin NSizes + 1 .. NObj[c] - 1
          /\ j = NSizes => j \notin NSizes + 1 .. NObj[c] - 1
      BY <1>1
    <3> QED BY <3>2, <3>3
  <2>2. CASE c = PT
    <3>1. Used0(c, pts) = pts
      BY <1>1, <2>2
    <3>2. \A k, a, b : BootHas(k, a, b, c, j, pts) <=>
              \/ k = "slab" /\ a = 0 /\ b = 0 /\ j = -1
              \/ k = "pt" /\ a = <<1, j>> /\ b = 0 /\ j \in 0 .. pts - 1
              \/ k = "free" /\ a = Lead(c) /\ b = 0 /\ j \in pts .. NObj[c] - 1
      BY <1>1, <2>2, <3>1 DEF BootHas
    <3>3. /\ j = -1 => j \notin 0 .. pts - 1 /\ j \notin pts .. NObj[c] - 1
          /\ j \in 0 .. pts - 1 => j \notin pts .. NObj[c] - 1
      BY <1>1
    <3> QED BY <3>2, <3>3
  <2>3. CASE c \notin {C16, PT}
    BY <2>3 DEF BootHas
  <2> QED BY <2>1, <2>2, <2>3
<1>3. \A k, a, b : j \in Nat /\ BootHas(k, a, b, c, j, pts) => j < NObj[c]
  <2> SUFFICES ASSUME NEW k, NEW a, NEW b, j \in Nat, BootHas(k, a, b, c, j, pts) PROVE j < NObj[c]
    OBVIOUS
  <2>1. \/ c = C16 /\ j \in Size
        \/ c = C16 /\ j = NSizes
        \/ c = PT /\ j \in 0 .. pts - 1
        \/ j \in Used0(c, pts) .. NObj[c] - 1
    BY DEF BootHas
  <2> QED BY <1>1, <2>1
<1>4. j \in 0 .. NObj[c] - 1 => \E k, a, b : BootHas(k, a, b, c, j, pts)
  <2> SUFFICES ASSUME j \in 0 .. NObj[c] - 1 PROVE \E k, a, b : BootHas(k, a, b, c, j, pts)
    OBVIOUS
  <2>1. CASE j \in Used0(c, pts) .. NObj[c] - 1
    <3>1. BootHas("free", Lead(c), 0, c, j, pts)
      BY <2>1 DEF BootHas
    <3> QED BY <3>1
  <2>2. CASE j \notin Used0(c, pts) .. NObj[c] - 1
    <3>1. (c = C16 /\ (j \in Size \/ j = NSizes)) \/ (c = PT /\ j \in 0 .. pts - 1)
      BY <1>1, <2>2
    <3>2. BootHas("slab", 0, 0, c, j, pts) \/ BootHas("seg", BootSeg, 0, c, j, pts) \/ BootHas("pt", <<1, j>>, 0, c, j, pts)
      BY <3>1 DEF BootHas
    <3> QED BY <3>2
  <2> QED BY <2>1, <2>2
<1> QED BY <1>2, <1>3, <1>4

LEMMA BootTokens ==
    ASSUME NEW pts \in 1 .. 2, Boot(pts)
    PROVE  \A k, a, b, q : Has(k, a, b, q) <=>
               \E c \in Size \union {PT}, j \in Int : q = <<LeadPage(c), j>> /\ BootHas(k, a, b, c, j, pts)
<1>1. \A u, i, q : ~ ValAt(u, i, q)
  BY BootMapsOk
<1>2. BootSlabsAre(pts) /\ BootListsAre /\ BootTables(pts) /\ BootEntries /\ BootThreads
  BY DEF Boot
<1>3. /\ \A c \in Size \union {PT} : Lead(c) \in DOMAIN slabs /\ slabs[Lead(c)].page = LeadPage(c)
      /\ \A sl \in DOMAIN slabs : \E c \in Size \union {PT} : sl = Lead(c)
      /\ C16 \in Size \union {PT} /\ LeadPage(C16) = P16 /\ Lead(PT) = <<LeadPage(PT), -1>> /\ PT \in Size \union {PT}
      /\ \A c \in Size : Lead(c) = <<LeadPage(C16), c>>
  BY <1>2, BootSlabsOk, LeadFacts, Numbers DEF BootSlabsAre, PtSl
<1>4. NSizes \in Int /\ \A c \in Size : c \in Int
  BY Numbers
<1> SUFFICES ASSUME NEW k, NEW a, NEW b, NEW q
             PROVE  Has(k, a, b, q) <=>
                       \E c \in Size \union {PT}, j \in Int : q = <<LeadPage(c), j>> /\ BootHas(k, a, b, c, j, pts)
  OBVIOUS
<1> DEFINE There == \E c \in Size \union {PT}, j \in Int : q = <<LeadPage(c), j>> /\ BootHas(k, a, b, c, j, pts)
<1>5. CASE k = "slab"
  <2>1. Has(k, a, b, q) <=> a = 0 /\ b = 0 /\ \E c \in Size \union {PT} : q = Lead(c)
    BY <1>3, <1>5 DEF Has
  <2>2. There <=> a = 0 /\ b = 0 /\ \E c \in Size \union {PT}, j \in Int :
                      q = <<LeadPage(c), j>> /\ ((c = C16 /\ j \in Size) \/ (c = PT /\ j = -1))
    BY <1>5 DEF BootHas
  <2>3. (\E c \in Size \union {PT} : q = Lead(c)) <=> q = Lead(PT) \/ \E c \in Size : q = Lead(c)
    OBVIOUS
  <2>4. (\E c \in Size \union {PT}, j \in Int :
            q = <<LeadPage(c), j>> /\ ((c = C16 /\ j \in Size) \/ (c = PT /\ j = -1)))
            <=> q = <<LeadPage(PT), -1>> \/ \E c \in Size : q = <<LeadPage(C16), c>>
    BY <1>3, <1>4
  <2>5. (\E c \in Size : q = Lead(c)) <=> \E c \in Size : q = <<LeadPage(C16), c>>
    BY <1>3
  <2> QED BY <1>3, <2>1, <2>2, <2>3, <2>4, <2>5
<1>6. CASE k = "seg"
  <2>1. Has(k, a, b, q) <=> b = 0 /\ a = BootSeg /\ a[1] = q
    <3>1. \A x : IsSeg(x) <=> x = BootSeg
      BY <1>2 DEF BootThreads, IsSeg
    <3> QED BY <1>6, <3>1 DEF Has
  <2>2. BootSeg[1] = <<LeadPage(C16), NSizes>>
    BY <1>3 DEF BootSeg
  <2>3. There <=> a = BootSeg /\ b = 0 /\ \E c \in Size \union {PT}, j \in Int :
                      q = <<LeadPage(c), j>> /\ c = C16 /\ j = NSizes
    BY <1>6 DEF BootHas
  <2>4. (\E c \in Size \union {PT}, j \in Int : q = <<LeadPage(c), j>> /\ c = C16 /\ j = NSizes)
            <=> q = <<LeadPage(C16), NSizes>>
    BY <1>3, <1>4
  <2> QED BY <2>1, <2>2, <2>3, <2>4
<1>7. CASE k = "pt"
  <2>1. \A j \in 0 .. pts - 1 : PtObject(<<1, j>>) = <<LeadPage(PT), j>>
    <3>1. ram_map[1].va = Lead(PT) /\ slabs[Lead(PT)].page = LeadPage(PT)
      BY <1>2, <1>3, BootFramesOk, LeadFacts DEF FramesOk
    <3> QED BY <3>1, Tuples DEF PtObject
  <2>2. \A d : d \in DOMAIN ptes <=> \E j \in 0 .. pts - 1 : d = <<1, j>>
    BY <1>2 DEF BootTables
  <2>3. Has(k, a, b, q) <=> b = 0 /\ \E j \in 0 .. pts - 1 : a = <<1, j>> /\ <<LeadPage(PT), j>> = q
    BY <1>7, <2>1, <2>2 DEF Has
  <2>4. There <=> b = 0 /\ \E c \in Size \union {PT}, j \in Int :
                      q = <<LeadPage(c), j>> /\ a = <<1, j>> /\ c = PT /\ j \in 0 .. pts - 1
    BY <1>7 DEF BootHas
  <2>5. (\E c \in Size \union {PT}, j \in Int : q = <<LeadPage(c), j>> /\ a = <<1, j>> /\ c = PT /\ j \in 0 .. pts - 1)
            <=> \E j \in 0 .. pts - 1 : a = <<1, j>> /\ <<LeadPage(PT), j>> = q
    BY <1>3
  <2> QED BY <2>3, <2>4, <2>5
<1>8. CASE k = "free"
  <2>1. \A c \in Size \union {PT} : OnChain(Lead(c), q) <=> \E j \in Used0(c, pts) .. NObj[c] - 1 : q = <<LeadPage(c), j>>
    <3> SUFFICES ASSUME NEW c \in Size \union {PT}
                 PROVE  OnChain(Lead(c), q) <=> \E j \in Used0(c, pts) .. NObj[c] - 1 : q = <<LeadPage(c), j>>
      OBVIOUS
    <3>1. PICK ch : ch = slabs[Lead(c)].chain
      OBVIOUS
    <3>2. \A x : (\E i \in DOMAIN ch : x = ch[i]) <=> x \in Used0(c, pts) .. NObj[c] - 1
      <4>1. PICK s, p, n : s = slabs[Lead(c)] /\ p = LeadPage(c) /\ n = Used0(c, pts)
        OBVIOUS
      <4>2. BootSlab(s, c, p, n)
        BY <1>2, <4>1 DEF BootSlabsAre
      <4>3. \A x : (\E i \in DOMAIN s.chain : x = s.chain[i]) <=> x \in n .. NObj[c] - 1
        BY <4>2 DEF BootSlab
      <4> QED BY <3>1, <4>1, <4>3
    <3>3. OnChain(Lead(c), q) <=> \E i \in DOMAIN ch : q = <<LeadPage(c), ch[i]>>
      BY <1>3, <3>1 DEF OnChain
    <3> QED BY <3>2, <3>3
  <2>2. Has(k, a, b, q) <=> b = 0 /\ \E c \in Size \union {PT} : a = Lead(c) /\ OnChain(Lead(c), q)
    <3>1. OnChain(a, q) => a \in DOMAIN slabs
      BY DEF OnChain
    <3> QED BY <1>3, <1>8, <3>1 DEF Has
  <2>3. There <=> b = 0 /\ \E c \in Size \union {PT}, j \in Int :
                      q = <<LeadPage(c), j>> /\ a = Lead(c) /\ j \in Used0(c, pts) .. NObj[c] - 1
    BY <1>8 DEF BootHas
  <2>4. \A c \in Size \union {PT} : \A j \in Used0(c, pts) .. NObj[c] - 1 : j \in Int
    OBVIOUS
  <2> QED BY <2>1, <2>2, <2>3, <2>4
<1>9. CASE k \notin {"slab", "seg", "pt", "free"}
  <2>1. ~ There
    BY <1>9 DEF BootHas
  <2>2. whole = {} /\ live = {}
    BY <1>2 DEF BootListsAre, BootThreads
  <2>3. ~ Has(k, a, b, q)
    BY <1>1, <1>9, <2>2 DEF Has
  <2> QED BY <2>1, <2>3
<1> QED BY <1>5, <1>6, <1>7, <1>8, <1>9

-----------------------------------------------------------------------------
(* The state of boot has the invariant.                                    *)

LEMMA InitHeap == Init => HeapInv
<1> SUFFICES ASSUME Init PROVE HeapInv
  OBVIOUS
<1>1. PICK pts \in 1 .. 2 : Boot(pts)
  BY InitBoots
<1>2. BootSlabsAre(pts) /\ BootListsAre /\ BootTables(pts) /\ BootEntries /\ BootThreads
  BY <1>1 DEF Boot
<1>3. /\ \A k, a, b, q : Has(k, a, b, q) <=>
             \E c \in Size \union {PT}, j \in Int : q = <<LeadPage(c), j>> /\ BootHas(k, a, b, c, j, pts)
      /\ \A u, i, q : ~ ValAt(u, i, q)
      /\ MapsOk
  BY <1>1, BootTokens, BootMapsOk
<1>4. \A c \in Size \union {PT}, j \in Int : \A k, a, b :
          Has(k, a, b, <<LeadPage(c), j>>) <=> BootHas(k, a, b, c, j, pts)
  <2> SUFFICES ASSUME NEW c \in Size \union {PT}, NEW j \in Int, NEW k, NEW a, NEW b
               PROVE  Has(k, a, b, <<LeadPage(c), j>>) <=> BootHas(k, a, b, c, j, pts)
    OBVIOUS
  <2>1. PICK q : q = <<LeadPage(c), j>>
    OBVIOUS
  <2>2. \A d \in Size \union {PT}, i \in Int : q = <<LeadPage(d), i>> => d = c /\ i = j
    BY <2>1, Tuples, LeadFacts
  <2>3. Has(k, a, b, q) <=>
             \E d \in Size \union {PT}, i \in Int : q = <<LeadPage(d), i>> /\ BootHas(k, a, b, d, i, pts)
    BY <1>3
  <2> QED BY <2>1, <2>2, <2>3
<1>5. /\ \A sl \in DOMAIN slabs : \E c \in Size \union {PT} : slabs[sl].size = c /\ slabs[sl].page = LeadPage(c)
      /\ SlabsOk /\ ListsOk /\ LowOk /\ FramesOk /\ TablesOk
  <2>1. \A sl \in DOMAIN slabs : \E c \in Size \union {PT} : sl = Lead(c)
    BY <1>2 DEF BootSlabsAre
  <2>2. \A c \in Size \union {PT} : slabs[Lead(c)].size = c /\ slabs[Lead(c)].page = LeadPage(c)
    BY <1>2, BootSlabsOk
  <2> QED BY <1>2, <2>1, <2>2, BootSlabsOk, BootListsOk, BootLowOk, BootFramesOk, BootTablesOk
<1>6. TokensOk
  <2>1. Own
    <3> SUFFICES ASSUME NEW q, NEW k, NEW a, NEW b, NEW l, NEW d, NEW e, Has(k, a, b, q), Has(l, d, e, q)
                 PROVE  k = l /\ a = d /\ b = e
      BY DEF Own
    <3>1. PICK c \in Size \union {PT}, j \in Int : q = <<LeadPage(c), j>> /\ BootHas(k, a, b, c, j, pts)
      BY <1>3
    <3>2. BootHas(l, d, e, c, j, pts)
      BY <1>4, <3>1
    <3> QED BY <3>1, <3>2, BootHasOne
  <2>2. NoneLost
    <3> SUFFICES ASSUME NEW sl \in DOMAIN slabs, NEW j \in 0 .. NObj[slabs[sl].size] - 1
                 PROVE  Held(<<slabs[sl].page, j>>)
      BY DEF NoneLost
    <3>1. PICK c \in Size \union {PT} : slabs[sl].size = c /\ slabs[sl].page = LeadPage(c)
      BY <1>5
    <3>2. PICK k, a, b : BootHas(k, a, b, c, j, pts)
      BY <3>1, BootHasOne
    <3>3. j \in Int
      OBVIOUS
    <3>4. Has(k, a, b, <<LeadPage(c), j>>)
      BY <1>4, <3>2, <3>3
    <3> QED BY <3>1, <3>4 DEF Held
  <2>3. InPage
    <3> SUFFICES ASSUME NEW sl \in DOMAIN slabs, NEW j \in Nat, Held(<<slabs[sl].page, j>>)
                 PROVE  j < NObj[slabs[sl].size]
      BY DEF InPage
    <3>1. PICK c \in Size \union {PT} : slabs[sl].size = c /\ slabs[sl].page = LeadPage(c)
      BY <1>5
    <3>2. PICK k, a, b : Has(k, a, b, <<LeadPage(c), j>>)
      BY <3>1 DEF Held
    <3>3. BootHas(k, a, b, c, j, pts)
      <4>1. j \in Int
        OBVIOUS
      <4> QED BY <1>4, <3>2, <4>1
    <3> QED BY <3>1, <3>3, BootHasOne
  <2>4. PageAlone
    BY <1>3 DEF PageAlone, PageVal
  <2> QED BY <2>1, <2>2, <2>3, <2>4 DEF TokensOk
<1>7. KnownOk
  <2> SUFFICES ASSUME NEW q \in VA, Used(q) PROVE Known(q)
    BY DEF KnownOk
  <2>1. q >= NVa - NSizes
    <3>1. CASE Fr(q) # 0
      BY <1>2, <3>1, BootTablesOk
    <3>2. CASE \E k \in Int : Held(<<q, k>>)
      <4>1. PICK i \in Int : \E k, a, b : Has(k, a, b, <<q, i>>)
        BY <3>2 DEF Held
      <4>2. PICK c \in Size \union {PT}, j \in Int : <<q, i>> = <<LeadPage(c), j>>
        BY <1>3, <4>1
      <4>3. q = LeadPage(c)
        BY <4>2, Tuples
      <4>4. c \in Size /\ q = NVa - NSizes + c
        BY <4>3, LeadFacts, Numbers
      <4> QED BY <4>4, Numbers
    <3> QED BY <3>1, <3>2 DEF Used
  <2>2. vm_areas = <<BootSeg>>
    BY <1>2 DEF BootThreads
  <2>3. DOMAIN vm_areas = {1} /\ vm_areas[1] = BootSeg /\ BootSeg[2] = NVa - NSizes /\ BootSeg[3] = NSizes
    BY <2>2 DEF BootSeg
  <2>4. NVa - NSizes <= q /\ q < (NVa - NSizes) + NSizes
    BY <2>1, Numbers DEF VA
  <2> QED BY <2>3, <2>4 DEF Known
<1>8. ThreadsOk
  BY <1>2 DEF BootThreads, ThreadsOk, GivesOk, InstallsOk, TakesOk, DoesNow
<1>9. LiveOk
  BY <1>2 DEF BootThreads, LiveOk
<1>10. StructsOk
  <2>1. \A x : IsSeg(x) => x[1] = <<P16, NSizes>>
    BY <1>2 DEF BootThreads, IsSeg, BootSeg
  <2>2. NSizes \in Nat /\ whole = {}
    BY <1>2, Numbers DEF BootListsAre
  <2> QED BY <2>1, <2>2 DEF StructsOk, IsStruct
<1> QED BY <1>3, <1>5, <1>6, <1>7, <1>8, <1>9, <1>10 DEF HeapInv

-----------------------------------------------------------------------------
(* The count of 16-byte objects.                                           *)

LEMMA FoldOfOne ==
    ASSUME NEW a, slabs[a].nfree \in Nat
    PROVE  FoldSet(LAMBDA sl, n : n + slabs[sl].nfree, 0, {a}) = slabs[a].nfree
<1> DEFINE S == {a}
           Eqn(f) == f = [s \in SUBSET S |-> IF s = {} THEN 0
                              ELSE f[s \ {CHOOSE x \in s : TRUE}] + slabs[CHOOSE x \in s : TRUE].nfree]
           g == [s \in SUBSET S |-> IF s = {} THEN 0 ELSE slabs[a].nfree]
<1>1. SUBSET S = {{}, S} /\ S # {} /\ S \ {a} = {} /\ (CHOOSE x \in S : TRUE) = a
  OBVIOUS
<1>2. Eqn(g)
  <2>1. g[{}] = 0
    BY <1>1
  <2>2. g[S] = slabs[a].nfree
    BY <1>1
  <2>3. g[S \ {CHOOSE x \in S : TRUE}] + slabs[CHOOSE x \in S : TRUE].nfree = slabs[a].nfree
    BY <1>1, <2>1
  <2> QED BY <1>1, <2>1, <2>2, <2>3
<1>3. PICK h : h = CHOOSE f : Eqn(f)
  OBVIOUS
<1>4. Eqn(h)
  BY <1>2, <1>3
<1>5. h[{}] = 0 /\ h[S] = h[S \ {CHOOSE x \in S : TRUE}] + slabs[CHOOSE x \in S : TRUE].nfree
  BY <1>1, <1>4
<1>6. h[S] = slabs[a].nfree
  BY <1>1, <1>5
<1>7. FoldSet(LAMBDA sl, n : n + slabs[sl].nfree, 0, {a}) = h[S]
  BY <1>3 DEF FoldSet, MapThenFoldSet
<1> QED BY <1>6, <1>7

-----------------------------------------------------------------------------
(* Every step keeps the invariant.                                         *)

LEMMA HeadsQuiet ==
    ASSUME NEW x, NEW r, IsSeq(r), x[1] \notin Acting
    PROVE  Quiet(Cons(x, r))
  BY ConsFacts DEF Quiet

LEMMA FindsQuiet ==
    ASSUME NEW n, NEW r, IsSeq(r)
    PROVE  Quiet(FromFind(n, r))
<1> DEFINE x == <<"find", n>>
<1>1. x[1] \notin Acting
  BY DEF Acting
<1> HIDE DEF x
<1>2. IsSeq(FromSegAlloc(n, r))
  BY FromAreSeqs
<1>3. Quiet(Cons(x, FromSegAlloc(n, r)))
  BY <1>1, <1>2, HeadsQuiet
<1> QED BY <1>3 DEF FromFind, x

\* Calls begin with a step that does not act on what a thread keeps.
LEMMA CallsQuiet ==
    /\ \A c \in Size \union {WHOLE} : Quiet(Kmalloc(c) \o << <<"give", c>> >>)
    /\ Quiet(VmAlloc(FbPages) \o << <<"sections">> >>)
<1>1. ASSUME NEW c \in Size \union {WHOLE} PROVE Quiet(Kmalloc(c) \o << <<"give", c>> >>)
  <2> DEFINE g == << <<"give", c>> >>
             x == <<"alloc", c>>
  <2>1. IsSeq(g) /\ x[1] \notin Acting
    BY OneForm, ConsFacts, EmptyIsSeq DEF Acting
  <2>2. Kmalloc(c) = IF c = WHOLE THEN Page ELSE <<x>>
    BY DEF Kmalloc
  <2> HIDE DEF g, x
  <2>3. IsSeq(FromPm(g))
    BY <2>1, FromAreSeqs
  <2>4. Page \o g = FromFind(1, FromPm(g))
    BY <2>1, PageForm
  <2>5. Quiet(Page \o g)
    BY <2>3, <2>4, FindsQuiet
  <2>6. Quiet(<<x>> \o g)
    BY <2>1, HeadsQuiet DEF Cons
  <2>7. Quiet(Kmalloc(c) \o g)
    BY <2>2, <2>5, <2>6
  <2> QED BY <2>7 DEF g
<1>2. Quiet(VmAlloc(FbPages) \o << <<"sections">> >>)
  <2> DEFINE g == << <<"sections">> >>
  <2>1. IsSeq(g)
    BY OneForm, ConsFacts, EmptyIsSeq
  <2> HIDE DEF g
  <2>2. VmAlloc(FbPages) \o g = FromFind(FbPages, g)
    BY <2>1, VmAllocForm
  <2>3. Quiet(VmAlloc(FbPages) \o g)
    BY <2>1, <2>2, FindsQuiet
  <2> QED BY <2>3 DEF g
<1> QED BY <1>1, <1>2

LEMMA NextKeepsHeap == LockInv /\ RangeInv /\ HeapInv /\ [Next]_vars /\ ~ misfreed' => HeapInv'
<1> SUFFICES ASSUME LockInv, RangeInv, HeapInv, [Next]_vars, ~ misfreed' PROVE HeapInv'
  OBVIOUS
<1>1. CASE UNCHANGED vars
  BY <1>1, StutterHeap DEF vars
<1>2. CASE \E why : Fail(why)
  BY <1>2, FailHeap
<1>3. CASE Next /\ ~ \E why : Fail(why)
  <2>1. PICK t \in Thread :
            \/ \E c \in Want : Call(t, Kmalloc(c) \o << <<"give", c>> >>)
            \/ ~FbStarted /\ Call(t, VmAlloc(FbPages) \o << <<"sections">> >>)
            \/ \E o \in live : FreesObject(t, o[1], o[2])
            \/ Step(t)
    BY <1>3, NextCases
  <2>2. CASE \E c \in Want : Call(t, Kmalloc(c) \o << <<"give", c>> >>)
    <3>1. PICK c \in Want : Call(t, Kmalloc(c) \o << <<"give", c>> >>)
      BY <2>2
    <3>2. c \in Size \union {WHOLE}
      BY SlubConstants
    <3> QED BY <3>1, <3>2, CallsQuiet, CallHeap
  <2>3. CASE Call(t, VmAlloc(FbPages) \o << <<"sections">> >>)
    BY <2>3, CallsQuiet, CallHeap
  <2>4. CASE \E o \in live : FreesObject(t, o[1], o[2])
    BY <2>4, FreeHeap
  <2>5. CASE Step(t)
    BY <2>5, AllocHeap, TakeHeap, UnlockHeap, FindHeap, AddSegHeap, LockRamHeap,
       TakeFrameHeap, MapHeap, InstallHeap, TrackHeap, NewSubpagesHeap, MapSectionsHeap,
       PutHeap, GiveHeap DEF Step
  <2> QED BY <2>1, <2>2, <2>3, <2>4, <2>5
<1> QED BY <1>1, <1>2, <1>3

\* That a page of objects was freed is never forgotten.
LEMMA NotMisfreedBefore == [Next]_vars /\ ~ misfreed' => ~ misfreed
<1> SUFFICES ASSUME [Next]_vars, ~ misfreed' PROVE misfreed' = misfreed
  OBVIOUS
<1>1. CASE UNCHANGED vars
  BY <1>1 DEF vars
<1>2. CASE Next /\ misfreed' # misfreed
  <2>1. ~ \E why : Fail(why)
    BY <1>2 DEF Fail
  <2>2. PICK t \in Thread : \/ \E ops : Call(t, ops)
                            \/ \E p, c : Free(t, p, c)
                            \/ Step(t) \/ Frees(t)
    BY <1>2 DEF Next
  <2>3. ~ \E ops : Call(t, ops)
    BY <1>2 DEF Call
  <2>4. ~ \E q, below, rest : Dispatch(t, q, below, rest)
    BY <1>2 DEF Dispatch
  <2>5. ~ \E p, c : Free(t, p, c)
    BY <2>1, <2>4 DEF Free
  <2>6. ~ Frees(t)
    <3>1. ~ FreeStructure(t)
      BY <2>1, <2>4 DEF FreeStructure
    <3>2. ~ Unlink(t)
      BY <1>2, <2>1 DEF Unlink
    <3>3. ~ FreeFrame(t) /\ ~ FreeRange(t) /\ ~ WalkOn(t)
      BY <1>2, <2>1 DEF FreeFrame, FreeRange, WalkOn
    <3> QED BY <3>1, <3>2, <3>3 DEF Frees
  <2>7. ~ \E c : TakeObject(t, c) \/ Grow(t, c)
    BY <1>2 DEF TakeObject, Grow
  <2>8. ~ Alloc(t) /\ ~ TakeAfterGrow(t)
    BY <2>1, <2>7 DEF Alloc, TakeAfterGrow, Take
  <2>9. /\ ~ Unlock(t) /\ ~ Find(t) /\ ~ AddSeg(t) /\ ~ LockRam(t) /\ ~ TakeFrame(t)
        /\ ~ Track(t) /\ ~ MapSections(t) /\ ~ Put(t) /\ ~ Give(t)
    BY <1>2, <2>1 DEF Unlock, Find, AddSeg, LockRam, TakeFrame, Track, MapSections, Put, Give
  <2>10. ~ Map(t) /\ ~ Install(t) /\ ~ NewSubpages(t)
    BY <1>2, <2>1 DEF Map, Install, NewSubpages
  <2> QED BY <2>2, <2>3, <2>5, <2>6, <2>8, <2>9, <2>10 DEF Step
<1> QED BY <1>1, <1>2

\* The three invariants keep one another.
Good    == LockInv /\ RangeInv /\ HeapInv
SlubInv == ~ misfreed => Good

LEMMA GoodKept == Good /\ [Next]_vars /\ ~ misfreed' => Good'
<1> SUFFICES ASSUME Good, [Next]_vars, ~ misfreed' PROVE Good'
  OBVIOUS
<1>1. LockInv /\ RangeInv /\ HeapInv
  BY DEF Good
<1>2. Sound
  BY <1>1, HeapIsSound
<1>3. LockInv' /\ RangeInv' /\ HeapInv'
  BY <1>1, <1>2, NextKeeps, NextKeepsRanges, NextKeepsHeap
<1> QED BY <1>3 DEF Good

LEMMA SlubInvFollows == Spec => []SlubInv
<1>1. Init => SlubInv
  BY InitLockInv, InitRangeInv, InitHeap DEF SlubInv, Good
<1>2. SlubInv /\ [Next]_vars => SlubInv'
  BY GoodKept, NotMisfreedBefore DEF SlubInv
<1> QED BY <1>1, <1>2, PTL DEF Spec

\* As long as kfree() has taken no page of objects for a whole page, nobody waits in
\* a circle, but for a thread that refills the list it needs an object of
\* (slub.c:93-97 and 374-377; mmu.c:224-227 within the refill of page tables), for any
\* number of threads, sizes and pages.
THEOREM NoOtherCircle == Spec => []OnlyRefillsBlock
<1>1. SlubInv => OnlyRefillsBlock
  <2>1. Good => OnlyRefillsBlock
    BY LocksOrdered DEF Good
  <2> QED BY <2>1 DEF SlubInv, OnlyRefillsBlock
<1> QED BY <1>1, SlubInvFollows, PTL

\* Until then ranges of virtual memory never meet, whatever calls are under way.
THEOREM RangesNeverMeet == Spec => []RangesApart
<1>1. SlubInv => RangesApart
  BY DEF SlubInv, Good, RangeInv, Apart, RangesApart
<1> QED BY <1>1, SlubInvFollows, PTL

-----------------------------------------------------------------------------
(* What the invariant says of the lists.                                   *)

\* How often x is in a list without repetition.
LEMMA TimesListed ==
    ASSUME NEW s, NEW S, Enumerates(s, S), NEW x
    PROVE  Cardinality({i \in DOMAIN s : s[i] = x}) = IF x \in S THEN 1 ELSE 0
<1>1. CASE x \in S
  <2>1. PICK i \in DOMAIN s : s[i] = x
    BY <1>1 DEF Enumerates, Listed
  <2>2. \A j \in DOMAIN s : s[j] = x => j = i
    BY <2>1 DEF Enumerates, IsInjective
  <2>3. {j \in DOMAIN s : s[j] = x} = {i}
    BY <2>1, <2>2
  <2> QED BY <1>1, <2>3, FS_Singleton
<1>2. CASE x \notin S
  <2>1. {j \in DOMAIN s : s[j] = x} = {}
    BY <1>2 DEF Enumerates, Listed
  <2> QED BY <1>2, <2>1, FS_EmptySet
<1> QED BY <1>1, <1>2

LEMMA ListsOkMatch == ListsOk => ListsMatch
<1> SUFFICES ASSUME ListsOk, NEW sl \in DOMAIN slabs,
                    NEW c \in Size \union {PT}, NEW l \in {"free", "part", "busy"}
             PROVE  Cardinality({i \in DOMAIN lists[c][l] : lists[c][l][i] = sl}) =
                        IF c = slabs[sl].size /\ l = (IF slabs[sl].nfree = NObj[c] THEN "free"
                                              ELSE IF slabs[sl].nfree = 0 THEN "busy" ELSE "part")
                        THEN 1 ELSE 0
  BY DEF ListsMatch
<1>1. Enumerates(lists[c][l], Filed(c, l))
  BY DEF ListsOk
<1>2. sl \in Filed(c, l) <=> /\ c = slabs[sl].size
                             /\ l = (IF slabs[sl].nfree = NObj[c] THEN "free"
                                     ELSE IF slabs[sl].nfree = 0 THEN "busy" ELSE "part")
  BY DEF Filed, ListOf
<1> QED BY <1>1, <1>2, TimesListed

\* Until kfree() takes a page of objects for a whole page, a slab is always on the one
\* list that its number of free objects asks for.
THEOREM ListsAlwaysMatch == Spec => []ListsMatch
<1>1. SlubInv => ListsMatch
  <2>1. Good => ListsMatch
    BY ListsOkMatch DEF Good, HeapInv
  <2> QED BY <2>1 DEF SlubInv, ListsMatch
<1> QED BY <1>1, SlubInvFollows, PTL

-----------------------------------------------------------------------------
(* 16-byte objects.                                                        *)

\* Mutex free, list not empty.
LEMMA NotDry ==
    ASSUME HeapInv, owner[C16] = NoThread
    PROVE  ~ Empty(C16)
<1>1. LowOk /\ SlabsOk /\ ListsOk
  BY DEF HeapInv
<1>2. Sl16 \in DOMAIN slabs /\ slabs[Sl16].size = C16 /\ slabs[Sl16].nfree \in Nat
  BY <1>1, BootFacts, SlabFacts
<1>3. slabs[Sl16].nfree # 0
  BY <1>1, <1>2, SlubConstants DEF LowOk
<1>4. Sl16 \in Filed(C16, "free") \/ Sl16 \in Filed(C16, "part")
  BY <1>2, <1>3 DEF Filed, ListOf
<1>5. C16 \in Size
  BY LockNumbers
<1>6. Listed(Sl16, lists[C16]["free"]) \/ Listed(Sl16, lists[C16]["part"])
  BY <1>1, <1>4, <1>5 DEF ListsOk, Enumerates
<1> QED BY <1>6 DEF Empty, Listed

\* An assertion that fails is that of the step's own action.
LEMMA WalkSays == \A pt : Walk(pt) # "dry"
  BY DEF Walk
LEMMA VaToPaSays == \A p : VaToPa(p) # "dry"
  BY WalkSays DEF VaToPa

LEMMA NextNotDry ==
    LockInv /\ HeapInv /\ stopped # "dry" /\ [Next]_vars /\ ~ misfreed' => stopped' # "dry"
<1> SUFFICES ASSUME LockInv, HeapInv, stopped # "dry", [Next]_vars, ~ misfreed', stopped' = "dry" PROVE FALSE
  OBVIOUS
<1>1. stopped' # stopped /\ Next
  BY DEF vars
<1>2. PICK t \in Thread : \/ \E ops : Call(t, ops)
                          \/ \E p, c : Free(t, p, c)
                          \/ Step(t)
  BY <1>1, NoFrees DEF Next
<1>3. ~ \E ops : Call(t, ops)
  BY <1>1 DEF Call
<1>4. ~ \E p, c : Free(t, p, c)
  BY <1>1, VaToPaSays DEF Free, Dispatch, Refuses, Fail
<1>5. ~ \E c : TakeObject(t, c) \/ Take(t, c)
  BY <1>1 DEF TakeObject, Take, Fail
<1>6. ~ Alloc(t) /\ ~ TakeAfterGrow(t)
  BY <1>1, <1>5, NotDry DEF Alloc, TakeAfterGrow, Grow
<1>7. ~ Unlock(t) /\ ~ AddSeg(t) /\ ~ LockRam(t) /\ ~ Track(t) /\ ~ Put(t) /\ ~ Give(t)
  BY <1>1 DEF Unlock, AddSeg, LockRam, Track, Put, Give, Fail
<1>8. ~ Find(t) /\ ~ TakeFrame(t) /\ ~ MapSections(t)
  BY <1>1 DEF Find, TakeFrame, MapSections, Fail
<1>9. ~ Map(t)
  BY <1>1, WalkSays DEF Map, Fail
<1>10. ~ Install(t)
  BY <1>1, VaToPaSays DEF Install, Fail
<1>11. ~ NewSubpages(t)
  BY <1>1, VaToPaSays DEF NewSubpages, Fail
<1> QED BY <1>2, <1>3, <1>4, <1>6, <1>7, <1>8, <1>9, <1>10, <1>11 DEF Step

LEMMA LowOkPromises ==
    ASSUME HeapInv, stopped # "dry"
    PROVE  NeverDry
<1>1. LowOk /\ SlabsOk
  BY DEF HeapInv
<1>2. Sl16 \in DOMAIN slabs /\ slabs[Sl16].size = C16 /\ slabs[Sl16].nfree \in Nat
  BY <1>1, BootFacts, SlabFacts
<1>3. \A sl \in DOMAIN slabs : slabs[sl].size = C16 => sl = Sl16
  BY <1>1 DEF SlabsOk, SlabOk
<1>4. {sl \in DOMAIN slabs : slabs[sl].size = C16} = {Sl16}
  BY <1>2, <1>3
<1>5. FoldSet(LAMBDA sl, n : n + slabs[sl].nfree, 0, {Sl16}) = slabs[Sl16].nfree
  BY <1>2, FoldOfOne
<1>6. slub_16byte_free <= slabs[Sl16].nfree
  BY <1>1 DEF LowOk
<1> QED BY <1>4, <1>5, <1>6 DEF NeverDry

\* Until kfree() takes a page of objects for a whole page, the 16-byte objects are never
\* out, though the list is refilled from itself.
THEOREM NeverOut == Spec => []NeverDry
<1> DEFINE NotOut == ~ misfreed => stopped # "dry"
<1>1. Init => NotOut
  BY DEF Init
<1>2. SlubInv /\ NotOut /\ [Next]_vars => NotOut'
  BY NextNotDry, NotMisfreedBefore DEF SlubInv, Good
<1>3. SlubInv /\ NotOut => NeverDry
  <2>1. Good /\ stopped # "dry" => NeverDry
    BY LowOkPromises DEF Good
  <2> QED BY <2>1 DEF SlubInv, NeverDry
<1> QED BY <1>1, <1>2, <1>3, SlubInvFollows, PTL DEF Spec

-----------------------------------------------------------------------------
(* Who has an object.                                                      *)

KeptBy(q)  == UNION {{t} \X {i \in DOMAIN vals[t] : vals[t][i] = q} : t \in Thread}
LiveAt(q)  == {o \in live : o[1] = q}
SlabAt(q)  == {q} \intersect DOMAIN slabs
SegsAt(q)  == {i \in DOMAIN vm_areas : vm_areas[i][1] = q}
WholeAt(q) == {q} \intersect whole
PtsAt(q)   == {d \in DOMAIN ptes : PtObject(d) = q}

\* A set whose elements are the same one, or that has none.
AtMostOne(S) == \A x, y \in S : x = y
One(S) == IF S = {} THEN 0 ELSE 1

LEMMA CountsOne ==
    ASSUME NEW S, AtMostOne(S)
    PROVE  Cardinality(S) = One(S)
<1>1. CASE S = {}
  BY <1>1, FS_EmptySet DEF One
<1>2. CASE S # {}
  <2>1. PICK x : x \in S
    BY <1>2
  <2>2. S = {x}
    BY <2>1 DEF AtMostOne
  <2> QED BY <1>2, <2>2, FS_Singleton DEF One
<1> QED BY <1>1, <1>2

LEMMA OwnersAre ==
    ASSUME NEW q
    PROVE  Owners(q) = Cardinality(KeptBy(q)) + Cardinality(LiveAt(q)) + Cardinality(SlabAt(q))
                       + Cardinality(SegsAt(q)) + Cardinality(WholeAt(q)) + Cardinality(PtsAt(q))
  BY DEF Owners, KeptBy, LiveAt, SlabAt, SegsAt, WholeAt, PtsAt

HasKind(k, q) == \E a, b : Has(k, a, b, q)

\* Each of the sets has an element just when somebody of its kind has the object.
LEMMA SetsHave ==
    ASSUME HeapInv, NEW q
    PROVE  /\ KeptBy(q) # {} <=> HasKind("val", q)
           /\ LiveAt(q) # {} <=> HasKind("live", q)
           /\ SlabAt(q) # {} <=> HasKind("slab", q)
           /\ SegsAt(q) # {} <=> HasKind("seg", q)
           /\ WholeAt(q) # {} <=> HasKind("whole", q)
           /\ PtsAt(q) # {} <=> HasKind("pt", q)
<1>1. KeptBy(q) # {} <=> HasKind("val", q)
  <2>1. KeptBy(q) # {} <=> \E t, i : ValAt(t, i, q)
    <3>1. ASSUME NEW t \in Thread, NEW i \in DOMAIN vals[t], vals[t][i] = q
          PROVE  <<t, i>> \in KeptBy(q)
      <4>1. <<t, i>> \in {t} \X {j \in DOMAIN vals[t] : vals[t][j] = q}
        BY <3>1
      <4> QED BY <4>1 DEF KeptBy
    <3>2. ASSUME NEW x \in KeptBy(q)
          PROVE  \E t, i : ValAt(t, i, q)
      <4>1. PICK t \in Thread : x \in {t} \X {j \in DOMAIN vals[t] : vals[t][j] = q}
        BY <3>2 DEF KeptBy
      <4>2. x[2] \in DOMAIN vals[t] /\ vals[t][x[2]] = q
        BY <4>1
      <4> QED BY <4>2 DEF ValAt
    <3> QED BY <3>1, <3>2 DEF ValAt
  <2>2. HasKind("val", q) <=> \E t, i : ValAt(t, i, q)
    BY HasVal DEF HasKind
  <2> QED BY <2>1, <2>2
<1>2. LiveAt(q) # {} <=> HasKind("live", q)
  <2>1. \A o \in live : o = <<o[1], o[2]>>
    BY DEF HeapInv, LiveOk
  <2>2. ASSUME NEW o \in live, o[1] = q PROVE HasKind("live", q)
    <3>1. <<q, o[2]>> \in live
      BY <2>1, <2>2
    <3>2. Has("live", o[2], 0, q)
      BY <3>1 DEF Has
    <3> QED BY <3>2 DEF HasKind
  <2>3. ASSUME NEW a, NEW b, Has("live", a, b, q) PROVE LiveAt(q) # {}
    <3>1. <<q, a>> \in live /\ <<q, a>>[1] = q
      BY <2>3 DEF Has
    <3> QED BY <3>1 DEF LiveAt
  <2> QED BY <2>2, <2>3 DEF HasKind, LiveAt
<1>3. SlabAt(q) # {} <=> HasKind("slab", q)
  <2>1. HasKind("slab", q) <=> q \in DOMAIN slabs
    BY DEF HasKind, Has
  <2> QED BY <2>1 DEF SlabAt
<1>4. SegsAt(q) # {} <=> HasKind("seg", q)
  <2>1. HasKind("seg", q) <=> \E a : IsSeg(a) /\ a[1] = q
    BY DEF HasKind, Has
  <2> QED BY <2>1 DEF SegsAt, IsSeg
<1>5. WholeAt(q) # {} <=> HasKind("whole", q)
  <2>1. HasKind("whole", q) <=> q \in whole
    BY DEF HasKind, Has
  <2> QED BY <2>1 DEF WholeAt
<1>6. PtsAt(q) # {} <=> HasKind("pt", q)
  <2>1. HasKind("pt", q) <=> \E d \in DOMAIN ptes : PtObject(d) = q
    BY DEF HasKind, Has
  <2> QED BY <2>1 DEF PtsAt
<1> QED BY <1>1, <1>2, <1>3, <1>4, <1>5, <1>6

LEMMA SetsSmall ==
    ASSUME HeapInv, RangeInv, NEW q
    PROVE  /\ AtMostOne(KeptBy(q)) /\ AtMostOne(LiveAt(q)) /\ AtMostOne(SlabAt(q))
           /\ AtMostOne(SegsAt(q)) /\ AtMostOne(WholeAt(q)) /\ AtMostOne(PtsAt(q))
<1>1. \A k, a, b, c, d : Has(k, a, b, q) /\ Has(k, c, d, q) => a = c /\ b = d
  BY DEF HeapInv, TokensOk, Own
<1>2. AtMostOne(KeptBy(q))
  <2>1. ASSUME NEW x \in KeptBy(q)
        PROVE  Has("val", x[1], x[2], q) /\ x = <<x[1], x[2]>>
    <3>1. PICK t \in Thread : x \in {t} \X {j \in DOMAIN vals[t] : vals[t][j] = q}
      BY <2>1 DEF KeptBy
    <3>2. x[1] = t /\ x[2] \in DOMAIN vals[t] /\ vals[t][x[2]] = q /\ x = <<x[1], x[2]>>
      BY <3>1
    <3>3. ValAt(x[1], x[2], q)
      BY <3>2 DEF ValAt
    <3> QED BY <3>2, <3>3, HasVal
  <2> SUFFICES ASSUME NEW x \in KeptBy(q), NEW y \in KeptBy(q) PROVE x = y
    BY DEF AtMostOne
  <2>2. x[1] = y[1] /\ x[2] = y[2]
    BY <1>1, <2>1
  <2> QED BY <2>1, <2>2
<1>3. AtMostOne(LiveAt(q))
  <2> SUFFICES ASSUME NEW x \in LiveAt(q), NEW y \in LiveAt(q) PROVE x = y
    BY DEF AtMostOne
  <2>1. x = <<q, x[2]>> /\ y = <<q, y[2]>> /\ x \in live /\ y \in live
    BY DEF HeapInv, LiveOk, LiveAt
  <2>2. Has("live", x[2], 0, q) /\ Has("live", y[2], 0, q)
    BY <2>1 DEF Has
  <2> QED BY <1>1, <2>1, <2>2
<1>4. AtMostOne(SlabAt(q)) /\ AtMostOne(WholeAt(q))
  BY DEF AtMostOne, SlabAt, WholeAt
<1>5. AtMostOne(SegsAt(q))
  <2> SUFFICES ASSUME NEW i \in SegsAt(q), NEW j \in SegsAt(q) PROVE i = j
    BY DEF AtMostOne
  <2>1. i \in DOMAIN vm_areas /\ j \in DOMAIN vm_areas /\ vm_areas[i][1] = q /\ vm_areas[j][1] = q
    BY DEF SegsAt
  <2>2. Has("seg", vm_areas[i], 0, q) /\ Has("seg", vm_areas[j], 0, q)
    BY <2>1 DEF Has, IsSeg
  <2>3. vm_areas[i] = vm_areas[j]
    BY <1>1, <2>2
  <2>4. vm_areas[i][2] \in Int /\ vm_areas[i][3] \in Nat \ {0}
    BY <2>1 DEF RangeInv, AreasTyped
  <2>5. ~ vm_areas[i][2] + vm_areas[i][3] <= vm_areas[j][2] /\ ~ vm_areas[j][2] + vm_areas[j][3] <= vm_areas[i][2]
    BY <2>3, <2>4
  <2> QED BY <2>1, <2>5 DEF RangeInv, Apart
<1>6. AtMostOne(PtsAt(q))
  <2> SUFFICES ASSUME NEW x \in PtsAt(q), NEW y \in PtsAt(q) PROVE x = y
    BY DEF AtMostOne
  <2>1. Has("pt", x, 0, q) /\ Has("pt", y, 0, q)
    BY DEF PtsAt, Has
  <2> QED BY <1>1, <2>1
<1> QED BY <1>2, <1>3, <1>4, <1>5, <1>6

\* An object of a slab's page is on the slab's chain or has an owner.
LEMMA FreeOrHad ==
    ASSUME HeapInv, NEW sl \in DOMAIN slabs, NEW i \in 0 .. NObj[slabs[sl].size] - 1, NEW q,
           q = <<slabs[sl].page, i>>
    PROVE  /\ i \in Range(slabs[sl].chain) <=> HasKind("free", q)
           /\ \E k \in {"val", "live", "slab", "seg", "whole", "pt", "free"} : HasKind(k, q)
           /\ \A k, l : HasKind(k, q) /\ HasKind(l, q) => k = l
<1>1. TokensOk /\ SlabsOk
  BY DEF HeapInv
<1>2. i \in Range(slabs[sl].chain) <=> \E j \in DOMAIN slabs[sl].chain : slabs[sl].chain[j] = i
  BY DEF Range
<1>3. OnChain(sl, q) <=> i \in Range(slabs[sl].chain)
  <2>1. OnChain(sl, q) <=> \E j \in DOMAIN slabs[sl].chain : q = <<slabs[sl].page, slabs[sl].chain[j]>>
    BY DEF OnChain
  <2> QED BY <1>2, <2>1, Tuples
<1>4. ASSUME NEW a, OnChain(a, q) PROVE a = sl
  <2>1. a \in DOMAIN slabs /\ slabs[a].page = slabs[sl].page
    BY <1>4, Tuples DEF OnChain
  <2> QED BY <1>1, <2>1 DEF SlabsOk
<1>5. HasKind("free", q) <=> \E a : OnChain(a, q)
  BY DEF HasKind, Has
<1>6. Held(q)
  BY <1>1 DEF TokensOk, NoneLost
<1>7. \E k \in {"val", "live", "slab", "seg", "whole", "pt", "free"} : HasKind(k, q)
  BY <1>6 DEF Held, HasKind, Has
<1>8. \A k, l : HasKind(k, q) /\ HasKind(l, q) => k = l
  BY <1>1 DEF TokensOk, Own, HasKind
<1> QED BY <1>3, <1>4, <1>5, <1>7, <1>8

LEMMA OwnersOne ==
    ASSUME HeapInv, RangeInv, NEW sl \in DOMAIN slabs, NEW i \in 0 .. NObj[slabs[sl].size] - 1
    PROVE  Owners(<<slabs[sl].page, i>>) = IF i \in Range(slabs[sl].chain) THEN 0 ELSE 1
<1>1. PICK q : q = <<slabs[sl].page, i>>
  OBVIOUS
<1>2. Owners(q) = One(KeptBy(q)) + One(LiveAt(q)) + One(SlabAt(q))
                  + One(SegsAt(q)) + One(WholeAt(q)) + One(PtsAt(q))
  <2>1. /\ AtMostOne(KeptBy(q)) /\ AtMostOne(LiveAt(q)) /\ AtMostOne(SlabAt(q))
        /\ AtMostOne(SegsAt(q)) /\ AtMostOne(WholeAt(q)) /\ AtMostOne(PtsAt(q))
    BY SetsSmall
  <2>2. /\ Cardinality(KeptBy(q)) = One(KeptBy(q)) /\ Cardinality(LiveAt(q)) = One(LiveAt(q))
        /\ Cardinality(SlabAt(q)) = One(SlabAt(q)) /\ Cardinality(SegsAt(q)) = One(SegsAt(q))
        /\ Cardinality(WholeAt(q)) = One(WholeAt(q)) /\ Cardinality(PtsAt(q)) = One(PtsAt(q))
    BY <2>1, CountsOne
  <2> QED BY <2>2, OwnersAre
<1>3. /\ i \in Range(slabs[sl].chain) <=> HasKind("free", q)
      /\ \E k \in {"val", "live", "slab", "seg", "whole", "pt", "free"} : HasKind(k, q)
      /\ \A k, l : HasKind(k, q) /\ HasKind(l, q) => k = l
  BY <1>1, FreeOrHad
<1>4. /\ KeptBy(q) # {} <=> HasKind("val", q)
      /\ LiveAt(q) # {} <=> HasKind("live", q)
      /\ SlabAt(q) # {} <=> HasKind("slab", q)
      /\ SegsAt(q) # {} <=> HasKind("seg", q)
      /\ WholeAt(q) # {} <=> HasKind("whole", q)
      /\ PtsAt(q) # {} <=> HasKind("pt", q)
  BY SetsHave
<1>5. PICK k \in {"val", "live", "slab", "seg", "whole", "pt", "free"} : HasKind(k, q)
  BY <1>3
<1>6. \A l : HasKind(l, q) <=> l = k
  BY <1>3, <1>5
<1>7. /\ One(KeptBy(q)) = IF k = "val" THEN 1 ELSE 0
      /\ One(LiveAt(q)) = IF k = "live" THEN 1 ELSE 0
      /\ One(SlabAt(q)) = IF k = "slab" THEN 1 ELSE 0
      /\ One(SegsAt(q)) = IF k = "seg" THEN 1 ELSE 0
      /\ One(WholeAt(q)) = IF k = "whole" THEN 1 ELSE 0
      /\ One(PtsAt(q)) = IF k = "pt" THEN 1 ELSE 0
  BY <1>4, <1>6 DEF One
<1>8. Owners(q) = IF k = "free" THEN 0 ELSE 1
  BY <1>2, <1>5, <1>7
<1>9. i \in Range(slabs[sl].chain) <=> k = "free"
  BY <1>3, <1>6
<1> QED BY <1>1, <1>8, <1>9

\* Every object of a slab's page is free or has one owner, whatever calls are under way.
THEOREM OneOwnerAlways == Spec => []OneOwner
<1>1. SlubInv => OneOwner
  <2> SUFFICES ASSUME HeapInv, RangeInv, NEW sl \in DOMAIN slabs
               PROVE  /\ IsInjective(slabs[sl].chain) /\ Len(slabs[sl].chain) = slabs[sl].nfree
                      /\ \A i \in 0 .. NObj[slabs[sl].size] - 1 :
                            Owners(<<slabs[sl].page, i>>) = IF i \in Range(slabs[sl].chain) THEN 0 ELSE 1
    BY DEF OneOwner, SlubInv, Good
  <2>1. SlabsOk
    BY DEF HeapInv
  <2> QED BY <2>1, SlabFacts, OwnersOne
<1> QED BY <1>1, SlubInvFollows, PTL

-----------------------------------------------------------------------------
(* Mappings: what mmu.c does to those that there are.                      *)

\* A page that mmu_va_to_pa() would find mapped, if it found its page table.
InMap(p) == p = Static \/ (p \in VA /\ IsPt(pd[Pde(p)]) /\ Frame(p) # 0)

\* No entry changes that there is; a page that gets a frame is one of t's.
EntriesStay ==
    /\ \A x \in Pdes : IsPt(pd[x]) => pd'[x] = pd[x]
    /\ \A d \in DOMAIN ptes, i \in 0 .. NPte - 1 : ptes[d][i] # 0 => ptes'[d][i] = ptes[d][i]
MapsStay == /\ \A q : InMap(q) => InMap(q)'
            /\ \A q \in VA : Fr(q) # 0 => Fr(q)' # 0
Fills(t) == \A q \in VA : Fr(q) = 0 /\ Fr(q)' # 0 => \E i : ValAt(t, i, <<q, -1>>)

LEMMA GrowingKeeps ==
    ASSUME TablesOk, EntriesStay
    PROVE  MapsStay
<1>1. ASSUME NEW q \in VA PROVE /\ InMap(q) => InMap(q)'
                                /\ Fr(q) # 0 => Fr(q)' # 0
  <2>1. PICK x, i, d : x = Pde(q) /\ i = Pte(q) /\ d = pd[x]
    OBVIOUS
  <2>2. x \in Pdes /\ i \in 0 .. NPte - 1 /\ q # Static
    BY <2>1, PdeOf, Numbers
  <2>3. CASE IsPt(d)
    <3>1. d \in DOMAIN ptes /\ pd'[x] = d
      BY <2>1, <2>2, <2>3 DEF TablesOk, EntriesStay
    <3>2. /\ ptes[d][i] # 0 => ptes'[d][i] = ptes[d][i]
      BY <2>2, <3>1 DEF EntriesStay
    <3>3. Frame(q) = ptes[d][i] /\ Frame(q)' = ptes'[d][i]
      BY <2>1, <2>2, <3>1 DEF Frame
    <3>4. /\ Fr(q) = IF Usable(d) THEN ptes[d][i] ELSE 0
          /\ Fr(q)' = IF Usable(d) THEN ptes'[d][i] ELSE 0
      BY <2>1, <3>1 DEF Fr, Usable, IsPt
    <3>5. InMap(q)' <=> IsPt(d) /\ Frame(q)' # 0
      BY <2>1, <2>2, <3>1 DEF InMap, IsPt
    <3> QED BY <2>1, <2>2, <2>3, <3>2, <3>3, <3>4, <3>5 DEF InMap
  <2>4. CASE ~ IsPt(d)
    BY <2>1, <2>2, <2>4 DEF InMap, Fr, Usable
  <2> QED BY <2>3, <2>4
<1>2. InMap(Static)'
  BY DEF InMap
<1>3. \A q : InMap(q) => q = Static \/ q \in VA
  BY DEF InMap
<1> QED BY <1>1, <1>2, <1>3 DEF MapsStay

LEMMA TablesSame ==
    ASSUME UNCHANGED tables
    PROVE  MapsStay /\ \A t : Fills(t)
<1>1. UNCHANGED <<pd, ptes>>
  BY DEF tables
<1> QED BY <1>1 DEF MapsStay, Fills, InMap, Frame, Fr, Usable, IsPt

\* mmu_map_pages() with a page table: the entry was empty.
LEMMA MapFills ==
    ASSUME LockInv, HeapInv, NEW t \in Thread, Map(t)
    PROVE  /\ EntriesStay /\ Fills(t) /\ raced' = raced
           /\ \/ UNCHANGED tables
              \/ /\ todo'[t] = Tail(todo[t]) /\ UNCHANGED <<vals, pd>>
                 /\ InMap(Below(t)[1])'
<1>1. PICK va, f, n : va = Below(t)[1] /\ f = Top(t)[1] /\ n = Len(vals[t])
  OBVIOUS
<1>2. PICK d, i : d = pd[Pde(va)] /\ i = Pte(va)
  OBVIOUS
<1>3. Does(t, "map") /\ raced' = raced
  BY <1>1, <1>2 DEF Map, Fail
<1>4. Finds(Head(todo[t]), vals[t]) /\ Head(todo[t])[1] = "map"
  BY <1>3, StepFacts
<1>5. n \in Nat /\ n >= 2 /\ Mapping(vals[t][n - 1], vals[t][n])
  BY <1>1, <1>4 DEF Finds
<1>6. Top(t) = vals[t][n] /\ Below(t) = vals[t][n - 1]
  BY <1>1 DEF Top, Last, Below
<1>7. va \in VA /\ Below(t) = <<va, -1>> /\ f \in 1 .. NRam /\ Top(t) = <<f>>
  BY <1>1, <1>5, <1>6 DEF Mapping, IsPage, IsFrame
<1>8. ValAt(t, n - 1, <<va, -1>>)
  BY <1>1, <1>5, <1>6, <1>7, ValsTyped DEF ValAt
<1>9. FramesOk /\ TablesOk
  BY DEF HeapInv
<1>10. Pde(va) \in Pdes /\ i \in 0 .. NPte - 1
  BY <1>2, <1>7, PdeOf
<1>11. CASE d = NoPt \/ d = Section \/ Walk(d) # "no" \/ ptes[d][i] # 0
  <2>1. UNCHANGED tables
    BY <1>1, <1>2, <1>11 DEF Map, Fail
  <2>2. UNCHANGED <<pd, ptes>>
    BY <2>1 DEF tables
  <2>3. EntriesStay
    BY <2>2 DEF EntriesStay, IsPt
  <2> QED BY <1>3, <2>1, <2>3, TablesSame
<1>12. CASE ~ (d = NoPt \/ d = Section \/ Walk(d) # "no" \/ ptes[d][i] # 0)
  <2>1. ptes' = [ptes EXCEPT ![d][i] = f] /\ Then(t, <<>>) /\ UNCHANGED <<pd, vals>>
    BY <1>1, <1>2, <1>12 DEF Map
  <2>2. Usable(d) /\ d \in DOMAIN ptes /\ IsPt(d)
    <3>1. IsPt(d)
      BY <1>12 DEF IsPt
    <3> QED BY <1>2, <1>9, <1>10, <1>12, <3>1, WalkFinds
  <2>3. /\ \A e \in DOMAIN ptes : e # d => ptes'[e] = ptes[e]
        /\ ptes'[d] = [j \in 0 .. NPte - 1 |-> IF j = i THEN f ELSE ptes[d][j]]
    <3>1. ptes = [e \in DOMAIN ptes |-> ptes[e]] /\ ptes[d] = [j \in 0 .. NPte - 1 |-> ptes[d][j]]
      BY <1>9, <2>2 DEF TablesOk, PtesOk
    <3>2. ptes'[d] = [ptes[d] EXCEPT ![i] = f]
      BY <2>1, <2>2, <3>1
    <3> QED BY <1>10, <2>1, <2>2, <3>1, <3>2
  <2>4. EntriesStay
    <3>1. \A e \in DOMAIN ptes, j \in 0 .. NPte - 1 : ptes[e][j] # 0 => ptes'[e][j] = ptes[e][j]
      BY <1>12, <2>3
    <3>2. \A x \in Pdes : pd'[x] = pd[x]
      BY <2>1
    <3> QED BY <3>1, <3>2 DEF EntriesStay
  <2>5. Fills(t)
    <3> SUFFICES ASSUME NEW q \in VA, Fr(q) = 0, Fr(q)' # 0 PROVE \E j : ValAt(t, j, <<q, -1>>)
      BY DEF Fills
    <3>1. PICK e : e = pd[Pde(q)]
      OBVIOUS
    <3>2. Pde(q) \in Pdes /\ Pte(q) \in 0 .. NPte - 1 /\ q = Pde(q) * NPte + Pte(q)
      BY PdeOf
    <3>3. va = Pde(va) * NPte + i
      BY <1>2, <1>7, PdeOf
    <3>4. /\ Fr(q)' = IF Usable(e) THEN ptes'[e][Pte(q)] ELSE 0
          /\ Fr(q) = IF Usable(e) THEN ptes[e][Pte(q)] ELSE 0
      BY <2>1, <3>1 DEF Fr, Usable, IsPt
    <3>5. Usable(e) /\ e \in DOMAIN ptes
      BY <1>9, <3>1, <3>2, <3>4 DEF TablesOk, Usable
    <3>6. e = d /\ Pte(q) = i
      BY <2>3, <3>2, <3>4, <3>5, ZenonT(60)
    <3>7. Pde(q) = Pde(va)
      BY <1>2, <1>9, <1>10, <2>2, <3>1, <3>2, <3>6 DEF TablesOk
    <3>8. q = va
      BY <3>2, <3>3, <3>6, <3>7
    <3> QED BY <1>8, <3>8
  <2>6. InMap(va)'
    <3>1. f # 0
      BY <1>7
    <3>2. Frame(va)' = ptes'[d][i]
      BY <1>2, <1>7, <2>1, Numbers DEF Frame
    <3>3. Frame(va)' = f
      BY <1>10, <2>3, <3>2
    <3>4. pd'[Pde(va)] = d /\ IsPt(d)'
      BY <1>2, <2>1, <2>2 DEF IsPt
    <3> QED BY <1>7, <3>1, <3>3, <3>4 DEF InMap, IsPt
  <2>7. InMap(Below(t)[1])'
    <3>1. Below(t)' = Below(t)
      BY <2>1 DEF Below
    <3>2. Below(t)'[1] = va
      BY <1>1, <3>1
    <3> QED BY <2>6, <3>2 DEF InMap, Frame
  <2>8. todo'[t] = Tail(todo[t])
    BY <1>3, <2>1, TailNext
  <2> QED BY <1>3, <2>1, <2>4, <2>5, <2>7, <2>8
<1> QED BY <1>11, <1>12

\* The object of a page table that is new is no page table yet.
LEMMA TableIsNew ==
    ASSUME HeapInv, NEW sl \in DOMAIN slabs, slabs[sl].size = PT, NEW p, p = slabs[sl].page, VaToPa(p) = "no",
           NEW k, NEW t, NEW n, ValAt(t, n, <<p, k>>), NEW pt, pt = <<Frame(p), k>>
    PROVE  pt \notin DOMAIN ptes /\ pt # NoPt /\ pt # Section
<1>1. SlabsOk /\ FramesOk /\ TablesOk /\ MapsOk /\ TokensOk
  BY DEF HeapInv
<1>2. pt[1] = Frame(p) /\ pt[2] = k /\ pt = <<pt[1], pt[2]>> /\ pt # NoPt /\ pt # Section
  BY Tuples DEF NoPt, Section
<1>3. ram_map[pt[1]].va = sl
  <2>1. CASE p = Static
    BY <1>1, <1>2, <2>1, SlabFacts DEF Frame, FramesOk
  <2>2. CASE p # Static
    <3>1. p \in VA
      BY <1>1, <2>2, SlabFacts
    <3>2. Frame(p) = Fr(p) /\ Fr(p) \in 2 .. NRam
      BY <1>1, <3>1, LookedUp
    <3> QED BY <1>1, <1>2, <3>1, <3>2 DEF MapsOk, Leads
  <2> QED BY <2>1, <2>2
<1>4. ASSUME pt \in DOMAIN ptes PROVE FALSE
  <2>1. PtObject(pt) = <<p, k>>
    BY <1>2, <1>3 DEF PtObject
  <2>2. Has("pt", pt, 0, <<p, k>>) /\ Has("val", t, n, <<p, k>>)
    BY <1>4, <2>1 DEF Has
  <2> QED BY <1>1, <2>2 DEF TokensOk, Own
<1> QED BY <1>2, <1>4

\* A slab's page that can be looked up or is mapped is not found unmapped.
LEMMA MappedIsFound ==
    ASSUME NEW p, InMap(p)
    PROVE  VaToPa(p) # "unmapped"
  BY DEF InMap, VaToPa, Walk

\* mmu_map_pages() with a page table of its own, for an entry that is still empty.
LEMMA InstallFills ==
    ASSUME LockInv, HeapInv, NEW t \in Thread, Install(t), VaToPa(Top(t)[1]) = "no"
    PROVE  /\ Fills(t)
           /\ ~ raced' => EntriesStay
           /\ raced => raced'
           /\ todo'[t] = Tail(todo[t]) /\ Len(vals[t]) >= 3
           /\ \E va \in VA : /\ ValAt(t, Len(vals[t]) - 2, <<va, -1>>) /\ InMap(va)'
                             /\ \A x \in Pdes : x # Pde(va) => pd'[x] = pd[x]
                             /\ IsPt(pd'[Pde(va)])
<1>1. PICK n, va, f, p, k : /\ n = Len(vals[t]) /\ va = vals[t][n - 2][1] /\ f = vals[t][n - 1][1]
                            /\ p = vals[t][n][1] /\ k = vals[t][n][2]
  OBVIOUS
<1>2. Does(t, "install")
  BY DEF Install
<1>3. Finds(Head(todo[t]), vals[t]) /\ Head(todo[t])[1] = "install" /\ HeadOp(t) = "install"
  BY <1>2, StepFacts
<1>4. n \in Nat /\ n >= 3 /\ NewTable(vals[t][n - 2], vals[t][n - 1]) /\ IsPtObj(vals[t][n])
  BY <1>1, <1>3 DEF Finds
<1>5. Top(t) = vals[t][n] /\ Below(t) = vals[t][n - 1]
  BY <1>1 DEF Top, Last, Below
<1>6. /\ va \in VA /\ vals[t][n - 2] = <<va, -1>> /\ f \in 1 .. NRam /\ vals[t][n - 1] = <<f>>
      /\ vals[t][n] = <<p, k>>
  BY <1>1, <1>4, Tuples DEF NewTable, IsPage, IsFrame, IsPtObj
<1>7. ValAt(t, n - 2, <<va, -1>>) /\ ValAt(t, n, <<p, k>>)
  BY <1>1, <1>4, <1>6, ValsTyped DEF ValAt
<1>8. TablesOk
  BY DEF HeapInv
<1>9. Pde(va) \in Pdes /\ Pte(va) \in 0 .. NPte - 1 /\ va # Static
  BY <1>6, PdeOf, Numbers
<1>10. PICK pt : pt = <<Frame(p), k>>
  OBVIOUS
<1>11. PICK new : new = [i \in 0 .. NPte - 1 |-> IF i = Pte(va) THEN f ELSE 0]
  OBVIOUS
<1>12. /\ pd' = [pd EXCEPT ![Pde(va)] = pt] /\ ptes' = With(ptes, pt, new)
       /\ raced' = (raced \/ pd[Pde(va)] # NoPt) /\ Then(t, <<>>)
  BY <1>1, <1>5, <1>10, <1>11 DEF Install
<1>13. PICK sl \in DOMAIN slabs : slabs[sl].page = p /\ slabs[sl].size = PT
  <2>1. InstallsOk(t) /\ DoesNow(t, "install")
    BY <1>2, <1>3 DEF HeapInv, ThreadsOk, Does, DoesNow
  <2> QED BY <1>1, <1>5, <2>1 DEF InstallsOk
<1>14. pt \notin DOMAIN ptes /\ pt # NoPt /\ pt # Section
  <2>1. VaToPa(p) = "no"
    BY <1>1, <1>5
  <2>2. p = slabs[sl].page
    BY <1>13
  <2> QED BY <1>7, <1>10, <1>13, <2>1, <2>2, TableIsNew
<1>15. ptes'[pt] = new /\ \A e \in DOMAIN ptes : ptes'[e] = ptes[e] /\ e # pt
  BY <1>12, <1>14 DEF With
<1>16. \A x \in Pdes : pd'[x] = IF x = Pde(va) THEN pt ELSE pd[x]
  BY <1>8, <1>9, <1>12 DEF TablesOk
<1>17. Fills(t)
  <2> SUFFICES ASSUME NEW q \in VA, Fr(q) = 0, Fr(q)' # 0 PROVE \E j : ValAt(t, j, <<q, -1>>)
    BY DEF Fills
  <2>1. Pde(q) \in Pdes /\ Pte(q) \in 0 .. NPte - 1 /\ q = Pde(q) * NPte + Pte(q)
    BY PdeOf
  <2>2. va = Pde(va) * NPte + Pte(va)
    BY <1>6, PdeOf
  <2>3. CASE Pde(q) = Pde(va)
    <3>1. Fr(q)' = IF Usable(pt) THEN ptes'[pt][Pte(q)] ELSE 0
      BY <1>16, <2>1, <2>3 DEF Fr, Usable, IsPt
    <3>2. ptes'[pt][Pte(q)] = IF Pte(q) = Pte(va) THEN f ELSE 0
      BY <1>11, <1>15, <2>1
    <3>3. Pte(q) = Pte(va)
      BY <3>1, <3>2
    <3>4. q = va
      BY <2>1, <2>2, <2>3, <3>3
    <3> QED BY <1>7, <3>4
  <2>4. CASE Pde(q) # Pde(va)
    <3>1. PICK e : e = pd[Pde(q)]
      OBVIOUS
    <3>2. pd'[Pde(q)] = e
      BY <1>16, <2>1, <2>4, <3>1
    <3>3. Fr(q)' = IF Usable(e) THEN ptes'[e][Pte(q)] ELSE 0
      BY <3>2 DEF Fr, Usable, IsPt
    <3>4. Usable(e) => e \in DOMAIN ptes
      BY <1>8, <2>1, <3>1 DEF TablesOk, Usable
    <3>5. Fr(q)' = Fr(q)
      BY <1>15, <3>1, <3>3, <3>4 DEF Fr
    <3> QED BY <3>5
  <2> QED BY <2>3, <2>4
<1>18. ~ raced' => EntriesStay
  <2>1. ~ raced' => \A x \in Pdes : IsPt(pd[x]) => pd'[x] = pd[x]
    BY <1>9, <1>12, <1>16 DEF IsPt
  <2> QED BY <1>15, <2>1 DEF EntriesStay
<1>19. InMap(va)'
  <2>1. f # 0
    BY <1>6
  <2>2. pd'[Pde(va)] = pt /\ IsPt(pt)
    BY <1>9, <1>14, <1>16 DEF IsPt
  <2>3. Frame(va)' = ptes'[pt][Pte(va)]
    BY <1>9, <2>2 DEF Frame
  <2>4. Frame(va)' = f
    BY <1>9, <1>11, <1>15, <2>3
  <2> QED BY <1>6, <2>1, <2>2, <2>4 DEF InMap, IsPt
<1>20. todo'[t] = Tail(todo[t])
  BY <1>2, <1>12, TailNext
<1>21. (\A x \in Pdes : x # Pde(va) => pd'[x] = pd[x]) /\ IsPt(pd'[Pde(va)])
  BY <1>9, <1>14, <1>16 DEF IsPt
<1>22. raced => raced'
  BY <1>12
<1> QED BY <1>1, <1>4, <1>6, <1>7, <1>17, <1>18, <1>19, <1>20, <1>21, <1>22

\* fb_init() maps where there is nothing.
LEMMA SectionsFill ==
    ASSUME HeapInv, NEW t \in Thread, MapSections(t)
    PROVE  EntriesStay /\ Fills(t)
<1>1. \A x \in Pdes : pd[x] # NoPt => pd'[x] = pd[x]
  BY DEF MapSections, Fail, tables, HeapInv, TablesOk
<1>2. \A x \in Pdes : pd'[x] = pd[x] \/ pd'[x] = Section
  BY DEF MapSections, Fail, tables, HeapInv, TablesOk
<1>3. ptes' = ptes
  BY DEF MapSections, Fail, tables
<1>4. EntriesStay
  BY <1>1, <1>3 DEF EntriesStay, IsPt
<1>5. Fills(t)
  <2> SUFFICES ASSUME NEW q \in VA, Fr(q) = 0, Fr(q)' # 0 PROVE FALSE
    BY DEF Fills
  <2>1. Pde(q) \in Pdes
    BY PdeOf
  <2>2. Usable(pd'[Pde(q)])
    BY DEF Fr, Usable, IsPt
  <2>3. pd'[Pde(q)] = pd[Pde(q)]
    BY <1>2, <2>1, <2>2 DEF Usable, IsPt
  <2>4. Fr(q)' = Fr(q)
    BY <1>3, <2>3 DEF Fr, Usable, IsPt
  <2> QED BY <2>4
<1> QED BY <1>4, <1>5

\* What t does next needs a page that is mapped.
MappedFor(r, v) ==
    /\ Begins(r, {"track"}) => InMap(v[Len(v) - 2][1])
    /\ Begins(r, {"init1", "give"}) => InMap(v[Len(v)][1])
    /\ Begins(r, {"alloc"}) /\ Begins(Tail(r), {"track"}) => InMap(v[Len(v) - 1][1])
MappedOk(t) == MappedFor(todo[t], vals[t])
SlabsMapped == \A sl \in DOMAIN slabs : slabs[sl].page = Static \/ Fr(slabs[sl].page) # 0
LiveMapped  == \A o \in live : InMap(o[1][1])
MappedInv == ~ raced => /\ stopped # "unmapped"
                        /\ SlabsMapped /\ LiveMapped
                        /\ \A t \in Thread : MappedOk(t)

\* The step of a thread, as long as no page of objects is freed for a whole page.
Freeing(t, p, c) == \/ FreesObject(t, p, c)
                    \/ stopped = "no" /\ todo[t] = <<>> /\ Fail(Refuses(p))
Act(t) ==
    \/ \E c \in Want : Call(t, Kmalloc(c) \o << <<"give", c>> >>)
    \/ ~FbStarted /\ Call(t, VmAlloc(FbPages) \o << <<"sections">> >>)
    \/ \E o \in live : Freeing(t, o[1], o[2])
    \/ Step(t)

LEMMA NextActs == LockInv /\ Next /\ ~ misfreed' => \E t \in Thread : Act(t)
<1> SUFFICES ASSUME LockInv, Next, ~ misfreed' PROVE \E t \in Thread : Act(t)
  OBVIOUS
<1>1. \A t, p, c : Free(t, p, c) => stopped = "no" /\ todo[t] = <<>>
  BY DEF Free
<1>2. \A t, p, c : Free(t, p, c) => Freeing(t, p, c)
  BY <1>1, FreeCases DEF Freeing
<1> QED BY <1>2, NoFrees DEF Next, Act

LEMMA FrIsMap ==
    ASSUME NEW q \in VA, Fr(q) # 0
    PROVE  InMap(q)
  BY Numbers DEF Fr, InMap, Usable, Frame

LEMMA ActsAlone ==
    ASSUME LockInv, NEW t \in Thread, Act(t)
    PROVE  SameOthers(t)
<1> DEFINE Same == SameOthers(t)
<1> HIDE DEF Same
<1>1. Kept
  BY DEF LockInv
<1>2. ASSUME NEW why, Fail(why) PROVE Same
  BY <1>2 DEF Fail, SameOthers, Same
<1>3. ASSUME NEW ops, Call(t, ops) PROVE Same
  BY <1>1, <1>3, OnlyMine DEF Call, SameOthers, Same
<1>4. ASSUME NEW p, NEW c, Freeing(t, p, c) PROVE Same
  BY <1>1, <1>2, <1>4, OnlyMine DEF Freeing, FreesObject, SameOthers, Same
<1>5. ASSUME NEW c, TakeObject(t, c) \/ Grow(t, c) PROVE Same
  BY <1>1, <1>5, OnlyMine DEF TakeObject, Grow, SameOthers, Same
<1>6. ASSUME Alloc(t) \/ TakeAfterGrow(t) PROVE Same
  BY <1>2, <1>5, <1>6 DEF Alloc, TakeAfterGrow, Take
<1>7. ASSUME Unlock(t) \/ Find(t) \/ AddSeg(t) \/ LockRam(t) \/ TakeFrame(t) PROVE Same
  BY <1>1, <1>2, <1>7, OnlyMine DEF Unlock, Find, AddSeg, LockRam, TakeFrame, SameOthers, Same
<1>8. ASSUME Map(t) \/ Install(t) \/ Track(t) \/ NewSubpages(t) \/ MapSections(t) PROVE Same
  BY <1>1, <1>2, <1>8, OnlyMine DEF Map, Install, Track, NewSubpages, MapSections, SameOthers, Same
<1>9. ASSUME Put(t) \/ Give(t) PROVE Same
  BY <1>1, <1>2, <1>9, OnlyMine DEF Put, Give, SameOthers, Same
<1> QED BY <1>3, <1>4, <1>6, <1>7, <1>8, <1>9 DEF Act, Step, Same

\* Outside mmu.c, tables stay as they are.
TableStep(t) == Map(t) \/ Install(t) \/ MapSections(t)
LEMMA TablesAlone ==
    ASSUME NEW t, Act(t), ~ TableStep(t)
    PROVE  UNCHANGED tables /\ raced' = raced
<1> DEFINE Same == UNCHANGED tables /\ raced' = raced
<1>1. ASSUME NEW why, Fail(why) PROVE Same
  BY <1>1 DEF Fail
<1>2. ASSUME NEW ops, Call(t, ops) PROVE Same
  BY <1>2 DEF Call
<1>3. ASSUME NEW p, NEW c, Freeing(t, p, c) PROVE Same
  BY <1>1, <1>3 DEF Freeing, FreesObject
<1>4. ASSUME NEW c, TakeObject(t, c) \/ Grow(t, c) PROVE Same
  BY <1>4 DEF TakeObject, Grow
<1> HIDE DEF Same
<1>5. ASSUME Alloc(t) \/ TakeAfterGrow(t) PROVE Same
  BY <1>1, <1>4, <1>5 DEF Alloc, TakeAfterGrow, Take
<1>6. ASSUME Unlock(t) \/ Find(t) \/ AddSeg(t) \/ LockRam(t) \/ TakeFrame(t) PROVE Same
  BY <1>1, <1>6 DEF Unlock, Find, AddSeg, LockRam, TakeFrame, Same
<1>7. ASSUME Track(t) \/ NewSubpages(t) PROVE Same
  BY <1>1, <1>7 DEF Track, NewSubpages, Same
<1>8. ASSUME Put(t) \/ Give(t) PROVE Same
  BY <1>1, <1>8 DEF Put, Give, Same
<1>9. Same
  BY <1>2, <1>3, <1>5, <1>6, <1>7, <1>8 DEF Act, Step, TableStep
<1> QED BY <1>9 DEF Same

\* A mapping that there is stays, unless two threads met.
LEMMA ActsKeepMaps ==
    ASSUME LockInv, HeapInv, NEW t \in Thread, Act(t)
    PROVE  /\ ~ raced' => ~ raced /\ MapsStay
           /\ Fills(t)
<1>1. CASE ~ TableStep(t)
  BY <1>1, TablesAlone, TablesSame
<1>2. TablesOk
  BY DEF HeapInv
<1>3. CASE Map(t)
  BY <1>2, <1>3, MapFills, GrowingKeeps
<1>4. CASE MapSections(t)
  <2>1. raced' = raced
    BY <1>4 DEF MapSections, Fail
  <2> QED BY <1>2, <1>4, <2>1, SectionsFill, GrowingKeeps
<1>5. CASE Install(t)
  <2>1. CASE VaToPa(Top(t)[1]) = "no"
    <3>1. Fills(t) /\ (~ raced' => EntriesStay) /\ (raced => raced')
      BY <1>5, <2>1, InstallFills
    <3>2. EntriesStay => MapsStay
      BY <1>2, GrowingKeeps
    <3> QED BY <3>1, <3>2
  <2>2. CASE VaToPa(Top(t)[1]) # "no"
    <3>1. UNCHANGED tables /\ raced' = raced
      BY <1>5, <2>2 DEF Install, Fail
    <3> QED BY <3>1, TablesSame
  <2> QED BY <2>1, <2>2
<1> QED BY <1>1, <1>3, <1>4, <1>5 DEF TableStep
\* A slab's page stays; that of a new one is mapped.
PagesFollow == \A sl \in DOMAIN slabs' :
    \/ sl \in DOMAIN slabs /\ slabs'[sl].page = slabs[sl].page
    \/ slabs'[sl].page \in VA /\ Fr(slabs'[sl].page) # 0

LEMMA NewPageMapped ==
    ASSUME LockInv, HeapInv, NEW t \in Thread, NewSubpages(t)
    PROVE  PagesFollow
<1>1. PICK c, p, s : c = Arg(t) /\ p = Top(t)[1] /\ s = Below(t)
  OBVIOUS
<1>2. CASE VaToPa(p) # "no"
  BY <1>1, <1>2 DEF NewSubpages, Fail, memory, PagesFollow
<1>3. CASE VaToPa(p) = "no"
  <2>1. Does(t, "init1") /\ slabs' = With(slabs, s, NewSlab(c, p))
    BY <1>1, <1>3 DEF NewSubpages
  <2>2. Finds(Head(todo[t]), vals[t]) /\ Head(todo[t])[1] = "init1"
    BY <2>1, StepFacts
  <2>3. IsPage(Top(t))
    BY <2>2 DEF Finds, Top, Last
  <2>4. p \in VA
    BY <1>1, <2>3 DEF IsPage
  <2>5. Fr(p) # 0
    BY <1>3, <2>4, LookedUp DEF HeapInv
  <2>6. NewSlab(c, p).page = p
    BY DEF NewSlab
  <2> QED BY <2>1, <2>4, <2>5, <2>6 DEF With, PagesFollow
<1> QED BY <1>2, <1>3

LEMMA ActsKeepPages ==
    ASSUME LockInv, HeapInv, NEW t \in Thread, Act(t)
    PROVE  PagesFollow
<1>1. ASSUME UNCHANGED slabs PROVE PagesFollow
  BY <1>1 DEF PagesFollow
<1>2. ASSUME NEW why, Fail(why) PROVE PagesFollow
  BY <1>1, <1>2 DEF Fail, memory
<1>3. ASSUME NEW ops, Call(t, ops) PROVE PagesFollow
  BY <1>1, <1>3 DEF Call, memory
<1>4. ASSUME NEW p, NEW c, Freeing(t, p, c) PROVE PagesFollow
  <2>1. UNCHANGED slabs
    BY <1>4 DEF Freeing, FreesObject, Fail, memory
  <2> QED BY <1>1, <2>1 DEF PagesFollow
<1>5. \A x \in DOMAIN slabs : slabs[x] = [size |-> slabs[x].size, page |-> slabs[x].page,
                                          nfree |-> slabs[x].nfree, chain |-> slabs[x].chain]
  BY SlabFacts DEF HeapInv
<1>6. ASSUME NEW c, TakeObject(t, c) \/ Grow(t, c) PROVE PagesFollow
  <2>1. CASE TakeObject(t, c)
    <3>1. PICK sl : slabs' = [slabs EXCEPT ![sl].chain = Tail(@), ![sl].nfree = @ - 1]
      BY <2>1 DEF TakeObject
    <3>2. slabs' = [slabs EXCEPT ![sl] = [slabs[sl] EXCEPT !.chain = Tail(@), !.nfree = @ - 1]]
      BY <3>1
    <3> QED BY <1>5, <3>2 DEF PagesFollow
  <2>2. CASE Grow(t, c)
    BY <1>1, <2>2 DEF Grow, memory
  <2> QED BY <1>6, <2>1, <2>2
<1>7. ASSUME Put(t), ~ \E why : Fail(why) PROVE PagesFollow
  <2>1. PICK sl, i : slabs' = [slabs EXCEPT ![sl] = FreedFirst(@, i)]
    BY <1>7 DEF Put
  <2>2. \A x \in DOMAIN slabs : FreedFirst(slabs[x], i).page = slabs[x].page
    BY <1>5 DEF FreedFirst
  <2> QED BY <2>1, <2>2 DEF PagesFollow
<1>8. ASSUME Alloc(t) \/ TakeAfterGrow(t) PROVE PagesFollow
  BY <1>2, <1>6, <1>8 DEF Alloc, TakeAfterGrow, Take
<1>9. ASSUME Unlock(t) \/ Find(t) \/ AddSeg(t) \/ LockRam(t) \/ TakeFrame(t) PROVE PagesFollow
  BY <1>1, <1>2, <1>9 DEF Unlock, Find, AddSeg, LockRam, TakeFrame, memory
<1>10. ASSUME Map(t) \/ Install(t) \/ Track(t) \/ MapSections(t) PROVE PagesFollow
  BY <1>1, <1>2, <1>10 DEF Map, Install, Track, MapSections, memory
<1>11. ASSUME Give(t) PROVE PagesFollow
  BY <1>1, <1>2, <1>11 DEF Give, memory
<1> QED BY <1>2, <1>3, <1>4, <1>7, <1>8, <1>9, <1>10, <1>11, NewPageMapped DEF Act, Step

\* What callers hold is what they held, or what kmalloc() returns.
LEMMA ActsKeepLive ==
    ASSUME LockInv, NEW t \in Thread, Act(t)
    PROVE  \A o \in live' : o \in live \/ (DoesNow(t, "give") /\ o[1] = Top(t))
<1> DEFINE Kept2 == \A o \in live' : o \in live \/ (DoesNow(t, "give") /\ o[1] = Top(t))
<1>1. ASSUME UNCHANGED live PROVE Kept2
  BY <1>1
<1>2. ASSUME Give(t) PROVE Kept2
  <2>1. DoesNow(t, "give") /\ live' = live \union {<<Top(t), Arg(t)>>}
    BY <1>2 DEF Give, Does, DoesNow, HeadOp
  <2>2. <<Top(t), Arg(t)>>[1] = Top(t)
    BY Tuples
  <2> QED BY <2>1, <2>2
<1>3. ASSUME NEW p, NEW c, Freeing(t, p, c) PROVE Kept2
  BY <1>3 DEF Freeing, FreesObject, Fail
<1> HIDE DEF Kept2
<1>4. ASSUME NEW why, Fail(why) PROVE Kept2
  BY <1>1, <1>4 DEF Fail
<1>5. ASSUME NEW ops, Call(t, ops) PROVE Kept2
  BY <1>1, <1>5 DEF Call
<1>6. ASSUME NEW c, TakeObject(t, c) \/ Grow(t, c) PROVE Kept2
  BY <1>1, <1>6 DEF TakeObject, Grow
<1>7. ASSUME Alloc(t) \/ TakeAfterGrow(t) PROVE Kept2
  BY <1>4, <1>6, <1>7 DEF Alloc, TakeAfterGrow, Take
<1>8. ASSUME Unlock(t) \/ Find(t) \/ AddSeg(t) \/ LockRam(t) \/ TakeFrame(t) PROVE Kept2
  BY <1>1, <1>4, <1>8 DEF Unlock, Find, AddSeg, LockRam, TakeFrame
<1>9. ASSUME Map(t) \/ Install(t) \/ Track(t) \/ MapSections(t) \/ NewSubpages(t) PROVE Kept2
  BY <1>1, <1>4, <1>9 DEF Map, Install, Track, MapSections, NewSubpages
<1>10. ASSUME Put(t) PROVE Kept2
  BY <1>1, <1>4, <1>10 DEF Put
<1>11. Kept2
  BY <1>2, <1>3, <1>5, <1>7, <1>8, <1>9, <1>10 DEF Act, Step
<1> QED BY <1>11 DEF Kept2

\* Nothing is found unmapped.
LEMMA ActsFindMapped ==
    ASSUME LockInv, HeapInv, NEW t \in Thread, Act(t), SlabsMapped, LiveMapped, MappedOk(t),
           stopped # "unmapped"
    PROVE  stopped' # "unmapped"
<1>1. ASSUME NEW why, Fail(why), why # "unmapped" PROVE stopped' # "unmapped"
  BY <1>1 DEF Fail
<1>2. \A pt : Walk(pt) # "unmapped"
  BY DEF Walk
<1>3. ASSUME NEW ops, Call(t, ops) PROVE stopped' # "unmapped"
  BY <1>3 DEF Call
<1>4. ASSUME NEW o \in live, Freeing(t, o[1], o[2]) PROVE stopped' # "unmapped"
  <2>1. VaToPa(o[1][1]) # "unmapped"
    BY MappedIsFound DEF LiveMapped
  <2>2. Freeing(t, o[1], o[2]) => UNCHANGED stopped \/ Fail(VaToPa(o[1][1])) \/ Fail("leader") \/ Fail("no")
    BY DEF Freeing, FreesObject, Refuses
  <2> QED BY <1>1, <1>4, <2>1, <2>2
<1>5. ASSUME NEW c, TakeObject(t, c) \/ Grow(t, c) PROVE stopped' # "unmapped"
  BY <1>5 DEF TakeObject, Grow
<1>6. ASSUME Alloc(t) \/ TakeAfterGrow(t) PROVE stopped' # "unmapped"
  BY <1>1, <1>5, <1>6 DEF Alloc, TakeAfterGrow, Take
<1>7. ASSUME Unlock(t) \/ Find(t) \/ AddSeg(t) \/ LockRam(t) \/ TakeFrame(t) PROVE stopped' # "unmapped"
  BY <1>1, <1>7 DEF Unlock, Find, AddSeg, LockRam, TakeFrame
<1>8. ASSUME Map(t) \/ Track(t) \/ MapSections(t) PROVE stopped' # "unmapped"
  BY <1>1, <1>2, <1>8 DEF Map, Track, MapSections
<1>9. ASSUME Install(t) PROVE stopped' # "unmapped"
  <2>1. DoesNow(t, "install")
    BY <1>9 DEF Install, Does, DoesNow, HeadOp
  <2>2. PICK sl \in DOMAIN slabs : slabs[sl].page = Top(t)[1]
    BY <2>1 DEF HeapInv, ThreadsOk, InstallsOk
  <2>3. slabs[sl].page \in VA \union {Static}
    BY SlabFacts DEF HeapInv
  <2>4. InMap(Top(t)[1])
    BY <2>2, <2>3, FrIsMap DEF SlabsMapped, InMap
  <2>5. VaToPa(Top(t)[1]) # "unmapped"
    BY <2>4, MappedIsFound
  <2> QED BY <1>1, <1>9, <2>5 DEF Install
<1>10. ASSUME NewSubpages(t) PROVE stopped' # "unmapped"
  <2>1. Begins(todo[t], {"init1", "give"})
    BY <1>10 DEF NewSubpages, Does, Begins
  <2>2. InMap(Top(t)[1])
    BY <2>1 DEF MappedOk, MappedFor, Top, Last
  <2>3. VaToPa(Top(t)[1]) # "unmapped"
    BY <2>2, MappedIsFound
  <2> QED BY <1>1, <1>10, <2>3 DEF NewSubpages
<1>11. ASSUME Put(t) \/ Give(t) PROVE stopped' # "unmapped"
  BY <1>1, <1>11 DEF Put, Give
<1> QED BY <1>3, <1>4, <1>6, <1>7, <1>8, <1>9, <1>10, <1>11 DEF Act, Step

Watched == {"track", "init1", "give", "alloc"}
Unwatched(r) == /\ ~ Begins(r, {"track"}) /\ ~ Begins(r, {"init1", "give"})
                /\ ~ (Begins(r, {"alloc"}) /\ Begins(Tail(r), {"track"}))

LEMMA UnwatchedOk ==
    ASSUME NEW t, Unwatched(todo'[t])
    PROVE  MappedOk(t)'
  BY DEF MappedOk, MappedFor, Unwatched, Begins

LEMMA HeadUnwatched ==
    ASSUME NEW r, NEW ops, r = <<>> \/ Begins(r, ops), ops \intersect Watched = {}
    PROVE  Unwatched(r)
  BY DEF Begins, Watched, Unwatched

LEMMA ConsUnwatched ==
    ASSUME NEW x, NEW r, IsSeq(r), x[1] \notin Watched
    PROVE  Unwatched(Cons(x, r))
  BY ConsFacts DEF Unwatched, Watched, Begins

LEMMA AllocUnwatched ==
    ASSUME NEW c, NEW y, NEW r, IsSeq(r), y[1] # "track"
    PROVE  Unwatched(Cons(<<"alloc", c>>, Cons(y, r)))
<1> DEFINE x == <<"alloc", c>>
<1>1. x[1] = "alloc"
  OBVIOUS
<1> HIDE DEF x
<1>2. IsSeq(Cons(y, r)) /\ Cons(y, r) # <<>> /\ Head(Cons(y, r)) = y
  BY ConsFacts
<1>3. Cons(x, Cons(y, r)) # <<>> /\ Head(Cons(x, Cons(y, r))) = x /\ Tail(Cons(x, Cons(y, r))) = Cons(y, r)
  BY <1>2, ConsFacts
<1>4. Unwatched(Cons(x, Cons(y, r)))
  BY <1>1, <1>2, <1>3 DEF Unwatched, Begins
<1> QED BY <1>4 DEF x

\* vm_alloc(), and what begins with it.
LEMMA FindsUnwatched ==
    ASSUME NEW n, NEW r, IsSeq(r)
    PROVE  Unwatched(FromFind(n, r)) /\ Unwatched(FromSegAlloc(n, r))
<1> DEFINE x == <<"find", n>>
           y == <<"seg", n>>
<1>1. x[1] \notin Watched /\ y[1] # "track"
  BY DEF Watched
<1> HIDE DEF x, y
<1>2. IsSeq(FromSegAlloc(n, r)) /\ IsSeq(FromUnlock(r))
  BY FromAreSeqs
<1>3. Unwatched(Cons(x, FromSegAlloc(n, r)))
  BY <1>1, <1>2, ConsUnwatched
<1>4. Unwatched(Cons(<<"alloc", C16>>, Cons(y, FromUnlock(r))))
  BY <1>1, <1>2, AllocUnwatched
<1> QED BY <1>3, <1>4 DEF FromFind, FromSegAlloc, FromSeg, x, y

LEMMA RefillUnwatched ==
    ASSUME NEW c, NEW r, IsSeq(r)
    PROVE  Unwatched(FromRefill(c, r))
<1> DEFINE x == <<"find", 1>>
           q == FromPm(FromInit1(c, r))
<1>1. x[1] # "track"
  OBVIOUS
<1>2. IsSeq(q)
  BY FromAreSeqs
<1> HIDE DEF x, q
<1>3. IsSeq(FromSegAlloc(1, q))
  BY <1>2, FromAreSeqs
<1>4. Unwatched(Cons(<<"alloc", C16>>, Cons(x, FromSegAlloc(1, q))))
  BY <1>1, <1>3, AllocUnwatched
<1> QED BY <1>4 DEF FromRefill, FromFind, x, q

LEMMA CallsUnwatched ==
    /\ \A c \in Size \union {WHOLE} : Unwatched(Kmalloc(c) \o << <<"give", c>> >>)
    /\ Unwatched(VmAlloc(FbPages) \o << <<"sections">> >>)
<1>1. ASSUME NEW c \in Size \union {WHOLE} PROVE Unwatched(Kmalloc(c) \o << <<"give", c>> >>)
  <2> DEFINE y == <<"give", c>>
             g == <<y>>
             x == <<"alloc", c>>
  <2>1. g = Cons(y, <<>>) /\ IsSeq(g) /\ y[1] # "track"
    BY OneForm, ConsFacts, EmptyIsSeq
  <2>2. Kmalloc(c) = IF c = WHOLE THEN Page ELSE <<x>>
    BY DEF Kmalloc
  <2> HIDE DEF g, y
  <2>3. IsSeq(FromPm(g))
    BY <2>1, FromAreSeqs
  <2>4. Page \o g = FromFind(1, FromPm(g))
    BY <2>1, PageForm
  <2>5. Unwatched(Page \o g)
    BY <2>3, <2>4, FindsUnwatched
  <2>6. Unwatched(Cons(x, Cons(y, <<>>)))
    BY <2>1, EmptyIsSeq, AllocUnwatched
  <2>7. Unwatched(<<x>> \o g)
    BY <2>1, <2>6 DEF Cons
  <2>8. Unwatched(Kmalloc(c) \o g)
    BY <2>2, <2>5, <2>7
  <2> QED BY <2>8 DEF g, y
<1>2. Unwatched(VmAlloc(FbPages) \o << <<"sections">> >>)
  <2> DEFINE g == << <<"sections">> >>
  <2>1. IsSeq(g)
    BY OneForm, ConsFacts, EmptyIsSeq
  <2> HIDE DEF g
  <2>2. VmAlloc(FbPages) \o g = FromFind(FbPages, g)
    BY <2>1, VmAllocForm
  <2>3. Unwatched(VmAlloc(FbPages) \o g)
    BY <2>1, <2>2, FindsUnwatched
  <2> QED BY <2>3 DEF g
<1> QED BY <1>1, <1>2

\* Nothing is done, or something else.
LEMMA MappedStays ==
    ASSUME NEW t, MappedOk(t), MapsStay, todo'[t] = todo[t], vals'[t] = vals[t]
    PROVE  MappedOk(t)'
<1>1. \A q : InMap(q) => InMap(q)'
  BY DEF MapsStay
<1> QED BY <1>1 DEF MappedOk, MappedFor, Begins

\* A failing step of a mapped heap leaves it mapped.
LEMMA FailMapped ==
    ASSUME NEW t, MappedOk(t), NEW why, Fail(why)
    PROVE  MappedOk(t)'
<1>1. UNCHANGED <<todo, vals, tables>>
  BY DEF Fail
<1> QED BY <1>1, MappedStays, TablesSame

\* Steps after which t needs nothing that is mapped.
LEMMA PlainMapped ==
    ASSUME LockInv, NEW t \in Thread, NEW op, Does(t, op),
           op \in {"seg", "unlock", "pm", "ram", "give", "sections", "put", "init1"},
           Then(t, <<>>)
    PROVE  MappedOk(t)'
<1>1. After(Head(todo[t]), Tail(todo[t])) /\ Head(todo[t])[1] = op
  BY StepFacts
<1>2. todo'[t] = Tail(todo[t])
  BY TailNext
<1>3. \/ Tail(todo[t]) = <<>>
      \/ Begins(Tail(todo[t]), {"unlock", "pm", "sections", "ram", "map", "take"})
  BY <1>1 DEF After, Begins
<1>4. {"unlock", "pm", "sections", "ram", "map", "take"} \intersect Watched = {}
  BY DEF Watched
<1> QED BY <1>2, <1>3, <1>4, HeadUnwatched, UnwatchedOk

LEMMA FindMapped ==
    ASSUME LockInv, NEW t \in Thread, Does(t, "find"), Then(t, <<>>)
    PROVE  MappedOk(t)'
<1>1. At(Head(todo[t]), Tail(todo[t]), HeldBy(t), vals[t]) /\ Head(todo[t])[1] = "find"
  BY Doing
<1>2. PICK n, q : Ranges(n, q, HeldBy(t), vals[t]) /\ Tail(todo[t]) = FromSegAlloc(n, q)
  BY <1>1 DEF At, AtFind
<1>3. Unwatched(Tail(todo[t]))
  BY <1>2, RangesFacts, FindsUnwatched
<1> QED BY <1>3, TailNext, UnwatchedOk

\* kmalloc_fullpages() has its structure: the page is mapped.
LEMMA TrackMapped ==
    ASSUME LockInv, NEW t \in Thread, MappedOk(t), Track(t)
    PROVE  MappedOk(t)'
<1>1. PICK n, w : n = Len(vals[t]) /\ w = vals'[t]
  OBVIOUS
<1>2. Does(t, "track") /\ Pop(t, 2) /\ Then(t, <<>>) /\ UNCHANGED tables
  BY DEF Track
<1>3. /\ After(Head(todo[t]), Tail(todo[t])) /\ Finds(Head(todo[t]), vals[t])
      /\ Head(todo[t])[1] = "track"
  BY <1>2, StepFacts
<1>4. n \in Nat /\ n >= 3
  BY <1>1, <1>3 DEF Finds
<1>5. todo'[t] = Tail(todo[t])
  BY <1>2, TailNext
<1>6. Begins(todo'[t], {"init1", "give"}) /\ ~ Begins(todo'[t], {"track"}) /\ ~ Begins(todo'[t], {"alloc"})
  BY <1>3, <1>5 DEF After, Begins
<1>7. w = SubSeq(vals[t], 1, n - 2) /\ IsSeq(vals[t])
  <2>1. w = SubSeq(vals[t], 1, Len(vals[t]) - 2)
    BY <1>1, <1>2 DEF Pop, LockInv, Kept
  <2> QED BY <1>1, <2>1, ValsTyped
<1>8. Len(w) = n - 2 /\ w[Len(w)] = vals[t][n - 2]
  <2>1. PICK S : vals[t] \in Seq(S)
    BY <1>7 DEF IsSeq
  <2> QED BY <1>1, <1>4, <1>7, <2>1
<1>9. InMap(vals[t][n - 2][1])
  BY <1>1, <1>2 DEF MappedOk, MappedFor, Begins, Does
<1>10. InMap(w[Len(w)][1]) /\ MapsStay
  BY <1>2, <1>8, <1>9, TablesSame
<1>11. InMap(w[Len(w)][1])'
  <2>1. PICK q : q = w[Len(w)][1]
    OBVIOUS
  <2>2. InMap(q)'
    BY <1>10, <2>1 DEF MapsStay
  <2>3. w[Len(w)][1]' = w[Len(w)][1]
    OBVIOUS
  <2> QED BY <2>1, <2>2
<1> QED BY <1>1, <1>6, <1>11 DEF MappedOk, MappedFor, Begins

\* mmu_map_pages() has mapped the page.
LEMMA AllocNextMapped ==
    ASSUME NEW t, Begins(todo'[t], {"alloc"}), InMap(Below(t)[1])'
    PROVE  MappedOk(t)'
<1>1. ~ Begins(todo'[t], {"track"}) /\ ~ Begins(todo'[t], {"init1", "give"})
  BY DEF Begins
<1> QED BY <1>1 DEF MappedOk, MappedFor, Begins, Below
LEMMA MapMapped ==
    ASSUME LockInv, HeapInv, NEW t \in Thread, MappedOk(t), Map(t)
    PROVE  MappedOk(t)'
<1>1. PICK d : d = pd[Pde(Below(t)[1])]
  OBVIOUS
<1>2. Does(t, "map")
  BY DEF Map
<1>3. After(Head(todo[t]), Tail(todo[t])) /\ Head(todo[t])[1] = "map" /\ IsSeq(Tail(todo[t]))
  BY <1>2, StepFacts, Doing
<1>4. CASE d = NoPt
  <2> DEFINE x == <<"alloc", PT>>
             y == <<"install">>
  <2>1. todo'[t] = <<x, y>> \o Tail(todo[t])
    BY <1>1, <1>4 DEF Map, Then, LockInv, Kept
  <2>2. y[1] # "track"
    OBVIOUS
  <2> HIDE DEF x, y
  <2>3. PICK w, r : IsPair(w, x, y) /\ r = Tail(todo[t])
    BY DEF IsPair
  <2>4. todo'[t] = Cons(x, Cons(y, Tail(todo[t])))
    <3>1. IsSeq(r)
      BY <1>3, <2>3
    <3>2. IsPair(w, x, y)
      BY <2>3
    <3>3. w \o r = Cons(x, Cons(y, r))
      BY <3>1, <3>2, TwoInFront
    <3> QED BY <2>1, <2>3, <3>3 DEF IsPair
  <2>5. Unwatched(Cons(<<"alloc", PT>>, Cons(y, Tail(todo[t]))))
    BY <1>3, <2>2, AllocUnwatched
  <2> QED BY <2>4, <2>5, UnwatchedOk DEF x
<1>5. CASE d # NoPt /\ \E why : Fail(why)
  BY <1>5, FailMapped
<1>6. CASE d # NoPt /\ ~ \E why : Fail(why)
  <2>1. todo'[t] = Tail(todo[t])
    <3>1. Then(t, <<>>)
      BY <1>1, <1>6 DEF Map
    <3> QED BY <1>2, <3>1, TailNext
  <2>2. Begins(todo'[t], {"alloc"})
    BY <1>3, <2>1 DEF After
  <2>3. CASE UNCHANGED tables
    <3>1. ptes'[d][Pte(Below(t)[1])] = ptes[d][Pte(Below(t)[1])]
      BY <2>3 DEF tables
    <3> HIDE DEF MappedOk
    <3>2. /\ Does(t, "map")
          /\ ptes' = [ptes EXCEPT ![d][Pte(Below(t)[1])] = Top(t)[1]]
          /\ ptes[d][Pte(Below(t)[1])] = 0 /\ d # NoPt /\ d # Section /\ Walk(d) = "no"
      BY <1>1, <1>6 DEF Map
    <3>3. Finds(Head(todo[t]), vals[t])
      BY <1>2, StepFacts
    <3>4. IsFrame(Top(t)) /\ IsPage(Below(t))
      BY <1>3, <3>3 DEF Finds, Mapping, Top, Below, Last
    <3>5. Top(t)[1] \in 1 .. NRam /\ Below(t)[1] \in VA
      BY <3>4 DEF IsFrame, IsPage
    <3>6. Pde(Below(t)[1]) \in Pdes /\ Pte(Below(t)[1]) \in 0 .. NPte - 1
      BY <3>5, PdeOf
    <3>7. d \in DOMAIN ptes
      BY <1>1, <3>2, <3>6, WalkFinds DEF IsPt, HeapInv
    <3>8. ptes[d] = [i \in 0 .. NPte - 1 |-> ptes[d][i]]
      BY <3>7 DEF HeapInv, TablesOk, PtesOk
    <3>9. ptes'[d][Pte(Below(t)[1])] = Top(t)[1]
      BY <3>2, <3>6, <3>7, <3>8
    <3> QED BY <3>1, <3>2, <3>5, <3>9
  <2>4. CASE ~ UNCHANGED tables
    BY <2>2, <2>4, MapFills, AllocNextMapped
  <2> QED BY <2>3, <2>4
<1> QED BY <1>4, <1>5, <1>6

LEMMA InstallMapped ==
    ASSUME LockInv, HeapInv, NEW t \in Thread, MappedOk(t), Install(t)
    PROVE  MappedOk(t)'
<1>1. CASE VaToPa(Top(t)[1]) # "no"
  BY <1>1, FailMapped DEF Install
<1>2. CASE VaToPa(Top(t)[1]) = "no"
  <2>1. Does(t, "install") /\ Pop(t, 1)
    BY <1>2 DEF Install
  <2>2. PICK n, w : n = Len(vals[t]) /\ w = vals'[t]
    OBVIOUS
  <2>3. After(Head(todo[t]), Tail(todo[t])) /\ Head(todo[t])[1] = "install"
    BY <2>1, StepFacts
  <2>4. /\ todo'[t] = Tail(todo[t]) /\ Len(vals[t]) >= 3
        /\ \E va \in VA : ValAt(t, Len(vals[t]) - 2, <<va, -1>>) /\ InMap(va)'
    BY <1>2, InstallFills
  <2>5. PICK va \in VA : ValAt(t, n - 2, <<va, -1>>) /\ InMap(va)'
    BY <2>2, <2>4
  <2>6. Begins(todo'[t], {"alloc"})
    BY <2>3, <2>4 DEF After
  <2>7. w = SubSeq(vals[t], 1, n - 1) /\ IsSeq(vals[t]) /\ n \in Nat /\ n >= 3
    <3>1. w = SubSeq(vals[t], 1, Len(vals[t]) - 1)
      BY <2>1, <2>2 DEF Pop, LockInv, Kept
    <3> QED BY <2>2, <2>4, <3>1, ValsTyped
  <2>8. w[Len(w) - 1] = vals[t][n - 2]
    <3>1. PICK S : vals[t] \in Seq(S)
      BY <2>7 DEF IsSeq
    <3> QED BY <2>2, <2>7, <3>1
  <2>9. w[Len(w) - 1][1] = va
    BY <2>5, <2>8, Tuples DEF ValAt
  <2>10. Below(t)' = w[Len(w) - 1]
    BY <2>2 DEF Below
  <2>11. InMap(Below(t)[1])'
    <3>1. (Below(t)[1])' = va
      BY <2>9, <2>10
    <3> QED BY <2>5, <3>1 DEF InMap, Frame
  <2> QED BY <2>6, <2>11, AllocNextMapped
<1> QED BY <1>1, <1>2

\* A page and its frame are kept while their structure is allocated.
LEMMA TrackHasPage ==
    ASSUME NEW c, NEW r, NEW h, NEW v, AtAlloc(c, r, h, v), IsSeq(r), c \notin h, Begins(r, {"track"})
    PROVE  Len(v) >= 2
<1>1. \A n : <<"find", n>>[1] # "track" /\ <<"seg", n>>[1] # "track" /\ <<"install">>[1] # "track"
             /\ <<"give", n>>[1] # "track"
  OBVIOUS
<1>2. \A x, s : IsSeq(s) /\ x[1] # "track" => r # Cons(x, s)
  BY ConsFacts DEF Begins
<1>3. ~ (c \in Size /\ r = Cons(<<"give", c>>, <<>>))
  BY <1>1, <1>2, EmptyIsSeq
<1>4. ~ (c = C16 /\ \E d, q : Grows(d, q, h, v) /\ r = FromFind(1, FromPm(FromInit1(d, q))))
  <2> SUFFICES ASSUME NEW d, NEW q, Grows(d, q, h, v), r = FromFind(1, FromPm(FromInit1(d, q))) PROVE FALSE
    OBVIOUS
  <2>1. IsSeq(FromSegAlloc(1, FromPm(FromInit1(d, q))))
    BY GrowsFacts, FromAreSeqs
  <2> QED BY <1>1, <1>2, <2>1 DEF FromFind
<1>5. ~ (/\ c = C16
         /\ \E n, q, g, w, p : /\ Ranges(n, q, g, w) /\ r = FromSeg(n, q)
                               /\ h = g \union {VM} /\ v = Append(w, p) /\ IsPage(p))
  <2> SUFFICES ASSUME NEW n, NEW q, NEW g, NEW w, Ranges(n, q, g, w), r = FromSeg(n, q) PROVE FALSE
    OBVIOUS
  <2>1. IsSeq(FromUnlock(q))
    BY RangesFacts, FromAreSeqs
  <2> QED BY <1>1, <1>2, <2>1 DEF FromSeg
<1>6. ~ (/\ c = PT
         /\ \E q, w, p, f : /\ Outer(q, h, w) /\ r = FromInstall(q)
                            /\ v = Append(Append(w, p), f) /\ NewTable(p, f))
  <2> SUFFICES ASSUME NEW q, NEW w, Outer(q, h, w), r = FromInstall(q) PROVE FALSE
    OBVIOUS
  <2>1. IsSeq(FromWhole(q))
    BY OuterFacts, FromAreSeqs
  <2> QED BY <1>1, <1>2, <2>1 DEF FromInstall
<1>7. PICK q, w, p, f : Inner(q, h, w) /\ v = Append(Append(w, p), f)
  BY <1>3, <1>4, <1>5, <1>6 DEF AtAlloc
<1> QED BY <1>7, InnerFacts, LastThree

\* An object is taken, with or without a refill.
LEMMA TakeMapped ==
    ASSUME LockInv, HeapInv, NEW t \in Thread, NEW op \in {"alloc", "take"}, Does(t, op),
           op = "alloc" => owner[Arg(t)] = NoThread, SlabsMapped, MappedOk(t),
           NEW c \in Size \union {PT}, c = Arg(t), ~ Empty(c), TakeObject(t, c)
    PROVE  MappedOk(t)'
<1>1. PICK sl, q0, n, w, r : /\ sl = FirstSlab(c) /\ q0 = <<slabs[sl].page, Head(slabs[sl].chain)>>
                             /\ n = Len(vals[t]) /\ w = vals'[t] /\ r = Tail(todo[t])
  OBVIOUS
<1>2. /\ Push(t, q0) /\ UNCHANGED tables
      /\ IF IsLow(c) THEN Then(t, Refill(c) \o << <<"unlock", c>> >>) ELSE Then(t, <<>>)
  BY <1>1 DEF TakeObject
<1>3. /\ After(Head(todo[t]), r) /\ Head(todo[t])[1] = op /\ Head(todo[t])[2] = c
  BY <1>1, StepFacts
<1>4. IsSeq(r) /\ IsSeq(vals[t]) /\ n \in Nat
  BY <1>1, Doing, ValsTyped
<1>5. w = Append(vals[t], q0)
  BY <1>1, <1>2 DEF Push, LockInv, Kept
<1>6. Len(w) = n + 1 /\ w[Len(w)] = q0 /\ \A i \in 1 .. n : w[i] = vals[t][i]
  BY <1>1, <1>4, <1>5, AppendFacts
<1>7. CASE IsLow(c)
  <2>1. todo'[t] = (Refill(c) \o << <<"unlock", c>> >>) \o r
    BY <1>1, <1>2, <1>7 DEF Then, LockInv, Kept
  <2>2. todo'[t] = FromRefill(c, Cons(<<"unlock", c>>, r))
    BY <1>4, <2>1, RefillForm
  <2>3. IsSeq(Cons(<<"unlock", c>>, r))
    BY <1>4, ConsFacts
  <2> QED BY <2>2, <2>3, RefillUnwatched, UnwatchedOk
<1>8. CASE ~ IsLow(c)
  <2>1. todo'[t] = r
    BY <1>1, <1>2, <1>8, TailNext
  <2>2. CASE r # <<>> /\ Head(r) = <<"give", c>> /\ c \in Size
    <3>1. ~ Begins(r, {"track"}) /\ ~ Begins(r, {"alloc"})
      BY <2>2 DEF Begins
    <3>2. sl \in DOMAIN slabs /\ slabs[sl].page \in VA
      BY <1>1, <2>2, FirstSlabFacts DEF HeapInv
    <3>3. InMap(slabs[sl].page)
      BY <3>2, FrIsMap, Numbers DEF SlabsMapped
    <3>4. PICK p : p = slabs[sl].page
      OBVIOUS
    <3>5. InMap(p)'
      BY <1>2, <3>3, <3>4, TablesSame DEF MapsStay
    <3>6. w[Len(w)][1] = p
      BY <1>1, <1>6, <3>4, Tuples
    <3>7. (vals[t][Len(vals[t])][1])' = p
      BY <1>1, <3>6
    <3>8. InMap(vals[t][Len(vals[t])][1])'
      BY <3>5, <3>7 DEF InMap, Frame
    <3> QED BY <2>1, <3>1, <3>8 DEF MappedOk, MappedFor, Begins
  <2>3. CASE op = "alloc" /\ Begins(r, {"track"})
    <3>1. Begins(todo[t], {"alloc"})
      BY <2>3 DEF Begins, Does
    <3>2. InMap(vals[t][n - 1][1])
      BY <1>1, <2>3, <3>1 DEF MappedOk, MappedFor
    <3>3. PICK p : p = vals[t][n - 1][1]
      OBVIOUS
    <3>4. InMap(p)'
      BY <1>2, <3>2, <3>3, TablesSame DEF MapsStay
    <3>5. n >= 2
      <4>1. AtAlloc(c, r, HeldBy(t), vals[t])
        BY <1>1, <1>3, <2>3, Doing DEF At
      <4>2. c \notin HeldBy(t)
        BY <2>3, SlubConstants DEF HeldBy
      <4> QED BY <1>1, <1>4, <2>3, <4>1, <4>2, TrackHasPage
    <3>6. w[Len(w) - 2] = vals[t][n - 1]
      BY <1>4, <1>6, <3>5
    <3>7. (vals[t][Len(vals[t]) - 2][1])' = p
      BY <1>1, <3>3, <3>6
    <3>8. InMap(vals[t][Len(vals[t]) - 2][1])'
      BY <3>4, <3>7 DEF InMap, Frame
    <3>9. ~ Begins(r, {"init1", "give"}) /\ ~ Begins(r, {"alloc"})
      BY <2>3 DEF Begins
    <3> QED BY <2>1, <3>8, <3>9 DEF MappedOk, MappedFor, Begins
  <2>4. CASE Begins(r, {"find", "seg", "install"})
    <3>1. {"find", "seg", "install"} \intersect Watched = {}
      BY DEF Watched
    <3> QED BY <2>1, <2>4, <3>1, HeadUnwatched, UnwatchedOk
  <2> QED BY <1>3, <2>2, <2>3, <2>4 DEF After, Begins
<1> QED BY <1>7, <1>8

LEMMA ActsMapped ==
    ASSUME LockInv, HeapInv, NEW t \in Thread, Act(t), SlabsMapped, MappedOk(t)
    PROVE  MappedOk(t)'
<1>1. ASSUME NEW why, Fail(why) PROVE MappedOk(t)'
  BY <1>1, FailMapped
<1>2. ASSUME NEW c \in Want, Call(t, Kmalloc(c) \o << <<"give", c>> >>) PROVE MappedOk(t)'
  <2>1. Unwatched(Kmalloc(c) \o << <<"give", c>> >>)
    BY SlubConstants, CallsUnwatched
  <2>2. PICK ops : ops = Kmalloc(c) \o << <<"give", c>> >>
    OBVIOUS
  <2>3. todo'[t] = ops
    BY <1>2, <2>2 DEF Call, LockInv, Kept
  <2> QED BY <2>1, <2>2, <2>3, UnwatchedOk
<1>3. ASSUME Call(t, VmAlloc(FbPages) \o << <<"sections">> >>) PROVE MappedOk(t)'
  <2>1. PICK ops : ops = VmAlloc(FbPages) \o << <<"sections">> >>
    OBVIOUS
  <2>2. todo'[t] = ops
    BY <1>3, <2>1 DEF Call, LockInv, Kept
  <2> QED BY <2>1, <2>2, CallsUnwatched, UnwatchedOk
<1>4. ASSUME NEW p, NEW c, Freeing(t, p, c) PROVE MappedOk(t)'
  <2>1. (\E why : Fail(why)) \/ \E s : todo'[t] = << <<"put", s>> >>
    BY <1>4 DEF Freeing, FreesObject, LockInv, Kept
  <2>2. ASSUME NEW s, todo'[t] = << <<"put", s>> >>
        PROVE  MappedOk(t)'
    <3>1. Head(todo'[t]) = <<"put", s>>
      BY <2>2
    <3>2. Begins(todo'[t], {"put"}) /\ {"put"} \intersect Watched = {}
      BY <2>2, <3>1 DEF Begins, Watched
    <3> QED BY <3>2, HeadUnwatched, UnwatchedOk
  <2> QED BY <1>1, <2>1, <2>2
<1>5. ASSUME NEW c, Grow(t, c), Does(t, "alloc") PROVE MappedOk(t)'
  <2>1. todo'[t] = (Refill(c) \o << <<"take", c>> >>) \o Tail(todo[t])
    BY <1>5 DEF Grow, Then, LockInv, Kept
  <2>2. IsSeq(Tail(todo[t]))
    BY <1>5, Doing
  <2>3. todo'[t] = FromRefill(c, Cons(<<"take", c>>, Tail(todo[t])))
    BY <2>1, <2>2, RefillForm
  <2>4. IsSeq(Cons(<<"take", c>>, Tail(todo[t])))
    BY <2>2, ConsFacts
  <2> QED BY <2>3, <2>4, RefillUnwatched, UnwatchedOk
<1>6. ASSUME Alloc(t) PROVE MappedOk(t)'
  <2>1. PICK c : c = Arg(t)
    OBVIOUS
  <2>2. Does(t, "alloc") /\ owner[Arg(t)] = NoThread
    BY <1>6 DEF Alloc
  <2>3. CASE Empty(c)
    BY <1>1, <1>5, <1>6, <2>1, <2>2, <2>3 DEF Alloc
  <2>4. CASE ~ Empty(c) /\ ~ \E why : Fail(why)
    <3>1. /\ After(Head(todo[t]), Tail(todo[t])) /\ Head(todo[t])[1] = "alloc"
          /\ Head(todo[t])[2] = c
      BY <2>1, <2>2, StepFacts
    <3>2. c \in Size \union {PT}
      BY <3>1, LockNumbers DEF After
    <3>3. TakeObject(t, c)
      BY <1>6, <2>1, <2>4, TakeCases DEF Alloc
    <3> QED BY <2>1, <2>2, <2>4, <3>2, <3>3, TakeMapped
  <2> QED BY <1>1, <2>3, <2>4
<1>7. ASSUME TakeAfterGrow(t), ~ \E why : Fail(why) PROVE MappedOk(t)'
  <2>1. PICK c : c = Arg(t)
    OBVIOUS
  <2>2. Does(t, "take") /\ TakeObject(t, c)
    BY <1>7, <2>1, TakeCases DEF TakeAfterGrow
  <2>3. c \in Size \union {PT}
    BY <2>1, <2>2, TakeHolds
  <2>4. ~ Empty(c)
    <3>1. HeapInv
      OBVIOUS
    <3>2. Sound
      BY HeapIsSound
    <3> QED BY <2>1, <2>2, <3>2 DEF Sound, Does, HeadOp
  <2> QED BY <2>1, <2>2, <2>3, <2>4, TakeMapped
<1>8. ASSUME Unlock(t) \/ AddSeg(t) \/ LockRam(t) PROVE MappedOk(t)'
  BY <1>8, PlainMapped DEF Unlock, AddSeg, LockRam
<1>9. ASSUME Find(t) PROVE MappedOk(t)'
  BY <1>1, <1>9, FindMapped DEF Find
<1>10. ASSUME TakeFrame(t) PROVE MappedOk(t)'
  BY <1>1, <1>10, PlainMapped DEF TakeFrame
<1>11. ASSUME NewSubpages(t) PROVE MappedOk(t)'
  BY <1>1, <1>11, PlainMapped DEF NewSubpages
<1>12. ASSUME MapSections(t) PROVE MappedOk(t)'
  BY <1>1, <1>12, PlainMapped DEF MapSections
<1>13. ASSUME Put(t) \/ Give(t) PROVE MappedOk(t)'
  BY <1>1, <1>13, PlainMapped DEF Put, Give
<1> QED BY <1>1, <1>2, <1>3, <1>4, <1>6, <1>7, <1>8, <1>9, <1>10, <1>11, <1>12, <1>13,
           MapMapped, InstallMapped, TrackMapped DEF Act, Step

LEMMA ActsKeepMapped ==
    ASSUME LockInv, HeapInv, MappedInv, NEW t \in Thread, Act(t)
    PROVE  MappedInv'
<1> SUFFICES ASSUME ~ raced'
             PROVE  stopped' # "unmapped" /\ SlabsMapped' /\ LiveMapped' /\ \A u \in Thread : MappedOk(u)'
  BY DEF MappedInv
<1>1. ~ raced /\ MapsStay
  BY ActsKeepMaps
<1>2. stopped # "unmapped" /\ SlabsMapped /\ LiveMapped /\ \A u \in Thread : MappedOk(u)
  BY <1>1 DEF MappedInv
<1>3. stopped' # "unmapped"
  BY <1>2, ActsFindMapped
<1>4. SlabsMapped'
  <2>1. PagesFollow
    BY ActsKeepPages
  <2>2. \A sl \in DOMAIN slabs : slabs[sl].page \in VA \union {Static}
    BY SlabFacts DEF HeapInv
  <2>3. \A q \in VA : Fr(q) # 0 => Fr(q)' # 0
    BY <1>1 DEF MapsStay
  <2> SUFFICES ASSUME NEW sl \in DOMAIN slabs'
               PROVE  (slabs[sl].page = Static \/ Fr(slabs[sl].page) # 0)'
    BY DEF SlabsMapped
  <2>4. PICK p : p = slabs'[sl].page
    OBVIOUS
  <2>5. p = Static \/ (p \in VA /\ Fr(p) # 0)
    BY <1>2, <2>1, <2>2, <2>4 DEF PagesFollow, SlabsMapped
  <2>6. p = Static \/ Fr(p)' # 0
    BY <2>3, <2>5
  <2> QED BY <2>4, <2>6 DEF Fr, Usable, IsPt
<1>5. LiveMapped'
  <2>1. \A o \in live' : o \in live \/ (DoesNow(t, "give") /\ o[1] = Top(t))
    BY ActsKeepLive
  <2>2. DoesNow(t, "give") => InMap(Top(t)[1])
    BY <1>2 DEF MappedOk, MappedFor, Begins, DoesNow, HeadOp, Top, Last
  <2>3. \A o \in live' : InMap(o[1][1])
    BY <1>2, <2>1, <2>2 DEF LiveMapped
  <2> SUFFICES ASSUME NEW o \in live' PROVE InMap(o[1][1])'
    BY DEF LiveMapped
  <2> QED BY <1>1, <2>3 DEF MapsStay
<1>6. ASSUME NEW u \in Thread PROVE MappedOk(u)'
  <2>1. CASE u = t
    BY <1>2, <2>1, ActsMapped
  <2>2. CASE u # t
    <3>1. todo'[u] = todo[u] /\ vals'[u] = vals[u]
      BY <2>2, ActsAlone DEF SameOthers
    <3> QED BY <1>1, <1>2, <3>1, MappedStays
  <2> QED BY <2>1, <2>2
<1> QED BY <1>3, <1>4, <1>5, <1>6

LEMMA NextKeepsMapped == LockInv /\ HeapInv /\ MappedInv /\ [Next]_vars /\ ~ misfreed' => MappedInv'
<1> SUFFICES ASSUME LockInv, HeapInv, MappedInv, [Next]_vars, ~ misfreed' PROVE MappedInv'
  OBVIOUS
<1>1. CASE UNCHANGED vars
  <2>1. UNCHANGED <<slabs, pd, ptes, todo, vals, live, raced, stopped>>
    BY <1>1 DEF vars, memory, tables
  <2> QED BY <2>1 DEF MappedInv, SlabsMapped, LiveMapped, MappedOk, MappedFor, InMap, Fr, Frame, Usable, IsPt
<1>2. CASE Next
  <2>1. PICK t \in Thread : Act(t)
    BY <1>2, NextActs
  <2> QED BY <2>1, ActsKeepMapped
<1> QED BY <1>1, <1>2

LEMMA InitMapped == Init => MappedInv
<1> SUFFICES ASSUME Init PROVE SlabsMapped /\ LiveMapped /\ (\A t \in Thread : MappedOk(t)) /\ stopped # "unmapped"
  BY DEF MappedInv
<1>1. PICK pts \in 1 .. 2 : Boot(pts)
  BY InitBoots
<1>2. stopped # "unmapped" /\ live = {}
  BY <1>1 DEF Init
<1>3. \A t \in Thread : MappedOk(t)
  BY <1>1 DEF Boot, BootThreads, MappedOk, MappedFor, Begins
<1>4. HeapInv
  BY InitHeap
<1>5. SlabsMapped
  <2> SUFFICES ASSUME NEW sl \in DOMAIN slabs PROVE slabs[sl].page = Static \/ Fr(slabs[sl].page) # 0
    BY DEF SlabsMapped
  <2>1. PICK c \in Size \union {PT} : slabs[sl].page = LeadPage(c)
    <3>1. BootSlabsAre(pts)
      BY <1>1 DEF Boot
    <3>2. PICK c \in Size \union {PT} : sl = Lead(c)
      BY <3>1 DEF BootSlabsAre
    <3>3. BootSlab(slabs[sl], c, LeadPage(c), Used0(c, pts))
      BY <3>1, <3>2 DEF BootSlabsAre
    <3> QED BY <3>2, <3>3 DEF BootSlab
  <2>2. CASE c = PT
    BY <2>1, <2>2, LeadFacts
  <2>3. CASE c \in Size
    <3>1. Fr(BootPage(c)) = c + 2
      BY <1>4, <2>3 DEF HeapInv, TablesOk
    <3> QED BY <2>1, <2>3, <3>1, LeadFacts, Numbers
  <2> QED BY <2>2, <2>3
<1> QED BY <1>2, <1>3, <1>5 DEF LiveMapped
LEMMA MappedIsKept == HeapInv /\ MappedInv => MappingsKept
<1> SUFFICES ASSUME HeapInv, MappedInv, ~ raced
             PROVE  /\ stopped # "unmapped"
                    /\ \A sl \in DOMAIN slabs : LET p == slabs[sl].page IN
                           p # Static => /\ IsPt(pd[Pde(p)])
                                         /\ Frame(p) \in ram /\ ram_map[Frame(p)].va = sl
                    /\ \A o \in live : IsPt(pd[Pde(o[1][1])]) /\ Frame(o[1][1]) # 0
  BY DEF MappingsKept
<1>1. stopped # "unmapped" /\ SlabsMapped /\ LiveMapped
  BY DEF MappedInv
<1>2. ASSUME NEW sl \in DOMAIN slabs, slabs[sl].page # Static
      PROVE  /\ IsPt(pd[Pde(slabs[sl].page)])
             /\ Frame(slabs[sl].page) \in ram /\ ram_map[Frame(slabs[sl].page)].va = sl
  <2>1. PICK p : p = slabs[sl].page
    OBVIOUS
  <2>2. p \in VA
    BY <1>2, <2>1, SlabFacts DEF HeapInv
  <2>3. Fr(p) # 0
    BY <1>1, <1>2, <2>1 DEF SlabsMapped
  <2>4. IsPt(pd[Pde(p)]) /\ Frame(p) = Fr(p)
    BY <2>2, <2>3, Numbers DEF Fr, Usable, Frame
  <2>5. Tracked(p)
    BY <2>1 DEF Tracked, SlabPage
  <2>6. Fr(p) \in ram
    BY <2>2, <2>3, <2>5 DEF HeapInv, MapsOk, FramesUsed
  <2>7. ram_map[Fr(p)].va = sl
    BY <2>1, <2>2, <2>3 DEF HeapInv, MapsOk, Leads
  <2> QED BY <2>1, <2>4, <2>6, <2>7
<1>3. ASSUME NEW o \in live PROVE IsPt(pd[Pde(o[1][1])]) /\ Frame(o[1][1]) # 0
  <2>1. IsPage(o[1]) \/ IsObj(o[1])
    BY DEF HeapInv, LiveOk
  <2>2. o[1][1] \in VA
    BY <2>1, Tuples DEF IsPage, IsObj
  <2>3. o[1][1] # Static
    BY <2>2, Numbers
  <2> QED BY <1>1, <2>3 DEF LiveMapped, InMap
<1> QED BY <1>1, <1>2, <1>3

\* Slub's pages and what callers hold stay mapped, each page to its own frame, until
\* two threads meet in mmu_map_pages() (mmu.c:224-227) or kfree() takes a page of
\* objects for a whole page, for any number of threads, sizes and pages.
THEOREM MappedAlways == Spec => []MappingsKept
<1> DEFINE Mapped == ~ misfreed => MappedInv
<1>1. Init => Mapped
  BY InitMapped
<1>2. SlubInv /\ Mapped /\ [Next]_vars => Mapped'
  BY NextKeepsMapped, NotMisfreedBefore DEF SlubInv, Good
<1>3. SlubInv /\ Mapped => MappingsKept
  <2>1. Good /\ MappedInv => MappingsKept
    BY MappedIsKept DEF Good
  <2> QED BY <2>1 DEF SlubInv, MappingsKept
<1> HIDE DEF Mapped
<1> QED BY <1>1, <1>2, <1>3, SlubInvFollows, PTL DEF Spec

-----------------------------------------------------------------------------
(* What is mapped lies in segments of their own: nothing is mapped over it. *)

\* A segment; the range of the framebuffer, which fills page tables' ranges.
SegOf(p, n) == \E a : IsSeg(a) /\ a[2] = p /\ a[3] = n
Aligned(p)  == p \in VA /\ p = Pde(p) * NPte /\ p + FbPages <= NVa
Unmapped(o) == \E p \in VA : o = <<p, -1>> /\ Fr(p) = 0

\* The page of a call is new until it is mapped; a range of fb_init() is aligned.
ForFb(r, v) == /\ Begins(r, {"alloc"}) /\ Begins(Tail(r), {"seg"}) /\ Head(Tail(r))[2] = FbPages
                     => Aligned(v[Len(v)][1])
               /\ Begins(r, {"seg"}) /\ Head(r)[2] = FbPages => Aligned(v[Len(v) - 1][1])
ToSections(r) == Begins(r, {"sections"}) \/ (Begins(r, {"unlock"}) /\ Begins(Tail(r), {"sections"}))
PlacedFor(r, v) ==
    /\ Begins(r, {"unlock", "pm", "ram"}) => Unmapped(v[Len(v)])
    /\ Begins(r, {"seg", "map"}) => Unmapped(v[Len(v) - 1])
    /\ Begins(r, {"alloc"}) /\ Begins(Tail(r), {"seg"}) => v # <<>> /\ Unmapped(v[Len(v)])
    /\ ForFb(r, v)
    /\ ToSections(r) => Aligned(v[Len(v)][1]) /\ SegOf(v[Len(v)][1], FbPages)
PlacedOk(t) == PlacedFor(todo[t], vals[t])

\* A page has a segment once that is recorded.
Finding(t, i) == owner[VM] = t /\ \/ owner[C16] = t
                                  \/ DoesNow(t, "alloc") /\ i = Len(vals[t])
                                  \/ DoesNow(t, "seg") /\ i = Len(vals[t]) - 1
PagePlaced(t, i, p) == Finding(t, i) \/ ToSections(todo[t]) \/ SegOf(p, 1)
PagesPlaced(t) == \A i : \A p \in VA : ValAt(t, i, <<p, -1>>) => PagePlaced(t, i, p)

\* What the entries of the first level are for.
TablePlaced(x)   == x = Pde(NVa - 1) \/ \E q \in VA : Pde(q) = x /\ SegOf(q, 1)
SectionPlaced(x) == \E q \in VA : /\ SegOf(q, FbPages) /\ ~ PageVal(q)
                                  /\ q <= x * NPte /\ x * NPte + NPte <= q + FbPages
PdesPlaced == \A x \in Pdes : /\ IsPt(pd[x]) => TablePlaced(x)
                              /\ pd[x] = Section => SectionPlaced(x)

\* Nothing has been mapped over something else.
NoneMappedOver == stopped \notin {"mapped", "section"}

ApartInv == /\ NoneMappedOver
            /\ PdesPlaced /\ SegOf(BootPage(0), NSizes)
            /\ \A t \in Thread : PlacedOk(t) /\ PagesPlaced(t)

LEMMA FbFacts ==
    /\ FbPages \in Nat /\ NPte \in Nat /\ 2 <= NPte /\ NPte <= FbPages
    /\ FbSections \in Nat /\ FbSections * NPte <= FbPages
    /\ \E j \in Nat : FbPages = j * NPte
<1>1. FbPages \in Nat /\ NPte \in Nat /\ 2 <= NPte /\ FbPages # 0 /\ FbPages % NPte = 0
  BY SlubConstants
<1>2. PICK j : j = FbPages \div NPte
  OBVIOUS
<1>3. j \in Nat /\ FbPages = j * NPte
  BY <1>1, <1>2
<1>4. j # 0
  BY <1>1, <1>3
<1>5. j * NPte >= NPte
  BY <1>1, <1>3, <1>4
<1> QED BY <1>1, <1>3, <1>5, SlubConstants

LEMMA LastPde == NVa = Pde(NVa - 1) * NPte + NPte /\ Pde(NVa - 1) \in Nat
<1>1. NVa \in Nat /\ NVa # 0 /\ NPte \in Nat /\ 2 <= NPte /\ NVa % NPte = 0
  BY SlubConstants
<1>2. PICK k : k = NVa \div NPte
  OBVIOUS
<1>3. k \in Nat /\ NVa = k * NPte
  BY <1>1, <1>2
<1>4. k # 0
  BY <1>1, <1>3
<1>5. (k - 1) * NPte = NVa - NPte
  BY <1>1, <1>3
<1>6. NVa - 1 = (k - 1) * NPte + (NPte - 1)
  BY <1>1, <1>5
<1>7. Pde(NVa - 1) = k - 1
  BY <1>1, <1>3, <1>4, <1>6, Quotient DEF Pde
<1> QED BY <1>1, <1>3, <1>4, <1>5, <1>7

\* A page in the range of a page table.
LEMMA InTable ==
    ASSUME NEW q \in VA
    PROVE  /\ Pde(q) \in Nat /\ Pde(q) * NPte \in Int
           /\ Pde(q) * NPte <= q /\ q < Pde(q) * NPte + NPte
<1>1. Pde(q) \in Nat /\ Pte(q) \in 0 .. NPte - 1 /\ q = Pde(q) * NPte + Pte(q) /\ NPte \in Nat
  BY PdeOf, Numbers
<1>2. PICK y : y = Pde(q) * NPte
  OBVIOUS
<1>3. y \in Int
  BY <1>1, <1>2
<1> QED BY <1>1, <1>2, <1>3

\* The ranges of the page tables that fb_init() replaces lie in its own.
LEMMA FbTables ==
    ASSUME NEW p, Aligned(p), NEW x \in Pde(p) .. Pde(p) + FbSections - 1
    PROVE  /\ x \in Pdes /\ x * NPte \in Int
           /\ p <= x * NPte /\ x * NPte + NPte <= p + FbPages
<1>1. p \in VA /\ p = Pde(p) * NPte /\ p + FbPages <= NVa /\ p \in Nat
  BY Numbers DEF Aligned, VA
<1>2. PICK d : d = Pde(p)
  OBVIOUS
<1>3. d \in Nat /\ NPte \in Nat /\ 2 <= NPte /\ FbPages \in Nat /\ FbSections \in Nat
      /\ FbSections * NPte <= FbPages /\ p = d * NPte
  BY <1>1, <1>2, PdeOf, FbFacts
<1>4. x \in Nat /\ d <= x /\ x + 1 <= d + FbSections
  BY <1>2, <1>3
<1>5. d * NPte <= x * NPte /\ (x + 1) * NPte <= (d + FbSections) * NPte
  BY <1>3, <1>4
<1>6. (x + 1) * NPte = x * NPte + NPte /\ (d + FbSections) * NPte = d * NPte + FbSections * NPte
  BY <1>3, <1>4
<1>7. PICK y, z, w : y = x * NPte /\ z = FbSections * NPte /\ w = (x + 1) * NPte
  OBVIOUS
<1>8. y \in Int /\ z \in Int /\ w \in Int
  BY <1>3, <1>4, <1>7
<1>9. p <= y /\ y + NPte <= p + FbPages
  BY <1>1, <1>3, <1>5, <1>6, <1>7, <1>8
<1>10. y \in VA
  BY <1>1, <1>3, <1>8, <1>9, Numbers DEF VA
<1>11. Pde(y) = x
  <2>1. y = x * NPte + 0 /\ 0 \in 0 .. NPte - 1
    BY <1>3, <1>7, <1>8
  <2> QED BY <1>3, <1>4, <1>8, <2>1, Quotient DEF Pde
<1>12. x \in Pdes
  BY <1>10, <1>11, PdeOf
<1> QED BY <1>7, <1>8, <1>9, <1>12

\* Segments that meet are the same.
LEMMA SegsMeet ==
    ASSUME RangeInv, NEW p, NEW n, NEW q, NEW m, SegOf(p, n), SegOf(q, m), NEW y \in Int,
           p <= y, y < p + n, q <= y, y < q + m
    PROVE  p = q /\ n = m
<1>1. PICK a : IsSeg(a) /\ a[2] = p /\ a[3] = n
  BY DEF SegOf
<1>2. PICK b : IsSeg(b) /\ b[2] = q /\ b[3] = m
  BY DEF SegOf
<1>3. PICK i \in DOMAIN vm_areas : vm_areas[i] = a
  BY <1>1 DEF IsSeg
<1>4. PICK j \in DOMAIN vm_areas : vm_areas[j] = b
  BY <1>2 DEF IsSeg
<1>5. p \in Int /\ n \in Nat \ {0} /\ q \in Int /\ m \in Nat \ {0}
  BY <1>1, <1>2, <1>3, <1>4 DEF RangeInv, AreasTyped
<1>6. i # j => p + n <= q \/ q + m <= p
  BY <1>1, <1>2, <1>3, <1>4 DEF RangeInv, Apart
<1>7. i = j
  BY <1>5, <1>6
<1> QED BY <1>1, <1>2, <1>3, <1>4, <1>7

\* Only vm_alloc() changes the list of segments.
LEMMA AreasAlone ==
    ASSUME NEW t, Act(t), ~ AddSeg(t)
    PROVE  UNCHANGED vm_areas
<1>1. ASSUME NEW why, Fail(why) PROVE UNCHANGED vm_areas
  BY <1>1 DEF Fail
<1>2. ASSUME NEW ops, Call(t, ops) PROVE UNCHANGED vm_areas
  BY <1>2 DEF Call
<1>3. ASSUME NEW p, NEW c, Freeing(t, p, c) PROVE UNCHANGED vm_areas
  BY <1>1, <1>3 DEF Freeing, FreesObject
<1>4. ASSUME NEW c, TakeObject(t, c) \/ Grow(t, c) PROVE UNCHANGED vm_areas
  BY <1>4 DEF TakeObject, Grow
<1>5. ASSUME Alloc(t) \/ TakeAfterGrow(t) PROVE UNCHANGED vm_areas
  BY <1>1, <1>4, <1>5 DEF Alloc, TakeAfterGrow, Take
<1>6. ASSUME Unlock(t) \/ Find(t) \/ LockRam(t) \/ TakeFrame(t) PROVE UNCHANGED vm_areas
  BY <1>1, <1>6 DEF Unlock, Find, LockRam, TakeFrame
<1>7. ASSUME Map(t) \/ Install(t) \/ Track(t) \/ NewSubpages(t) \/ MapSections(t) PROVE UNCHANGED vm_areas
  BY <1>1, <1>7 DEF Map, Install, Track, NewSubpages, MapSections
<1>8. ASSUME Put(t) \/ Give(t) PROVE UNCHANGED vm_areas
  BY <1>1, <1>8 DEF Put, Give
<1> QED BY <1>2, <1>3, <1>5, <1>6, <1>7, <1>8 DEF Act, Step

\* A segment is added in front.
LEMMA SegAdded ==
    ASSUME RangeInv, NEW s, NEW p, NEW n, vm_areas' = << <<s, p, n>> >> \o vm_areas
    PROVE  SegOf(p, n)' /\ \A q, m : SegOf(q, m) => SegOf(q, m)'
<1>1. \A a : IsSeg(a)' <=> a = <<s, p, n>> \/ IsSeg(a)
  <2>1. IsSeq(vm_areas)
    BY DEF RangeInv, AreasTyped
  <2>2. \A a : Listed(a, vm_areas') <=> a = <<s, p, n>> \/ Listed(a, vm_areas)
    BY <2>1, InFront
  <2>3. \A a : (IsSeg(a) <=> Listed(a, vm_areas)) /\ (IsSeg(a)' <=> Listed(a, vm_areas'))
    BY DEF IsSeg, Listed
  <2> QED BY <2>2, <2>3
<1>2. PICK x : x = <<s, p, n>>
  OBVIOUS
<1>3. x[2] = p /\ x[3] = n
  BY <1>2
<1> QED BY <1>1, <1>2, <1>3 DEF SegOf

LEMMA SegsStay ==
    ASSUME RangeInv, NEW t, Act(t)
    PROVE  \A q, m : SegOf(q, m) => SegOf(q, m)'
<1>1. CASE ~ AddSeg(t)
  <2>1. UNCHANGED vm_areas
    BY <1>1, AreasAlone
  <2> QED BY <2>1 DEF SegOf, IsSeg
<1>2. CASE AddSeg(t)
  BY <1>2, SegAdded DEF AddSeg
<1> QED BY <1>1, <1>2

\* The locks that others hold stay theirs.
OwnersStay(t) == \A u \in Thread \ {t}, m \in {VM, C16} : owner[m] = u => owner'[m] = u
LEMMA ActsOwners ==
    ASSUME LockInv, NEW t \in Thread, Act(t)
    PROVE  OwnersStay(t)
<1>1. UNCHANGED owner => OwnersStay(t)
  BY DEF OwnersStay
<1>2. ASSUME NEW why, Fail(why) PROVE OwnersStay(t)
  BY <1>1, <1>2 DEF Fail
<1>3. ASSUME NEW ops, Call(t, ops) PROVE OwnersStay(t)
  BY <1>1, <1>3 DEF Call
<1>4. ASSUME NEW p, NEW c, Freeing(t, p, c) PROVE OwnersStay(t)
  BY <1>1, <1>2, <1>4 DEF Freeing, FreesObject
<1>5. ASSUME NEW c, TakeObject(t, c) \/ Grow(t, c), owner[c] \in {NoThread, t} PROVE OwnersStay(t)
  <2>1. owner' = [owner EXCEPT ![c] = t] \/ owner' = [owner EXCEPT ![c] = NoThread]
    BY <1>5 DEF TakeObject, Grow
  <2>2. \A m \in Mutexes : m # c => owner'[m] = owner[m]
    BY <2>1 DEF LockInv, Kept
  <2>3. VM \in Mutexes /\ C16 \in Mutexes /\ NoThread \notin Thread
    BY LockNumbers, SlubConstants
  <2> QED BY <1>5, <2>2, <2>3 DEF OwnersStay
<1>6. ASSUME Alloc(t) PROVE OwnersStay(t)
  BY <1>2, <1>5, <1>6 DEF Alloc, Take
<1>7. ASSUME TakeAfterGrow(t) PROVE OwnersStay(t)
  BY <1>2, <1>5, <1>7, TakeHolds DEF TakeAfterGrow, Take
<1>8. ASSUME Unlock(t) PROVE OwnersStay(t)
  <2>1. Does(t, "unlock") /\ owner' = [owner EXCEPT ![Arg(t)] = NoThread]
    BY <1>8 DEF Unlock
  <2>2. PICK c : c = Arg(t)
    OBVIOUS
  <2>3. AtUnlock(c, Tail(todo[t]), HeldBy(t), vals[t])
    BY <2>1, <2>2, Doing DEF At
  <2>4. c = VM /\ c \in HeldBy(t)
    BY <2>3 DEF AtUnlock
  <2>5. owner[VM] = t /\ owner'[C16] = owner[C16]
    BY <2>1, <2>2, <2>4, LockNumbers DEF HeldBy, LockInv, Kept
  <2> QED BY <2>5 DEF OwnersStay
<1>9. ASSUME Find(t) PROVE OwnersStay(t)
  <2>1. CASE owner' = [owner EXCEPT ![VM] = t]
    <3>1. owner[VM] = NoThread /\ owner'[C16] = owner[C16]
      BY <1>9, <2>1, LockNumbers DEF Find, LockInv, Kept
    <3> QED BY <3>1, SlubConstants DEF OwnersStay
  <2> QED BY <1>2, <1>9, <2>1 DEF Find
<1>10. ASSUME NEW x, owner' = [owner EXCEPT ![RAM] = x] PROVE OwnersStay(t)
  <2>1. owner'[VM] = owner[VM] /\ owner'[C16] = owner[C16]
    BY <1>10, LockNumbers DEF LockInv, Kept
  <2> QED BY <2>1 DEF OwnersStay
<1>11. ASSUME LockRam(t) \/ TakeFrame(t) PROVE OwnersStay(t)
  BY <1>2, <1>10, <1>11 DEF LockRam, TakeFrame
<1>12. ASSUME AddSeg(t) \/ Map(t) \/ Install(t) \/ Track(t) \/ NewSubpages(t) \/ MapSections(t) PROVE OwnersStay(t)
  BY <1>1, <1>2, <1>12 DEF AddSeg, Map, Install, Track, NewSubpages, MapSections
<1>13. ASSUME Put(t) \/ Give(t) PROVE OwnersStay(t)
  BY <1>1, <1>2, <1>13 DEF Put, Give
<1> QED BY <1>3, <1>4, <1>6, <1>7, <1>8, <1>9, <1>11, <1>12, <1>13 DEF Act, Step

\* A thread gets a page by vm_find_free() only.
PagesFewer == \A u, i : \A q \in VA : ValAt(u, i, <<q, -1>>)' => ValAt(u, i, <<q, -1>>)

LEMMA PushedFewer ==
    ASSUME LockInv, NEW t \in Thread, NEW v, Push(t, v), \A q : v # <<q, -1>>
    PROVE  PagesFewer
<1>1. \A u, i, q : ValAt(u, i, q)' <=> ValAt(u, i, q) \/ (u = t /\ i = Len(vals[t]) + 1 /\ q = v)
  BY Pushed DEF Push
<1> QED BY <1>1 DEF PagesFewer

LEMMA PoppedFewer ==
    ASSUME LockInv, NEW t \in Thread, NEW op, Does(t, op), NEW n \in {1, 2}, Pop(t, n),
           op \in {"seg", "install", "track", "init1", "sections", "put", "give"},
           n = 2 => op \in {"track", "init1"}
    PROVE  PagesFewer
<1>1. Finds(Head(todo[t]), vals[t]) /\ Head(todo[t])[1] = op
  BY StepFacts
<1>2. PICK l : l = Len(vals[t])
  OBVIOUS
<1>3. l \in Nat /\ n <= l /\ n \in Nat
  BY <1>1, <1>2 DEF Finds
<1>4. \A u, i, q : ValAt(u, i, q)' <=> ValAt(u, i, q) /\ ~ (u = t /\ i > l - n)
  BY <1>2, <1>3, Popped
<1> QED BY <1>4 DEF PagesFewer

LEMMA TakenFewer ==
    ASSUME LockInv, HeapInv, NEW t \in Thread, NEW c \in Size \union {PT}, ~ Empty(c), TakeObject(t, c)
    PROVE  PagesFewer
<1>1. PICK sl, k, v : sl = FirstSlab(c) /\ k = Head(slabs[sl].chain) /\ v = <<slabs[sl].page, k>>
  OBVIOUS
<1>2. k \in Nat
  BY <1>1, FirstSlabFacts DEF HeapInv
<1>3. Push(t, v)
  BY <1>1 DEF TakeObject
<1>4. \A q : v # <<q, -1>>
  BY <1>1, <1>2, Tuples
<1> QED BY <1>3, <1>4, PushedFewer

LEMMA FreedFewer ==
    ASSUME LockInv, HeapInv, NEW t \in Thread, NEW p, NEW c, Freeing(t, p, c)
    PROVE  PagesFewer
<1>1. UNCHANGED vals => PagesFewer
  BY DEF PagesFewer, ValAt
<1>2. CASE UNCHANGED vals
  BY <1>1, <1>2
<1>3. CASE vals' # vals
  <2>1. FreesObject(t, p, c)
    BY <1>3 DEF Freeing, Fail
  <2>2. <<p, c>> \in live /\ c # WHOLE /\ vals' = [vals EXCEPT ![t] = <<p>>]
    BY <2>1 DEF FreesObject
  <2>3. IsObj(p)
    <3>1. PICK o : o = <<p, c>>
      OBVIOUS
    <3>2. o \in live /\ o[1] = p /\ o[2] = c
      BY <2>2, <3>1, Tuples
    <3> QED BY <2>2, <3>2 DEF HeapInv, LiveOk
  <2>4. \A q : p # <<q, -1>>
    BY <2>3, Tuples DEF IsObj
  <2>5. (\A u \in Thread : u # t => vals'[u] = vals[u]) /\ vals'[t] = <<p>>
    BY <2>2 DEF LockInv, Kept
  <2>6. \A i \in DOMAIN vals'[t] : vals'[t][i] = p
    BY <2>5
  <2> QED BY <2>4, <2>5, <2>6 DEF PagesFewer, ValAt
<1> QED BY <1>2, <1>3

LEMMA ActsPages ==
    ASSUME LockInv, HeapInv, NEW t \in Thread, Act(t), ~ Find(t)
    PROVE  PagesFewer
<1>1. UNCHANGED vals => PagesFewer
  BY DEF PagesFewer, ValAt
<1>2. ASSUME NEW why, Fail(why) PROVE PagesFewer
  BY <1>1, <1>2 DEF Fail
<1>3. ASSUME NEW ops, Call(t, ops) PROVE PagesFewer
  BY <1>1, <1>3 DEF Call
<1>4. ASSUME Alloc(t) PROVE PagesFewer
  <2>1. PICK c : c = Arg(t)
    OBVIOUS
  <2>2. Does(t, "alloc") /\ owner[Arg(t)] = NoThread
    BY <1>4 DEF Alloc
  <2>3. CASE Empty(c)
    <3>1. Grow(t, c) => UNCHANGED vals
      BY DEF Grow
    <3> QED BY <1>1, <1>2, <1>4, <2>1, <2>3, <3>1 DEF Alloc
  <2>4. CASE ~ Empty(c)
    <3>1. /\ After(Head(todo[t]), Tail(todo[t])) /\ Head(todo[t])[1] = "alloc"
          /\ Head(todo[t])[2] = c
      BY <2>1, <2>2, StepFacts
    <3>2. c \in Size \union {PT}
      BY <3>1, LockNumbers DEF After
    <3>3. (\E why : Fail(why)) \/ TakeObject(t, c)
      BY <1>4, <2>1, <2>4, TakeCases DEF Alloc
    <3> QED BY <1>2, <2>4, <3>2, <3>3, TakenFewer
  <2> QED BY <2>3, <2>4
<1>5. ASSUME TakeAfterGrow(t) PROVE PagesFewer
  <2>1. PICK c : c = Arg(t)
    OBVIOUS
  <2>2. Does(t, "take") /\ ((\E why : Fail(why)) \/ TakeObject(t, c))
    BY <1>5, <2>1, TakeCases DEF TakeAfterGrow
  <2>3. c \in Size \union {PT}
    BY <2>1, <2>2, TakeHolds
  <2>4. ~ Empty(c)
    <3>1. Sound
      BY HeapIsSound
    <3> QED BY <2>1, <2>2, <3>1 DEF Sound, Does, HeadOp
  <2> QED BY <1>2, <2>2, <2>3, <2>4, TakenFewer
<1>6. ASSUME Unlock(t) \/ LockRam(t) \/ Map(t) PROVE PagesFewer
  BY <1>1, <1>2, <1>6 DEF Unlock, LockRam, Map
<1>7. ASSUME TakeFrame(t) PROVE PagesFewer
  <2>1. PICK f : f = Min(1 .. NRam \ ram)
    OBVIOUS
  <2>2. PICK v : v = <<f>>
    OBVIOUS
  <2>3. (\E why : Fail(why)) \/ Push(t, v)
    BY <1>7, <2>1, <2>2 DEF TakeFrame
  <2>4. \A q : v # <<q, -1>>
    BY <2>2, Tuples
  <2> QED BY <1>2, <2>3, <2>4, PushedFewer
<1>8. ASSUME AddSeg(t) PROVE PagesFewer
  BY <1>8, PoppedFewer DEF AddSeg
<1>9. ASSUME Install(t) PROVE PagesFewer
  BY <1>2, <1>9, PoppedFewer DEF Install
<1>10. ASSUME Track(t) PROVE PagesFewer
  BY <1>10, PoppedFewer DEF Track
<1>11. ASSUME NewSubpages(t) PROVE PagesFewer
  BY <1>2, <1>11, PoppedFewer DEF NewSubpages
<1>12. ASSUME MapSections(t) PROVE PagesFewer
  BY <1>2, <1>12, PoppedFewer DEF MapSections
<1>13. ASSUME Put(t) \/ Give(t) PROVE PagesFewer
  BY <1>2, <1>13, PoppedFewer DEF Put, Give
<1>14. ASSUME Step(t) PROVE PagesFewer
  BY <1>4, <1>5, <1>6, <1>7, <1>8, <1>9, <1>10, <1>11, <1>12, <1>13, <1>14 DEF Step
<1> QED BY <1>3, <1>14, FreedFewer DEF Act

-----------------------------------------------------------------------------
(* From the range that is found to the page that is mapped.                *)

\* Steps that find a range, record it, and take it to mmu_map_pages().
RangeOps == {"unlock", "pm", "ram", "seg", "map", "sections"}
AllocsSeg(r) == Begins(r, {"alloc"}) /\ Begins(Tail(r), {"seg"})
Unplaced(r)  == ~ Begins(r, RangeOps) /\ ~ AllocsSeg(r)
Placing(t)   == Begins(todo[t], {"find", "seg", "unlock", "pm", "ram"}) \/ AllocsSeg(todo[t])

LEMMA UnplacedOk ==
    ASSUME NEW t, Unplaced(todo'[t])
    PROVE  PlacedOk(t)'
<1>1. PICK r : r = todo'[t]
  OBVIOUS
<1>2. ~ Begins(r, RangeOps) /\ ~ AllocsSeg(r)
  BY <1>1 DEF Unplaced
<1>3. \A ops : ops \subseteq RangeOps => ~ Begins(r, ops)
  BY <1>2 DEF Begins
<1>4. /\ ~ Begins(r, {"unlock", "pm", "ram"}) /\ ~ Begins(r, {"seg", "map"}) /\ ~ Begins(r, {"seg"})
      /\ ~ Begins(r, {"sections"}) /\ ~ Begins(r, {"unlock"})
  BY <1>3 DEF RangeOps
<1> QED BY <1>1, <1>2, <1>4 DEF PlacedOk, PlacedFor, ForFb, ToSections, AllocsSeg, Begins

LEMMA HeadUnplaced ==
    ASSUME NEW r, NEW ops, r = <<>> \/ Begins(r, ops), ops \intersect RangeOps = {}, "alloc" \notin ops
    PROVE  Unplaced(r)
  BY DEF Begins, RangeOps, Unplaced, AllocsSeg

LEMMA ConsUnplaced ==
    ASSUME NEW x, NEW r, IsSeq(r), x[1] \notin RangeOps, x[1] # "alloc"
    PROVE  Unplaced(Cons(x, r))
  BY ConsFacts DEF Unplaced, RangeOps, AllocsSeg, Begins

LEMMA AllocUnplaced ==
    ASSUME NEW c, NEW y, NEW r, IsSeq(r), y[1] # "seg"
    PROVE  Unplaced(Cons(<<"alloc", c>>, Cons(y, r)))
<1> DEFINE x == <<"alloc", c>>
<1>1. x[1] = "alloc"
  OBVIOUS
<1> HIDE DEF x
<1>2. IsSeq(Cons(y, r)) /\ Cons(y, r) # <<>> /\ Head(Cons(y, r)) = y
  BY ConsFacts
<1>3. Cons(x, Cons(y, r)) # <<>> /\ Head(Cons(x, Cons(y, r))) = x /\ Tail(Cons(x, Cons(y, r))) = Cons(y, r)
  BY <1>2, ConsFacts
<1>4. Unplaced(Cons(x, Cons(y, r)))
  BY <1>1, <1>2, <1>3 DEF Unplaced, AllocsSeg, RangeOps, Begins
<1> QED BY <1>4 DEF x

LEMMA FindUnplaced ==
    ASSUME NEW n, NEW r, IsSeq(r)
    PROVE  Unplaced(FromFind(n, r))
<1> DEFINE x == <<"find", n>>
<1>1. x[1] = "find"
  OBVIOUS
<1> HIDE DEF x
<1>2. IsSeq(FromSegAlloc(n, r)) /\ x[1] \notin RangeOps
  BY <1>1, FromAreSeqs DEF RangeOps
<1>3. Unplaced(Cons(x, FromSegAlloc(n, r)))
  BY <1>1, <1>2, ConsUnplaced
<1> QED BY <1>3 DEF FromFind, x

LEMMA RefillUnplaced ==
    ASSUME NEW c, NEW r, IsSeq(r)
    PROVE  Unplaced(FromRefill(c, r))
<1> DEFINE x == <<"find", 1>>
           q == FromPm(FromInit1(c, r))
<1>1. x[1] # "seg"
  OBVIOUS
<1>2. IsSeq(q)
  BY FromAreSeqs
<1> HIDE DEF x, q
<1>3. IsSeq(FromSegAlloc(1, q))
  BY <1>2, FromAreSeqs
<1>4. Unplaced(Cons(<<"alloc", C16>>, Cons(x, FromSegAlloc(1, q))))
  BY <1>1, <1>3, AllocUnplaced
<1> QED BY <1>4 DEF FromRefill, FromFind, x, q

LEMMA CallsUnplaced ==
    /\ \A c \in Size \union {WHOLE} : Unplaced(Kmalloc(c) \o << <<"give", c>> >>)
    /\ Unplaced(VmAlloc(FbPages) \o << <<"sections">> >>)
<1>1. ASSUME NEW c \in Size \union {WHOLE} PROVE Unplaced(Kmalloc(c) \o << <<"give", c>> >>)
  <2> DEFINE y == <<"give", c>>
             g == <<y>>
             x == <<"alloc", c>>
  <2>1. g = Cons(y, <<>>) /\ IsSeq(g) /\ y[1] # "seg"
    BY OneForm, ConsFacts, EmptyIsSeq, ZenonT(60)
  <2>2. Kmalloc(c) = IF c = WHOLE THEN Page ELSE <<x>>
    BY DEF Kmalloc
  <2> HIDE DEF g, y
  <2>3. IsSeq(FromPm(g))
    BY <2>1, FromAreSeqs
  <2>4. Page \o g = FromFind(1, FromPm(g))
    BY <2>1, PageForm
  <2>5. Unplaced(Page \o g)
    BY <2>3, <2>4, FindUnplaced
  <2>6. Unplaced(Cons(x, Cons(y, <<>>)))
    BY <2>1, EmptyIsSeq, AllocUnplaced
  <2>7. Unplaced(<<x>> \o g)
    BY <2>1, <2>6 DEF Cons
  <2>8. Unplaced(Kmalloc(c) \o g)
    BY <2>2, <2>5, <2>7
  <2> QED BY <2>8 DEF g, y
<1>2. Unplaced(VmAlloc(FbPages) \o << <<"sections">> >>)
  <2> DEFINE g == << <<"sections">> >>
  <2>1. IsSeq(g)
    BY OneForm, ConsFacts, EmptyIsSeq
  <2> HIDE DEF g
  <2>2. VmAlloc(FbPages) \o g = FromFind(FbPages, g)
    BY <2>1, VmAllocForm
  <2>3. Unplaced(VmAlloc(FbPages) \o g)
    BY <2>1, <2>2, FindUnplaced
  <2> QED BY <2>3 DEF g
<1> QED BY <1>1, <1>2

\* Steps that go on to others than those.
LEMMA ThenUnplaced ==
    ASSUME LockInv, NEW t \in Thread, NEW op, Does(t, op), Then(t, <<>>),
           op \in {"take", "track", "init1", "give", "sections", "put"}
    PROVE  Unplaced(todo'[t])
<1>1. /\ After(Head(todo[t]), Tail(todo[t])) /\ Head(todo[t])[1] = op
  BY StepFacts
<1>2. PICK r : r = Tail(todo[t])
  OBVIOUS
<1>3. r = <<>> \/ Begins(r, {"give", "install", "init1", "take"})
  BY <1>1, <1>2 DEF After, Begins
<1>4. {"give", "install", "init1", "take"} \intersect RangeOps = {}
  BY DEF RangeOps
<1>5. Unplaced(r)
  BY <1>3, <1>4, HeadUnplaced
<1> QED BY <1>2, <1>5, TailNext

\* The other steps go on to others, or fail.
Leaves(t) == UNCHANGED <<todo, vals, tables>> \/ Unplaced(todo'[t])

\* mmu_map_pages() goes on to the allocation of the structure of a page.
LEMMA WholeUnplaced ==
    ASSUME LockInv, NEW t \in Thread, NEW op \in {"map", "install"}, Does(t, op), Then(t, <<>>)
    PROVE  Leaves(t)
<1>1. At(Head(todo[t]), Tail(todo[t]), HeldBy(t), vals[t]) /\ Head(todo[t])[1] = op
  BY Doing
<1>2. PICK q : IsSeq(q) /\ Tail(todo[t]) = FromWhole(q)
  BY <1>1, InnerFacts, OuterFacts DEF At, AtMap, AtInstall
<1> DEFINE y == <<"track">>
<1>3. y[1] # "seg"
  OBVIOUS
<1>4. FromWhole(q) = Cons(<<"alloc", C16>>, Cons(y, q))
  BY DEF FromWhole, FromTrack
<1> HIDE DEF y
<1>5. Unplaced(Cons(<<"alloc", C16>>, Cons(y, q)))
  BY <1>2, <1>3, AllocUnplaced
<1>6. Unplaced(Tail(todo[t]))
  BY <1>2, <1>4, <1>5
<1>7. todo'[t] = Tail(todo[t])
  BY TailNext
<1> QED BY <1>6, <1>7 DEF Leaves

LEMMA MapLeaves ==
    ASSUME LockInv, NEW t \in Thread, Map(t)
    PROVE  Leaves(t)
<1>1. Does(t, "map")
  BY DEF Map
<1>2. (\E why : Fail(why)) \/ Then(t, <<>>) \/ Then(t, << <<"alloc", PT>>, <<"install">> >>)
  BY DEF Map
<1>3. CASE \E why : Fail(why)
  BY <1>3 DEF Fail, Leaves
<1>4. CASE Then(t, <<>>)
  BY <1>1, <1>4, WholeUnplaced
<1>5. CASE Then(t, << <<"alloc", PT>>, <<"install">> >>)
  <2> DEFINE x == <<"alloc", PT>>
             y == <<"install">>
  <2>1. todo'[t] = <<x, y>> \o Tail(todo[t])
    BY <1>5 DEF Then, LockInv, Kept
  <2>2. y[1] # "seg"
    OBVIOUS
  <2> HIDE DEF x, y
  <2>3. PICK w, r : IsPair(w, x, y) /\ r = Tail(todo[t])
    BY DEF IsPair
  <2>4. IsSeq(r)
    BY <1>1, <2>3, Doing
  <2>5. IsPair(w, x, y)
    BY <2>3
  <2>6. w \o r = Cons(x, Cons(y, r))
    BY <2>4, <2>5, TwoInFront
  <2>7. todo'[t] = Cons(x, Cons(y, r))
    BY <2>1, <2>3, <2>6 DEF IsPair
  <2>8. Unplaced(Cons(<<"alloc", PT>>, Cons(y, r)))
    BY <2>2, <2>4, AllocUnplaced
  <2> QED BY <2>7, <2>8 DEF x, Leaves
<1> QED BY <1>2, <1>3, <1>4, <1>5

\* An object is taken, with or without a refill.
LEMMA TakeLeaves ==
    ASSUME LockInv, NEW t \in Thread, NEW op \in {"alloc", "take"}, Does(t, op),
           op = "alloc" => owner[Arg(t)] = NoThread, ~ AllocsSeg(todo[t]),
           NEW c, c = Arg(t), TakeObject(t, c)
    PROVE  Leaves(t)
<1>1. /\ After(Head(todo[t]), Tail(todo[t])) /\ Head(todo[t])[1] = op /\ Head(todo[t])[2] = c
  BY StepFacts
<1>2. IsSeq(Tail(todo[t])) /\ todo[t] # <<>>
  BY Doing
<1>3. CASE Then(t, <<>>)
  <2>1. PICK r : r = Tail(todo[t])
    OBVIOUS
  <2>2. Begins(r, {"give", "find", "track", "install"})
    <3>1. ~ Begins(r, {"seg"}) \/ op # "alloc"
      BY <1>1, <1>2, <2>1 DEF AllocsSeg, Begins
    <3>2. CASE op = "alloc"
      BY <1>1, <2>1, <3>1, <3>2 DEF After, Begins
    <3>3. CASE op = "take"
      BY <1>1, <2>1, <3>3 DEF After, Begins
    <3> QED BY <3>2, <3>3
  <2>3. {"give", "find", "track", "install"} \intersect RangeOps = {}
    BY DEF RangeOps
  <2>4. Unplaced(r)
    BY <2>2, <2>3, HeadUnplaced
  <2> QED BY <1>3, <2>1, <2>4, TailNext DEF Leaves
<1>4. CASE Then(t, Refill(c) \o << <<"unlock", c>> >>)
  <2>1. PICK x : x = <<"unlock", c>>
    OBVIOUS
  <2>2. todo'[t] = (Refill(c) \o <<x>>) \o Tail(todo[t])
    BY <1>4, <2>1 DEF Then, LockInv, Kept
  <2>3. todo'[t] = FromRefill(c, Cons(x, Tail(todo[t])))
    BY <1>2, <2>2, RefillForm
  <2>4. IsSeq(Cons(x, Tail(todo[t])))
    BY <1>2, ConsFacts
  <2> QED BY <2>3, <2>4, RefillUnplaced DEF Leaves
<1> QED BY <1>3, <1>4 DEF TakeObject

LEMMA ActsLeave ==
    ASSUME LockInv, NEW t \in Thread, Act(t), ~ Placing(t)
    PROVE  Leaves(t)
<1>1. ASSUME NEW why, Fail(why) PROVE Leaves(t)
  BY <1>1 DEF Fail, Leaves
<1>2. ASSUME NEW ops, Call(t, ops), Unplaced(ops) PROVE Leaves(t)
  <2>1. todo'[t] = ops
    BY <1>2 DEF Call, LockInv, Kept
  <2> QED BY <1>2, <2>1 DEF Leaves
<1>3. ASSUME NEW c \in Want, Call(t, Kmalloc(c) \o << <<"give", c>> >>) PROVE Leaves(t)
  <2>1. PICK ops : ops = Kmalloc(c) \o << <<"give", c>> >>
    OBVIOUS
  <2>2. Unplaced(ops)
    BY <2>1, SlubConstants, CallsUnplaced
  <2> QED BY <1>2, <1>3, <2>1, <2>2
<1>4. ASSUME Call(t, VmAlloc(FbPages) \o << <<"sections">> >>) PROVE Leaves(t)
  <2>1. PICK ops : ops = VmAlloc(FbPages) \o << <<"sections">> >>
    OBVIOUS
  <2>2. Unplaced(ops)
    BY <2>1, CallsUnplaced
  <2> QED BY <1>2, <1>4, <2>1, <2>2
<1>5. ASSUME NEW p, NEW c, Freeing(t, p, c) PROVE Leaves(t)
  <2>1. (\E why : Fail(why)) \/ \E s : todo'[t] = << <<"put", s>> >>
    BY <1>5 DEF Freeing, FreesObject, LockInv, Kept
  <2>2. ASSUME NEW s, todo'[t] = << <<"put", s>> >>
        PROVE  Leaves(t)
    <3>1. Head(todo'[t]) = <<"put", s>>
      BY <2>2
    <3>2. Begins(todo'[t], {"put"}) /\ {"put"} \intersect RangeOps = {} /\ "alloc" \notin {"put"}
      BY <2>2, <3>1 DEF Begins, RangeOps
    <3> QED BY <3>2, HeadUnplaced DEF Leaves
  <2> QED BY <1>1, <2>1, <2>2
<1>6. ASSUME NEW c, Grow(t, c), Does(t, "alloc") PROVE Leaves(t)
  <2>1. todo'[t] = (Refill(c) \o << <<"take", c>> >>) \o Tail(todo[t])
    BY <1>6 DEF Grow, Then, LockInv, Kept
  <2>2. IsSeq(Tail(todo[t]))
    BY <1>6, Doing
  <2>3. todo'[t] = FromRefill(c, Cons(<<"take", c>>, Tail(todo[t])))
    BY <2>1, <2>2, RefillForm
  <2>4. IsSeq(Cons(<<"take", c>>, Tail(todo[t])))
    BY <2>2, ConsFacts
  <2> QED BY <2>3, <2>4, RefillUnplaced DEF Leaves
<1>7. ASSUME Alloc(t) PROVE Leaves(t)
  <2>1. PICK c : c = Arg(t)
    OBVIOUS
  <2>2. Does(t, "alloc") /\ owner[Arg(t)] = NoThread
    BY <1>7 DEF Alloc
  <2>3. (\E why : Fail(why)) \/ Grow(t, c) \/ TakeObject(t, c)
    BY <1>7, <2>1, TakeCases DEF Alloc
  <2> QED BY <1>1, <1>6, <2>1, <2>2, <2>3, TakeLeaves DEF Placing
<1>8. ASSUME TakeAfterGrow(t) PROVE Leaves(t)
  <2>1. PICK c : c = Arg(t)
    OBVIOUS
  <2>2. Does(t, "take") /\ ((\E why : Fail(why)) \/ TakeObject(t, c))
    BY <1>8, <2>1, TakeCases DEF TakeAfterGrow
  <2> QED BY <1>1, <2>1, <2>2, TakeLeaves DEF Placing
<1>9. ASSUME Unlock(t) \/ Find(t) \/ AddSeg(t) \/ LockRam(t) \/ TakeFrame(t) PROVE Leaves(t)
  BY <1>9 DEF Unlock, Find, AddSeg, LockRam, TakeFrame, Placing, Does, Begins
<1>10. ASSUME Install(t) PROVE Leaves(t)
  BY <1>1, <1>10, WholeUnplaced DEF Install
<1>11. ASSUME Track(t) \/ NewSubpages(t) \/ MapSections(t) \/ Put(t) \/ Give(t)
       PROVE  Leaves(t)
  <2>1. (\E why : Fail(why)) \/ \E op \in {"track", "init1", "sections", "put", "give"} :
                                   Does(t, op) /\ Then(t, <<>>)
    BY <1>11 DEF Track, NewSubpages, MapSections, Put, Give
  <2> QED BY <1>1, <2>1, ThenUnplaced DEF Leaves
<1> QED BY <1>3, <1>4, <1>5, <1>7, <1>8, <1>9, <1>10, <1>11, MapLeaves DEF Act, Step

\* The step that a thread takes is its next.
LEMMA ActsBy ==
    ASSUME NEW t, Act(t), todo[t] # <<>>
    PROVE  /\ stopped = "no"
           /\ HeadOp(t) = "alloc" => Alloc(t)
           /\ HeadOp(t) = "find" => Find(t)
           /\ HeadOp(t) = "seg" => AddSeg(t)
           /\ HeadOp(t) = "unlock" => Unlock(t)
           /\ HeadOp(t) = "pm" => LockRam(t)
           /\ HeadOp(t) = "ram" => TakeFrame(t)
           /\ HeadOp(t) = "sections" => MapSections(t)
<1>1. Step(t)
  BY DEF Act, Call, Freeing, FreesObject
<1>2. ASSUME Alloc(t) \/ TakeAfterGrow(t) \/ Unlock(t) \/ Find(t) \/ AddSeg(t) \/ LockRam(t) \/ TakeFrame(t)
      PROVE  \/ Alloc(t) /\ stopped = "no" /\ HeadOp(t) = "alloc"
             \/ stopped = "no" /\ HeadOp(t) = "take"
             \/ Unlock(t) /\ stopped = "no" /\ HeadOp(t) = "unlock"
             \/ Find(t) /\ stopped = "no" /\ HeadOp(t) = "find"
             \/ AddSeg(t) /\ stopped = "no" /\ HeadOp(t) = "seg"
             \/ LockRam(t) /\ stopped = "no" /\ HeadOp(t) = "pm"
             \/ TakeFrame(t) /\ stopped = "no" /\ HeadOp(t) = "ram"
  BY <1>2, ZenonT(60) DEF Alloc, TakeAfterGrow, Unlock, Find, AddSeg, LockRam, TakeFrame, Does, HeadOp
<1>3. ASSUME Map(t) \/ Install(t) \/ Track(t) \/ NewSubpages(t) \/ MapSections(t) \/ Put(t) \/ Give(t)
      PROVE  \/ MapSections(t) /\ stopped = "no" /\ HeadOp(t) = "sections"
             \/ stopped = "no" /\ HeadOp(t) \in {"map", "install", "track", "init1", "put", "give"}
  BY <1>3 DEF Map, Install, Track, NewSubpages, MapSections, Put, Give, Does, HeadOp
<1> QED BY <1>1, <1>2, <1>3 DEF Step

\* A page of a call that is not being given a range keeps its segment.
LEMMA PagesStayPlaced ==
    ASSUME PagesFewer, \A q, m : SegOf(q, m) => SegOf(q, m)', NEW t, PagesPlaced(t),
           \A i, p : Finding(t, i) /\ ValAt(t, i, <<p, -1>>)' => Finding(t, i)',
           ToSections(todo[t]) => ToSections(todo[t])' \/ \A i, q : ~ ValAt(t, i, q)'
    PROVE  PagesPlaced(t)'
<1> SUFFICES ASSUME NEW i, NEW p \in VA, ValAt(t, i, <<p, -1>>)' PROVE PagePlaced(t, i, p)'
  BY DEF PagesPlaced
<1>1. ValAt(t, i, <<p, -1>>)
  BY DEF PagesFewer
<1>2. PagePlaced(t, i, p)
  BY <1>1 DEF PagesPlaced
<1>3. SegOf(p, 1) => SegOf(p, 1)'
  OBVIOUS
<1> QED BY <1>2, <1>3 DEF PagePlaced

LEMMA NotFinding ==
    ASSUME LockInv, NEW t \in Thread, Act(t), ~ Placing(t)
    PROVE  owner[VM] # t
<1> SUFFICES ASSUME owner[VM] = t PROVE FALSE
  OBVIOUS
<1>1. todo[t] # <<>> /\ HeadOp(t) \in {"alloc", "seg", "unlock"}
  BY HolderOps
<1>2. HeadOp(t) = "alloc"
  BY <1>1 DEF Placing, Begins, HeadOp
<1>3. Does(t, "alloc") /\ owner[Arg(t)] = NoThread
  BY <1>1, <1>2, ActsBy DEF Alloc
<1>4. Begins(Tail(todo[t]), {"seg"})
  BY <1>3, AllocHolder
<1> QED BY <1>1, <1>2, <1>4 DEF Placing, AllocsSeg, Begins, HeadOp

LEMMA LeavingPlaced ==
    ASSUME LockInv, RangeInv, HeapInv, NEW t \in Thread, Act(t), ~ Placing(t), PlacedOk(t), PagesPlaced(t)
    PROVE  PlacedOk(t)' /\ PagesPlaced(t)'
<1>1. \A q, m : SegOf(q, m) => SegOf(q, m)'
  BY SegsStay
<1>2. PlacedOk(t)'
  <2>1. CASE UNCHANGED <<todo, vals, tables>>
    <3>1. UNCHANGED <<pd, ptes>>
      BY <2>1 DEF tables
    <3> QED BY <1>1, <2>1, <3>1 DEF PlacedOk, PlacedFor, ForFb, ToSections, Unmapped, Fr, Usable, IsPt
  <2>2. CASE Unplaced(todo'[t])
    BY <2>2, UnplacedOk
  <2> QED BY <2>1, <2>2, ActsLeave DEF Leaves
<1>3. PagesFewer
  <2>1. ~ Find(t)
    BY DEF Placing, Find, Does, Begins
  <2> QED BY <2>1, ActsPages
<1>4. ~ \E i : Finding(t, i)
  BY NotFinding DEF Finding
<1>5. ToSections(todo[t]) => ToSections(todo[t])' \/ \A i, q : ~ ValAt(t, i, q)'
  <2> SUFFICES ASSUME ToSections(todo[t]), todo' # todo PROVE \A i, q : ~ ValAt(t, i, q)'
    BY DEF ToSections, Begins
  <2>1. todo[t] # <<>> /\ HeadOp(t) = "sections"
    BY DEF ToSections, Placing, Begins, HeadOp
  <2>2. MapSections(t)
    BY <2>1, ActsBy
  <2>3. Does(t, "sections") /\ Pop(t, 1)
    BY <2>2 DEF MapSections, Fail
  <2>4. Len(vals[t]) = 1
    BY <2>3, StepFacts DEF Finds
  <2>5. vals'[t] = SubSeq(vals[t], 1, Len(vals[t]) - 1)
    BY <2>3, ValsTyped DEF Pop
  <2>6. PICK S : vals[t] \in Seq(S)
    BY ValsTyped DEF IsSeq
  <2>7. Len(vals'[t]) = 0 /\ DOMAIN vals'[t] = {}
    BY <2>4, <2>5, <2>6
  <2> QED BY <2>7 DEF ValAt
<1>6. PagesPlaced(t)'
  BY <1>1, <1>3, <1>4, <1>5, PagesStayPlaced
<1> QED BY <1>2, <1>6

-----------------------------------------------------------------------------
(* The steps of vm_alloc() and pm_ram_alloc().                             *)

\* The range that vm_alloc() finds for fb_init() is aligned.
LEMMA FoundAligned ==
    ASSUME NEW p \in VA, p \in FreeRanges(FbPages), p + FbPages <= NVa
    PROVE  Aligned(p)
<1>1. p \in Nat /\ p % FbPages = 0
  BY Numbers DEF FreeRanges, VA
<1>2. FbPages \in Nat \ {0} /\ NPte \in Nat \ {0}
  BY SlubConstants
<1>3. PICK k : k = p \div FbPages
  OBVIOUS
<1>4. k \in Nat /\ p = k * FbPages
  BY <1>1, <1>2, <1>3
<1>5. PICK j \in Nat : FbPages = j * NPte
  BY FbFacts
<1>6. PICK i : i = k * j
  OBVIOUS
<1>7. i \in Int
  BY <1>4, <1>5, <1>6
<1>8. k * (j * NPte) = (k * j) * NPte
  BY <1>2, <1>4, <1>5
<1>9. p = i * NPte + 0
  BY <1>2, <1>4, <1>5, <1>6, <1>7, <1>8
<1>10. Pde(p) \in Nat /\ Pte(p) \in 0 .. NPte - 1 /\ p = Pde(p) * NPte + Pte(p)
  BY PdeOf
<1>11. PICK d, e : d = Pde(p) /\ e = Pte(p)
  OBVIOUS
<1>12. d \in Int /\ e \in 0 .. NPte - 1 /\ d * NPte + e = i * NPte + 0 /\ 0 \in 0 .. NPte - 1
  BY <1>2, <1>9, <1>10, <1>11
<1>13. d = i
  BY <1>2, <1>7, <1>12, Quotient
<1>14. p = d * NPte
  BY <1>2, <1>9, <1>7, <1>13
<1> QED BY <1>11, <1>14 DEF Aligned

LEMMA UnmappedStays ==
    ASSUME UNCHANGED tables
    PROVE  \A o : Unmapped(o) => Unmapped(o)'
<1>1. UNCHANGED <<pd, ptes>>
  BY DEF tables
<1> QED BY <1>1 DEF Unmapped, Fr, Usable, IsPt

LEMMA SamePlaced ==
    ASSUME LockInv, RangeInv, NEW t \in Thread, NEW why, Fail(why), PlacedOk(t), PagesPlaced(t)
    PROVE  PlacedOk(t)' /\ PagesPlaced(t)'
<1>1. UNCHANGED <<pd, ptes, todo, vals, owner, vm_areas>>
  BY DEF Fail, tables
<1>2. (\A o : Unmapped(o)' <=> Unmapped(o)) /\ \A q, m : SegOf(q, m)' <=> SegOf(q, m)
  BY <1>1 DEF Unmapped, Fr, Usable, IsPt, SegOf, IsSeg
<1>3. PlacedOk(t)'
  BY <1>1, <1>2 DEF PlacedOk, PlacedFor, ForFb, ToSections
<1>4. \A i, p : (ValAt(t, i, <<p, -1>>)' <=> ValAt(t, i, <<p, -1>>)) /\ (PagePlaced(t, i, p)' <=> PagePlaced(t, i, p))
  BY <1>1, <1>2 DEF PagePlaced, ValAt, Finding, DoesNow, HeadOp, ToSections
<1>5. PagesPlaced(t)'
  BY <1>4 DEF PagesPlaced
<1> QED BY <1>3, <1>5

LEMMA FindPlaced ==
    ASSUME LockInv, RangeInv, HeapInv, NEW t \in Thread, Find(t), PlacedOk(t), PagesPlaced(t)
    PROVE  PlacedOk(t)' /\ PagesPlaced(t)'
<1>1. PICK m, p, n : m = Arg(t) /\ p = Max(FreeRanges(m)) /\ n = Len(vals[t]) + 1
  OBVIOUS
<1>2. Does(t, "find") /\ owner[VM] = NoThread
  BY DEF Find
<1>3. CASE FreeRanges(m) = {}
  BY <1>1, <1>3, SamePlaced DEF Find
<1>4. CASE FreeRanges(m) # {}
  <2>1. /\ owner' = [owner EXCEPT ![VM] = t] /\ Push(t, <<p, -1>>) /\ Then(t, <<>>)
        /\ UNCHANGED <<vm_areas, tables>>
    BY <1>1, <1>4 DEF Find
  <2>2. p \in VA /\ Fr(p) = 0 /\ p + m <= NVa /\ p \in FreeRanges(m)
    BY <1>1, <1>2, <1>4, FoundUnused
  <2>3. PICK q : Ranges(m, q, HeldBy(t), vals[t]) /\ Tail(todo[t]) = FromSegAlloc(m, q)
    <3>1. /\ At(Head(todo[t]), Tail(todo[t]), HeldBy(t), vals[t])
          /\ Head(todo[t])[1] = "find" /\ Head(todo[t])[2] = m
      BY <1>1, <1>2, Doing
    <3>2. AtFind(m, Tail(todo[t]), HeldBy(t), vals[t])
      BY <3>1 DEF At
    <3> QED BY <3>2 DEF AtFind
  <2>4. PICK r, w : r = todo'[t] /\ w = vals'[t]
    OBVIOUS
  <2>5. Head(r)[1] = "alloc" /\ r # <<>> /\ Head(Tail(r))[1] = "seg" /\ Head(Tail(r))[2] = m /\ Tail(r) # <<>>
    <3>1. r = FromSegAlloc(m, q)
      BY <1>2, <2>1, <2>3, <2>4, TailNext
    <3>2. IsSeq(FromUnlock(q)) /\ IsSeq(FromSeg(m, q))
      BY <2>3, RangesFacts, FromAreSeqs
    <3>3. r # <<>> /\ Head(r) = <<"alloc", C16>> /\ Tail(r) = FromSeg(m, q)
      BY <3>1, <3>2, ConsFacts DEF FromSegAlloc
    <3>4. FromSeg(m, q) # <<>> /\ Head(FromSeg(m, q)) = <<"seg", m>>
      BY <3>2, ConsFacts DEF FromSeg
    <3> QED BY <3>3, <3>4
  <2>6. w # <<>> /\ Len(w) = n /\ w[n] = <<p, -1>>
    <3>1. IsSeq(vals[t]) /\ w = Append(vals[t], <<p, -1>>)
      BY <2>1, <2>4, ValsTyped DEF Push
    <3> QED BY <1>1, <3>1, AppendFacts
  <2>7. m = FbPages => Aligned(p)
    BY <2>2, FoundAligned
  <2>8. \A o : Unmapped(o) => Unmapped(o)'
    BY <2>1, UnmappedStays
  <2>9. Unmapped(<<p, -1>>)'
    BY <2>2, <2>8 DEF Unmapped
  <2>10. <<p, -1>>[1] = p
    OBVIOUS
  <2>11. PlacedOk(t)'
    <3>1. Unmapped(w[Len(w)])'
      BY <2>6, <2>9
    <3>2. m = FbPages => Aligned(w[Len(w)][1])
      BY <2>6, <2>7, <2>10
    <3> HIDE DEF Unmapped
    <3>3. /\ ~ Begins(r, {"unlock", "pm", "ram"}) /\ ~ Begins(r, {"seg", "map"}) /\ ~ Begins(r, {"seg"})
          /\ ~ ToSections(r) /\ (Begins(Tail(r), {"seg"}) /\ Head(Tail(r))[2] = FbPages => m = FbPages)
      BY <2>5 DEF Begins, ToSections
    <3> QED BY <2>4, <2>6, <3>1, <3>2, <3>3 DEF PlacedOk, PlacedFor, ForFb, ToSections
  <2>12. \A u, i, q1 : ValAt(u, i, q1)' <=> ValAt(u, i, q1) \/ (u = t /\ i = n /\ q1 = <<p, -1>>)
    BY <1>1, <2>1, Pushed, ZenonT(60) DEF Push
  <2>13. owner'[VM] = t
    BY <2>1, LockNumbers DEF LockInv, Kept
  <2>14. PagesPlaced(t)'
    <3> SUFFICES ASSUME NEW i, NEW x \in VA, ValAt(t, i, <<x, -1>>)' PROVE PagePlaced(t, i, x)'
      BY DEF PagesPlaced
    <3>1. CASE i = n
      <4>1. Finding(t, i)'
        BY <2>4, <2>5, <2>6, <2>13, <3>1 DEF Finding, DoesNow, HeadOp
      <4> QED BY <4>1 DEF PagePlaced
    <3>2. CASE i # n
      <4>1. ValAt(t, i, <<x, -1>>)
        BY <2>12, <3>2
      <4>2. SegOf(x, 1)
        BY <1>2, <4>1, SlubConstants DEF PagesPlaced, PagePlaced, Finding, ToSections, Begins, Does
      <4>3. SegOf(x, 1)'
        BY <2>1, <4>2 DEF SegOf, IsSeg
      <4> QED BY <4>3 DEF PagePlaced
    <3> QED BY <3>1, <3>2
  <2> QED BY <2>11, <2>14
<1> QED BY <1>3, <1>4

SegsKept == \A q, m : SegOf(q, m) => SegOf(q, m)'

\* The structure of the segment is there, or is refilled first.
LEMMA AllocPlaced ==
    ASSUME LockInv, RangeInv, HeapInv, NEW t \in Thread, Act(t), AllocsSeg(todo[t]), PlacedOk(t), PagesPlaced(t)
    PROVE  PlacedOk(t)' /\ PagesPlaced(t)'
<1>1. Does(t, "alloc") /\ owner[Arg(t)] = NoThread /\ Alloc(t)
  <2>1. todo[t] # <<>> /\ HeadOp(t) = "alloc"
    BY DEF AllocsSeg, Begins, HeadOp
  <2> QED BY <2>1, ActsBy DEF Alloc
<1>2. /\ After(Head(todo[t]), Tail(todo[t])) /\ Head(todo[t])[1] = "alloc" /\ Head(todo[t])[2] = Arg(t)
      /\ IsSeq(Tail(todo[t])) /\ At(Head(todo[t]), Tail(todo[t]), HeldBy(t), vals[t])
  BY <1>1, StepFacts, Doing
<1>3. PICK r, v, n : r = Tail(todo[t]) /\ v = vals[t] /\ n = Len(v)
  OBVIOUS
<1>4. Begins(r, {"seg"}) /\ IsSeq(r)
  BY <1>2, <1>3 DEF AllocsSeg
<1>5. Arg(t) = C16
  BY <1>2, <1>3, <1>4 DEF After, Begins
<1>6. owner[C16] = NoThread /\ NoThread # t
  BY <1>1, <1>5, SlubConstants
<1>7. CASE Empty(C16)
  BY <1>1, <1>5, <1>7, SamePlaced DEF Alloc
<1>8. CASE \E why : Fail(why)
  BY <1>8, SamePlaced DEF Fail
<1>9. CASE ~ Empty(C16) /\ TakeObject(t, C16)
  <2>1. TakeObject(t, C16)
    BY <1>9
  <2>2. UNCHANGED <<tables, vm_areas>>
    BY <2>1 DEF TakeObject
  <2>3. owner[VM] = t
    <3>1. AtAlloc(C16, r, HeldBy(t), v)
      BY <1>2, <1>3, <1>5 DEF At
    <3>2. C16 \notin HeldBy(t)
      BY <1>6 DEF HeldBy
    <3>3. ~ Begins(r, {"give", "find", "track"})
      BY <1>4 DEF Begins
    <3>4. r # Cons(<<"give", C16>>, <<>>)
      BY <3>3, BeginsCons, EmptyIsSeq
    <3>5. \A d, q : IsSeq(q) => r # FromFind(1, FromPm(FromInit1(d, q))) /\ r # FromTrack(q)
      <4> SUFFICES ASSUME NEW d, NEW q, IsSeq(q)
                   PROVE  r # FromFind(1, FromPm(FromInit1(d, q))) /\ r # FromTrack(q)
        OBVIOUS
      <4>1. PICK s : s = FromSegAlloc(1, FromPm(FromInit1(d, q)))
        OBVIOUS
      <4>2. IsSeq(s)
        BY <4>1, FromAreSeqs
      <4>3. Begins(Cons(<<"find", 1>>, s), {"give", "find", "track"})
        BY <4>2, BeginsCons
      <4>4. Begins(Cons(<<"track">>, q), {"give", "find", "track"})
        BY BeginsCons
      <4> QED BY <3>3, <4>1, <4>3, <4>4 DEF FromFind, FromTrack
    <3>6. \A d, q, h, w : Grows(d, q, h, w) => IsSeq(q)
      BY GrowsFacts
    <3>7. \A q, h, w : Inner(q, h, w) => IsSeq(q)
      BY InnerFacts
    <3>8. VM \in HeldBy(t)
      BY <3>1, <3>2, <3>4, <3>5, <3>6, <3>7, Numbers DEF AtAlloc
    <3> QED BY <3>8 DEF HeldBy
  <2>4. SegsKept
    BY <2>2 DEF SegsKept, SegOf, IsSeg
  <2>5. PagesFewer
    <3>1. ~ Find(t)
      BY <1>1 DEF Find, Does
    <3> QED BY <3>1, ActsPages
  <2>6. CASE IsLow(C16)
    <3>1. owner' = [owner EXCEPT ![C16] = t] /\ Then(t, Refill(C16) \o << <<"unlock", C16>> >>)
      BY <2>1, <2>6 DEF TakeObject
    <3>2. PICK x : x = <<"unlock", C16>>
      OBVIOUS
    <3>3. todo'[t] = (Refill(C16) \o <<x>>) \o r
      BY <1>3, <3>1, <3>2 DEF Then, LockInv, Kept
    <3>4. todo'[t] = FromRefill(C16, Cons(x, r))
      BY <1>4, <3>3, RefillForm
    <3>5. PlacedOk(t)'
      BY <1>4, <3>4, ConsFacts, RefillUnplaced, UnplacedOk
    <3>6. owner'[C16] = t /\ owner'[VM] = t
      BY <2>3, <3>1, LockNumbers DEF LockInv, Kept
    <3> QED BY <3>5, <3>6 DEF PagesPlaced, PagePlaced, Finding
  <2>7. CASE ~ IsLow(C16)
    <3>1. owner' = [owner EXCEPT ![C16] = NoThread] /\ Then(t, <<>>)
      BY <2>1, <2>7 DEF TakeObject
    <3>2. owner'[VM] = t
      BY <2>3, <3>1, LockNumbers DEF LockInv, Kept
    <3>3. todo'[t] = r
      BY <1>1, <1>3, <3>1, TailNext
    <3>4. PICK w, o : w = vals'[t] /\ w = Append(v, o)
      BY <1>3, <2>1, ValsTyped DEF TakeObject, Push
    <3>5. IsSeq(v) /\ n \in Nat
      BY <1>3, ValsTyped
    <3>6. Len(w) = n + 1 /\ (n >= 1 => w[Len(w) - 1] = v[n])
      BY <1>3, <3>4, <3>5, AppendFacts
    <3>7. v # <<>> /\ Unmapped(v[n]) /\ ForFb(todo[t], v)
      BY <1>3 DEF PlacedOk, PlacedFor, AllocsSeg
    <3>8. n >= 1
      <4>1. PICK S : v \in Seq(S)
        BY <3>5 DEF IsSeq
      <4> QED BY <1>3, <3>7, <4>1
    <3>9. Unmapped(w[Len(w) - 1])'
      <4>1. \A q : Unmapped(q) => Unmapped(q)'
        BY <2>2, UnmappedStays
      <4>2. PICK q : q = v[n]
        OBVIOUS
      <4>3. Unmapped(q)' /\ w[Len(w) - 1] = q
        BY <3>6, <3>7, <3>8, <4>1, <4>2
      <4> QED BY <4>3
    <3>10. Head(r)[2] = FbPages => Aligned(w[Len(w) - 1][1])
      BY <1>3, <1>4, <3>6, <3>7, <3>8 DEF ForFb, AllocsSeg
    <3>11. PlacedOk(t)'
      <4>1. /\ ~ Begins(r, {"unlock", "pm", "ram"}) /\ ~ Begins(r, {"alloc"}) /\ ~ ToSections(r)
        BY <1>4 DEF Begins, ToSections
      <4> QED BY <3>3, <3>4, <3>9, <3>10, <4>1 DEF PlacedOk, PlacedFor, ForFb, ToSections
    <3>12. \A i, p : Finding(t, i) /\ ValAt(t, i, <<p, -1>>)' => Finding(t, i)'
      <4> SUFFICES ASSUME NEW i, Finding(t, i) PROVE Finding(t, i)'
        OBVIOUS
      <4>1. i = n
        BY <1>2, <1>3, <1>6 DEF Finding, DoesNow, HeadOp
      <4>2. Head(r)[1] = "seg" /\ r # <<>>
        BY <1>4 DEF Begins
      <4>3. n = Len(w) - 1
        BY <3>5, <3>6
      <4> QED BY <3>2, <3>3, <3>4, <4>1, <4>2, <4>3 DEF Finding, DoesNow, HeadOp
    <3>13. ~ ToSections(todo[t])
      BY <1>2 DEF ToSections, Begins
    <3>14. \A q, m : SegOf(q, m) => SegOf(q, m)'
      BY <2>4 DEF SegsKept
    <3>15. PagesPlaced(t)'
      BY <2>5, <3>12, <3>13, <3>14, PagesStayPlaced
    <3> QED BY <3>11, <3>15
  <2> QED BY <2>6, <2>7
<1>10. ~ Empty(C16) => (\E why : Fail(why)) \/ TakeObject(t, C16)
  BY <1>1, <1>5, TakeCases DEF Alloc
<1> QED BY <1>7, <1>8, <1>9, <1>10

LEMMA SegPlaced ==
    ASSUME LockInv, RangeInv, HeapInv, NEW t \in Thread, Act(t), AddSeg(t), PlacedOk(t), PagesPlaced(t)
    PROVE  PlacedOk(t)' /\ PagesPlaced(t)'
<1>1. PICK m, v, n : m = Arg(t) /\ v = vals[t] /\ n = Len(v)
  OBVIOUS
<1>2. /\ Does(t, "seg") /\ Pop(t, 1) /\ Then(t, <<>>) /\ UNCHANGED tables
      /\ vm_areas' = << <<Top(t), Below(t)[1], m>> >> \o vm_areas
  BY <1>1 DEF AddSeg
<1>3. /\ At(Head(todo[t]), Tail(todo[t]), HeldBy(t), v) /\ Head(todo[t])[1] = "seg" /\ Head(todo[t])[2] = m
      /\ C16 \notin HeldBy(t) /\ IsSeq(v) /\ Finds(Head(todo[t]), v) /\ todo[t] # <<>>
  BY <1>1, <1>2, Doing, StepFacts
<1>4. AtSeg(m, Tail(todo[t]), HeldBy(t), v)
  BY <1>3 DEF At
<1>5. PICK q, g, w0 : Ranges(m, q, g, w0) /\ Tail(todo[t]) = FromUnlock(q)
  BY <1>4 DEF AtSeg
<1>6. PICK p : p = v[n - 1][1]
  OBVIOUS
<1>7. n \in Nat /\ n >= 2 /\ v[n - 1] = <<p, -1>> /\ p \in VA
  <2>1. n \in Nat /\ n >= 2 /\ IsPage(v[n - 1])
    BY <1>1, <1>3 DEF Finds
  <2> QED BY <1>6, <2>1, Tuples DEF IsPage
<1>8. SegOf(p, m)' /\ \A x, k : SegOf(x, k) => SegOf(x, k)'
  <2>1. PICK s : s = Top(t)
    OBVIOUS
  <2>2. vm_areas' = << <<s, p, m>> >> \o vm_areas
    BY <1>1, <1>2, <1>6, <2>1 DEF Below
  <2> QED BY <2>2, SegAdded
<1>9. PICK r, w : r = todo'[t] /\ w = vals'[t]
  OBVIOUS
<1>10. r # <<>> /\ Head(r) = <<"unlock", VM>> /\ Tail(r) = q
  <2>1. r = FromUnlock(q)
    BY <1>2, <1>5, <1>9, TailNext
  <2> QED BY <1>5, <2>1, RangesFacts, ConsFacts DEF FromUnlock
<1>11. Len(w) = n - 1 /\ w[n - 1] = v[n - 1]
  <2>1. w = SubSeq(v, 1, n - 1)
    BY <1>1, <1>2, <1>9, ValsTyped DEF Pop
  <2>2. PICK S : v \in Seq(S)
    BY <1>3 DEF IsSeq
  <2> QED BY <1>1, <1>7, <2>1, <2>2
<1>12. \/ m = FbPages /\ m # 1 /\ Begins(q, {"sections"})
       \/ m = 1 /\ ~ Begins(q, {"sections"})
  <2>1. CASE m = FbPages /\ q = Cons(<<"sections">>, <<>>)
    <3>1. Begins(Cons(<<"sections">>, <<>>), {"sections"})
      BY BeginsCons, EmptyIsSeq
    <3> QED BY <2>1, <3>1, FbFacts
  <2>2. CASE m = 1 /\ \E x : Inner(x, g, w0) /\ q = FromPm(x)
    <3>1. PICK x : Inner(x, g, w0) /\ q = FromPm(x)
      BY <2>2
    <3>2. IsSeq(FromRam(x))
      BY <3>1, InnerFacts, FromAreSeqs
    <3>3. Head(q) = <<"pm">>
      BY <3>1, <3>2, ConsFacts DEF FromPm
    <3> QED BY <2>2, <3>3 DEF Begins
  <2> QED BY <1>5, <2>1, <2>2 DEF Ranges
<1>13. PlacedOk(t)'
  <2>1. Unmapped(v[n - 1]) /\ (m = FbPages => Aligned(v[n - 1][1]))
    <3>1. Begins(todo[t], {"seg"}) /\ Begins(todo[t], {"seg", "map"}) /\ Head(todo[t])[2] = m
      BY <1>3 DEF Begins
    <3> QED BY <1>1, <3>1 DEF PlacedOk, PlacedFor, ForFb
  <2>2. Unmapped(w[Len(w)])'
    <3>1. PICK o : o = v[n - 1]
      OBVIOUS
    <3>2. Unmapped(o)'
      BY <1>2, <2>1, <3>1, UnmappedStays
    <3>3. w[Len(w)] = o
      BY <1>11, <3>1
    <3> QED BY <3>2, <3>3
  <2>3. Begins(q, {"sections"}) => Aligned(w[Len(w)][1]) /\ SegOf(w[Len(w)][1], FbPages)'
    BY <1>6, <1>8, <1>11, <1>12, <2>1
  <2>4. /\ ~ Begins(r, {"seg", "map"}) /\ ~ Begins(r, {"seg"}) /\ ~ Begins(r, {"alloc"})
        /\ ToSections(r) => Begins(q, {"sections"})
    BY <1>10 DEF Begins, ToSections
  <2> QED BY <1>9, <2>2, <2>3, <2>4 DEF PlacedOk, PlacedFor, ForFb
<1>14. PagesPlaced(t)'
  <2> SUFFICES ASSUME NEW i, NEW x \in VA, ValAt(t, i, <<x, -1>>)' PROVE PagePlaced(t, i, x)'
    BY DEF PagesPlaced
  <2>1. ValAt(t, i, <<x, -1>>)
    <3>1. ~ Find(t)
      BY <1>2 DEF Find, Does
    <3> QED BY <3>1, ActsPages DEF PagesFewer
  <2>2. CASE SegOf(x, 1)
    BY <1>8, <2>2 DEF PagePlaced
  <2>3. CASE Finding(t, i)
    <3>1. i = n - 1
      BY <1>1, <1>3, <2>3, LockNumbers DEF Finding, DoesNow, HeadOp, HeldBy
    <3>2. x = p
      BY <1>1, <1>7, <2>1, <3>1, Tuples DEF ValAt
    <3>3. CASE m = 1
      BY <1>8, <3>2, <3>3 DEF PagePlaced
    <3>4. CASE Begins(q, {"sections"})
      <4>1. ToSections(r)
        BY <1>10, <3>4 DEF ToSections, Begins
      <4> QED BY <1>9, <4>1 DEF PagePlaced, ToSections
    <3> QED BY <1>12, <3>3, <3>4
  <2>4. ~ ToSections(todo[t])
    BY <1>3 DEF ToSections, Begins
  <2> QED BY <2>1, <2>2, <2>3, <2>4 DEF PagesPlaced, PagePlaced
<1> QED BY <1>13, <1>14

\* The range is given to its caller.
LEMMA UnlockPlaced ==
    ASSUME LockInv, RangeInv, HeapInv, NEW t \in Thread, Act(t), Unlock(t), PlacedOk(t), PagesPlaced(t)
    PROVE  PlacedOk(t)' /\ PagesPlaced(t)'
<1>1. Does(t, "unlock") /\ Then(t, <<>>) /\ UNCHANGED <<tables, vals, vm_areas>>
  BY DEF Unlock
<1>2. /\ After(Head(todo[t]), Tail(todo[t])) /\ Head(todo[t])[1] = "unlock" /\ todo[t] # <<>>
      /\ C16 \notin HeldBy(t) /\ HeadOp(t) = "unlock"
  BY <1>1, Doing, StepFacts
<1>3. PICK r, v : r = Tail(todo[t]) /\ v = vals[t]
  OBVIOUS
<1>4. todo'[t] = r /\ Begins(r, {"pm", "sections"}) /\ vals'[t] = v
  BY <1>1, <1>2, <1>3, TailNext DEF After
<1>5. (\A o : Unmapped(o) => Unmapped(o)') /\ \A x, k : SegOf(x, k) => SegOf(x, k)'
  BY <1>1, UnmappedStays DEF SegOf, IsSeg
<1>6. ToSections(todo[t]) => ToSections(r)
  BY <1>2, <1>3 DEF ToSections, Begins
<1>7. PlacedOk(t)'
  <2>1. Unmapped(v[Len(v)])
    <3>1. Begins(todo[t], {"unlock", "pm", "ram"})
      BY <1>2 DEF Begins
    <3> QED BY <1>3, <3>1 DEF PlacedOk, PlacedFor
  <2>2. Unmapped(v[Len(v)])'
    <3>1. PICK o : o = v[Len(v)]
      OBVIOUS
    <3> QED BY <1>5, <2>1, <3>1
  <2>3. ToSections(r) => Begins(r, {"sections"})
    BY <1>4 DEF ToSections, Begins
  <2>4. Begins(r, {"sections"}) => ToSections(todo[t])
    BY <1>2, <1>3 DEF ToSections, Begins
  <2>5. ToSections(r) => Aligned(v[Len(v)][1]) /\ SegOf(v[Len(v)][1], FbPages)
    BY <1>3, <2>3, <2>4 DEF PlacedOk, PlacedFor
  <2>6. ToSections(r) => Aligned(v[Len(v)][1]) /\ SegOf(v[Len(v)][1], FbPages)'
    <3>1. PICK y : y = v[Len(v)][1]
      OBVIOUS
    <3> QED BY <1>5, <2>5, <3>1
  <2>7. ~ Begins(r, {"seg", "map"}) /\ ~ Begins(r, {"seg"}) /\ ~ Begins(r, {"alloc"})
    BY <1>4 DEF Begins
  <2> QED BY <1>4, <2>2, <2>6, <2>7 DEF PlacedOk, PlacedFor, ForFb
<1>8. PagesFewer
  BY <1>1 DEF PagesFewer, ValAt
<1>9. ~ \E i : Finding(t, i)
  BY <1>2, LockNumbers DEF Finding, DoesNow, HeldBy
<1>10. ToSections(todo[t]) => ToSections(todo[t])'
  BY <1>4, <1>6 DEF ToSections
<1>11. PagesPlaced(t)'
  BY <1>5, <1>8, <1>9, <1>10, PagesStayPlaced
<1> QED BY <1>7, <1>11

\* A frame for the page.
LEMMA RamPlaced ==
    ASSUME LockInv, RangeInv, HeapInv, NEW t \in Thread, Act(t), LockRam(t) \/ TakeFrame(t), PlacedOk(t), PagesPlaced(t)
    PROVE  PlacedOk(t)' /\ PagesPlaced(t)'
<1>1. CASE \E why : Fail(why)
  BY <1>1, SamePlaced
<1>2. CASE ~ \E why : Fail(why)
  <2>1. PICK op \in {"pm", "ram"} : Does(t, op) /\ (op = "pm" <=> LockRam(t)) /\ (op = "ram" <=> TakeFrame(t))
    BY DEF LockRam, TakeFrame, Does
  <2>2. Then(t, <<>>) /\ UNCHANGED <<tables, vm_areas>>
    BY <1>2, <2>1 DEF LockRam, TakeFrame
  <2>3. PICK r, v, n, w : r = Tail(todo[t]) /\ v = vals[t] /\ n = Len(v) /\ w = vals'[t]
    OBVIOUS
  <2>4. /\ After(Head(todo[t]), Tail(todo[t])) /\ Finds(Head(todo[t]), v) /\ Head(todo[t])[1] = op
        /\ todo[t] # <<>> /\ owner[VM] # t
    BY <2>1, <2>3, StepFacts, Doing, OpsOutside
  <2>5. todo'[t] = r /\ Begins(r, IF op = "pm" THEN {"ram"} ELSE {"map"})
    BY <2>1, <2>2, <2>3, <2>4, TailNext DEF After
  <2>6. n \in Nat /\ n >= 1 /\ IsSeq(v)
    BY <2>3, <2>4, ValsTyped DEF Finds
  <2>7. Unmapped(v[n])
    <3>1. Begins(todo[t], {"unlock", "pm", "ram"})
      BY <2>4 DEF Begins
    <3> QED BY <2>3, <3>1 DEF PlacedOk, PlacedFor
  <2>8. PICK o : o = v[n]
    OBVIOUS
  <2>9. Unmapped(o)'
    BY <2>2, <2>7, <2>8, UnmappedStays
  <2>10. PagesPlaced(t)'
    <3>1. PagesFewer
      <4>1. ~ Find(t)
        BY <2>1 DEF Find, Does
      <4> QED BY <4>1, ActsPages
    <3>2. \A x, k : SegOf(x, k) => SegOf(x, k)'
      BY <2>2 DEF SegOf, IsSeg
    <3>3. (\A i : ~ Finding(t, i)) /\ ~ ToSections(todo[t])
      BY <2>4 DEF Finding, ToSections, Begins
    <3> QED BY <3>1, <3>2, <3>3, PagesStayPlaced
  <2>11. CASE op = "pm"
    <3>1. w = v
      BY <2>1, <2>3, <2>11 DEF LockRam
    <3>2. Unmapped(w[Len(w)])'
      BY <2>3, <2>8, <2>9, <3>1
    <3>3. ~ Begins(r, {"seg", "map"}) /\ ~ Begins(r, {"seg"}) /\ ~ Begins(r, {"alloc"}) /\ ~ ToSections(r)
      BY <2>5, <2>11 DEF Begins, ToSections
    <3> QED BY <2>3, <2>5, <2>10, <3>2, <3>3 DEF PlacedOk, PlacedFor, ForFb
  <2>12. CASE op = "ram"
    <3>1. PICK f : w = Append(v, f)
      BY <1>2, <2>1, <2>3, <2>12, ValsTyped DEF TakeFrame, Push
    <3>2. Len(w) - 1 = n /\ w[n] = o
      BY <2>3, <2>6, <2>8, <3>1, AppendFacts
    <3>3. Unmapped(w[Len(w) - 1])'
      BY <2>9, <3>2
    <3>4. /\ ~ Begins(r, {"unlock", "pm", "ram"}) /\ ~ Begins(r, {"seg"}) /\ ~ Begins(r, {"alloc"})
          /\ ~ ToSections(r)
      BY <2>5, <2>12 DEF Begins, ToSections
    <3> QED BY <2>3, <2>5, <2>10, <3>3, <3>4 DEF PlacedOk, PlacedFor, ForFb
  <2> QED BY <2>11, <2>12
<1> QED BY <1>1, <1>2

LEMMA ActsPlaced ==
    ASSUME LockInv, RangeInv, HeapInv, NEW t \in Thread, Act(t), PlacedOk(t), PagesPlaced(t)
    PROVE  PlacedOk(t)' /\ PagesPlaced(t)'
<1>1. CASE AllocsSeg(todo[t])
  BY <1>1, AllocPlaced
<1>2. CASE Begins(todo[t], {"find", "seg", "unlock", "pm", "ram"})
  <2>1. todo[t] # <<>> /\ HeadOp(t) \in {"find", "seg", "unlock", "pm", "ram"}
    BY <1>2 DEF Begins, HeadOp
  <2>2. Find(t) \/ AddSeg(t) \/ Unlock(t) \/ LockRam(t) \/ TakeFrame(t)
    BY <2>1, ActsBy
  <2> QED BY <2>2, FindPlaced, SegPlaced, UnlockPlaced, RamPlaced
<1>3. CASE ~ Placing(t)
  BY <1>3, LeavingPlaced
<1> QED BY <1>1, <1>2, <1>3 DEF Placing

\* What the steps of a thread that is about to map a page find.
LEMMA PlacedAt ==
    ASSUME LockInv, NEW u \in Thread, Begins(todo[u], {"unlock", "pm", "ram", "seg", "map", "sections"})
    PROVE  /\ Begins(todo[u], {"unlock", "pm", "ram", "sections"}) => Len(vals[u]) >= 1
           /\ Begins(todo[u], {"seg", "map"}) => Len(vals[u]) >= 2
<1>1. Shape(todo[u], HeldBy(u), vals[u]) /\ todo[u] # <<>>
  BY DEF LockInv, Kept, Begins
<1>2. PICK x, r : IsSeq(r) /\ todo[u] = Cons(x, r) /\ At(x, r, HeldBy(u), vals[u]) /\ IsSeq(vals[u])
  BY <1>1 DEF Shape
<1>3. Finds(x, vals[u]) /\ Head(todo[u]) = x
  BY <1>2, StepFinds, ConsFacts
<1>4. Len(vals[u]) \in Nat /\ IsSeq(vals[u])
  BY ValsTyped
<1> QED BY <1>3, <1>4 DEF Finds, Begins

\* Another thread does not map the page that u is about to map.
LEMMA OthersUnmapped ==
    ASSUME LockInv, HeapInv, NEW t \in Thread, Act(t), NEW u \in Thread \ {t}, NEW i \in DOMAIN vals[u],
           Unmapped(vals[u][i])
    PROVE  Unmapped(vals[u][i])'
<1>1. PICK p \in VA : vals[u][i] = <<p, -1>> /\ Fr(p) = 0
  BY DEF Unmapped
<1>2. vals'[u] = vals[u]
  BY ActsAlone DEF SameOthers
<1>3. Fr(p)' = 0
  <2> SUFFICES ASSUME Fr(p)' # 0 PROVE FALSE
    OBVIOUS
  <2>1. Fills(t)
    BY ActsKeepMaps
  <2>2. PICK j : ValAt(t, j, <<p, -1>>)
    BY <1>1, <2>1 DEF Fills
  <2>3. ValAt(u, i, <<p, -1>>)
    BY <1>1 DEF ValAt
  <2>4. Has("val", t, j, <<p, -1>>) /\ Has("val", u, i, <<p, -1>>)
    BY <2>2, <2>3 DEF Has
  <2>5. t = u
    BY <2>4 DEF HeapInv, TokensOk, Own
  <2> QED BY <2>5
<1>4. Unmapped(<<p, -1>>)'
  BY <1>3 DEF Unmapped
<1>5. vals'[u][i] = <<p, -1>>
  BY <1>1, <1>2
<1> QED BY <1>4, <1>5

LEMMA OthersPlaced ==
    ASSUME LockInv, RangeInv, HeapInv, NEW t \in Thread, Act(t), NEW u \in Thread \ {t}, PlacedOk(u), PagesPlaced(u)
    PROVE  PlacedOk(u)' /\ PagesPlaced(u)'
<1>1. todo'[u] = todo[u] /\ vals'[u] = vals[u]
  BY ActsAlone DEF SameOthers
<1>2. \A x, k : SegOf(x, k) => SegOf(x, k)'
  BY SegsStay
<1>3. PICK r, v, n : r = todo[u] /\ v = vals[u] /\ n = Len(v)
  OBVIOUS
<1>4. n \in Nat /\ IsSeq(v) /\ DOMAIN v = 1 .. n
  BY <1>3, ValsTyped
<1>5. ASSUME NEW i \in 1 .. n, Unmapped(v[i]) PROVE Unmapped(v[i])'
  <2>1. Unmapped(vals[u][i])'
    BY <1>3, <1>4, <1>5, OthersUnmapped
  <2>2. PICK o : o = v[i] /\ o = vals'[u][i]
    BY <1>1, <1>3
  <2> QED BY <2>1, <2>2
<1>6. PlacedFor(r, v)
  BY <1>3 DEF PlacedOk
<1>7. Begins(r, {"unlock", "pm", "ram"}) => Unmapped(v[n])'
  <2> SUFFICES ASSUME Begins(r, {"unlock", "pm", "ram"}) PROVE Unmapped(v[n])'
    OBVIOUS
  <2>1. Begins(r, RangeOps) /\ Begins(r, {"unlock", "pm", "ram", "sections"})
    BY DEF Begins, RangeOps
  <2>2. n >= 1
    BY <1>3, <2>1, PlacedAt DEF RangeOps
  <2> QED BY <1>3, <1>4, <1>5, <1>6, <2>2 DEF PlacedFor
<1>8. Begins(r, {"seg", "map"}) => Unmapped(v[n - 1])'
  <2> SUFFICES ASSUME Begins(r, {"seg", "map"}) PROVE Unmapped(v[n - 1])'
    OBVIOUS
  <2>1. Begins(r, RangeOps)
    BY DEF Begins, RangeOps
  <2>2. n >= 2
    BY <1>3, <2>1, PlacedAt DEF RangeOps
  <2>3. n - 1 \in 1 .. n /\ Unmapped(v[n - 1])
    BY <1>3, <1>4, <1>6, <2>2 DEF PlacedFor
  <2> QED BY <1>5, <2>3
<1>9. Begins(r, {"alloc"}) /\ Begins(Tail(r), {"seg"}) => v # <<>> /\ Unmapped(v[n])'
  <2> SUFFICES ASSUME Begins(r, {"alloc"}) /\ Begins(Tail(r), {"seg"}) PROVE v # <<>> /\ Unmapped(v[n])'
    OBVIOUS
  <2>1. v # <<>> /\ Unmapped(v[n])
    BY <1>3, <1>6 DEF PlacedFor
  <2>2. n >= 1
    <3>1. PICK S : v \in Seq(S)
      BY <1>4 DEF IsSeq
    <3> QED BY <1>3, <2>1, <3>1
  <2> QED BY <1>4, <1>5, <2>1, <2>2
<1>10. ToSections(r) => Aligned(v[n][1]) /\ SegOf(v[n][1], FbPages)'
  <2>1. PICK y : y = v[n][1]
    OBVIOUS
  <2>2. ToSections(r) => Aligned(y) /\ SegOf(y, FbPages)
    BY <1>3, <1>6, <2>1 DEF PlacedFor
  <2> QED BY <1>2, <2>1, <2>2
<1>11. PlacedFor(r, v)'
  BY <1>3, <1>6, <1>7, <1>8, <1>9, <1>10 DEF PlacedFor
<1>12. PlacedOk(u)'
  <2>1. r = todo'[u] /\ v = vals'[u]
    BY <1>1, <1>3
  <2> QED BY <1>11, <2>1 DEF PlacedOk
<1>13. PagesPlaced(u)'
  <2> SUFFICES ASSUME NEW i, NEW p \in VA, ValAt(u, i, <<p, -1>>)' PROVE PagePlaced(u, i, p)'
    BY DEF PagesPlaced
  <2>1. ValAt(u, i, <<p, -1>>)
    BY <1>1 DEF ValAt
  <2>2. PagePlaced(u, i, p)
    BY <2>1 DEF PagesPlaced
  <2>3. Finding(u, i) => Finding(u, i)'
    <3>1. OwnersStay(t)
      BY ActsOwners
    <3> QED BY <1>1, <3>1 DEF Finding, OwnersStay, DoesNow, HeadOp
  <2>4. ToSections(todo[u]) => ToSections(todo[u])'
    BY <1>1 DEF ToSections
  <2>5. SegOf(p, 1) => SegOf(p, 1)'
    BY <1>2
  <2> QED BY <2>2, <2>3, <2>4, <2>5 DEF PagePlaced
<1> QED BY <1>12, <1>13

-----------------------------------------------------------------------------
(* The first level of the page tables.                                     *)

\* A page of a segment of fb_init() is not found again.
LEMMA SegNotPaged ==
    ASSUME LockInv, RangeInv, HeapInv, NEW t \in Thread, Act(t), NEW q \in VA, SegOf(q, FbPages), ~ PageVal(q)
    PROVE  ~ PageVal(q)'
<1>1. CASE ~ Find(t)
  BY <1>1, ActsPages DEF PagesFewer, PageVal
<1>2. CASE Find(t)
  <2>1. PICK m, p : m = Arg(t) /\ p = Max(FreeRanges(m))
    OBVIOUS
  <2>2. Does(t, "find") /\ owner[VM] = NoThread
    BY <1>2 DEF Find
  <2>3. CASE FreeRanges(m) = {}
    BY <1>2, <2>1, <2>3 DEF Find, Fail, PageVal, ValAt
  <2>4. CASE FreeRanges(m) # {}
    <3>1. ~ Known(p)
      BY <2>1, <2>2, <2>4, FoundUnused
    <3>2. Known(q)
      <4>1. PICK a : IsSeg(a) /\ a[2] = q /\ a[3] = FbPages
        BY DEF SegOf
      <4>2. q \in Int /\ FbPages \in Nat \ {0}
        BY SlubConstants, Numbers DEF VA
      <4>3. q <= q /\ q < q + FbPages
        BY <4>2
      <4> QED BY <4>1, <4>3 DEF IsSeg, Known
    <3>3. Push(t, <<p, -1>>)
      BY <1>2, <2>1, <2>4 DEF Find
    <3>4. \A u, i, x : ValAt(u, i, x)' <=> ValAt(u, i, x) \/ (u = t /\ i = Len(vals[t]) + 1 /\ x = <<p, -1>>)
      BY <3>3, Pushed DEF Push
    <3>5. <<q, -1>> # <<p, -1>>
      BY <3>1, <3>2, Tuples
    <3> QED BY <3>4, <3>5 DEF PageVal
  <2> QED BY <2>3, <2>4
<1> QED BY <1>1, <1>2

\* The page that mmu_map_pages() maps has its segment.
LEMMA MapsPlaced ==
    ASSUME LockInv, NEW t \in Thread, NEW op \in {"map", "install"}, Does(t, op), PagesPlaced(t),
           NEW i, NEW va \in VA, ValAt(t, i, <<va, -1>>)
    PROVE  SegOf(va, 1)
<1>1. owner[VM] # t
  BY OpsOutside
<1>2. ~ ToSections(todo[t])
  BY DEF ToSections, Begins, Does
<1> QED BY <1>1, <1>2 DEF PagesPlaced, PagePlaced, Finding

\* The range that mmu_map_sections() maps.
LEMMA SectionsFind ==
    ASSUME LockInv, HeapInv, NEW t \in Thread, Does(t, "sections"), PlacedOk(t)
    PROVE  \E p \in VA : /\ p = Top(t)[1] /\ Len(vals[t]) = 1 /\ ValAt(t, 1, <<p, -1>>)
                         /\ Aligned(p) /\ SegOf(p, FbPages)
<1>1. Finds(Head(todo[t]), vals[t]) /\ Head(todo[t])[1] = "sections" /\ todo[t] # <<>>
  BY StepFacts, Doing
<1>2. Len(vals[t]) = 1 /\ IsPage(vals[t][1])
  BY <1>1 DEF Finds
<1>3. PICK p \in VA : vals[t][1] = <<p, -1>>
  BY <1>2 DEF IsPage
<1>4. Top(t)[1] = p
  BY <1>2, <1>3 DEF Top, Last
<1>5. ValAt(t, 1, <<p, -1>>)
  BY <1>2, <1>3, ValsTyped DEF ValAt
<1>6. ToSections(todo[t])
  BY <1>1 DEF ToSections, Begins
<1>7. Aligned(p) /\ SegOf(p, FbPages)
  <2>1. Aligned(vals[t][1][1]) /\ SegOf(vals[t][1][1], FbPages)
    BY <1>2, <1>6 DEF PlacedOk, PlacedFor
  <2>2. vals[t][1][1] = p
    BY <1>3
  <2> QED BY <2>1, <2>2
<1> QED BY <1>2, <1>4, <1>5, <1>7

LEMMA SameTablesPlaced ==
    ASSUME LockInv, RangeInv, HeapInv, NEW t \in Thread, Act(t), PdesPlaced,
           NEW x \in Pdes, pd'[x] = pd[x]
    PROVE  /\ IsPt(pd'[x]) => TablePlaced(x)'
           /\ pd'[x] = Section => SectionPlaced(x)'
<1>1. \A q, k : SegOf(q, k) => SegOf(q, k)'
  BY SegsStay
<1>2. IsPt(pd[x]) => TablePlaced(x)'
  BY <1>1 DEF PdesPlaced, TablePlaced
<1>3. pd[x] = Section => SectionPlaced(x)'
  <2> SUFFICES ASSUME pd[x] = Section PROVE SectionPlaced(x)'
    OBVIOUS
  <2>1. SectionPlaced(x)
    BY DEF PdesPlaced
  <2>2. PICK q \in VA : /\ SegOf(q, FbPages) /\ ~ PageVal(q)
                        /\ q <= x * NPte /\ x * NPte + NPte <= q + FbPages
    BY <2>1 DEF SectionPlaced
  <2>3. SegOf(q, FbPages)' /\ ~ PageVal(q)'
    BY <1>1, <2>2, SegNotPaged
  <2> QED BY <2>2, <2>3 DEF SectionPlaced
<1> QED BY <1>2, <1>3

LEMMA ActsPdes ==
    ASSUME LockInv, RangeInv, HeapInv, NEW t \in Thread, Act(t), PdesPlaced, PlacedOk(t), PagesPlaced(t)
    PROVE  PdesPlaced'
<1>1. \A q, k : SegOf(q, k) => SegOf(q, k)'
  BY SegsStay
<1>2. CASE UNCHANGED pd
  <2>1. \A x \in Pdes : pd'[x] = pd[x]
    BY <1>2
  <2> QED BY <2>1, SameTablesPlaced DEF PdesPlaced
<1>3. CASE Install(t) /\ ~ UNCHANGED pd
  <2>1. VaToPa(Top(t)[1]) = "no" /\ Does(t, "install")
    BY <1>3 DEF Install, Fail, tables
  <2>2. PICK va \in VA : /\ ValAt(t, Len(vals[t]) - 2, <<va, -1>>) /\ IsPt(pd'[Pde(va)])
                         /\ \A x \in Pdes : x # Pde(va) => pd'[x] = pd[x]
    BY <1>3, <2>1, InstallFills
  <2>3. SegOf(va, 1)'
    BY <1>1, <2>1, <2>2, MapsPlaced
  <2>4. ASSUME NEW x \in Pdes PROVE /\ IsPt(pd'[x]) => TablePlaced(x)'
                                    /\ pd'[x] = Section => SectionPlaced(x)'
    <3>1. CASE x = Pde(va)
      <4>1. TablePlaced(x)'
        BY <2>3, <3>1 DEF TablePlaced
      <4> QED BY <2>2, <3>1, <4>1 DEF IsPt
    <3>2. CASE x # Pde(va)
      BY <2>2, <3>2, SameTablesPlaced
    <3> QED BY <3>1, <3>2
  <2> QED BY <2>4 DEF PdesPlaced
<1>4. CASE MapSections(t) /\ ~ UNCHANGED pd
  <2>1. Does(t, "sections") /\ Pop(t, 1)
    BY <1>4 DEF MapSections, Fail, tables
  <2>2. PICK p \in VA : /\ p = Top(t)[1] /\ Len(vals[t]) = 1 /\ ValAt(t, 1, <<p, -1>>)
                        /\ Aligned(p) /\ SegOf(p, FbPages)
    BY <2>1, SectionsFind
  <2>3. PICK D : D = Pde(p) .. Pde(p) + FbSections - 1
    OBVIOUS
  <2>4. pd' = [d \in DOMAIN pd |-> IF d \in D THEN Section ELSE pd[d]]
    BY <1>4, <2>2, <2>3 DEF MapSections, Fail, tables
  <2>5. \A d \in Pdes : pd'[d] = IF d \in D THEN Section ELSE pd[d]
    BY <2>4 DEF HeapInv, TablesOk
  <2>6. ~ PageVal(p)'
    <3> SUFFICES ASSUME NEW u, NEW j, ValAt(u, j, <<p, -1>>)' PROVE FALSE
      BY DEF PageVal
    <3>1. ValAt(u, j, <<p, -1>>) /\ ~ (u = t /\ j > Len(vals[t]) - 1)
      <4>1. 1 \in Nat /\ 1 <= Len(vals[t]) /\ Pop(t, 1)
        BY <2>1, <2>2
      <4>2. \A u1, i, q : ValAt(u1, i, q)' <=> ValAt(u1, i, q) /\ ~ (u1 = t /\ i > Len(vals[t]) - 1)
        BY <4>1, Popped
      <4> QED BY <4>2
    <3>2. Has("val", u, j, <<p, -1>>) /\ Has("val", t, 1, <<p, -1>>)
      BY <2>2, <3>1 DEF Has
    <3>3. u = t /\ j = 1
      BY <3>2 DEF HeapInv, TokensOk, Own
    <3> QED BY <2>2, <3>1, <3>3
  <2>7. ASSUME NEW x \in Pdes PROVE /\ IsPt(pd'[x]) => TablePlaced(x)'
                                    /\ pd'[x] = Section => SectionPlaced(x)'
    <3>1. CASE x \in D
      <4>1. pd'[x] = Section
        BY <2>5, <3>1
      <4>2. p <= x * NPte /\ x * NPte + NPte <= p + FbPages
        BY <2>2, <2>3, <3>1, FbTables
      <4>3. SectionPlaced(x)'
        BY <1>1, <2>2, <2>6, <4>2 DEF SectionPlaced
      <4> QED BY <4>1, <4>3 DEF IsPt
    <3>2. CASE x \notin D
      BY <2>5, <3>2, SameTablesPlaced
    <3> QED BY <3>1, <3>2
  <2> QED BY <2>7 DEF PdesPlaced
<1>5. Map(t) => UNCHANGED pd
  BY DEF Map, Fail, tables
<1>6. ~ TableStep(t) => UNCHANGED pd
  BY TablesAlone DEF tables
<1> QED BY <1>2, <1>3, <1>4, <1>5, <1>6 DEF TableStep

\* mmu_map_pages() does not find its page in a section, or mapped.
LEMMA MapFinds ==
    ASSUME LockInv, RangeInv, HeapInv, NEW t \in Thread, Map(t), PdesPlaced, PlacedOk(t), PagesPlaced(t)
    PROVE  LET va == Below(t)[1] IN
           /\ pd[Pde(va)] # Section
           /\ IsPt(pd[Pde(va)]) /\ Walk(pd[Pde(va)]) = "no" => ptes[pd[Pde(va)]][Pte(va)] = 0
<1>1. PICK va, n : va = Below(t)[1] /\ n = Len(vals[t])
  OBVIOUS
<1>2. Does(t, "map")
  BY DEF Map
<1>3. Finds(Head(todo[t]), vals[t]) /\ Head(todo[t])[1] = "map" /\ todo[t] # <<>>
  BY <1>2, StepFacts, Doing
<1>4. n \in Nat /\ n >= 2 /\ IsPage(vals[t][n - 1])
  BY <1>1, <1>3 DEF Finds, Mapping
<1>5. va \in VA /\ vals[t][n - 1] = <<va, -1>>
  <2>1. PICK p \in VA : vals[t][n - 1] = <<p, -1>>
    BY <1>4 DEF IsPage
  <2>2. va = p
    BY <1>1, <2>1 DEF Below
  <2> QED BY <2>1, <2>2
<1>6. ValAt(t, n - 1, <<va, -1>>)
  BY <1>1, <1>4, <1>5, ValsTyped DEF ValAt
<1>7. SegOf(va, 1)
  BY <1>2, <1>5, <1>6, MapsPlaced
<1>8. Pde(va) \in Pdes
  BY <1>5, PdeOf
<1>9. pd[Pde(va)] # Section
  <2> SUFFICES ASSUME pd[Pde(va)] = Section PROVE FALSE
    OBVIOUS
  <2>1. SectionPlaced(Pde(va))
    BY <1>8 DEF PdesPlaced
  <2>2. PICK y : y = Pde(va) * NPte
    OBVIOUS
  <2>3. PICK q \in VA : SegOf(q, FbPages) /\ q <= y /\ y + NPte <= q + FbPages
    BY <2>1, <2>2 DEF SectionPlaced
  <2>4. y \in Int /\ y <= va /\ va < y + NPte /\ va \in Int /\ q \in Int
    BY <1>5, <2>2, InTable, Numbers DEF VA
  <2>5. q <= va /\ va < q + FbPages /\ va <= va /\ va < va + 1
    BY <2>3, <2>4, FbFacts
  <2>6. FbPages = 1
    BY <1>7, <2>3, <2>4, <2>5, SegsMeet
  <2> QED BY <2>6, FbFacts
<1>10. ASSUME IsPt(pd[Pde(va)]), Walk(pd[Pde(va)]) = "no" PROVE ptes[pd[Pde(va)]][Pte(va)] = 0
  <2>1. Usable(pd[Pde(va)])
    BY <1>8, <1>10, WalkFinds DEF HeapInv
  <2>2. Unmapped(vals[t][n - 1])
    <3>1. Begins(todo[t], {"seg", "map"})
      BY <1>3 DEF Begins
    <3> QED BY <1>1, <3>1 DEF PlacedOk, PlacedFor
  <2>3. Fr(va) = 0
    BY <1>5, <2>2, Tuples DEF Unmapped
  <2> QED BY <2>1, <2>3 DEF Fr
<1> QED BY <1>1, <1>9, <1>10

\* mmu_map_sections() finds its entries empty.
LEMMA SectionsEmpty ==
    ASSUME LockInv, RangeInv, HeapInv, NEW t \in Thread, Does(t, "sections"), PdesPlaced, PlacedOk(t),
           SegOf(BootPage(0), NSizes),
           NEW x \in Pde(Top(t)[1]) .. Pde(Top(t)[1]) + FbSections - 1
    PROVE  pd[x] = NoPt
<1>1. PICK p \in VA : /\ p = Top(t)[1] /\ ValAt(t, 1, <<p, -1>>) /\ Aligned(p) /\ SegOf(p, FbPages)
  BY SectionsFind
<1>2. PICK y : y = x * NPte
  OBVIOUS
<1>3. x \in Pdes /\ y \in Int /\ p <= y /\ y + NPte <= p + FbPages
  BY <1>1, <1>2, FbTables
<1>4. p \in Int /\ NPte \in Nat /\ 2 <= NPte /\ FbPages \in Nat /\ FbPages # 1
  BY <1>1, Numbers, FbFacts DEF VA
<1>5. PageVal(p)
  BY <1>1 DEF PageVal
<1>6. pd[x] # Section
  <2> SUFFICES ASSUME pd[x] = Section PROVE FALSE
    OBVIOUS
  <2>1. SectionPlaced(x)
    BY <1>3 DEF PdesPlaced
  <2>2. PICK q \in VA : SegOf(q, FbPages) /\ ~ PageVal(q) /\ q <= y /\ y + NPte <= q + FbPages
    BY <1>2, <2>1 DEF SectionPlaced
  <2>3. q \in Int
    BY <2>2, Numbers DEF VA
  <2>4. p <= y /\ y < p + FbPages /\ q <= y /\ y < q + FbPages
    BY <1>3, <1>4, <2>2, <2>3
  <2>5. p = q
    BY <1>1, <1>3, <2>2, <2>4, SegsMeet
  <2> QED BY <1>5, <2>2, <2>5
<1>7. ~ IsPt(pd[x])
  <2> SUFFICES ASSUME IsPt(pd[x]) PROVE FALSE
    OBVIOUS
  <2>1. TablePlaced(x)
    BY <1>3 DEF PdesPlaced
  <2>2. CASE x = Pde(NVa - 1)
    <3>1. NVa = y + NPte /\ NVa \in Int /\ NSizes \in Nat /\ 2 <= NSizes /\ NSizes <= NPte
      BY <1>2, <2>2, LastPde, Numbers, SlubConstants
    <3>2. PICK z, b : z = NVa - 1 /\ b = BootPage(0)
      OBVIOUS
    <3>3. z \in Int /\ b = NVa - NSizes
      BY <3>1, <3>2 DEF BootPage
    <3>4. p <= z /\ z < p + FbPages /\ b <= z /\ z < b + NSizes
      BY <1>3, <1>4, <3>1, <3>2, <3>3
    <3>5. p = b
      <4>1. SegOf(b, NSizes)
        BY <3>2
      <4> QED BY <1>1, <3>3, <3>4, <4>1, SegsMeet
    <3>6. SlabPage(b)
      <4>1. 0 \in Size
        BY Numbers DEF Size
      <4>2. <<P16, 0>> \in DOMAIN slabs /\ slabs[<<P16, 0>>].page = BootPage(0)
        BY <4>1 DEF HeapInv, SlabsOk
      <4> QED BY <3>2, <4>2 DEF SlabPage
    <3>7. ~ SlabPage(p)
      BY <1>1, <1>5, PageNotSlab
    <3> QED BY <3>5, <3>6, <3>7
  <2>3. CASE \E q \in VA : Pde(q) = x /\ SegOf(q, 1)
    <3>1. PICK q \in VA : Pde(q) = x /\ SegOf(q, 1)
      BY <2>3
    <3>2. q \in Int /\ y <= q /\ q < y + NPte
      BY <1>2, <3>1, InTable, Numbers DEF VA
    <3>3. p <= q /\ q < p + FbPages /\ q <= q /\ q < q + 1
      BY <1>3, <1>4, <3>2
    <3>4. FbPages = 1
      BY <1>1, <3>1, <3>2, <3>3, SegsMeet
    <3> QED BY <1>4, <3>4
  <2> QED BY <2>1, <2>2, <2>3 DEF TablePlaced
<1> QED BY <1>6, <1>7 DEF IsPt

\* Only those two find something mapped.
LEMMA ActsMapOver ==
    ASSUME LockInv, RangeInv, HeapInv, NEW t \in Thread, Act(t), PdesPlaced, PlacedOk(t), PagesPlaced(t),
           SegOf(BootPage(0), NSizes), NoneMappedOver
    PROVE  NoneMappedOver'
<1>1. ASSUME NEW why, Fail(why), why \notin {"mapped", "section"} PROVE NoneMappedOver'
  BY <1>1 DEF Fail, NoneMappedOver
<1>2. \A pt : Walk(pt) \notin {"mapped", "section"}
  BY DEF Walk
<1>3. \A p : VaToPa(p) \notin {"mapped", "section"}
  BY <1>2 DEF VaToPa
<1>4. UNCHANGED stopped => NoneMappedOver'
  BY DEF NoneMappedOver
<1>5. ASSUME NEW ops, Call(t, ops) PROVE NoneMappedOver'
  BY <1>4, <1>5 DEF Call
<1>6. ASSUME NEW p, NEW c, Freeing(t, p, c) PROVE NoneMappedOver'
  BY <1>1, <1>3, <1>4, <1>6 DEF Freeing, FreesObject, Refuses
<1>7. ASSUME NEW c, TakeObject(t, c) \/ Grow(t, c) PROVE NoneMappedOver'
  BY <1>4, <1>7 DEF TakeObject, Grow
<1>8. ASSUME Alloc(t) \/ TakeAfterGrow(t) PROVE NoneMappedOver'
  BY <1>1, <1>7, <1>8 DEF Alloc, TakeAfterGrow, Take
<1>9. ASSUME Unlock(t) \/ Find(t) \/ AddSeg(t) \/ LockRam(t) \/ TakeFrame(t) PROVE NoneMappedOver'
  BY <1>1, <1>4, <1>9 DEF Unlock, Find, AddSeg, LockRam, TakeFrame
<1>10. ASSUME Map(t) PROVE NoneMappedOver'
  <2>1. PICK d, i : d = pd[Pde(Below(t)[1])] /\ i = Pte(Below(t)[1])
    OBVIOUS
  <2>2. d # Section /\ (IsPt(d) /\ Walk(d) = "no" => ptes[d][i] = 0)
    BY <1>10, <2>1, MapFinds
  <2>3. \/ UNCHANGED stopped
        \/ d = Section
        \/ Fail(Walk(d))
        \/ IsPt(d) /\ Walk(d) = "no" /\ ptes[d][i] # 0
    BY <1>10, <2>1 DEF Map, IsPt
  <2> QED BY <1>1, <1>2, <1>4, <2>2, <2>3
<1>11. ASSUME Install(t) \/ NewSubpages(t) PROVE NoneMappedOver'
  BY <1>1, <1>3, <1>4, <1>11 DEF Install, NewSubpages
<1>12. ASSUME MapSections(t) PROVE NoneMappedOver'
  <2>1. Does(t, "sections")
    BY <1>12 DEF MapSections
  <2>2. \A x \in Pde(Top(t)[1]) .. Pde(Top(t)[1]) + FbSections - 1 : pd[x] = NoPt
    BY <2>1, SectionsEmpty
  <2> QED BY <1>4, <1>12, <2>2 DEF MapSections
<1>13. ASSUME Track(t) \/ Put(t) \/ Give(t) PROVE NoneMappedOver'
  BY <1>1, <1>4, <1>13 DEF Track, Put, Give
<1> QED BY <1>5, <1>6, <1>8, <1>9, <1>10, <1>11, <1>12, <1>13 DEF Act, Step

LEMMA NextKeepsApart == LockInv /\ RangeInv /\ HeapInv /\ ApartInv /\ [Next]_vars /\ ~ misfreed' => ApartInv'
<1> SUFFICES ASSUME LockInv, RangeInv, HeapInv, ApartInv, [Next]_vars, ~ misfreed' PROVE ApartInv'
  OBVIOUS
<1>1. /\ NoneMappedOver /\ PdesPlaced /\ SegOf(BootPage(0), NSizes)
      /\ \A u \in Thread : PlacedOk(u) /\ PagesPlaced(u)
  BY DEF ApartInv
<1>2. CASE UNCHANGED vars
  <2>1. UNCHANGED <<pd, ptes, todo, vals, owner, vm_areas, stopped>>
    BY <1>2 DEF vars, tables
  <2>2. (\A o : Unmapped(o)' <=> Unmapped(o)) /\ \A q, m : SegOf(q, m)' <=> SegOf(q, m)
    BY <2>1 DEF Unmapped, Fr, Usable, IsPt, SegOf, IsSeg
  <2>3. \A u \in Thread : PlacedOk(u)'
    BY <1>1, <2>1, <2>2 DEF PlacedOk, PlacedFor, ForFb, ToSections
  <2>4. \A u, i, p : (ValAt(u, i, <<p, -1>>)' <=> ValAt(u, i, <<p, -1>>)) /\ (PagePlaced(u, i, p)' <=> PagePlaced(u, i, p))
    BY <2>1, <2>2 DEF PagePlaced, ValAt, Finding, DoesNow, HeadOp, ToSections
  <2>5. \A u \in Thread : PagesPlaced(u)'
    BY <1>1, <2>4 DEF PagesPlaced
  <2>6. PdesPlaced'
    BY <1>1, <2>1, <2>2, <2>4 DEF PdesPlaced, TablePlaced, SectionPlaced, PageVal, IsPt
  <2>7. NoneMappedOver' /\ SegOf(BootPage(0), NSizes)'
    BY <1>1, <2>1, <2>2 DEF NoneMappedOver
  <2> QED BY <2>3, <2>5, <2>6, <2>7 DEF ApartInv
<1>3. CASE Next
  <2>1. PICK t \in Thread : Act(t)
    BY <1>3, NextActs
  <2>2. SegOf(BootPage(0), NSizes)'
    BY <1>1, <2>1, SegsStay
  <2>3. ASSUME NEW u \in Thread PROVE PlacedOk(u)' /\ PagesPlaced(u)'
    BY <1>1, <2>1, ActsPlaced, OthersPlaced
  <2>4. PdesPlaced' /\ NoneMappedOver'
    BY <1>1, <2>1, ActsPdes, ActsMapOver
  <2> QED BY <2>2, <2>3, <2>4 DEF ApartInv
<1> QED BY <1>2, <1>3

LEMMA InitApart == Init => ApartInv
<1> SUFFICES ASSUME Init PROVE ApartInv
  OBVIOUS
<1>1. /\ stopped = "no" /\ (\A t \in Thread : todo[t] = <<>> /\ vals[t] = <<>>)
      /\ vm_areas = << << <<NVa - NSizes + C16, NSizes>>, NVa - NSizes + 0, NSizes>> >>
      /\ pd = [d \in 0 .. Pde(NVa - 1) |-> IF d = Pde(NVa - 1) THEN <<1, 0>> ELSE NoPt]
  BY DEF Init
<1>2. SegOf(BootPage(0), NSizes)
  <2>1. PICK a : a = << <<NVa - NSizes + C16, NSizes>>, BootPage(0), NSizes>>
    OBVIOUS
  <2>2. vm_areas = <<a>> /\ a[2] = BootPage(0) /\ a[3] = NSizes
    BY <1>1, <2>1 DEF BootPage
  <2>3. IsSeg(a)
    BY <2>2 DEF IsSeg
  <2> QED BY <2>2, <2>3 DEF SegOf
<1>3. PdesPlaced
  <2> SUFFICES ASSUME NEW x \in Pdes, x # Pde(NVa - 1) PROVE ~ IsPt(pd[x]) /\ pd[x] # Section
    <3>1. ~ (pd[Pde(NVa - 1)] = Section)
      <4>1. Pde(NVa - 1) \in 0 .. Pde(NVa - 1)
        BY LastPde
      <4>2. pd[Pde(NVa - 1)] = <<1, 0>>
        BY <1>1, <4>1
      <4> QED BY <4>2, Tuples DEF Section
    <3> QED BY <3>1 DEF PdesPlaced, TablePlaced
  <2>1. pd[x] = NoPt
    BY <1>1 DEF Pdes
  <2>2. NoPt # Section
    BY Tuples DEF NoPt, Section
  <2> QED BY <2>1, <2>2 DEF IsPt
<1>4. \A t \in Thread : PlacedOk(t) /\ PagesPlaced(t)
  BY <1>1 DEF PlacedOk, PlacedFor, ForFb, ToSections, Begins, PagesPlaced, ValAt
<1> QED BY <1>1, <1>2, <1>3, <1>4 DEF ApartInv, NoneMappedOver

\* Nothing is mapped over something else: the assertions of mmu_map_pages() and
\* mmu_map_sections() on the entries (mmu.c:158,218,254) hold until kfree() takes a page
\* of objects for a whole page, for any number of threads, sizes and pages.
THEOREM NeverMappedOver == Spec => []NothingMappedOver
<1> DEFINE Placed == ~ misfreed => ApartInv
<1>1. Init => Placed
  BY InitApart
<1>2. SlubInv /\ Placed /\ [Next]_vars => Placed'
  BY NextKeepsApart, NotMisfreedBefore DEF SlubInv, Good
<1>3. Placed => NothingMappedOver
  BY DEF ApartInv, NoneMappedOver, NothingMappedOver
<1> HIDE DEF Placed
<1> QED BY <1>1, <1>2, <1>3, SlubInvFollows, PTL DEF Spec
=============================================================================
