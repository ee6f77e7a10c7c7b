----------------------------- MODULE SlubProofs -----------------------------
(***************************************************************************)
(* Proofs about module Slub, for every number of threads, sizes and pages. *)
(*                                                                         *)
(* Every thread has one of a few lists of steps to take, and with it the   *)
(* locks it holds and the results it keeps (Shape).  A call is refilled    *)
(* at most once from the page tables, at the map of its page; a refill of  *)
(* the 16-byte objects, or of the page tables within one, waits for ever.  *)
(*                                                                         *)
(* Who has what (Has) is a relation of tokens: a result of a thread, an    *)
(* object of a caller, the structure of a slab, of a segment or of a whole *)
(* page, a page table, or an object on a chain.  An action moves a token,  *)
(* adds one or takes one away, and the lemmas on tokens, mappings and      *)
(* results say what that does to the invariant of the heap.  Last come the *)
(* steps of kmalloc() and of vm_find_seg(), which keep it.                 *)
(***************************************************************************)
EXTENDS Slub, SequenceTheorems, FiniteSetTheorems, WellFoundedInduction, TLAPS

-----------------------------------------------------------------------------
(* Sets of naturals: that < is well founded on Nat is a theorem of the      *)
(* library.                                                                *)

\* A set of naturals that is not empty has a least element.
LEMMA LeastOf ==
    ASSUME NEW S \in SUBSET Nat, S # {}
    PROVE  Min(S) \in S /\ \A y \in S : Min(S) <= y
<1>1. \E x \in S : \A y \in S : ~ <<y, x>> \in OpToRel(<, Nat)
  <2> DEFINE R == OpToRel(<, Nat)
  <2>1. IsWellFoundedOn(R, Nat)
    BY NatLessThanWellFounded
  <2> HIDE DEF R
  <2>2. \E x \in S : \A y \in S : ~ <<y, x>> \in R
    BY <2>1, WFMin
  <2> QED BY <2>2 DEF R
<1>2. PICK x \in S : \A y \in S : ~ (y < x)
  BY <1>1 DEF OpToRel
<1>3. \A y \in S : x <= y
  BY <1>2
<1> QED BY <1>3 DEF Min

-----------------------------------------------------------------------------
(* Lists of steps.                                                         *)

IsSeq(s) == \E S : s \in Seq(S)

LEMMA EmptyIsSeq == IsSeq(<<>>)
  BY DEF IsSeq

LEMMA ConsFacts ==
    ASSUME NEW x, NEW r, IsSeq(r)
    PROVE  /\ IsSeq(Cons(x, r)) /\ Cons(x, r) # <<>>
           /\ Head(Cons(x, r)) = x /\ Tail(Cons(x, r)) = r
<1>1. PICK S : r \in Seq(S)
  BY DEF IsSeq
<1> DEFINE T == S \union {x}
<1>2. <<x>> \in Seq(T) /\ r \in Seq(T)
  BY <1>1
<1> HIDE DEF T
<1>3. Cons(x, r) \in Seq(T) /\ Len(Cons(x, r)) = Len(r) + 1
  BY <1>2 DEF Cons
<1>4. /\ Cons(x, r)[1] = x
      /\ \A i \in 1 .. Len(r) : Cons(x, r)[i + 1] = r[i]
  BY <1>2 DEF Cons
<1>5. Tail(Cons(x, r)) = r
  <2>1. Tail(Cons(x, r)) \in Seq(T) /\ Len(Tail(Cons(x, r))) = Len(r)
    BY <1>2, <1>3
  <2>2. \A i \in 1 .. Len(r) : Tail(Cons(x, r))[i] = r[i]
    BY <1>2, <1>3, <1>4
  <2> QED BY <1>2, <2>1, <2>2, SeqEqual
<1>6. Cons(x, r) # <<>> /\ Head(Cons(x, r)) = x
  BY <1>2, <1>3, <1>4
<1> QED BY <1>3, <1>5, <1>6 DEF IsSeq

LEMMA IsCons ==
    ASSUME NEW s, IsSeq(s), s # <<>>
    PROVE  s = Cons(Head(s), Tail(s)) /\ IsSeq(Tail(s))
<1>1. PICK S : s \in Seq(S)
  BY DEF IsSeq
<1>2. Tail(s) \in Seq(S) /\ Head(s) \in S
  BY <1>1
<1>3. <<Head(s)>> \o Tail(s) = s
  BY <1>1, <1>2
<1> QED BY <1>2, <1>3 DEF Cons, IsSeq

\* A list put in front of another, step by step.
LEMMA ConsConcat ==
    ASSUME NEW x, NEW s, NEW r, IsSeq(s), IsSeq(r)
    PROVE  Cons(x, s) \o r = Cons(x, s \o r) /\ IsSeq(s \o r)
<1>1. PICK S : s \in Seq(S)
  BY DEF IsSeq
<1>2. PICK R : r \in Seq(R)
  BY DEF IsSeq
<1> DEFINE T == S \union R \union {x}
<1>3. <<x>> \in Seq(T) /\ r \in Seq(T) /\ s \in Seq(T)
  BY <1>1, <1>2
<1> HIDE DEF T
<1>4. (<<x>> \o s) \o r = <<x>> \o (s \o r)
  BY <1>3, ConcatAssociative
<1> QED BY <1>3, <1>4 DEF Cons, IsSeq

LEMMA EmptyConcat ==
    ASSUME NEW r, IsSeq(r)
    PROVE  <<>> \o r = r /\ r \o <<>> = r
<1>1. PICK S : r \in Seq(S)
  BY DEF IsSeq
<1> QED BY <1>1

\* One result more, and one or two less.
LEMMA AppendFacts ==
    ASSUME NEW v, NEW a, IsSeq(v)
    PROVE  LET w == Append(v, a) IN
           /\ IsSeq(w) /\ w # <<>> /\ Len(w) = Len(v) + 1 /\ Len(v) \in Nat
           /\ Last(w) = a /\ w[Len(w)] = a /\ SubSeq(w, 1, Len(w) - 1) = v
           /\ \A i \in 1 .. Len(v) : w[i] = v[i]
<1>1. PICK S : v \in Seq(S)
  BY DEF IsSeq
<1> DEFINE T == S \union {a}
           w == Append(v, a)
<1>2. v \in Seq(T) /\ a \in T
  BY <1>1
<1> HIDE DEF T
<1>3. w \in Seq(T) /\ Len(w) = Len(v) + 1 /\ Len(v) \in Nat
  BY <1>2
<1>4. w[Len(w)] = a /\ \A i \in 1 .. Len(v) : w[i] = v[i]
  BY <1>2, <1>3
<1>5. SubSeq(w, 1, Len(w) - 1) = v
  <2>1. SubSeq(w, 1, Len(v)) \in Seq(T) /\ Len(SubSeq(w, 1, Len(v))) = Len(v)
    BY <1>3
  <2>2. \A i \in 1 .. Len(v) : SubSeq(w, 1, Len(v))[i] = v[i]
    BY <1>3, <1>4
  <2>3. SubSeq(w, 1, Len(v)) = v
    BY <1>2, <2>1, <2>2, SeqEqual
  <2>4. Len(w) - 1 = Len(v)
    BY <1>3
  <2> QED BY <2>3, <2>4
<1> QED BY <1>3, <1>4, <1>5 DEF Last, IsSeq

\* Lists written out.

LEMMA PairCons ==
    ASSUME NEW a, NEW b
    PROVE  Cons(a, <<b>>) = <<a, b>>
<1> DEFINE S == {a, b}
           h == <<a>>
           r == <<b>>
           t == <<a, b>>
<1>1. h \in Seq(S) /\ r \in Seq(S) /\ t \in Seq(S)
  OBVIOUS
<1>2. /\ Len(h) = 1 /\ Len(r) = 1 /\ Len(t) = 2
      /\ h[1] = a
      /\ r[1] = b
      /\ t[1] = a /\ t[2] = b
  OBVIOUS
<1> HIDE DEF S, h, r, t
<1>3. /\ h \o r \in Seq(S) /\ Len(h \o r) = 2
      /\ (h \o r)[1] = a /\ (h \o r)[2] = b
  <2>1. /\ h \o r \in Seq(S) /\ Len(h \o r) = Len(h) + Len(r)
        /\ \A i \in 1 .. Len(h) + Len(r) :
              (h \o r)[i] = IF i <= Len(h) THEN h[i] ELSE r[i - Len(h)]
    BY <1>1, ConcatProperties
  <2> QED BY <1>2, <2>1
<1>4. \A i \in 1 .. Len(t) : (h \o r)[i] = t[i]
  BY <1>2, <1>3
<1>5. h \o r = t
  BY <1>1, <1>2, <1>3, <1>4, SeqEqual
<1> QED BY <1>5 DEF Cons, h, r, t

LEMMA TripleCons ==
    ASSUME NEW a, NEW b, NEW c
    PROVE  Cons(a, <<b, c>>) = <<a, b, c>>
<1> DEFINE S == {a, b, c}
           h == <<a>>
           r == <<b, c>>
           t == <<a, b, c>>
<1>1. h \in Seq(S) /\ r \in Seq(S) /\ t \in Seq(S)
  OBVIOUS
<1>2. /\ Len(h) = 1 /\ Len(r) = 2 /\ Len(t) = 3
      /\ h[1] = a
      /\ r[1] = b /\ r[2] = c
      /\ t[1] = a /\ t[2] = b /\ t[3] = c
  OBVIOUS
<1> HIDE DEF S, h, r, t
<1>3. /\ h \o r \in Seq(S) /\ Len(h \o r) = 3
      /\ (h \o r)[1] = a /\ (h \o r)[2] = b /\ (h \o r)[3] = c
  <2>1. /\ h \o r \in Seq(S) /\ Len(h \o r) = Len(h) + Len(r)
        /\ \A i \in 1 .. Len(h) + Len(r) :
              (h \o r)[i] = IF i <= Len(h) THEN h[i] ELSE r[i - Len(h)]
    BY <1>1, ConcatProperties
  <2> QED BY <1>2, <2>1
<1>4. \A i \in 1 .. Len(t) : (h \o r)[i] = t[i]
  BY <1>2, <1>3
<1>5. h \o r = t
  BY <1>1, <1>2, <1>3, <1>4, SeqEqual
<1> QED BY <1>5 DEF Cons, h, r, t

LEMMA FourCons ==
    ASSUME NEW a, NEW b, NEW c, NEW d
    PROVE  Cons(a, <<b, c, d>>) = <<a, b, c, d>>
<1> DEFINE S == {a, b, c, d}
           h == <<a>>
           r == <<b, c, d>>
           t == <<a, b, c, d>>
<1>1. h \in Seq(S) /\ r \in Seq(S) /\ t \in Seq(S)
  OBVIOUS
<1>2. /\ Len(h) = 1 /\ Len(r) = 3 /\ Len(t) = 4
      /\ h[1] = a
      /\ r[1] = b /\ r[2] = c /\ r[3] = d
      /\ t[1] = a /\ t[2] = b /\ t[3] = c /\ t[4] = d
  OBVIOUS
<1> HIDE DEF S, h, r, t
<1>3. /\ h \o r \in Seq(S) /\ Len(h \o r) = 4
      /\ (h \o r)[1] = a /\ (h \o r)[2] = b /\ (h \o r)[3] = c /\ (h \o r)[4] = d
  <2>1. /\ h \o r \in Seq(S) /\ Len(h \o r) = Len(h) + Len(r)
        /\ \A i \in 1 .. Len(h) + Len(r) :
              (h \o r)[i] = IF i <= Len(h) THEN h[i] ELSE r[i - Len(h)]
    BY <1>1, ConcatProperties
  <2> QED BY <1>2, <2>1
<1>4. \A i \in 1 .. Len(t) : (h \o r)[i] = t[i]
  BY <1>2, <1>3
<1>5. h \o r = t
  BY <1>1, <1>2, <1>3, <1>4, SeqEqual
<1> QED BY <1>5 DEF Cons, h, r, t

LEMMA FiveCons ==
    ASSUME NEW a, NEW b, NEW c, NEW d, NEW e
    PROVE  Cons(a, <<b, c, d, e>>) = <<a, b, c, d, e>>
<1> DEFINE S == {a, b, c, d, e}
           h == <<a>>
           r == <<b, c, d, e>>
           t == <<a, b, c, d, e>>
<1>1. h \in Seq(S) /\ r \in Seq(S) /\ t \in Seq(S)
  OBVIOUS
<1>2. /\ Len(h) = 1 /\ Len(r) = 4 /\ Len(t) = 5
      /\ h[1] = a
      /\ r[1] = b /\ r[2] = c /\ r[3] = d /\ r[4] = e
      /\ t[1] = a /\ t[2] = b /\ t[3] = c /\ t[4] = d /\ t[5] = e
  OBVIOUS
<1> HIDE DEF S, h, r, t
<1>3. /\ h \o r \in Seq(S) /\ Len(h \o r) = 5
      /\ (h \o r)[1] = a /\ (h \o r)[2] = b /\ (h \o r)[3] = c /\ (h \o r)[4] = d /\ (h \o r)[5] = e
  <2>1. /\ h \o r \in Seq(S) /\ Len(h \o r) = Len(h) + Len(r)
        /\ \A i \in 1 .. Len(h) + Len(r) :
              (h \o r)[i] = IF i <= Len(h) THEN h[i] ELSE r[i - Len(h)]
    BY <1>1, ConcatProperties
  <2> QED BY <1>2, <2>1
<1>4. \A i \in 1 .. Len(t) : (h \o r)[i] = t[i]
  BY <1>2, <1>3
<1>5. h \o r = t
  BY <1>1, <1>2, <1>3, <1>4, SeqEqual
<1> QED BY <1>5 DEF Cons, h, r, t

-----------------------------------------------------------------------------
(* The calls from each of their steps on; r is what follows them.          *)

\* vm_alloc() of n pages:
FromUnlock(r)      == Cons(<<"unlock", VM>>, r)
FromSeg(n, r)      == Cons(<<"seg", n>>, FromUnlock(r))
FromSegAlloc(n, r) == Cons(<<"alloc", C16>>, FromSeg(n, r))
FromFind(n, r)     == Cons(<<"find", n>>, FromSegAlloc(n, r))
\* kmalloc_fullpages(), when it has its range:
FromTrack(r)  == Cons(<<"track">>, r)
FromWhole(r)  == Cons(<<"alloc", C16>>, FromTrack(r))
FromMap(r)    == Cons(<<"map">>, FromWhole(r))
FromRam(r)    == Cons(<<"ram">>, FromMap(r))
FromPm(r)     == Cons(<<"pm">>, FromRam(r))
\* slub_alloc_subpage_slab() and what is left after it:
FromInit1(c, r)  == Cons(<<"init1", c>>, r)
FromRefill(c, r) == Cons(<<"alloc", C16>>, FromFind(1, FromPm(FromInit1(c, r))))
\* mmu_map_pages(), when it has a page table:
FromInstall(r) == Cons(<<"install">>, FromWhole(r))

LEMMA FromAreSeqs ==
    ASSUME NEW r, IsSeq(r), NEW n, NEW c
    PROVE  /\ IsSeq(FromUnlock(r)) /\ IsSeq(FromSeg(n, r)) /\ IsSeq(FromSegAlloc(n, r))
           /\ IsSeq(FromFind(n, r)) /\ IsSeq(FromTrack(r)) /\ IsSeq(FromWhole(r))
           /\ IsSeq(FromMap(r)) /\ IsSeq(FromRam(r)) /\ IsSeq(FromPm(r))
           /\ IsSeq(FromInit1(c, r)) /\ IsSeq(FromInstall(r)) /\ IsSeq(FromRefill(c, r))
<1>1. ASSUME NEW x, NEW s, IsSeq(s) PROVE IsSeq(Cons(x, s))
  BY <1>1, ConsFacts
<1>2. ASSUME NEW s, IsSeq(s) PROVE IsSeq(FromFind(1, s))
  BY <1>1, <1>2 DEF FromUnlock, FromSeg, FromSegAlloc, FromFind
<1>3. ASSUME NEW s, IsSeq(s) PROVE IsSeq(FromPm(s))
  BY <1>1, <1>3 DEF FromTrack, FromWhole, FromMap, FromRam, FromPm
<1> QED BY <1>1, <1>2, <1>3 DEF FromUnlock, FromSeg, FromSegAlloc, FromFind, FromTrack,
        FromWhole, FromMap, FromRam, FromPm, FromInit1, FromInstall, FromRefill

LEMMA VmAllocForm ==
    ASSUME NEW n, NEW r, IsSeq(r)
    PROVE  VmAlloc(n) \o r = FromFind(n, r) /\ IsSeq(VmAlloc(n) \o r)
<1> DEFINE u == <<"unlock", VM>>
           s == <<"seg", n>>
           a == <<"alloc", C16>>
           f == <<"find", n>>
<1>1. VmAlloc(n) = <<f, a, s, u>>
  BY DEF VmAlloc
<1>2. FromFind(n, r) = Cons(f, Cons(a, Cons(s, Cons(u, r))))
  BY DEF FromFind, FromSegAlloc, FromSeg, FromUnlock
<1> HIDE DEF f, a, s, u
<1>3. IsSeq(<<u>>) /\ IsSeq(<<s, u>>) /\ IsSeq(<<a, s, u>>)
  <2>1. /\ <<u>> \in Seq({a, s, u}) /\ <<s, u>> \in Seq({a, s, u})
        /\ <<a, s, u>> \in Seq({a, s, u})
    OBVIOUS
  <2> QED BY <2>1 DEF IsSeq
<1>4. <<u>> \o r = Cons(u, r)
  BY DEF Cons
<1>5. <<s, u>> \o r = Cons(s, Cons(u, r))
  <2>1. Cons(s, <<u>>) = <<s, u>>
    BY PairCons
  <2>2. Cons(s, <<u>>) \o r = Cons(s, <<u>> \o r)
    BY <1>3, ConsConcat
  <2> QED BY <1>4, <2>1, <2>2
<1>6. <<a, s, u>> \o r = Cons(a, Cons(s, Cons(u, r)))
  <2>1. Cons(a, <<s, u>>) = <<a, s, u>>
    BY TripleCons
  <2>2. Cons(a, <<s, u>>) \o r = Cons(a, <<s, u>> \o r)
    BY <1>3, ConsConcat
  <2> QED BY <1>5, <2>1, <2>2
<1>7. <<f, a, s, u>> \o r = Cons(f, Cons(a, Cons(s, Cons(u, r))))
  <2>1. Cons(f, <<a, s, u>>) = <<f, a, s, u>>
    BY FourCons
  <2>2. Cons(f, <<a, s, u>>) \o r = Cons(f, <<a, s, u>> \o r)
    BY <1>3, ConsConcat
  <2> QED BY <1>6, <2>1, <2>2
<1> QED BY <1>1, <1>2, <1>7, FromAreSeqs

LEMMA PageForm ==
    ASSUME NEW r, IsSeq(r)
    PROVE  Page \o r = FromFind(1, FromPm(r)) /\ IsSeq(Page \o r)
<1> DEFINE p == <<"pm">>
           q == <<"ram">>
           m == <<"map">>
           a == <<"alloc", C16>>
           k == <<"track">>
           w == <<p, q, m, a, k>>
<1>1. Page = VmAlloc(1) \o w
  BY DEF Page
<1>2. FromPm(r) = Cons(p, Cons(q, Cons(m, Cons(a, Cons(k, r)))))
  BY DEF FromPm, FromRam, FromMap, FromWhole, FromTrack
<1> HIDE DEF p, q, m, a, k
<1>3. IsSeq(<<k>>) /\ IsSeq(<<a, k>>) /\ IsSeq(<<m, a, k>>) /\ IsSeq(<<q, m, a, k>>) /\ IsSeq(w)
  <2> DEFINE S == {p, q, m, a, k}
  <2>1. /\ <<k>> \in Seq(S) /\ <<a, k>> \in Seq(S) /\ <<m, a, k>> \in Seq(S)
        /\ <<q, m, a, k>> \in Seq(S) /\ w \in Seq(S)
    OBVIOUS
  <2> QED BY <2>1 DEF IsSeq
<1>4. <<k>> \o r = Cons(k, r)
  BY DEF Cons
<1>5. <<a, k>> \o r = Cons(a, Cons(k, r))
  <2>1. Cons(a, <<k>>) = <<a, k>>
    BY PairCons
  <2>2. Cons(a, <<k>>) \o r = Cons(a, <<k>> \o r)
    BY <1>3, ConsConcat, SMTT(40)
  <2> QED BY <1>4, <2>1, <2>2
<1>6. <<m, a, k>> \o r = Cons(m, Cons(a, Cons(k, r)))
  <2>1. Cons(m, <<a, k>>) = <<m, a, k>>
    BY TripleCons
  <2>2. Cons(m, <<a, k>>) \o r = Cons(m, <<a, k>> \o r)
    BY <1>3, ConsConcat, SMTT(40)
  <2> QED BY <1>5, <2>1, <2>2
<1>7. <<q, m, a, k>> \o r = Cons(q, Cons(m, Cons(a, Cons(k, r))))
  <2>1. Cons(q, <<m, a, k>>) = <<q, m, a, k>>
    BY FourCons
  <2>2. Cons(q, <<m, a, k>>) \o r = Cons(q, <<m, a, k>> \o r)
    BY <1>3, ConsConcat, SMTT(40)
  <2> QED BY <1>6, <2>1, <2>2
<1>8. w \o r = FromPm(r)
  <2>1. Cons(p, <<q, m, a, k>>) = w
    BY FiveCons
  <2> DEFINE y == <<q, m, a, k>>
  <2>2. Cons(p, y) \o r = Cons(p, y \o r)
    <3>1. IsSeq(y)
      BY <1>3
    <3> HIDE DEF y, w
    <3> QED BY <3>1, ConsConcat
  <2> QED BY <1>2, <1>7, <2>1, <2>2
<1> HIDE DEF w
<1>9. (VmAlloc(1) \o w) \o r = VmAlloc(1) \o (w \o r)
  <2>1. PICK S : w \in Seq(S)
    BY <1>3 DEF IsSeq
  <2>2. PICK R : r \in Seq(R)
    BY DEF IsSeq
  <2>3. \E V : VmAlloc(1) \in Seq(V)
    <3>1. VmAlloc(1) \in Seq({<<"find", 1>>, <<"alloc", C16>>, <<"seg", 1>>, <<"unlock", VM>>})
      BY DEF VmAlloc
    <3> QED BY <3>1
  <2>4. PICK V : VmAlloc(1) \in Seq(V)
    BY <2>3
  <2> DEFINE T == S \union R \union V
  <2>5. w \in Seq(T) /\ r \in Seq(T) /\ VmAlloc(1) \in Seq(T)
    BY <2>1, <2>2, <2>4
  <2> HIDE DEF T
  <2> QED BY <2>5, ConcatAssociative
<1>10. VmAlloc(1) \o FromPm(r) = FromFind(1, FromPm(r)) /\ IsSeq(VmAlloc(1) \o FromPm(r))
  BY FromAreSeqs, VmAllocForm
<1> QED BY <1>1, <1>8, <1>9, <1>10

\* A refill, then step x, then r.
LEMMA RefillForm ==
    ASSUME NEW c, NEW x, NEW r, IsSeq(r)
    PROVE  (Refill(c) \o <<x>>) \o r = FromRefill(c, Cons(x, r))
<1> DEFINE a == <<"alloc", C16>>
           i == <<"init1", c>>
<1>1. Refill(c) = (<<a>> \o Page) \o <<i>>
  BY DEF Refill
<1>2. FromRefill(c, Cons(x, r)) = Cons(a, FromFind(1, FromPm(Cons(i, Cons(x, r)))))
  BY DEF FromRefill, FromInit1
<1> HIDE DEF a, i
<1>3. Page \o <<>> = Page /\ IsSeq(Page)
  <2>1. IsSeq(Page \o <<>>)
    BY PageForm, EmptyIsSeq
  <2>2. Page \o <<>> = Page
    <3>1. /\ VmAlloc(1) \in Seq({<<"find", 1>>, <<"alloc", C16>>, <<"seg", 1>>, <<"unlock", VM>>})
      BY DEF VmAlloc
    <3>2. << <<"pm">>, <<"ram">>, <<"map">>, <<"alloc", C16>>, <<"track">> >> \in
             Seq({<<"pm">>, <<"ram">>, <<"map">>, <<"alloc", C16>>, <<"track">>})
      OBVIOUS
    <3> DEFINE T == {<<"find", 1>>, <<"alloc", C16>>, <<"seg", 1>>, <<"unlock", VM>>} \union
                    {<<"pm">>, <<"ram">>, <<"map">>, <<"alloc", C16>>, <<"track">>}
               w == << <<"pm">>, <<"ram">>, <<"map">>, <<"alloc", C16>>, <<"track">> >>
    <3>3. VmAlloc(1) \in Seq(T) /\ w \in Seq(T) /\ Page = VmAlloc(1) \o w
      BY <3>1, <3>2 DEF Page
    <3> HIDE DEF T, w
    <3>4. Page \in Seq(T)
      BY <3>3
    <3> QED BY <3>4, ConcatEmptySeq
  <2> QED BY <2>1, <2>2
<1>4. PICK S : Page \in Seq(S)
  BY <1>3 DEF IsSeq
<1>5. PICK R : r \in Seq(R)
  BY DEF IsSeq
<1> DEFINE T == S \union R \union {a, i, x}
<1>6. /\ Page \in Seq(T) /\ r \in Seq(T)
      /\ <<a>> \in Seq(T) /\ <<i>> \in Seq(T) /\ <<x>> \in Seq(T)
  BY <1>4, <1>5
<1> HIDE DEF T
<1>7. (((<<a>> \o Page) \o <<i>>) \o <<x>>) \o r = <<a>> \o (Page \o (<<i>> \o (<<x>> \o r)))
  <2>1. /\ <<a>> \o Page \in Seq(T) /\ <<x>> \o r \in Seq(T) /\ <<i>> \o (<<x>> \o r) \in Seq(T)
        /\ (<<a>> \o Page) \o <<i>> \in Seq(T)
    BY <1>6
  <2>2. (((<<a>> \o Page) \o <<i>>) \o <<x>>) \o r = ((<<a>> \o Page) \o <<i>>) \o (<<x>> \o r)
    BY <1>6, <2>1, ConcatAssociative
  <2>3. ((<<a>> \o Page) \o <<i>>) \o (<<x>> \o r) = (<<a>> \o Page) \o (<<i>> \o (<<x>> \o r))
    BY <1>6, <2>1, ConcatAssociative
  <2>4. (<<a>> \o Page) \o (<<i>> \o (<<x>> \o r)) = <<a>> \o (Page \o (<<i>> \o (<<x>> \o r)))
    BY <1>6, <2>1, ConcatAssociative
  <2> QED BY <2>2, <2>3, <2>4
<1>8. IsSeq(Cons(x, r)) /\ IsSeq(Cons(i, Cons(x, r)))
  BY ConsFacts
<1>9. Page \o Cons(i, Cons(x, r)) = FromFind(1, FromPm(Cons(i, Cons(x, r))))
  BY <1>8, PageForm
<1> QED BY <1>1, <1>2, <1>7, <1>9 DEF Cons

-----------------------------------------------------------------------------
(* What a thread can have to do, with the locks h that it holds and the    *)
(* results v that it keeps.                                                *)

\* Results: a page of slub's own or for a caller, a frame, an object of 16 bytes,
\* an object that a caller may have, and one that is for a page table.
P16 == NVa - NSizes + C16
VA  == 0 .. NVa - 1
IsPage(p)   == \E n \in VA : p = <<n, -1>>
IsFrame(f)  == \E n \in 1 .. NRam : f = <<n>>
IsStruct(s) == \E i \in Nat : s = <<P16, i>>
IsObj(o)    == \E n \in VA, i \in Nat : o = <<n, i>>
IsPtObj(o)  == \E n \in VA \union {Static}, i \in Nat : o = <<n, i>>
Mapping(p, f) == IsPage(p) /\ IsFrame(f)
\* The page table that maps the pages of boot is there from the start.
NewTable(p, f) == IsPage(p) /\ IsFrame(f) /\ Pde(p[1]) # Pde(NVa - 1)
\* What list c yields, and where an object goes back to: only pages of boot are
\* ever known by their size (AddSize).
Yields(c, o) == /\ IsPtObj(o)
                /\ c \in Size => IsObj(o)
                /\ c = C16 => IsStruct(o)
PutsTo(s, o) == \E i \in Size, k \in Nat : /\ s = <<P16, i>> /\ o = <<NVa - NSizes + i, k>>
                                           /\ k < NObj[i]

\* A refill of size c, with r after it: for kmalloc(), ...
GrowsList(c, r, h, v) ==
    /\ c \in Size \ {C16} /\ h = {c} /\ v = <<>>
    /\ r = Cons(<<"take", c>>, Cons(<<"give", c>>, <<>>))
\* ... kmalloc_fullpages() of a caller's or of that refill, with q after it, ...
Whole(q, h, v) == q = Cons(<<"give", WHOLE>>, <<>>) /\ h = {} /\ v = <<>>
Outer(q, h, v) ==
    \/ Whole(q, h, v)
    \/ \E c, r, w, s : GrowsList(c, r, h, w) /\ q = FromInit1(c, r) /\ v = Append(w, s) /\ IsStruct(s)
\* ... a refill of the page tables, at the map of such a page, ...
GrowsPt(r, h, v) ==
    \E q, g, w, p, f : /\ Outer(q, g, w) /\ h = g \union {PT} /\ NewTable(p, f)
                       /\ v = Append(Append(w, p), f)
                       /\ r = Cons(<<"take", PT>>, FromInstall(q))
Grows(c, r, h, v) == GrowsList(c, r, h, v) \/ (c = PT /\ GrowsPt(r, h, v))
\* ... and kmalloc_fullpages() of any.
Inner(q, h, v) ==
    \/ Whole(q, h, v)
    \/ \E c, r, w, s : Grows(c, r, h, w) /\ q = FromInit1(c, r) /\ v = Append(w, s) /\ IsStruct(s)
\* vm_alloc() of n pages.
Ranges(n, q, h, v) ==
    \/ n = FbPages /\ q = Cons(<<"sections">>, <<>>) /\ h = {} /\ v = <<>>
    \/ n = 1 /\ \E r : Inner(r, h, v) /\ q = FromPm(r)

\* The first step, and r after it.
AtAlloc(c, r, h, v) ==
    \/ c \in h \intersect {C16, PT}
    \/ c \in Size /\ r = Cons(<<"give", c>>, <<>>) /\ h = {} /\ v = <<>>
    \/ c = C16 /\ \E d, q : Grows(d, q, h, v) /\ r = FromFind(1, FromPm(FromInit1(d, q)))
    \/ c = C16 /\ \E n, q, g, w, p : /\ Ranges(n, q, g, w) /\ r = FromSeg(n, q)
                                     /\ h = g \union {VM} /\ v = Append(w, p) /\ IsPage(p)
    \/ c = C16 /\ \E q, w, p, f : /\ Inner(q, h, w) /\ r = FromTrack(q)
                                  /\ v = Append(Append(w, p), f) /\ Mapping(p, f)
    \/ c = PT /\ \E q, w, p, f : /\ Outer(q, h, w) /\ r = FromInstall(q)
                                 /\ v = Append(Append(w, p), f) /\ NewTable(p, f)
AtTake(c, r, h, v) == Grows(c, Cons(<<"take", c>>, r), h, v)
AtFind(n, r, h, v) == \E q : Ranges(n, q, h, v) /\ r = FromSegAlloc(n, q)
AtSeg(n, r, h, v) ==
    \E q, g, w, p, s : /\ Ranges(n, q, g, w) /\ r = FromUnlock(q)
                       /\ h = g \union {VM} /\ v = Append(Append(w, p), s) /\ IsPage(p) /\ IsStruct(s)
AtUnlock(m, r, h, v) ==
    m = VM /\ \E n, g, w, p : Ranges(n, r, g, w) /\ h = g \union {VM} /\ v = Append(w, p) /\ IsPage(p)
AtPm(r, h, v)  == \E q, w, p : Inner(q, h, w) /\ r = FromRam(q) /\ v = Append(w, p) /\ IsPage(p)
AtRam(r, h, v) == \E q, g, w, p : /\ Inner(q, g, w) /\ r = FromMap(q)
                                  /\ h = g \union {RAM} /\ v = Append(w, p) /\ IsPage(p)
AtMap(r, h, v) == \E q, w, p, f : /\ Inner(q, h, w) /\ r = FromWhole(q)
                                  /\ v = Append(Append(w, p), f) /\ Mapping(p, f)
AtInstall(r, h, v) == \E q, w, p, f, o : /\ Outer(q, h, w) /\ r = FromWhole(q)
                                         /\ NewTable(p, f) /\ IsPtObj(o)
                           /\ v = Append(Append(Append(w, p), f), o)
AtTrack(r, h, v) == \E w, p, f, o : Inner(r, h, w) /\ v = Append(Append(Append(w, p), f), o) /\ Mapping(p, f) /\ IsStruct(o)
AtInit1(c, r, h, v) == \E w, s, p : Grows(c, r, h, w) /\ v = Append(Append(w, s), p) /\ IsStruct(s) /\ IsPage(p)
AtGive(c, r, h, v) ==
    /\ c \in Size \union {WHOLE} /\ r = <<>> /\ h = {}
    /\ \E o : v = Append(<<>>, o) /\ IF c = WHOLE THEN IsPage(o) ELSE IsObj(o)
AtSections(r, h, v) == r = <<>> /\ h = {} /\ \E p : v = Append(<<>>, p) /\ IsPage(p)
AtPut(s, r, h, v) == h = {} /\ r = <<>> /\ \E p : v = Append(<<>>, p) /\ PutsTo(s, p)

\* No kfree() of a whole page is under way (misfreed).
At(x, r, h, v) ==
    /\ x[1] \in {"alloc", "take", "find", "seg", "unlock", "pm", "ram", "map", "install",
                 "track", "init1", "give", "sections", "put"}
    /\ x[1] = "alloc" => AtAlloc(x[2], r, h, v)
    /\ x[1] = "take" => AtTake(x[2], r, h, v)
    /\ x[1] = "find" => AtFind(x[2], r, h, v)
    /\ x[1] = "seg" => AtSeg(x[2], r, h, v)
    /\ x[1] = "unlock" => AtUnlock(x[2], r, h, v)
    /\ x[1] = "pm" => AtPm(r, h, v)
    /\ x[1] = "ram" => AtRam(r, h, v)
    /\ x[1] = "map" => AtMap(r, h, v)
    /\ x[1] = "install" => AtInstall(r, h, v)
    /\ x[1] = "track" => AtTrack(r, h, v)
    /\ x[1] = "init1" => AtInit1(x[2], r, h, v)
    /\ x[1] = "give" => AtGive(x[2], r, h, v)
    /\ x[1] = "sections" => AtSections(r, h, v)
    /\ x[1] = "put" => AtPut(x[2], r, h, v)

Shape(td, h, v) ==
    /\ IsSeq(v)
    /\ \/ td = <<>> /\ h = {} /\ v = <<>>
       \/ \E x, r : IsSeq(r) /\ td = Cons(x, r) /\ At(x, r, h, v)

\* What the contexts are and hold.
LEMMA OuterFacts ==
    ASSUME NEW q, NEW h, NEW v, Outer(q, h, v)
    PROVE  IsSeq(q) /\ IsSeq(v) /\ h \subseteq Size \ {C16}
<1>1. CASE Whole(q, h, v)
  BY <1>1, EmptyIsSeq, ConsFacts DEF Whole
<1>2. CASE \E c, r, w, s : GrowsList(c, r, h, w) /\ q = FromInit1(c, r) /\ v = Append(w, s) /\ IsStruct(s)
  <2>1. PICK c, r, w, s : GrowsList(c, r, h, w) /\ q = FromInit1(c, r) /\ v = Append(w, s) /\ IsStruct(s)
    BY <1>2
  <2>2. IsSeq(r) /\ w = <<>> /\ h \subseteq Size \ {C16}
    BY <2>1, EmptyIsSeq, ConsFacts DEF GrowsList
  <2> QED BY <2>1, <2>2, EmptyIsSeq, AppendFacts, FromAreSeqs
<1> QED BY <1>1, <1>2 DEF Outer

LEMMA GrowsFacts ==
    ASSUME NEW c, NEW r, NEW h, NEW v, Grows(c, r, h, v)
    PROVE  /\ IsSeq(r) /\ IsSeq(v) /\ h \subseteq (Size \ {C16}) \union {PT}
           /\ c \in (Size \ {C16}) \union {PT} /\ c \in h
<1>1. CASE GrowsList(c, r, h, v)
  BY <1>1, EmptyIsSeq, ConsFacts DEF GrowsList
<1>2. CASE c = PT /\ GrowsPt(r, h, v)
  <2>1. PICK q, g, w, p, f : /\ Outer(q, g, w) /\ h = g \union {PT}
                             /\ v = Append(Append(w, p), f) /\ NewTable(p, f)
                             /\ r = Cons(<<"take", PT>>, FromInstall(q))
    BY <1>2 DEF GrowsPt
  <2>2. IsSeq(q) /\ IsSeq(w) /\ g \subseteq Size \ {C16}
    BY <2>1, OuterFacts
  <2>3. IsSeq(FromInstall(q)) /\ IsSeq(Append(w, p))
    BY <2>2, FromAreSeqs, AppendFacts
  <2> QED BY <1>2, <2>1, <2>2, <2>3, ConsFacts, AppendFacts
<1> QED BY <1>1, <1>2 DEF Grows

LEMMA InnerFacts ==
    ASSUME NEW q, NEW h, NEW v, Inner(q, h, v)
    PROVE  IsSeq(q) /\ IsSeq(v) /\ h \subseteq (Size \ {C16}) \union {PT}
<1>1. CASE Whole(q, h, v)
  BY <1>1, EmptyIsSeq, ConsFacts DEF Whole
<1>2. CASE \E c, r, w, s : Grows(c, r, h, w) /\ q = FromInit1(c, r) /\ v = Append(w, s) /\ IsStruct(s)
  <2>1. PICK c, r, w, s : Grows(c, r, h, w) /\ q = FromInit1(c, r) /\ v = Append(w, s) /\ IsStruct(s)
    BY <1>2
  <2> QED BY <2>1, GrowsFacts, AppendFacts, FromAreSeqs
<1> QED BY <1>1, <1>2 DEF Inner

LEMMA RangesFacts ==
    ASSUME NEW n, NEW q, NEW h, NEW v, Ranges(n, q, h, v)
    PROVE  /\ IsSeq(q) /\ IsSeq(v) /\ h \subseteq (Size \ {C16}) \union {PT}
           /\ n \in {1, FbPages}
<1>1. CASE n = FbPages /\ q = Cons(<<"sections">>, <<>>) /\ h = {} /\ v = <<>>
  BY <1>1, EmptyIsSeq, ConsFacts
<1>2. CASE n = 1 /\ \E r : Inner(r, h, v) /\ q = FromPm(r)
  BY <1>2, InnerFacts, FromAreSeqs
<1> QED BY <1>1, <1>2 DEF Ranges

LEMMA LockNumbers ==
    /\ C16 \in Size /\ PT \notin Size /\ VM \notin Size \union {PT} /\ RAM \notin Size \union {PT, VM}
    /\ WHOLE \notin Size \union {PT}
    /\ Mutexes = Size \union {PT, VM, RAM}
  BY SlubConstants DEF C16, PT, VM, RAM, Size, Mutexes, WHOLE

-----------------------------------------------------------------------------
(* From one step to the next.                                              *)

LEMMA ShapeOf ==
    ASSUME NEW x, NEW r, NEW h, NEW v, IsSeq(r), IsSeq(v), At(x, r, h, v)
    PROVE  Shape(Cons(x, r), h, v)
  BY DEF Shape

LEMMA ShapeHas ==
    ASSUME NEW td, NEW h, NEW v, Shape(td, h, v), td # <<>>
    PROVE  /\ IsSeq(v) /\ IsSeq(Tail(td)) /\ At(Head(td), Tail(td), h, v)
           /\ td = Cons(Head(td), Tail(td))
<1>1. PICK x, r : IsSeq(r) /\ td = Cons(x, r) /\ At(x, r, h, v)
  BY DEF Shape
<1>2. Head(td) = x /\ Tail(td) = r
  BY <1>1, ConsFacts
<1> QED BY <1>1, <1>2 DEF Shape

LEMMA FindNext ==
    ASSUME NEW n, NEW r, NEW h, NEW v, NEW p, AtFind(n, r, h, v), IsPage(p)
    PROVE  Shape(r, h \union {VM}, Append(v, p)) /\ VM \notin h
<1>1. PICK q : Ranges(n, q, h, v) /\ r = FromSegAlloc(n, q)
  BY DEF AtFind
<1>2. IsSeq(q) /\ IsSeq(v) /\ h \subseteq (Size \ {C16}) \union {PT}
  BY <1>1, RangesFacts
<1>3. IsSeq(FromSeg(n, q)) /\ IsSeq(Append(v, p))
  BY <1>2, FromAreSeqs, AppendFacts
<1>4. AtAlloc(C16, FromSeg(n, q), h \union {VM}, Append(v, p))
  BY <1>1 DEF AtAlloc
<1>5. At(<<"alloc", C16>>, FromSeg(n, q), h \union {VM}, Append(v, p))
  BY <1>4 DEF At
<1> QED BY <1>1, <1>2, <1>3, <1>5, ShapeOf, LockNumbers DEF FromSegAlloc

LEMMA SegNext ==
    ASSUME NEW n, NEW r, NEW h, NEW v, AtSeg(n, r, h, v)
    PROVE  Shape(r, h, SubSeq(v, 1, Len(v) - 1))
<1>1. PICK q, g, w, p, s : /\ Ranges(n, q, g, w) /\ r = FromUnlock(q)
                           /\ h = g \union {VM} /\ v = Append(Append(w, p), s) /\ IsPage(p) /\ IsStruct(s)
  BY DEF AtSeg
<1>2. IsSeq(q) /\ IsSeq(w)
  BY <1>1, RangesFacts
<1>3. IsSeq(Append(w, p)) /\ SubSeq(v, 1, Len(v) - 1) = Append(w, p)
  BY <1>1, <1>2, AppendFacts
<1>4. AtUnlock(VM, q, h, Append(w, p))
  BY <1>1 DEF AtUnlock
<1>5. At(<<"unlock", VM>>, q, h, Append(w, p))
  BY <1>4 DEF At
<1> QED BY <1>1, <1>2, <1>3, <1>5, ShapeOf DEF FromUnlock

LEMMA UnlockNext ==
    ASSUME NEW m, NEW r, NEW h, NEW v, AtUnlock(m, r, h, v)
    PROVE  m = VM /\ VM \in h /\ Shape(r, h \ {m}, v)
<1>1. PICK n, g, w, p : m = VM /\ Ranges(n, r, g, w) /\ h = g \union {VM} /\ v = Append(w, p) /\ IsPage(p)
  BY DEF AtUnlock
<1>2. IsSeq(r) /\ IsSeq(w) /\ g \subseteq (Size \ {C16}) \union {PT}
  BY <1>1, RangesFacts
<1>3. IsSeq(v) /\ h \ {VM} = g
  BY <1>1, <1>2, AppendFacts, LockNumbers
<1>4. CASE n = FbPages /\ r = Cons(<<"sections">>, <<>>) /\ g = {} /\ w = <<>>
  <2>1. AtSections(<<>>, g, v)
    BY <1>1, <1>4 DEF AtSections
  <2>2. At(<<"sections">>, <<>>, g, v)
    BY <2>1 DEF At
  <2> QED BY <1>1, <1>3, <1>4, <2>2, ShapeOf, EmptyIsSeq
<1>5. CASE \E s : Inner(s, g, w) /\ r = FromPm(s)
  <2>1. PICK s : Inner(s, g, w) /\ r = FromPm(s)
    BY <1>5
  <2>2. IsSeq(FromRam(s))
    BY <2>1, InnerFacts, FromAreSeqs
  <2>3. AtPm(FromRam(s), g, v)
    BY <1>1, <2>1 DEF AtPm
  <2>4. At(<<"pm">>, FromRam(s), g, v)
    BY <2>3 DEF At
  <2> QED BY <1>1, <1>3, <2>1, <2>2, <2>4, ShapeOf DEF FromPm
<1> QED BY <1>1, <1>4, <1>5 DEF Ranges

LEMMA PmNext ==
    ASSUME NEW r, NEW h, NEW v, AtPm(r, h, v)
    PROVE  Shape(r, h \union {RAM}, v) /\ RAM \notin h
<1>1. PICK q, w, p : Inner(q, h, w) /\ r = FromRam(q) /\ v = Append(w, p) /\ IsPage(p)
  BY DEF AtPm
<1>2. IsSeq(q) /\ IsSeq(w) /\ h \subseteq (Size \ {C16}) \union {PT}
  BY <1>1, InnerFacts
<1>3. IsSeq(FromMap(q)) /\ IsSeq(v)
  BY <1>1, <1>2, FromAreSeqs, AppendFacts
<1>4. AtRam(FromMap(q), h \union {RAM}, v)
  BY <1>1 DEF AtRam
<1>5. At(<<"ram">>, FromMap(q), h \union {RAM}, v)
  BY <1>4 DEF At
<1> QED BY <1>1, <1>2, <1>3, <1>5, ShapeOf, LockNumbers DEF FromRam

LEMMA RamNext ==
    ASSUME NEW r, NEW h, NEW v, NEW f, AtRam(r, h, v), IsFrame(f)
    PROVE  Shape(r, h \ {RAM}, Append(v, f)) /\ RAM \in h
<1>1. PICK q, g, w, p : Inner(q, g, w) /\ r = FromMap(q) /\ h = g \union {RAM} /\ v = Append(w, p) /\ IsPage(p)
  BY DEF AtRam
<1>2. IsSeq(q) /\ IsSeq(w) /\ g \subseteq (Size \ {C16}) \union {PT}
  BY <1>1, InnerFacts
<1>3. IsSeq(FromWhole(q)) /\ IsSeq(v) /\ IsSeq(Append(v, f)) /\ h \ {RAM} = g
  BY <1>1, <1>2, FromAreSeqs, AppendFacts, LockNumbers
<1>4. AtMap(FromWhole(q), g, Append(v, f))
  BY <1>1 DEF AtMap, Mapping
<1>5. At(<<"map">>, FromWhole(q), g, Append(v, f))
  BY <1>4 DEF At
<1> QED BY <1>1, <1>3, <1>5, ShapeOf DEF FromMap

\* The page is mapped, ...
LEMMA WholeNext ==
    ASSUME NEW q, NEW h, NEW w, NEW p, NEW f, Inner(q, h, w), Mapping(p, f)
    PROVE  Shape(FromWhole(q), h, Append(Append(w, p), f))
<1>1. IsSeq(q) /\ IsSeq(w)
  BY InnerFacts
<1>2. IsSeq(FromTrack(q)) /\ IsSeq(Append(w, p)) /\ IsSeq(Append(Append(w, p), f))
  BY <1>1, FromAreSeqs, AppendFacts
<1>3. AtAlloc(C16, FromTrack(q), h, Append(Append(w, p), f))
  BY DEF AtAlloc
<1>4. At(<<"alloc", C16>>, FromTrack(q), h, Append(Append(w, p), f))
  BY <1>3 DEF At
<1> QED BY <1>2, <1>4, ShapeOf DEF FromWhole

LEMMA MapNext ==
    ASSUME NEW r, NEW h, NEW v, AtMap(r, h, v)
    PROVE  Shape(r, h, v)
<1>1. PICK q, w, p, f : Inner(q, h, w) /\ r = FromWhole(q) /\ v = Append(Append(w, p), f) /\ Mapping(p, f)
  BY DEF AtMap
<1> QED BY <1>1, WholeNext

\* ... or needs a page table.  Within a refill of page tables the list is
\* locked: the thread waits for itself.
LEMMA MapNeedsTable ==
    ASSUME NEW r, NEW h, NEW v, AtMap(r, h, v), Pde(v[Len(v) - 1][1]) # Pde(NVa - 1)
    PROVE  Shape(Cons(<<"alloc", PT>>, Cons(<<"install">>, r)), h, v)
<1>1. PICK q, w, p, f : Inner(q, h, w) /\ r = FromWhole(q) /\ v = Append(Append(w, p), f) /\ Mapping(p, f)
  BY DEF AtMap
<1>2. IsSeq(q) /\ IsSeq(w)
  BY <1>1, InnerFacts
<1>3. IsSeq(FromInstall(q)) /\ IsSeq(v) /\ Cons(<<"install">>, r) = FromInstall(q)
  BY <1>1, <1>2, FromAreSeqs, AppendFacts DEF FromInstall
<1>4. Outer(q, h, w) \/ PT \in h
  BY <1>1 DEF Inner, Outer, Grows, GrowsPt
<1>5. AtAlloc(PT, FromInstall(q), h, v)
  <2>1. IsSeq(Append(w, p))
    BY <1>2, AppendFacts
  <2>2. v[Len(v) - 1] = p
    <3>1. /\ Len(Append(w, p)) \in Nat /\ Len(v) = Len(Append(w, p)) + 1
          /\ v[Len(Append(w, p))] = Append(w, p)[Len(Append(w, p))]
          /\ Append(w, p)[Len(Append(w, p))] = p
      BY <1>1, <1>2, <2>1, AppendFacts
    <3>2. Len(v) - 1 = Len(Append(w, p))
      BY <3>1
    <3> QED BY <3>1, <3>2
  <2>3. NewTable(p, f)
    BY <1>1, <2>2 DEF Mapping, NewTable
  <2> QED BY <1>1, <1>4, <2>3 DEF AtAlloc
<1>6. At(<<"alloc", PT>>, FromInstall(q), h, v)
  BY <1>5 DEF At
<1> QED BY <1>3, <1>6, ShapeOf

LEMMA OuterIsInner ==
    ASSUME NEW q, NEW h, NEW v, Outer(q, h, v)
    PROVE  Inner(q, h, v)
  BY DEF Outer, Inner, Grows

LEMMA InstallNext ==
    ASSUME NEW r, NEW h, NEW v, AtInstall(r, h, v)
    PROVE  Shape(r, h, SubSeq(v, 1, Len(v) - 1))
<1>1. PICK q, w, p, f, o : /\ Outer(q, h, w) /\ r = FromWhole(q)
                           /\ NewTable(p, f) /\ IsPtObj(o)
                           /\ v = Append(Append(Append(w, p), f), o)
  BY DEF AtInstall
<1>2. IsSeq(Append(Append(w, p), f))
  BY <1>1, OuterFacts, AppendFacts
<1>3. SubSeq(v, 1, Len(v) - 1) = Append(Append(w, p), f)
  BY <1>1, <1>2, AppendFacts
<1> QED BY <1>1, <1>3, OuterIsInner, WholeNext DEF NewTable, Mapping

\* Two results less.
LEMMA PopTwo ==
    ASSUME NEW v, NEW a, NEW b, IsSeq(v)
    PROVE  LET w == Append(Append(v, a), b) IN SubSeq(w, 1, Len(w) - 2) = v
<1> DEFINE u == Append(v, a)
           w == Append(u, b)
<1>1. PICK S : v \in Seq(S)
  BY DEF IsSeq
<1> DEFINE T == S \union {a, b}
<1>2. v \in Seq(T) /\ a \in T /\ b \in T
  BY <1>1
<1> HIDE DEF T
<1>3. u \in Seq(T) /\ w \in Seq(T) /\ Len(w) = Len(v) + 2 /\ Len(v) \in Nat
  BY <1>2
<1>4. \A i \in 1 .. Len(v) : w[i] = v[i]
  BY <1>2
<1> HIDE DEF u, w
<1>5. SubSeq(w, 1, Len(v)) \in Seq(T) /\ Len(SubSeq(w, 1, Len(v))) = Len(v)
  BY <1>3
<1>6. \A i \in 1 .. Len(v) : SubSeq(w, 1, Len(v))[i] = v[i]
  BY <1>3, <1>4
<1>7. SubSeq(w, 1, Len(v)) = v
  BY <1>2, <1>5, <1>6, SeqEqual
<1>8. Len(w) - 2 = Len(v)
  BY <1>3
<1> QED BY <1>7, <1>8 DEF u, w

\* What a caller gets, and what a refill goes on with.
LEMMA TrackNext ==
    ASSUME NEW r, NEW h, NEW v, AtTrack(r, h, v)
    PROVE  Shape(r, h, SubSeq(v, 1, Len(v) - 2))
<1>1. PICK w, p, f, o : Inner(r, h, w) /\ v = Append(Append(Append(w, p), f), o) /\ Mapping(p, f) /\ IsStruct(o)
  BY DEF AtTrack
<1>2. IsSeq(w) /\ IsSeq(Append(w, p)) /\ SubSeq(v, 1, Len(v) - 2) = Append(w, p)
  BY <1>1, InnerFacts, AppendFacts, PopTwo
<1>3. CASE Whole(r, h, w)
  <2>1. AtGive(WHOLE, <<>>, h, Append(w, p))
    BY <1>1, <1>3 DEF Whole, AtGive, Mapping
  <2>2. At(<<"give", WHOLE>>, <<>>, h, Append(w, p))
    BY <2>1 DEF At
  <2> QED BY <1>2, <1>3, <2>2, ShapeOf, EmptyIsSeq DEF Whole
<1>4. CASE \E c, q, u, s : Grows(c, q, h, u) /\ r = FromInit1(c, q) /\ w = Append(u, s) /\ IsStruct(s)
  <2>1. PICK c, q, u, s : Grows(c, q, h, u) /\ r = FromInit1(c, q) /\ w = Append(u, s) /\ IsStruct(s)
    BY <1>4
  <2>2. AtInit1(c, q, h, Append(w, p))
    BY <1>1, <2>1 DEF AtInit1, Mapping
  <2>3. At(<<"init1", c>>, q, h, Append(w, p))
    BY <2>2 DEF At
  <2>4. IsSeq(q)
    BY <2>1, GrowsFacts
  <2> QED BY <1>2, <2>1, <2>3, <2>4, ShapeOf DEF FromInit1
<1> QED BY <1>1, <1>3, <1>4 DEF Inner

LEMMA Init1Next ==
    ASSUME NEW c, NEW r, NEW h, NEW v, AtInit1(c, r, h, v)
    PROVE  /\ Shape(r, h, SubSeq(v, 1, Len(v) - 2)) /\ c \in h
           /\ r # <<>> /\ Head(r) = <<"take", c>>
<1>1. PICK w, s, p : Grows(c, r, h, w) /\ v = Append(Append(w, s), p) /\ IsStruct(s) /\ IsPage(p)
  BY DEF AtInit1
<1>2. IsSeq(r) /\ IsSeq(w) /\ c \in h
  BY <1>1, GrowsFacts
<1>3. SubSeq(v, 1, Len(v) - 2) = w
  BY <1>1, <1>2, PopTwo
<1>4. \E q : IsSeq(q) /\ r = Cons(<<"take", c>>, q)
  <2>1. CASE GrowsList(c, r, h, w)
    BY <2>1, ConsFacts, EmptyIsSeq DEF GrowsList
  <2>2. CASE c = PT /\ GrowsPt(r, h, w)
    BY <2>2, OuterFacts, FromAreSeqs DEF GrowsPt
  <2> QED BY <1>1, <2>1, <2>2 DEF Grows
<1>5. PICK q : IsSeq(q) /\ r = Cons(<<"take", c>>, q)
  BY <1>4
<1>6. At(<<"take", c>>, q, h, w)
  BY <1>1, <1>5 DEF At, AtTake
<1> QED BY <1>2, <1>3, <1>5, <1>6, ShapeOf, ConsFacts

LEMMA TakeNext ==
    ASSUME NEW c, NEW r, NEW h, NEW v, NEW o, AtTake(c, r, h, v), IsSeq(r), Yields(c, o)
    PROVE  Shape(r, h \ {c}, Append(v, o)) /\ c \in h /\ c # C16
<1>1. Grows(c, Cons(<<"take", c>>, r), h, v)
  BY DEF AtTake
<1>2. IsSeq(v) /\ IsSeq(Append(v, o)) /\ c \in h /\ c # C16
  BY <1>1, GrowsFacts, AppendFacts, LockNumbers
<1>3. CASE GrowsList(c, Cons(<<"take", c>>, r), h, v)
  <2>1. r = Cons(<<"give", c>>, <<>>)
    BY <1>3, ConsFacts, EmptyIsSeq DEF GrowsList
  <2>2. AtGive(c, <<>>, h \ {c}, Append(v, o))
    BY <1>3, LockNumbers DEF GrowsList, AtGive, Yields
  <2>3. At(<<"give", c>>, <<>>, h \ {c}, Append(v, o))
    BY <2>2 DEF At
  <2> QED BY <1>2, <2>1, <2>3, ShapeOf, EmptyIsSeq
<1>4. CASE c = PT /\ GrowsPt(Cons(<<"take", c>>, r), h, v)
  <2>1. PICK q, g, w, p, f : /\ Outer(q, g, w) /\ h = g \union {PT}
                             /\ v = Append(Append(w, p), f) /\ NewTable(p, f)
                             /\ Cons(<<"take", c>>, r) = Cons(<<"take", PT>>, FromInstall(q))
    BY <1>4 DEF GrowsPt
  <2>2. IsSeq(FromInstall(q)) /\ IsSeq(FromWhole(q)) /\ g \subseteq Size \ {C16}
    BY <2>1, OuterFacts, FromAreSeqs
  <2>3. r = FromInstall(q) /\ h \ {c} = g
    BY <1>4, <2>1, <2>2, ConsFacts, LockNumbers, ZenonT(60)
  <2>4. AtInstall(FromWhole(q), g, Append(v, o))
    BY <2>1 DEF AtInstall, Yields
  <2>5. At(<<"install">>, FromWhole(q), g, Append(v, o))
    BY <2>4 DEF At
  <2> QED BY <1>2, <2>2, <2>3, <2>5, ShapeOf DEF FromInstall
<1> QED BY <1>1, <1>2, <1>3, <1>4 DEF Grows

\* An object is there.
LEMMA AllocNext ==
    ASSUME NEW c, NEW r, NEW h, NEW v, NEW o,
           AtAlloc(c, r, h, v), c \notin h, IsSeq(r), IsSeq(v), Yields(c, o)
    PROVE  Shape(r, h, Append(v, o))
<1>1. IsSeq(Append(v, o))
  BY AppendFacts
<1>2. CASE c \in Size /\ r = Cons(<<"give", c>>, <<>>) /\ h = {} /\ v = <<>>
  <2>1. AtGive(c, <<>>, h, Append(v, o))
    BY <1>2, LockNumbers DEF AtGive, Yields
  <2>2. At(<<"give", c>>, <<>>, h, Append(v, o))
    BY <2>1 DEF At
  <2> QED BY <1>1, <1>2, <2>2, ShapeOf, EmptyIsSeq
<1>3. CASE c = C16 /\ \E d, q : Grows(d, q, h, v) /\ r = FromFind(1, FromPm(FromInit1(d, q)))
  <2>1. PICK d, q : Grows(d, q, h, v) /\ r = FromFind(1, FromPm(FromInit1(d, q)))
    BY <1>3
  <2> DEFINE s == FromPm(FromInit1(d, q))
  <2>2. IsSeq(s) /\ IsSeq(FromSegAlloc(1, s))
    BY <2>1, GrowsFacts, FromAreSeqs
  <2>3. Inner(FromInit1(d, q), h, Append(v, o))
    BY <1>3, <2>1 DEF Inner, Yields
  <2>4. Ranges(1, s, h, Append(v, o))
    BY <2>3 DEF Ranges
  <2>5. AtFind(1, FromSegAlloc(1, s), h, Append(v, o))
    BY <2>4 DEF AtFind
  <2> HIDE DEF s
  <2>6. At(<<"find", 1>>, FromSegAlloc(1, s), h, Append(v, o))
    BY <2>5 DEF At
  <2>7. r = Cons(<<"find", 1>>, FromSegAlloc(1, s))
    BY <2>1 DEF s, FromFind
  <2> QED BY <1>1, <2>2, <2>6, <2>7, ShapeOf
<1>4. CASE /\ c = C16
           /\ \E n, q, g, w, p : /\ Ranges(n, q, g, w) /\ r = FromSeg(n, q)
                                 /\ h = g \union {VM} /\ v = Append(w, p) /\ IsPage(p)
  <2>1. PICK n, q, g, w, p : /\ Ranges(n, q, g, w) /\ r = FromSeg(n, q)
                             /\ h = g \union {VM} /\ v = Append(w, p) /\ IsPage(p)
    BY <1>4
  <2>2. IsSeq(FromUnlock(q))
    BY <2>1, RangesFacts, FromAreSeqs
  <2>3. AtSeg(n, FromUnlock(q), h, Append(v, o))
    BY <1>4, <2>1 DEF AtSeg, Yields
  <2>4. At(<<"seg", n>>, FromUnlock(q), h, Append(v, o))
    BY <2>3 DEF At
  <2> QED BY <1>1, <2>1, <2>2, <2>4, ShapeOf DEF FromSeg
<1>5. CASE /\ c = C16
           /\ \E q, w, p, f : /\ Inner(q, h, w) /\ r = FromTrack(q)
                              /\ v = Append(Append(w, p), f) /\ Mapping(p, f)
  <2>1. PICK q, w, p, f : /\ Inner(q, h, w) /\ r = FromTrack(q)
                          /\ v = Append(Append(w, p), f) /\ Mapping(p, f)
    BY <1>5
  <2>2. IsSeq(q)
    BY <2>1, InnerFacts
  <2>3. AtTrack(q, h, Append(v, o))
    BY <1>5, <2>1 DEF AtTrack, Yields
  <2>4. At(<<"track">>, q, h, Append(v, o))
    BY <2>3 DEF At
  <2> QED BY <1>1, <2>1, <2>2, <2>4, ShapeOf DEF FromTrack
<1>6. CASE /\ c = PT
           /\ \E q, w, p, f : /\ Outer(q, h, w) /\ r = FromInstall(q)
                              /\ v = Append(Append(w, p), f) /\ NewTable(p, f)
  <2>1. PICK q, w, p, f : /\ Outer(q, h, w) /\ r = FromInstall(q)
                          /\ v = Append(Append(w, p), f) /\ NewTable(p, f)
    BY <1>6
  <2>2. IsSeq(FromWhole(q))
    BY <2>1, OuterFacts, FromAreSeqs
  <2>3. AtInstall(FromWhole(q), h, Append(v, o))
    BY <1>6, <2>1 DEF AtInstall, Yields
  <2>4. At(<<"install">>, FromWhole(q), h, Append(v, o))
    BY <2>3 DEF At
  <2> QED BY <1>1, <2>1, <2>2, <2>4, ShapeOf DEF FromInstall
<1> QED BY <1>2, <1>3, <1>4, <1>5, <1>6 DEF AtAlloc

\* A refill, under the lock of the list.
LEMMA GrowNext ==
    ASSUME NEW c, NEW r, NEW h, NEW v,
           AtAlloc(c, r, h, v), c \notin h, c # C16, IsSeq(r), IsSeq(v)
    PROVE  Shape(FromRefill(c, Cons(<<"take", c>>, r)), h \union {c}, v)
<1> DEFINE s == Cons(<<"take", c>>, r)
<1>1. IsSeq(s) /\ IsSeq(FromFind(1, FromPm(FromInit1(c, s))))
  BY ConsFacts, FromAreSeqs
<1>2. Grows(c, s, h \union {c}, v)
  <2>1. CASE c \in Size /\ r = Cons(<<"give", c>>, <<>>) /\ h = {} /\ v = <<>>
    BY <2>1 DEF Grows, GrowsList
  <2>2. CASE c = PT /\ \E q, w, p, f : /\ Outer(q, h, w) /\ r = FromInstall(q)
                                       /\ v = Append(Append(w, p), f) /\ NewTable(p, f)
    BY <2>2 DEF Grows, GrowsPt
  <2> QED BY <2>1, <2>2 DEF AtAlloc
<1> HIDE DEF s
<1>3. AtAlloc(C16, FromFind(1, FromPm(FromInit1(c, s))), h \union {c}, v)
  BY <1>2 DEF AtAlloc
<1>4. At(<<"alloc", C16>>, FromFind(1, FromPm(FromInit1(c, s))), h \union {c}, v)
  BY <1>3 DEF At
<1>5. Shape(FromRefill(c, s), h \union {c}, v)
  BY <1>1, <1>4, ShapeOf DEF FromRefill
<1> QED BY <1>5 DEF s

\* A refill of the list that it needs an object of.
LEMMA StuckNext ==
    ASSUME NEW r, NEW h, NEW v, IsSeq(r), IsSeq(v)
    PROVE  LET td == FromRefill(C16, Cons(<<"unlock", C16>>, r)) IN
           /\ Shape(td, h \union {C16}, v)
           /\ td # <<>> /\ Head(td) = <<"alloc", C16>>
<1> DEFINE s == FromFind(1, FromPm(FromInit1(C16, Cons(<<"unlock", C16>>, r))))
<1>1. IsSeq(s)
  BY ConsFacts, FromAreSeqs
<1>2. FromRefill(C16, Cons(<<"unlock", C16>>, r)) = Cons(<<"alloc", C16>>, s)
  BY DEF FromRefill
<1> HIDE DEF s
<1>3. At(<<"alloc", C16>>, s, h \union {C16}, v)
  BY DEF At, AtAlloc
<1>4. Shape(Cons(<<"alloc", C16>>, s), h \union {C16}, v)
  BY <1>1, <1>3, ShapeOf
<1>5. Cons(<<"alloc", C16>>, s) # <<>> /\ Head(Cons(<<"alloc", C16>>, s)) = <<"alloc", C16>>
  BY <1>1, ConsFacts
<1> QED BY <1>2, <1>4, <1>5

LEMMA IdleShape == Shape(<<>>, {}, <<>>)
  BY EmptyIsSeq DEF Shape

LEMMA PopOnly == ASSUME NEW o PROVE SubSeq(Append(<<>>, o), 1, Len(Append(<<>>, o)) - 1) = <<>>
  BY AppendFacts, EmptyIsSeq

LEMMA GiveNext ==
    ASSUME NEW c, NEW r, NEW h, NEW v, AtGive(c, r, h, v)
    PROVE  Shape(r, h, SubSeq(v, 1, Len(v) - 1))
  BY PopOnly, IdleShape DEF AtGive

LEMMA SectionsNext ==
    ASSUME NEW r, NEW h, NEW v, AtSections(r, h, v)
    PROVE  Shape(r, h, SubSeq(v, 1, Len(v) - 1))
  BY PopOnly, IdleShape DEF AtSections

LEMMA PutNext ==
    ASSUME NEW s, NEW r, NEW h, NEW v, AtPut(s, r, h, v)
    PROVE  Shape(r, h, SubSeq(v, 1, Len(v) - 1))
  BY PopOnly, IdleShape DEF AtPut

\* The calls of callers.
LEMMA OneForm == ASSUME NEW x PROVE <<x>> = Cons(x, <<>>) /\ <<x>> = Append(<<>>, x)
<1>1. <<x>> \in Seq({x})
  OBVIOUS
<1>2. <<x>> \o <<>> = <<x>>
  BY <1>1, ConcatEmptySeq
<1> QED BY <1>2 DEF Cons

LEMMA KmallocShape ==
    ASSUME NEW c \in Size \union {WHOLE}
    PROVE  Shape(Kmalloc(c) \o << <<"give", c>> >>, {}, <<>>)
<1> DEFINE g == Cons(<<"give", c>>, <<>>)
<1>1. << <<"give", c>> >> = g /\ IsSeq(g) /\ IsSeq(<<>>)
  BY OneForm, ConsFacts, EmptyIsSeq
<1> HIDE DEF g
<1>2. CASE c = WHOLE
  <2>1. Whole(g, {}, <<>>)
    BY <1>2 DEF Whole, g
  <2>2. Inner(g, {}, <<>>)
    BY <2>1 DEF Inner
  <2>3. Ranges(1, FromPm(g), {}, <<>>)
    BY <2>2 DEF Ranges
  <2>4. IsSeq(FromPm(g)) /\ IsSeq(FromSegAlloc(1, FromPm(g)))
    BY <1>1, FromAreSeqs
  <2>5. AtFind(1, FromSegAlloc(1, FromPm(g)), {}, <<>>)
    BY <2>3 DEF AtFind
  <2>6. At(<<"find", 1>>, FromSegAlloc(1, FromPm(g)), {}, <<>>)
    BY <2>5 DEF At
  <2>7. Shape(FromFind(1, FromPm(g)), {}, <<>>)
    BY <1>1, <2>4, <2>6, ShapeOf DEF FromFind
  <2>8. Kmalloc(c) = Page
    BY <1>2 DEF Kmalloc
  <2> QED BY <1>1, <2>7, <2>8, PageForm
<1>3. CASE c # WHOLE
  <2>1. Kmalloc(c) \o g = Cons(<<"alloc", c>>, g)
    BY <1>3 DEF Kmalloc, Cons
  <2>2. AtAlloc(c, g, {}, <<>>)
    BY <1>3 DEF AtAlloc, g
  <2>3. At(<<"alloc", c>>, g, {}, <<>>)
    BY <2>2 DEF At
  <2> QED BY <1>1, <2>1, <2>3, ShapeOf
<1> QED BY <1>2, <1>3

LEMMA FbShape == Shape(VmAlloc(FbPages) \o << <<"sections">> >>, {}, <<>>)
<1> DEFINE g == Cons(<<"sections">>, <<>>)
<1>1. << <<"sections">> >> = g /\ IsSeq(g) /\ IsSeq(<<>>)
  BY OneForm, ConsFacts, EmptyIsSeq
<1>2. Ranges(FbPages, g, {}, <<>>)
  BY DEF Ranges
<1> HIDE DEF g
<1>3. AtFind(FbPages, FromSegAlloc(FbPages, g), {}, <<>>)
  BY <1>2 DEF AtFind
<1>4. At(<<"find", FbPages>>, FromSegAlloc(FbPages, g), {}, <<>>)
  BY <1>3 DEF At
<1>5. Shape(FromFind(FbPages, g), {}, <<>>)
  BY <1>1, <1>4, FromAreSeqs, ShapeOf DEF FromFind
<1> QED BY <1>1, <1>5, VmAllocForm

LEMMA FreeShape ==
    ASSUME NEW p, NEW s, PutsTo(s, p)
    PROVE  Shape(<< <<"put", s>> >>, {}, <<p>>)
<1> DEFINE x == <<"put", s>>
           v == Append(<<>>, p)
<1>1. At(x, <<>>, {}, v)
  BY DEF At, AtPut
<1>2. IsSeq(v) /\ IsSeq(<<>>)
  BY AppendFacts, EmptyIsSeq
<1> HIDE DEF x
<1>3. <<x>> = Cons(x, <<>>) /\ <<p>> = v
  BY OneForm
<1> HIDE DEF v
<1>4. Shape(Cons(x, <<>>), {}, v)
  BY <1>1, <1>2, ShapeOf
<1> QED BY <1>3, <1>4 DEF x

-----------------------------------------------------------------------------
(* The invariant of the locks.                                             *)

HeldBy(t) == {m \in Mutexes : owner[m] = t}
HeadOp(t) == Head(todo[t])[1]

\* What a thread has to do says what it holds and keeps.
Kept ==
    /\ todo = [t \in Thread |-> todo[t]] /\ vals = [t \in Thread |-> vals[t]]
    /\ owner = [m \in Mutexes |-> owner[m]]
    /\ \A t \in Thread : Shape(todo[t], HeldBy(t), vals[t])
ListsTyped ==
    /\ lists = [c \in Size \union {PT} |-> lists[c]]
    /\ \A c \in Size \union {PT} : lists[c] = [l \in {"free", "part", "busy"} |-> lists[c][l]]
\* Who holds the 16-byte objects refills them, at the low water mark.
C16Held == \A t \in Thread : owner[C16] = t =>
               /\ todo[t] # <<>> /\ Head(todo[t]) = <<"alloc", C16>>
               /\ slub_16byte_free = LowWater
\* Who holds the page tables refills them, as there are none.
PtHeld == \A t \in Thread : owner[PT] = t => Empty(PT) \/ HeadOp(t) = "take"

LockInv == Kept /\ ListsTyped /\ C16Held /\ PtHeld

\* What the steps find in the heap: an object of the right kind on a list, room for a
\* page table only beside that of boot, and the slab of boot of a freed object.
FirstObject(c) == <<slabs[FirstSlab(c)].page, Head(slabs[FirstSlab(c)].chain)>>
FreeFinds(p) == Refuses(p) = "no" /\ WHOLE \notin Entry(p).lsize => PutsTo(Entry(p).va, p)
Sound ==
    /\ \A c \in Size \union {PT} : ~ Empty(c) => Yields(c, FirstObject(c))
    /\ \A t \in Thread : todo[t] # <<>> /\ HeadOp(t) = "take" => ~ Empty(Arg(t))
    /\ pd[Pde(NVa - 1)] # NoPt /\ ram \subseteq 1 .. NRam
    /\ \A o \in live : o[2] # WHOLE => FreeFinds(o[1])

\* Thread t goes on with td, holding h and keeping v.
Moves(t, td, h, v) ==
    /\ todo' = [todo EXCEPT ![t] = td] /\ vals' = [vals EXCEPT ![t] = v]
    /\ owner' = [m \in Mutexes |-> owner'[m]]
    /\ HeldBy(t)' = h /\ \A u \in Thread \ {t} : HeldBy(u)' = HeldBy(u)

LEMMA MovesKept ==
    ASSUME Kept, NEW t \in Thread, NEW td, NEW h, NEW v, Moves(t, td, h, v), Shape(td, h, v)
    PROVE  Kept'
<1>1. todo' = [u \in Thread |-> todo'[u]] /\ vals' = [u \in Thread |-> vals'[u]]
  BY DEF Kept, Moves
<1>2. ASSUME NEW u \in Thread PROVE Shape(todo'[u], HeldBy(u)', vals'[u])
  <2>1. CASE u = t
    BY <2>1 DEF Kept, Moves
  <2>2. CASE u # t
    <3>1. todo'[u] = todo[u] /\ vals'[u] = vals[u] /\ HeldBy(u)' = HeldBy(u)
      BY <2>2 DEF Kept, Moves
    <3> QED BY <3>1 DEF Kept
  <2> QED BY <2>1, <2>2
<1> QED BY <1>1, <1>2 DEF Kept, Moves

\* A lock taken, given back, or left alone.
LEMMA Locks ==
    ASSUME Kept, NEW t \in Thread, NEW m \in Mutexes, owner[m] = NoThread,
           owner' = [owner EXCEPT ![m] = t]
    PROVE  /\ owner' = [n \in Mutexes |-> owner'[n]]
           /\ HeldBy(t)' = HeldBy(t) \union {m}
           /\ \A u \in Thread \ {t} : HeldBy(u)' = HeldBy(u)
<1>1. owner' = [n \in Mutexes |-> IF n = m THEN t ELSE owner[n]]
  BY DEF Kept
<1> QED BY <1>1, SlubConstants, ZenonT(60) DEF HeldBy

LEMMA Unlocks ==
    ASSUME Kept, NEW t \in Thread, NEW m, owner[m] = t \/ owner[m] = NoThread,
           owner' = [owner EXCEPT ![m] = NoThread]
    PROVE  /\ owner' = [n \in Mutexes |-> owner'[n]]
           /\ HeldBy(t)' = HeldBy(t) \ {m}
           /\ \A u \in Thread \ {t} : HeldBy(u)' = HeldBy(u)
<1>1. owner' = [n \in Mutexes |-> IF n = m THEN NoThread ELSE owner[n]]
  BY DEF Kept
<1>2. NoThread \notin Thread
  BY SlubConstants
<1>3. \A n \in Mutexes, u \in Thread : owner'[n] = u <=> owner[n] = u /\ n # m
  BY <1>1, <1>2
<1>4. \A u \in Thread \ {t} : owner[m] # u
  BY <1>2
<1>5. HeldBy(t)' = HeldBy(t) \ {m}
  BY <1>3 DEF HeldBy
<1>6. \A u \in Thread \ {t} : HeldBy(u)' = HeldBy(u)
  BY <1>3, <1>4 DEF HeldBy
<1> QED BY <1>1, <1>5, <1>6

LEMMA NoLocks ==
    ASSUME Kept, NEW t, UNCHANGED owner
    PROVE  /\ owner' = [n \in Mutexes |-> owner'[n]]
           /\ \A u : HeldBy(u)' = HeldBy(u)
  BY DEF Kept, HeldBy

\* A step that touches no list of slabs.
LEMMA QuietKeeps ==
    ASSUME LockInv, NEW t \in Thread, NEW td, NEW h, NEW v, Moves(t, td, h, v),
           Shape(td, h, v), UNCHANGED <<lists, slub_16byte_free>>,
           h \subseteq HeldBy(t) \union {VM, RAM}, C16 \notin HeldBy(t),
           HeldBy(t) = {} \/ HeadOp(t) # "take"
    PROVE  LockInv'
<1>1. Kept'
  BY MovesKept DEF LockInv
<1>2. ListsTyped'
  BY DEF LockInv, ListsTyped
<1>3. \A u \in Thread \ {t} : todo'[u] = todo[u]
  BY DEF Moves, LockInv, Kept
<1>4. /\ \A m \in Mutexes, u \in Thread \ {t} : owner'[m] = u <=> owner[m] = u
      /\ \A m \in Mutexes : owner'[m] = t => m \in h
  BY DEF Moves, HeldBy
<1>5. C16 \in Mutexes /\ PT \in Mutexes /\ C16 \notin {VM, RAM} /\ PT \notin {VM, RAM}
  BY LockNumbers
<1>6. C16Held'
  <2> SUFFICES ASSUME NEW u \in Thread, owner'[C16] = u
               PROVE  /\ todo'[u] # <<>> /\ Head(todo'[u]) = <<"alloc", C16>>
                      /\ slub_16byte_free' = LowWater
    BY DEF C16Held
  <2>1. u # t
    BY <1>4, <1>5
  <2> QED BY <1>3, <1>4, <1>5, <2>1 DEF LockInv, C16Held
<1>7. PtHeld'
  <2> SUFFICES ASSUME NEW u \in Thread, owner'[PT] = u
               PROVE  Empty(PT)' \/ HeadOp(u)' = "take"
    BY DEF PtHeld
  <2>1. Empty(PT)' = Empty(PT)
    BY DEF Empty
  <2>2. CASE u = t
    <3>1. PT \in HeldBy(t)
      BY <1>4, <1>5, <2>2
    <3> QED BY <2>1, <3>1 DEF LockInv, PtHeld, HeldBy
  <2>3. CASE u # t
    <3>1. owner[PT] = u /\ HeadOp(u)' = HeadOp(u)
      BY <1>3, <1>4, <1>5, <2>3 DEF HeadOp
    <3> QED BY <2>1, <3>1 DEF LockInv, PtHeld
  <2> QED BY <2>2, <2>3
<1> QED BY <1>1, <1>2, <1>6, <1>7 DEF LockInv

LEMMA StillKeeps ==
    ASSUME LockInv, UNCHANGED <<lists, slub_16byte_free, owner, todo, vals>>
    PROVE  LockInv'
  BY DEF LockInv, Kept, ListsTyped, C16Held, PtHeld, HeldBy, HeadOp, Empty

LEMMA FailKeeps ==
    ASSUME LockInv, NEW why, Fail(why)
    PROVE  LockInv'
  BY StillKeeps DEF Fail, memory

\* The thread that does op, but for an allocation, is not the one that waits for
\* the 16-byte objects.
LEMMA Doing ==
    ASSUME LockInv, NEW t \in Thread, NEW op, Does(t, op)
    PROVE  /\ IsSeq(vals[t]) /\ IsSeq(Tail(todo[t])) /\ HeadOp(t) = op
           /\ At(Head(todo[t]), Tail(todo[t]), HeldBy(t), vals[t]) /\ Head(todo[t])[1] = op
           /\ Arg(t) = Head(todo[t])[2] /\ todo[t] # <<>>
           /\ op # "alloc" => C16 \notin HeldBy(t)
<1>1. todo[t] # <<>> /\ Head(todo[t])[1] = op
  BY DEF Does
<1>2. Shape(todo[t], HeldBy(t), vals[t])
  BY DEF LockInv, Kept
<1>3. op # "alloc" => C16 \notin HeldBy(t)
  <2> SUFFICES ASSUME C16 \in HeldBy(t) PROVE op = "alloc"
    OBVIOUS
  <2>1. Head(todo[t]) = <<"alloc", C16>>
    BY DEF LockInv, C16Held, HeldBy
  <2> QED BY <1>1, <2>1
<1> QED BY <1>1, <1>2, <1>3, ShapeHas DEF HeadOp, Arg

\* The steps that call nothing.
LEMMA ThenNothing ==
    ASSUME LockInv, NEW t \in Thread, Does(t, Head(todo[t])[1]), Then(t, <<>>)
    PROVE  todo' = [todo EXCEPT ![t] = Tail(@)]
<1>1. IsSeq(Tail(todo[t]))
  BY Doing
<1> QED BY <1>1, EmptyConcat DEF Then

LEMMA UnlockKeeps == ASSUME LockInv, NEW t \in Thread, Unlock(t) PROVE LockInv'
<1> DEFINE m == Arg(t)
           h == HeldBy(t)
<1>1. Does(t, "unlock")
  BY DEF Unlock
<1>2. AtUnlock(m, Tail(todo[t]), h, vals[t]) /\ C16 \notin h /\ HeadOp(t) = "unlock"
  BY <1>1, Doing DEF At
<1>3. m = VM /\ VM \in h /\ Shape(Tail(todo[t]), h \ {m}, vals[t])
  BY <1>2, UnlockNext
<1>4. todo' = [todo EXCEPT ![t] = Tail(@)]
  BY <1>1, ThenNothing DEF Unlock, Does
<1>5. owner[m] = t /\ owner' = [owner EXCEPT ![m] = NoThread] /\ Kept
  BY <1>3 DEF Unlock, HeldBy, LockInv
<1>6. Moves(t, Tail(todo[t]), h \ {m}, vals[t])
  <2>1. /\ owner' = [n \in Mutexes |-> owner'[n]] /\ HeldBy(t)' = h \ {m}
        /\ \A u \in Thread \ {t} : HeldBy(u)' = HeldBy(u)
    <3> HIDE DEF m
    <3> QED BY <1>5, Unlocks
  <2>2. vals' = [vals EXCEPT ![t] = vals[t]]
    BY DEF Unlock, LockInv, Kept
  <2> QED BY <1>4, <2>1, <2>2 DEF Moves
<1> HIDE DEF m, h
<1>7. UNCHANGED <<lists, slub_16byte_free>>
  BY DEF Unlock, memory
<1> QED BY <1>2, <1>3, <1>6, <1>7, QuietKeeps DEF h

\* Ranges: what vm_alloc() looks for.
Clear(p, n) == \A i \in DOMAIN vm_areas : ~ Meets(vm_areas[i], p, p + n)

\* A range that no segment meets yet.
Reserved(p, n) == p \in Int /\ n \in Nat \ {0} /\ Clear(p, n)

\* vm_find_free() returns one of the ranges that it looks for.
LEMMA FoundIsFree ==
    ASSUME NEW n \in Nat \ {0}, FreeRanges(n) # {}
    PROVE  /\ Reserved(Max(FreeRanges(n)), n) /\ Max(FreeRanges(n)) \in 0 .. NVa - n
           /\ Max(FreeRanges(n)) \in FreeRanges(n)
<1> DEFINE S == FreeRanges(n)
           D == {NVa - x : x \in S}
<1>1. NVa \in Nat
  BY SlubConstants
<1>2. \A x \in S : x \in Int /\ 0 <= x /\ x <= NVa - n
  BY <1>1 DEF FreeRanges
<1>3. D \in SUBSET Nat
  BY <1>1, <1>2
<1>4. D # {}
  OBVIOUS
<1>5. PICK d \in D : \A k \in D : d <= k
  <2> HIDE DEF D
  <2> QED BY <1>3, <1>4, LeastOf
<1>6. PICK x \in S : d = NVa - x
  BY <1>5
<1>7. \A y \in S : x >= y
  <2> SUFFICES ASSUME NEW y \in S PROVE x >= y
    OBVIOUS
  <2>1. NVa - x <= NVa - y
    BY <1>5, <1>6
  <2> HIDE DEF S
  <2> QED BY <1>1, <1>2, <2>1
<1>8. Max(S) \in S
  <2> HIDE DEF S
  <2> QED BY <1>7 DEF Max
<1>9. Clear(Max(S), n)
  <2>1. \A y \in S : Clear(y, n)
    BY DEF FreeRanges, Clear
  <2> HIDE DEF S
  <2> QED BY <1>8, <2>1
<1>10. Max(S) \in Int /\ 0 <= Max(S) /\ Max(S) <= NVa - n
  <2> HIDE DEF S
  <2> QED BY <1>2, <1>8
<1> QED BY <1>1, <1>8, <1>9, <1>10 DEF Reserved

LEMMA FindKeeps == ASSUME LockInv, NEW t \in Thread, Find(t) PROVE LockInv'
<1> DEFINE h == HeldBy(t)
           p == <<Max(FreeRanges(Arg(t))), -1>>
<1>1. Does(t, "find") /\ owner[VM] = NoThread
  BY DEF Find
<1>2. AtFind(Arg(t), Tail(todo[t]), h, vals[t]) /\ C16 \notin h /\ HeadOp(t) = "find"
  BY <1>1, Doing DEF At
<1>3. CASE FreeRanges(Arg(t)) = {}
  BY <1>3, FailKeeps DEF Find
<1>4. CASE FreeRanges(Arg(t)) # {}
  <2>1. Arg(t) \in Nat \ {0}
    BY <1>2, RangesFacts, SlubConstants, SMTT(40) DEF AtFind
  <2>2. IsPage(p)
    <3>1. Max(FreeRanges(Arg(t))) \in 0 .. NVa - Arg(t)
      BY <1>4, <2>1, FoundIsFree
    <3>2. NVa \in Nat
      BY SlubConstants
    <3>3. Max(FreeRanges(Arg(t))) \in VA
      BY <2>1, <3>1, <3>2 DEF VA
    <3> QED BY <3>3 DEF IsPage
  <2>3. Shape(Tail(todo[t]), h \union {VM}, Append(vals[t], p))
    <3> HIDE DEF h, p
    <3> QED BY <1>2, <2>2, FindNext
  <2>4. todo' = [todo EXCEPT ![t] = Tail(@)]
    BY <1>1, <1>4, ThenNothing DEF Find, Does
  <2>5. owner' = [owner EXCEPT ![VM] = t] /\ vals' = [vals EXCEPT ![t] = Append(@, p)]
    BY <1>4 DEF Find, Push
  <2>6. /\ owner' = [n \in Mutexes |-> owner'[n]] /\ HeldBy(t)' = h \union {VM}
        /\ \A u \in Thread \ {t} : HeldBy(u)' = HeldBy(u)
    BY <1>1, <2>5, Locks, LockNumbers DEF LockInv
  <2>7. Moves(t, Tail(todo[t]), h \union {VM}, Append(vals[t], p))
    BY <2>4, <2>5, <2>6 DEF Moves
  <2>8. UNCHANGED <<lists, slub_16byte_free>>
    BY <1>4 DEF Find, memory
  <2> HIDE DEF h, p
  <2> QED BY <1>2, <2>3, <2>7, <2>8, QuietKeeps DEF h
<1> QED BY <1>3, <1>4

\* A step that takes no lock and gives none back.
LEMMA SimpleKeeps ==
    ASSUME LockInv, NEW t \in Thread, NEW op, NEW w, Does(t, op), op \notin {"alloc", "take"},
           Then(t, <<>>), vals' = [vals EXCEPT ![t] = w],
           Shape(Tail(todo[t]), HeldBy(t), w),
           UNCHANGED <<owner, lists, slub_16byte_free>>
    PROVE  LockInv'
<1> DEFINE h == HeldBy(t)
<1>1. HeadOp(t) = op /\ C16 \notin h
  BY Doing
<1>2. todo' = [todo EXCEPT ![t] = Tail(@)]
  BY ThenNothing DEF Does
<1>3. Moves(t, Tail(todo[t]), h, w)
  BY <1>2, NoLocks DEF Moves, LockInv
<1> HIDE DEF h
<1> QED BY <1>1, <1>3, QuietKeeps DEF h

LEMMA AddSegKeeps == ASSUME LockInv, NEW t \in Thread, AddSeg(t) PROVE LockInv'
<1> DEFINE w == SubSeq(vals[t], 1, Len(vals[t]) - 1)
<1>1. Does(t, "seg")
  BY DEF AddSeg
<1>2. AtSeg(Arg(t), Tail(todo[t]), HeldBy(t), vals[t])
  BY <1>1, Doing DEF At
<1>3. Shape(Tail(todo[t]), HeldBy(t), w)
  BY <1>2, SegNext
<1>4. Then(t, <<>>) /\ vals' = [vals EXCEPT ![t] = w] /\ UNCHANGED <<owner, lists, slub_16byte_free>>
  BY DEF AddSeg, Pop, memory
<1> HIDE DEF w
<1> QED BY <1>1, <1>3, <1>4, SimpleKeeps

LEMMA LockRamKeeps == ASSUME LockInv, NEW t \in Thread, LockRam(t) PROVE LockInv'
<1> DEFINE h == HeldBy(t)
<1>1. Does(t, "pm") /\ owner[RAM] = NoThread /\ owner' = [owner EXCEPT ![RAM] = t]
  BY DEF LockRam
<1>2. AtPm(Tail(todo[t]), h, vals[t]) /\ C16 \notin h /\ HeadOp(t) = "pm"
  BY <1>1, Doing DEF At
<1>3. Shape(Tail(todo[t]), h \union {RAM}, vals[t])
  BY <1>2, PmNext
<1>4. todo' = [todo EXCEPT ![t] = Tail(@)] /\ vals' = [vals EXCEPT ![t] = vals[t]]
  BY <1>1, ThenNothing DEF LockRam, Does, LockInv, Kept
<1>5. /\ owner' = [n \in Mutexes |-> owner'[n]] /\ HeldBy(t)' = h \union {RAM}
      /\ \A u \in Thread \ {t} : HeldBy(u)' = HeldBy(u)
  BY <1>1, Locks, LockNumbers DEF LockInv
<1>6. Moves(t, Tail(todo[t]), h \union {RAM}, vals[t])
  BY <1>4, <1>5 DEF Moves
<1>7. UNCHANGED <<lists, slub_16byte_free>>
  BY DEF LockRam, memory
<1> HIDE DEF h
<1> QED BY <1>2, <1>3, <1>6, <1>7, QuietKeeps DEF h

\* The frame that pm_ram_alloc() finds.
LEMMA FreeFrameThere ==
    ASSUME NEW S, S \subseteq 1 .. NRam, S # 1 .. NRam
    PROVE  Min(1 .. NRam \ S) \in 1 .. NRam \ S
<1> DEFINE F == 1 .. NRam \ S
<1> DEFINE A == 1 .. NRam
<1>1. A \subseteq Nat
  OBVIOUS
<1>2. F \in SUBSET Nat /\ F # {}
  <2>1. S \subseteq A /\ S # A
    OBVIOUS
  <2>2. F = A \ S
    OBVIOUS
  <2> HIDE DEF A, F
  <2> QED BY <1>1, <2>1, <2>2
<1> HIDE DEF F
<1>3. \E x \in F : \A y \in F : x <= y
  BY <1>2, LeastOf
<1>4. Min(F) \in F
  BY <1>3 DEF Min
<1> QED BY <1>4 DEF F

LEMMA TakeFrameKeeps == ASSUME LockInv, Sound, NEW t \in Thread, TakeFrame(t) PROVE LockInv'
<1> DEFINE h == HeldBy(t)
           f == <<Min(1 .. NRam \ ram)>>
<1>1. Does(t, "ram")
  BY DEF TakeFrame
<1>2. AtRam(Tail(todo[t]), h, vals[t]) /\ C16 \notin h /\ HeadOp(t) = "ram"
  BY <1>1, Doing DEF At
<1>3. CASE ram = 1 .. NRam
  BY <1>3, FailKeeps DEF TakeFrame
<1>4. CASE ram # 1 .. NRam
  <2>1. IsFrame(f)
    BY <1>4, FreeFrameThere DEF IsFrame, Sound
  <2>2. Shape(Tail(todo[t]), h \ {RAM}, Append(vals[t], f)) /\ RAM \in h
    <3> HIDE DEF h, f
    <3> QED BY <1>2, <2>1, RamNext
  <2>3. todo' = [todo EXCEPT ![t] = Tail(@)]
    BY <1>1, <1>4, ThenNothing DEF TakeFrame, Does
  <2>4. owner' = [owner EXCEPT ![RAM] = NoThread] /\ vals' = [vals EXCEPT ![t] = Append(@, f)]
    BY <1>4 DEF TakeFrame, Push
  <2>5. owner[RAM] = t
    BY <2>2 DEF HeldBy
  <2>6. /\ owner' = [n \in Mutexes |-> owner'[n]] /\ HeldBy(t)' = h \ {RAM}
        /\ \A u \in Thread \ {t} : HeldBy(u)' = HeldBy(u)
    BY <2>4, <2>5, Unlocks DEF LockInv
  <2>7. Moves(t, Tail(todo[t]), h \ {RAM}, Append(vals[t], f))
    BY <2>3, <2>4, <2>6 DEF Moves
  <2>8. UNCHANGED <<lists, slub_16byte_free>>
    BY <1>4 DEF TakeFrame, memory
  <2> HIDE DEF h, f
  <2> QED BY <1>2, <2>2, <2>7, <2>8, QuietKeeps DEF h
<1> QED BY <1>3, <1>4

LEMMA MapKeeps == ASSUME LockInv, Sound, NEW t \in Thread, Map(t) PROVE LockInv'
<1> DEFINE d == pd[Pde(Below(t)[1])]
           i == Pte(Below(t)[1])
           h == HeldBy(t)
           td == Cons(<<"alloc", PT>>, Cons(<<"install">>, Tail(todo[t])))
<1>1. Does(t, "map")
  BY DEF Map
<1>2. /\ AtMap(Tail(todo[t]), h, vals[t]) /\ C16 \notin h /\ HeadOp(t) = "map"
      /\ IsSeq(Tail(todo[t]))
  BY <1>1, Doing DEF At
<1>3. CASE d = NoPt
  <2>1. /\ Then(t, << <<"alloc", PT>>, <<"install">> >>)
        /\ UNCHANGED <<owner, vals, lists, slub_16byte_free>>
    BY <1>3 DEF Map, memory
  <2>2. << <<"alloc", PT>>, <<"install">> >> \o Tail(todo[t]) = td
    <3> DEFINE a == <<"alloc", PT>>
               b == <<"install">>
               r == Tail(todo[t])
    <3>1. IsSeq(r)
      BY <1>2
    <3> HIDE DEF a, b, r
    <3>2. <<b>> = Cons(b, <<>>) /\ <<a, b>> = Cons(a, <<b>>) /\ IsSeq(<<b>>)
      BY OneForm, PairCons, ConsFacts, EmptyIsSeq
    <3>3. <<b>> \o r = Cons(b, r)
      BY DEF Cons
    <3>4. Cons(a, <<b>>) \o r = Cons(a, <<b>> \o r)
      BY <3>1, <3>2, ConsConcat, SMTT(40)
    <3> QED BY <3>2, <3>3, <3>4 DEF a, b, r
  <2>3. Shape(td, h, vals[t])
    <3>1. Pde(vals[t][Len(vals[t]) - 1][1]) # Pde(NVa - 1)
      BY <1>3 DEF Sound, Below
    <3> HIDE DEF h
    <3> QED BY <1>2, <3>1, MapNeedsTable
  <2>4. todo' = [todo EXCEPT ![t] = td] /\ vals' = [vals EXCEPT ![t] = vals[t]]
    BY <2>1, <2>2 DEF Then, LockInv, Kept
  <2>5. Moves(t, td, h, vals[t])
    BY <2>1, <2>4, NoLocks DEF Moves, LockInv
  <2> HIDE DEF td, h
  <2> QED BY <1>2, <2>1, <2>3, <2>5, QuietKeeps DEF h
<1>4. CASE d # NoPt /\ (d = Section \/ Walk(d) # "no" \/ ptes[d][i] # 0)
  <2>1. \E why : Fail(why)
    BY <1>4 DEF Map
  <2> QED BY <2>1, FailKeeps
<1>5. CASE d # NoPt /\ ~ (d = Section \/ Walk(d) # "no" \/ ptes[d][i] # 0)
  <2>1. Then(t, <<>>) /\ UNCHANGED <<owner, vals, lists, slub_16byte_free>>
    BY <1>5 DEF Map, memory
  <2>2. Shape(Tail(todo[t]), HeldBy(t), vals[t])
    BY <1>2, MapNext
  <2>3. vals' = [vals EXCEPT ![t] = vals[t]]
    BY <2>1 DEF LockInv, Kept
  <2> QED BY <1>1, <2>1, <2>2, <2>3, SimpleKeeps
<1> QED BY <1>3, <1>4, <1>5

LEMMA InstallKeeps == ASSUME LockInv, NEW t \in Thread, Install(t) PROVE LockInv'
<1> DEFINE w == SubSeq(vals[t], 1, Len(vals[t]) - 1)
<1>1. Does(t, "install")
  BY DEF Install
<1>2. AtInstall(Tail(todo[t]), HeldBy(t), vals[t])
  BY <1>1, Doing DEF At
<1>3. Shape(Tail(todo[t]), HeldBy(t), w)
  BY <1>2, InstallNext
<1>4. CASE VaToPa(Top(t)[1]) # "no"
  BY <1>4, FailKeeps DEF Install
<1>5. CASE VaToPa(Top(t)[1]) = "no"
  <2>1. Then(t, <<>>) /\ vals' = [vals EXCEPT ![t] = w] /\ UNCHANGED <<owner, lists, slub_16byte_free>>
    BY <1>5 DEF Install, Pop, memory
  <2> HIDE DEF w
  <2> QED BY <1>1, <1>3, <2>1, SimpleKeeps
<1> QED BY <1>4, <1>5

LEMMA TrackKeeps == ASSUME LockInv, NEW t \in Thread, Track(t) PROVE LockInv'
<1> DEFINE w == SubSeq(vals[t], 1, Len(vals[t]) - 2)
<1>1. Does(t, "track")
  BY DEF Track
<1>2. AtTrack(Tail(todo[t]), HeldBy(t), vals[t])
  BY <1>1, Doing DEF At
<1>3. Shape(Tail(todo[t]), HeldBy(t), w)
  BY <1>2, TrackNext
<1>4. Then(t, <<>>) /\ vals' = [vals EXCEPT ![t] = w] /\ UNCHANGED <<owner, lists, slub_16byte_free>>
  BY DEF Track, Pop
<1> HIDE DEF w
<1> QED BY <1>1, <1>3, <1>4, SimpleKeeps

LEMMA MapSectionsKeeps == ASSUME LockInv, NEW t \in Thread, MapSections(t) PROVE LockInv'
<1> DEFINE w == SubSeq(vals[t], 1, Len(vals[t]) - 1)
           D == Pde(Top(t)[1]) .. Pde(Top(t)[1]) + FbSections - 1
<1>1. Does(t, "sections")
  BY DEF MapSections
<1>2. AtSections(Tail(todo[t]), HeldBy(t), vals[t])
  BY <1>1, Doing DEF At
<1>3. Shape(Tail(todo[t]), HeldBy(t), w)
  BY <1>2, SectionsNext
<1>4. CASE \E d \in D : pd[d] # NoPt
  BY <1>4, FailKeeps DEF MapSections
<1>5. CASE ~ \E d \in D : pd[d] # NoPt
  <2>1. Then(t, <<>>) /\ vals' = [vals EXCEPT ![t] = w] /\ UNCHANGED <<owner, lists, slub_16byte_free>>
    BY <1>5 DEF MapSections, Pop, memory
  <2> HIDE DEF w
  <2> QED BY <1>1, <1>3, <2>1, SimpleKeeps
<1> QED BY <1>4, <1>5

LEMMA GiveKeeps == ASSUME LockInv, NEW t \in Thread, Give(t) PROVE LockInv'
<1> DEFINE w == SubSeq(vals[t], 1, Len(vals[t]) - 1)
<1>1. Does(t, "give")
  BY DEF Give
<1>2. AtGive(Arg(t), Tail(todo[t]), HeldBy(t), vals[t])
  BY <1>1, Doing DEF At
<1>3. Shape(Tail(todo[t]), HeldBy(t), w)
  BY <1>2, GiveNext
<1>4. Then(t, <<>>) /\ vals' = [vals EXCEPT ![t] = w] /\ UNCHANGED <<owner, lists, slub_16byte_free>>
  BY DEF Give, Pop, memory
<1> HIDE DEF w
<1> QED BY <1>1, <1>3, <1>4, SimpleKeeps

\* The steps of kfree_fullpages() have no place in what a thread has to do.
LEMMA NoFrees == ASSUME LockInv, NEW t \in Thread PROVE ~ Frees(t)
<1>1. ASSUME NEW op, Does(t, op) PROVE op \notin {"kfree", "unlink", "ramfree", "vmfree", "walk"}
  BY <1>1, Doing DEF At
<1> QED BY <1>1 DEF Frees, FreeStructure, Unlink, FreeFrame, FreeRange, WalkOn

\* kfree() of an object of a page of boot.
FreesObject(t, p, c) ==
    /\ todo[t] = <<>> /\ <<p, c>> \in live /\ c # WHOLE
    /\ Refuses(p) = "no" /\ WHOLE \notin Entry(p).lsize
    /\ todo' = [todo EXCEPT ![t] = << <<"put", Entry(p).va>> >>]
    /\ vals' = [vals EXCEPT ![t] = <<p>>]
    /\ live' = live \ {<<p, c>>}
    /\ UNCHANGED <<memory, vm_areas, tables, frames, owner, raced, misfreed, stopped>>

LEMMA FreeCases ==
    ASSUME NEW t, NEW p, NEW c, Free(t, p, c), ~ misfreed'
    PROVE  Fail(Refuses(p)) \/ FreesObject(t, p, c)
<1>1. CASE Refuses(p) # "no"
  BY <1>1 DEF Free
<1>2. CASE Refuses(p) = "no"
  <2>1. Dispatch(t, p, <<>>, <<>>) /\ live' = live \ {<<p, c>>}
    BY <1>2 DEF Free
  <2>2. WHOLE \notin Entry(p).lsize
    BY <2>1 DEF Dispatch
  <2>3. << <<"put", Entry(p).va>> >> \o <<>> = << <<"put", Entry(p).va>> >> /\ Append(<<>>, p) = <<p>>
    BY OneForm DEF Cons
  <2> QED BY <1>2, <2>1, <2>2, <2>3 DEF Free, Dispatch, FreesObject
<1> QED BY <1>1, <1>2

\* A step, as long as no page of objects is freed for a whole page.
LEMMA NextCases ==
    ASSUME LockInv, Next, ~ misfreed'
    PROVE  \/ \E why : Fail(why)
           \/ \E t \in Thread :
                 \/ \E c \in Want : Call(t, Kmalloc(c) \o << <<"give", c>> >>)
                 \/ ~FbStarted /\ Call(t, VmAlloc(FbPages) \o << <<"sections">> >>)
                 \/ \E o \in live : FreesObject(t, o[1], o[2])
                 \/ Step(t)
<1>1. \A t, p, c : Free(t, p, c) => (\E why : Fail(why)) \/ FreesObject(t, p, c)
  BY FreeCases
<1> QED BY <1>1, NoFrees DEF Next

\* An object of a list, or the assertion.
LEMMA TakeCases ==
    ASSUME NEW t, NEW c, Take(t, c)
    PROVE  (\E why : Fail(why)) \/ TakeObject(t, c)
  BY DEF Take

\* A new call of an idle thread.
LEMMA CallKeeps ==
    ASSUME LockInv, NEW t \in Thread, NEW ops, Call(t, ops), Shape(ops, {}, <<>>)
    PROVE  LockInv'
<1>1. todo[t] = <<>> /\ todo' = [todo EXCEPT ![t] = ops]
      /\ UNCHANGED <<vals, owner, lists, slub_16byte_free>>
  BY DEF Call, memory
<1>2. Shape(todo[t], HeldBy(t), vals[t])
  BY DEF LockInv, Kept
<1>3. HeldBy(t) = {} /\ vals[t] = <<>>
  BY <1>1, <1>2, ConsFacts DEF Shape
<1>4. Moves(t, ops, {}, <<>>)
  <2>1. vals' = [vals EXCEPT ![t] = <<>>]
    BY <1>1, <1>3 DEF LockInv, Kept
  <2> QED BY <1>1, <1>3, <2>1, NoLocks DEF Moves, LockInv
<1> QED BY <1>1, <1>3, <1>4, QuietKeeps

-----------------------------------------------------------------------------
(* The steps that touch the lists of slabs.                                *)

LEMMA MoveToKeeps ==
    ASSUME ListsTyped, NEW c, NEW sl, NEW to, lists' = MoveTo(c, sl, to)
    PROVE  ListsTyped' /\ (c # PT => lists'[PT] = lists[PT])
<1>1. lists' = [d \in Size \union {PT} |->
                   IF d = c THEN [l \in {"free", "part", "busy"} |->
                                     (IF l = to THEN <<sl>> ELSE <<>>) \o Without(lists[d][l], sl)]
                   ELSE lists[d]]
  BY DEF MoveTo, ListsTyped
<1>2. ListsTyped'
  <2>1. lists' = [d \in Size \union {PT} |-> lists'[d]]
    BY <1>1
  <2>2. ASSUME NEW d \in Size \union {PT}
        PROVE  lists'[d] = [l \in {"free", "part", "busy"} |-> lists'[d][l]]
    <3>1. CASE d = c
      BY <1>1, <3>1
    <3>2. CASE d # c
      BY <1>1, <3>2 DEF ListsTyped
    <3> QED BY <3>1, <3>2
  <2> QED BY <2>1, <2>2 DEF ListsTyped
<1>3. c # PT => lists'[PT] = lists[PT]
  BY <1>1
<1> QED BY <1>2, <1>3

\* An object is taken; with it the lock of the list is given back, or the refill
\* of the 16-byte objects begins.
LEMMA TakeObjectKeeps ==
    ASSUME LockInv, NEW t \in Thread, NEW op \in {"alloc", "take"}, Does(t, op),
           NEW c, c = Arg(t), TakeObject(t, c),
           op = "alloc" => owner[c] = NoThread /\ c \in Mutexes,
           op = "take" => owner[c] = t /\ c # C16 /\ (PT \in HeldBy(t) => c = PT),
           Shape(Tail(todo[t]), HeldBy(t) \ {c}, Append(vals[t], FirstObject(c)))
    PROVE  LockInv'
<1> DEFINE h == HeldBy(t)
           r == Tail(todo[t])
           sl == FirstSlab(c)
           s == slabs[sl]
           to == ListOnTake(s, sl)
           o == <<s.page, Head(s.chain)>>
           td == FromRefill(C16, Cons(<<"unlock", C16>>, r))
<1>1. IsSeq(vals[t]) /\ IsSeq(r) /\ HeadOp(t) = op /\ todo[t] # <<>>
  BY Doing
<1>2. /\ vals' = [vals EXCEPT ![t] = Append(@, o)]
      /\ lists' = (IF to = "same" THEN lists ELSE MoveTo(c, sl, to))
      /\ slub_16byte_free' = slub_16byte_free - (IF c = C16 THEN 1 ELSE 0)
  BY DEF TakeObject, Push
<1>3. ListsTyped' /\ (c # PT => lists'[PT] = lists[PT])
  <2>1. CASE to = "same"
    BY <1>2, <2>1 DEF ListsTyped, LockInv
  <2>2. CASE to # "same"
    BY <1>2, <2>2, MoveToKeeps DEF LockInv
  <2> QED BY <2>1, <2>2
<1>4. c # PT => Empty(PT)' = Empty(PT)
  BY <1>3 DEF Empty
<1>5. C16 # PT /\ C16 \in Mutexes /\ PT \in Mutexes /\ NoThread \notin Thread /\ LowWater \in Nat
  BY LockNumbers, SlubConstants
<1>6. CASE IsLow(c)
  <2>1. /\ c = C16 /\ op = "alloc" /\ owner[C16] = NoThread
        /\ slub_16byte_free' = LowWater
    BY <1>2, <1>6 DEF IsLow
  <2>2. /\ owner' = [owner EXCEPT ![C16] = t]
        /\ Then(t, Refill(C16) \o << <<"unlock", C16>> >>)
    BY <1>6, <2>1 DEF TakeObject
  <2>3. todo' = [todo EXCEPT ![t] = td]
    BY <1>1, <2>2, RefillForm DEF Then
  <2>4. IsSeq(Append(vals[t], o))
    BY <1>1, AppendFacts
  <2>5. Shape(td, h \union {C16}, Append(vals[t], o)) /\ td # <<>> /\ Head(td) = <<"alloc", C16>>
    BY <1>1, <2>4, StuckNext
  <2>6. Moves(t, td, h \union {C16}, Append(vals[t], o))
    <3>1. /\ owner' = [n \in Mutexes |-> owner'[n]] /\ HeldBy(t)' = h \union {C16}
          /\ \A u \in Thread \ {t} : HeldBy(u)' = HeldBy(u)
      BY <1>5, <2>1, <2>2, Locks DEF LockInv
    <3> QED BY <1>2, <2>3, <3>1 DEF Moves
  <2>7. Kept'
    <3> HIDE DEF td, o, h
    <3> QED BY <2>5, <2>6, MovesKept DEF LockInv
  <2>8. todo'[t] = td /\ \A u \in Thread \ {t} : todo'[u] = todo[u]
    BY <2>3 DEF LockInv, Kept
  <2>9. owner' = [m \in Mutexes |-> IF m = C16 THEN t ELSE owner[m]]
    BY <2>2 DEF LockInv, Kept
  <2>10. C16Held'
    <3>1. owner'[C16] = t
      BY <1>5, <2>9
    <3> QED BY <2>1, <2>5, <2>8, <3>1 DEF C16Held
  <2>11. PtHeld'
    <3> SUFFICES ASSUME NEW u \in Thread, owner'[PT] = u
                 PROVE  Empty(PT)' \/ HeadOp(u)' = "take"
      BY DEF PtHeld
    <3>1. owner[PT] = u
      BY <1>5, <2>9
    <3>2. Empty(PT) \/ HeadOp(u) = "take"
      BY <3>1 DEF LockInv, PtHeld
    <3>3. u # t => HeadOp(u)' = HeadOp(u)
      BY <2>8 DEF HeadOp
    <3> QED BY <1>1, <1>4, <1>5, <2>1, <3>2, <3>3
  <2> QED BY <1>3, <2>7, <2>10, <2>11 DEF LockInv
<1>7. CASE ~ IsLow(c)
  <2>1. owner' = [owner EXCEPT ![c] = NoThread] /\ Then(t, <<>>)
    BY <1>7 DEF TakeObject
  <2>2. todo' = [todo EXCEPT ![t] = r]
    BY <2>1, ThenNothing DEF Does
  <2>3. owner[c] = t \/ owner[c] = NoThread
    OBVIOUS
  <2>4. Moves(t, r, h \ {c}, Append(vals[t], o))
    <3>1. /\ owner' = [n \in Mutexes |-> owner'[n]] /\ HeldBy(t)' = h \ {c}
          /\ \A u \in Thread \ {t} : HeldBy(u)' = HeldBy(u)
      BY <2>1, <2>3, Unlocks DEF LockInv
    <3> QED BY <1>2, <2>2, <3>1 DEF Moves
  <2>5. Shape(r, h \ {c}, Append(vals[t], o))
    BY DEF FirstObject
  <2>6. Kept'
    <3> HIDE DEF r, o, h
    <3> QED BY <2>4, <2>5, MovesKept DEF LockInv
  <2>7. \A u \in Thread \ {t} : todo'[u] = todo[u]
    BY <2>2 DEF LockInv, Kept
  <2>8. owner' = [m \in Mutexes |-> IF m = c THEN NoThread ELSE owner[m]]
    BY <2>1 DEF LockInv, Kept
  <2>9. C16Held'
    <3> SUFFICES ASSUME NEW u \in Thread, owner'[C16] = u
                 PROVE  /\ todo'[u] # <<>> /\ Head(todo'[u]) = <<"alloc", C16>>
                        /\ slub_16byte_free' = LowWater
      BY DEF C16Held
    <3>1. owner[C16] = u /\ c # C16
      BY <1>5, <2>8
    <3>2. todo[u] # <<>> /\ Head(todo[u]) = <<"alloc", C16>> /\ slub_16byte_free = LowWater
      BY <3>1 DEF LockInv, C16Held
    <3>3. slub_16byte_free' = LowWater
      BY <1>2, <1>5, <3>1, <3>2
    <3>4. u # t
      <4>1. ASSUME u = t PROVE FALSE
        <5>1. Does(t, op) /\ op = "alloc" /\ Arg(t) = C16
          BY <1>1, <3>2, <4>1 DEF HeadOp, Arg
        <5> QED BY <3>1, <5>1
      <4> QED BY <4>1
    <3> QED BY <2>7, <3>2, <3>3, <3>4
  <2>10. PtHeld'
    <3> SUFFICES ASSUME NEW u \in Thread, owner'[PT] = u
                 PROVE  Empty(PT)' \/ HeadOp(u)' = "take"
      BY DEF PtHeld
    <3>1. owner[PT] = u /\ c # PT
      BY <1>5, <2>8
    <3>2. Empty(PT) \/ HeadOp(u) = "take"
      BY <3>1 DEF LockInv, PtHeld
    <3>3. u # t => HeadOp(u)' = HeadOp(u)
      BY <2>7 DEF HeadOp
    <3>4. u = t => op = "alloc"
      BY <1>5, <3>1 DEF HeldBy
    <3> QED BY <1>1, <1>4, <3>1, <3>2, <3>3, <3>4
  <2> QED BY <1>3, <2>6, <2>9, <2>10 DEF LockInv
<1> QED BY <1>6, <1>7

LEMMA AllocKeeps == ASSUME LockInv, Sound, NEW t \in Thread, Alloc(t) PROVE LockInv'
<1> DEFINE c == Arg(t)
           h == HeldBy(t)
           r == Tail(todo[t])
           td == FromRefill(c, Cons(<<"take", c>>, r))
<1>1. Does(t, "alloc") /\ owner[c] = NoThread
  BY DEF Alloc
<1>2. AtAlloc(c, r, h, vals[t]) /\ IsSeq(r) /\ IsSeq(vals[t]) /\ HeadOp(t) = "alloc"
  BY <1>1, Doing DEF At
<1>3. c \notin h
  BY <1>1, SlubConstants DEF HeldBy
<1>4. c \in Mutexes
  BY <1>2, <1>3, GrowsFacts, LockNumbers DEF AtAlloc
<1>8. CASE \E why : Fail(why)
  BY <1>8, FailKeeps
<1>5. CASE ~ Empty(c) /\ ~ \E why : Fail(why)
  <2>1. TakeObject(t, c)
    BY <1>5, TakeCases DEF Alloc
  <2>2. h \ {c} = h
    BY <1>3
  <2>3. c \in Size \union {PT}
    <3> HIDE DEF c, h, r
    <3> QED BY <1>2, <1>3, GrowsFacts, LockNumbers DEF AtAlloc
  <2>4. Yields(c, FirstObject(c))
    BY <1>5, <2>3 DEF Sound
  <2>5. Shape(Tail(todo[t]), HeldBy(t) \ {c}, Append(vals[t], FirstObject(c)))
    <3> HIDE DEF c, h, r
    <3> QED BY <1>2, <1>3, <2>2, <2>4, AllocNext DEF h, r
  <2> QED BY <1>1, <1>4, <2>1, <2>5, TakeObjectKeeps
<1>6. CASE Empty(c) /\ c = C16
  BY <1>6, FailKeeps DEF Alloc
<1>7. CASE Empty(c) /\ c # C16
  <2>1. Grow(t, c)
    BY <1>7 DEF Alloc
  <2>2. /\ owner' = [owner EXCEPT ![c] = t]
        /\ Then(t, Refill(c) \o << <<"take", c>> >>)
        /\ UNCHANGED <<vals, lists, slub_16byte_free>>
    BY <2>1 DEF Grow, memory
  <2>3. todo' = [todo EXCEPT ![t] = td]
    BY <1>2, <2>2, RefillForm DEF Then
  <2>4. Shape(td, h \union {c}, vals[t])
    <3> HIDE DEF c, h, r
    <3> QED BY <1>2, <1>3, <1>7, GrowNext
  <2>5. /\ owner' = [n \in Mutexes |-> owner'[n]] /\ HeldBy(t)' = h \union {c}
        /\ \A u \in Thread \ {t} : HeldBy(u)' = HeldBy(u)
    <3> HIDE DEF c
    <3> QED BY <1>1, <1>4, <2>2, Locks DEF LockInv
  <2>6. Moves(t, td, h \union {c}, vals[t])
    <3>1. vals' = [vals EXCEPT ![t] = vals[t]]
      BY <2>2 DEF LockInv, Kept
    <3> HIDE DEF td, h, c
    <3> QED BY <2>3, <2>5, <3>1 DEF Moves
  <2>7. Kept'
    <3> HIDE DEF td, h, c
    <3> QED BY <2>4, <2>6, MovesKept DEF LockInv
  <2>8. ListsTyped'
    BY <2>2 DEF ListsTyped, LockInv
  <2>9. \A u \in Thread \ {t} : todo'[u] = todo[u]
    <3> HIDE DEF td
    <3> QED BY <2>3 DEF LockInv, Kept
  <2>10. owner' = [m \in Mutexes |-> IF m = c THEN t ELSE owner[m]]
    <3> HIDE DEF c
    <3> QED BY <2>2 DEF LockInv, Kept
  <2>11. C16Held'
    <3> SUFFICES ASSUME NEW u \in Thread, owner'[C16] = u
                 PROVE  /\ todo'[u] # <<>> /\ Head(todo'[u]) = <<"alloc", C16>>
                        /\ slub_16byte_free' = LowWater
      BY DEF C16Held
    <3>1. owner[C16] = u
      <4> HIDE DEF c
      <4> QED BY <1>7, <2>10, LockNumbers
    <3>2. todo[u] # <<>> /\ Head(todo[u]) = <<"alloc", C16>> /\ slub_16byte_free = LowWater
      BY <3>1 DEF LockInv, C16Held
    <3>3. u # t
      <4>1. u = t => c = C16
        BY <3>2 DEF Arg
      <4> QED BY <1>7, <4>1
    <3> QED BY <2>2, <2>9, <3>2, <3>3
  <2>12. PtHeld'
    <3> SUFFICES ASSUME NEW u \in Thread, owner'[PT] = u
                 PROVE  Empty(PT)' \/ HeadOp(u)' = "take"
      BY DEF PtHeld
    <3>1. Empty(PT)' = Empty(PT)
      BY <2>2 DEF Empty
    <3>2. CASE c = PT
      <4> HIDE DEF c
      <4> QED BY <1>7, <3>1, <3>2
    <3>3. CASE c # PT
      <4>1. owner[PT] = u
        <5> HIDE DEF c
        <5> QED BY <2>10, <3>3, LockNumbers
      <4>2. Empty(PT) \/ HeadOp(u) = "take"
        BY <4>1 DEF LockInv, PtHeld
      <4>3. u # t => HeadOp(u)' = HeadOp(u)
        BY <2>9 DEF HeadOp
      <4> QED BY <1>2, <3>1, <4>2, <4>3
    <3> QED BY <3>2, <3>3
  <2> QED BY <2>7, <2>8, <2>11, <2>12 DEF LockInv
<1> QED BY <1>5, <1>6, <1>7, <1>8

LEMMA TakeAfterGrowKeeps == ASSUME LockInv, Sound, NEW t \in Thread, TakeAfterGrow(t) PROVE LockInv'
<1> DEFINE c == Arg(t)
           h == HeldBy(t)
           r == Tail(todo[t])
<1>7. CASE \E why : Fail(why)
  BY <1>7, FailKeeps
<1> SUFFICES ASSUME ~ \E why : Fail(why) PROVE LockInv'
  BY <1>7
<1>1. Does(t, "take") /\ TakeObject(t, c)
  BY TakeCases DEF TakeAfterGrow
<1>2. AtTake(c, r, h, vals[t]) /\ IsSeq(r)
  BY <1>1, Doing DEF At
<1>3. Yields(c, FirstObject(c))
  <2>1. c \in Size \union {PT}
    <3> HIDE DEF c, h, r
    <3> QED BY <1>2, GrowsFacts DEF AtTake
  <2>2. ~ Empty(c)
    BY <1>1 DEF Sound, Does, HeadOp
  <2> QED BY <2>1, <2>2 DEF Sound
<1>4. c \in h /\ c # C16 /\ Shape(r, h \ {c}, Append(vals[t], FirstObject(c)))
  <2> HIDE DEF c, h, r
  <2> QED BY <1>2, <1>3, TakeNext
<1>5. PT \in h => c = PT
  BY <1>2, LockNumbers DEF AtTake, Grows, GrowsList
<1>6. owner[c] = t
  BY <1>4 DEF HeldBy
<1> HIDE DEF c, r
<1> QED BY <1>1, <1>4, <1>5, <1>6, TakeObjectKeeps DEF c, r

\* A slab more: the thread takes from it next.
LEMMA NewSubpagesKeeps == ASSUME LockInv, NEW t \in Thread, NewSubpages(t) PROVE LockInv'
<1> DEFINE c == Arg(t)
           h == HeldBy(t)
           r == Tail(todo[t])
           w == SubSeq(vals[t], 1, Len(vals[t]) - 2)
<1>1. Does(t, "init1")
  BY DEF NewSubpages
<1>2. AtInit1(c, r, h, vals[t]) /\ C16 \notin h
  BY <1>1, Doing DEF At
<1>3. Shape(r, h, w) /\ c \in h /\ r # <<>> /\ Head(r) = <<"take", c>>
  <2> HIDE DEF c, h, r
  <2> QED BY <1>2, Init1Next
<1>4. CASE VaToPa(Top(t)[1]) # "no"
  BY <1>4, FailKeeps DEF NewSubpages
<1>5. CASE VaToPa(Top(t)[1]) = "no"
  <2>1. /\ lists' = [lists EXCEPT ![c][IF c = C16 THEN "part" ELSE "free"] = Append(@, Below(t))]
        /\ slub_16byte_free' = slub_16byte_free + (IF c = C16 THEN NObj[c] - InUse(c) ELSE 0)
        /\ Pop(t, 2) /\ Then(t, <<>>) /\ UNCHANGED owner
    BY <1>5 DEF NewSubpages
  <2>2. c # C16
    BY <1>2, <1>3
  <2>3. c \in Mutexes /\ owner[c] = t
    BY <1>3 DEF HeldBy
  <2>4. todo' = [todo EXCEPT ![t] = r] /\ vals' = [vals EXCEPT ![t] = w]
    BY <1>1, <2>1, ThenNothing DEF Does, Pop
  <2>5. Kept'
    <3>1. Moves(t, r, h, w)
      BY <2>1, <2>4, NoLocks DEF Moves, LockInv
    <3> HIDE DEF r, h, w
    <3> QED BY <1>3, <3>1, MovesKept DEF LockInv
  <2>6. \A u \in Thread \ {t} : todo'[u] = todo[u]
    <3> HIDE DEF r
    <3> QED BY <2>4 DEF LockInv, Kept
  <2>7. todo'[t] = r
    <3> HIDE DEF r
    <3> QED BY <2>4 DEF LockInv, Kept
  <2>8. lists' = [d \in Size \union {PT} |->
                     IF d = c THEN [l \in {"free", "part", "busy"} |->
                                       IF l = "free" THEN Append(lists[d][l], Below(t))
                                       ELSE lists[d][l]]
                     ELSE lists[d]]
    <3>1. lists' = [lists EXCEPT ![c]["free"] = Append(@, Below(t))]
      BY <2>1, <2>2
    <3>2. lists = [d \in Size \union {PT} |-> lists[d]]
      BY DEF LockInv, ListsTyped
    <3>3. \A d \in Size \union {PT} : lists[d] = [l \in {"free", "part", "busy"} |-> lists[d][l]]
      BY DEF LockInv, ListsTyped
    <3> HIDE DEF c
    <3> QED BY <3>1, <3>2, <3>3
  <2>9. ListsTyped'
    <3>1. ASSUME NEW d \in Size \union {PT}
          PROVE  lists'[d] = [l \in {"free", "part", "busy"} |-> lists'[d][l]]
      <4> HIDE DEF c
      <4>1. CASE d = c
        BY <2>8, <4>1
      <4>2. CASE d # c
        BY <2>8, <4>2 DEF LockInv, ListsTyped
      <4> QED BY <4>1, <4>2
    <3> HIDE DEF c
    <3> QED BY <2>8, <3>1 DEF ListsTyped
  <2>10. C16Held'
    <3> SUFFICES ASSUME NEW u \in Thread, owner'[C16] = u
                 PROVE  /\ todo'[u] # <<>> /\ Head(todo'[u]) = <<"alloc", C16>>
                        /\ slub_16byte_free' = LowWater
      BY DEF C16Held
    <3>1. owner[C16] = u
      BY <2>1
    <3>2. todo[u] # <<>> /\ Head(todo[u]) = <<"alloc", C16>> /\ slub_16byte_free = LowWater
      BY <3>1 DEF LockInv, C16Held
    <3>3. u # t
      BY <1>2, <3>1, LockNumbers DEF HeldBy
    <3>4. LowWater + 0 = LowWater
      BY SlubConstants
    <3> QED BY <2>1, <2>2, <2>6, <3>2, <3>3, <3>4
  <2>11. PtHeld'
    <3> SUFFICES ASSUME NEW u \in Thread, owner'[PT] = u
                 PROVE  Empty(PT)' \/ HeadOp(u)' = "take"
      BY DEF PtHeld
    <3>1. owner[PT] = u
      BY <2>1
    <3>2. CASE u = t
      <4>1. Head(todo'[t]) = <<"take", c>>
        <5> HIDE DEF r, c
        <5> QED BY <1>3, <2>7
      <4> HIDE DEF r, c
      <4> QED BY <3>2, <4>1 DEF HeadOp
    <3>3. CASE u # t
      <4>1. c # PT
        <5> HIDE DEF c
        <5> QED BY <2>3, <3>1, <3>3
      <4>2. Empty(PT)' = Empty(PT)
        <5>1. lists'[PT] = lists[PT]
          <6> HIDE DEF c
          <6> QED BY <2>8, <4>1
        <5> QED BY <5>1 DEF Empty
      <4>3. HeadOp(u)' = HeadOp(u)
        BY <2>6, <3>3 DEF HeadOp
      <4> QED BY <3>1, <4>2, <4>3 DEF LockInv, PtHeld
    <3> QED BY <3>2, <3>3
  <2> QED BY <2>5, <2>9, <2>10, <2>11 DEF LockInv
<1> QED BY <1>4, <1>5

\* An object more: the lists of its size change, while nobody holds them.
LEMMA PutKeeps == ASSUME LockInv, NEW t \in Thread, Put(t) PROVE LockInv'
<1> DEFINE sl == Arg(t)
           s == slabs[sl]
           to == ListAfterPut(s.nfree + 1, s.size)
           h == HeldBy(t)
           r == Tail(todo[t])
           w == SubSeq(vals[t], 1, Len(vals[t]) - 1)
<1>12. CASE \E why : Fail(why)
  BY <1>12, FailKeeps
<1> SUFFICES ASSUME ~ \E why : Fail(why) PROVE LockInv'
  BY <1>12
<1>1. Does(t, "put") /\ owner[s.size] = NoThread
  BY DEF Put
<1>2. AtPut(sl, r, h, vals[t]) /\ C16 \notin h /\ IsSeq(r)
  BY <1>1, Doing DEF At
<1>3. Shape(r, h, w) /\ h = {}
  <2>1. Shape(r, h, w)
    <3> HIDE DEF h, r, sl
    <3> QED BY <1>2, PutNext
  <2>2. h = {}
    <3> HIDE DEF h
    <3> QED BY <1>2 DEF AtPut
  <2> QED BY <2>1, <2>2
<1>4. /\ lists' = (IF to = "same" THEN lists ELSE MoveTo(s.size, sl, to))
      /\ Pop(t, 1) /\ Then(t, <<>>) /\ UNCHANGED <<owner, slub_16byte_free>>
  BY DEF Put
<1>5. todo' = [todo EXCEPT ![t] = r] /\ vals' = [vals EXCEPT ![t] = w]
  BY <1>1, <1>4, ThenNothing DEF Does, Pop
<1>6. Kept'
  <2>1. Moves(t, r, h, w)
    BY <1>4, <1>5, NoLocks DEF Moves, LockInv
  <2> HIDE DEF r, h, w
  <2> QED BY <1>3, <2>1, MovesKept DEF LockInv
<1>7. \A u \in Thread \ {t} : todo'[u] = todo[u]
  <2> HIDE DEF r
  <2> QED BY <1>5 DEF LockInv, Kept
<1>8. ListsTyped' /\ (s.size # PT => lists'[PT] = lists[PT])
  <2> HIDE DEF s, sl, to
  <2>1. CASE to = "same"
    BY <1>4, <2>1 DEF ListsTyped, LockInv
  <2>2. CASE to # "same"
    <3>1. lists' = MoveTo(s.size, sl, to)
      BY <1>4, <2>2
    <3> QED BY <3>1, MoveToKeeps DEF LockInv
  <2> QED BY <2>1, <2>2
<1>9. \A m \in Mutexes : owner[m] # t
  BY <1>3 DEF HeldBy
<1>10. C16Held'
  <2> SUFFICES ASSUME NEW u \in Thread, owner'[C16] = u
               PROVE  /\ todo'[u] # <<>> /\ Head(todo'[u]) = <<"alloc", C16>>
                      /\ slub_16byte_free' = LowWater
    BY DEF C16Held
  <2>1. owner[C16] = u /\ u # t
    BY <1>4, <1>9, LockNumbers
  <2> QED BY <1>4, <1>7, <2>1 DEF LockInv, C16Held
<1>11. PtHeld'
  <2> SUFFICES ASSUME NEW u \in Thread, owner'[PT] = u
               PROVE  Empty(PT)' \/ HeadOp(u)' = "take"
    BY DEF PtHeld
  <2>1. owner[PT] = u /\ u # t
    BY <1>4, <1>9, LockNumbers
  <2>2. s.size # PT
    <3> HIDE DEF s
    <3> QED BY <1>1, <2>1, SlubConstants
  <2>3. Empty(PT)' = Empty(PT)
    BY <1>8, <2>2 DEF Empty
  <2>4. HeadOp(u)' = HeadOp(u)
    BY <1>7, <2>1 DEF HeadOp
  <2> QED BY <2>1, <2>3, <2>4 DEF LockInv, PtHeld
<1> QED BY <1>6, <1>8, <1>10, <1>11 DEF LockInv

\* A caller frees an object.
LEMMA FreeKeeps ==
    ASSUME LockInv, Sound, NEW t \in Thread, NEW p, NEW c, FreesObject(t, p, c)
    PROVE  LockInv'
<1> DEFINE td == << <<"put", Entry(p).va>> >>
           v == <<p>>
<1>1. HeldBy(t) = {}
  <2>1. Shape(<<>>, HeldBy(t), vals[t])
    BY DEF FreesObject, LockInv, Kept
  <2> QED BY <2>1, ConsFacts DEF Shape
<1>2. /\ todo' = [todo EXCEPT ![t] = td] /\ vals' = [vals EXCEPT ![t] = v]
      /\ UNCHANGED <<owner, lists, slub_16byte_free>>
  BY DEF FreesObject, memory
<1>3. Shape(td, {}, v)
  <2>1. FreeFinds(p)
    <3>1. <<p, c>> \in live /\ c # WHOLE
      BY DEF FreesObject
    <3>2. <<p, c>>[2] # WHOLE => FreeFinds(<<p, c>>[1])
      BY <3>1 DEF Sound
    <3> QED BY <3>1, <3>2
  <2>2. PutsTo(Entry(p).va, p)
    BY <2>1 DEF FreeFinds, FreesObject
  <2> QED BY <2>2, FreeShape
<1> HIDE DEF td, v
<1>4. Kept'
  <2>1. Moves(t, td, {}, v)
    BY <1>1, <1>2, NoLocks DEF Moves, LockInv
  <2> QED BY <1>3, <2>1, MovesKept DEF LockInv
<1>5. \A u \in Thread \ {t} : todo'[u] = todo[u]
  BY <1>2 DEF LockInv, Kept
<1>6. ListsTyped' /\ (Empty(PT) => Empty(PT)')
  BY <1>2 DEF LockInv, ListsTyped, Empty
<1>7. \A m \in Mutexes : owner[m] # t
  BY <1>1 DEF HeldBy
<1>8. C16Held'
  <2> SUFFICES ASSUME NEW u \in Thread, owner'[C16] = u
               PROVE  /\ todo'[u] # <<>> /\ Head(todo'[u]) = <<"alloc", C16>>
                      /\ slub_16byte_free' = LowWater
    BY DEF C16Held
  <2>1. owner[C16] = u /\ u # t
    BY <1>2, <1>7, LockNumbers
  <2> QED BY <1>2, <1>5, <2>1 DEF LockInv, C16Held
<1>9. PtHeld'
  <2> SUFFICES ASSUME NEW u \in Thread, owner'[PT] = u
               PROVE  Empty(PT)' \/ HeadOp(u)' = "take"
    BY DEF PtHeld
  <2>1. owner[PT] = u /\ u # t
    BY <1>2, <1>7, LockNumbers
  <2>2. HeadOp(u)' = HeadOp(u)
    BY <1>5, <2>1 DEF HeadOp
  <2> QED BY <1>6, <2>1, <2>2 DEF LockInv, PtHeld
<1> QED BY <1>4, <1>6, <1>8, <1>9 DEF LockInv

LEMMA InitLockInv == Init => LockInv
<1> SUFFICES ASSUME Init PROVE LockInv
  OBVIOUS
<1>1. /\ owner = [m \in Mutexes |-> NoThread]
      /\ todo = [t \in Thread |-> <<>>] /\ vals = [t \in Thread |-> <<>>]
  BY DEF Init
<1>2. ListsTyped
  <2> DEFINE L(c, l, x, y) == IF l = (IF c \in {C16, PT} THEN "part" ELSE "free")
                              THEN <<IF c = PT THEN x ELSE <<y, c>> >> ELSE <<>>
  <2>1. \E x, y : lists = [c \in Size \union {PT} |-> [l \in {"free", "part", "busy"} |-> L(c, l, x, y)]]
    <3>1. lists = [c \in Size \union {PT} |-> [l \in {"free", "part", "busy"} |->
                       L(c, l, <<Static, -1>>, NVa - NSizes + C16)]]
      BY DEF Init
    <3> HIDE DEF L
    <3> QED BY <3>1
  <2> HIDE DEF L
  <2> QED BY <2>1 DEF ListsTyped
<1>3. \A t \in Thread : HeldBy(t) = {}
  BY <1>1, SlubConstants DEF HeldBy
<1>4. Kept
  BY <1>1, <1>3, IdleShape DEF Kept
<1>5. \A m \in Mutexes, t \in Thread : owner[m] # t
  BY <1>1, SlubConstants
<1> QED BY <1>2, <1>4, <1>5, LockNumbers DEF LockInv, C16Held, PtHeld

LEMMA NextKeeps == LockInv /\ Sound /\ [Next]_vars /\ ~ misfreed' => LockInv'
<1> SUFFICES ASSUME LockInv, Sound, [Next]_vars, ~ misfreed' PROVE LockInv'
  OBVIOUS
<1>1. CASE UNCHANGED vars
  BY <1>1, StillKeeps DEF vars, memory
<1>2. CASE \E why : Fail(why)
  BY <1>2, FailKeeps
<1>3. CASE Next /\ ~ \E why : Fail(why)
  <2>1. PICK t \in Thread :
            \/ \E c \in Want : Call(t, Kmalloc(c) \o << <<"give", c>> >>)
            \/ ~FbStarted /\ Call(t, VmAlloc(FbPages) \o << <<"sections">> >>)
            \/ \E o \in live : FreesObject(t, o[1], o[2])
            \/ Step(t)
    BY <1>3, NextCases
  <2>2. CASE \E c \in Want : Call(t, Kmalloc(c) \o << <<"give", c>> >>)
    <3>1. PICK c \in Want : Call(t, Kmalloc(c) \o << <<"give", c>> >>)
      BY <2>2
    <3>2. c \in Size \union {WHOLE}
      BY SlubConstants
    <3> QED BY <3>1, <3>2, KmallocShape, CallKeeps
  <2>3. CASE Call(t, VmAlloc(FbPages) \o << <<"sections">> >>)
    BY <2>3, FbShape, CallKeeps
  <2>4. CASE \E o \in live : FreesObject(t, o[1], o[2])
    BY <2>4, FreeKeeps
  <2>5. CASE Step(t)
    BY <2>5, AllocKeeps, TakeAfterGrowKeeps, UnlockKeeps, FindKeeps, AddSegKeeps, LockRamKeeps,
       TakeFrameKeeps, MapKeeps, InstallKeeps, TrackKeeps, NewSubpagesKeeps, MapSectionsKeeps,
       PutKeeps, GiveKeeps DEF Step
  <2> QED BY <2>1, <2>2, <2>3, <2>4, <2>5
<1> QED BY <1>1, <1>2, <1>3

-----------------------------------------------------------------------------
(* Who waits for whom.  The mutexes have an order, and who holds one needs a *)
(* later one next, but for the two refills that wait for themselves.       *)

Rank(m) == IF m = PT THEN 2 ELSE IF m = VM THEN 3 ELSE IF m \in {C16, RAM} THEN 4 ELSE 1

LEMMA HoldsThenNeeds ==
    ASSUME LockInv, NEW u \in Thread, NEW m \in HeldBy(u), NEW n \in Needs(u), ~ WaitsForItself(u)
    PROVE  Rank(m) < Rank(n)
<1> DEFINE x == Head(todo[u])
           r == Tail(todo[u])
           h == HeldBy(u)
           v == vals[u]
           Early == (Size \ {C16}) \union {PT}
<1>1. todo[u] # <<>> /\ Shape(todo[u], h, v)
  <2>1. Shape(todo[u], h, v)
    BY DEF LockInv, Kept
  <2>2. todo[u] # <<>>
    <3> SUFFICES ASSUME todo[u] = <<>> PROVE FALSE
      OBVIOUS
    <3>1. h = {}
      <4> HIDE DEF h, v
      <4> QED BY <2>1, ConsFacts DEF Shape
    <3> QED BY <3>1
  <2> QED BY <2>1, <2>2
<1>2. At(x, r, h, v)
  <2> HIDE DEF h, v
  <2> QED BY <1>1, ShapeHas
<1>3. /\ C16 \in Size /\ PT \notin Size /\ VM \notin Early /\ RAM \notin Early
      /\ VM # RAM /\ C16 # PT /\ VM # C16
  BY LockNumbers
<1>4. /\ \A k \in Early : Rank(k) <= 2
      /\ \A k \in Size \ {C16} : Rank(k) = 1
      /\ Rank(PT) = 2 /\ Rank(VM) = 3 /\ Rank(C16) = 4 /\ Rank(RAM) = 4
  BY <1>3 DEF Rank
<1>5. C16 \notin h
  <2> SUFFICES ASSUME C16 \in h PROVE FALSE
    OBVIOUS
  <2>1. owner[C16] = u
    BY DEF HeldBy
  <2>2. x = <<"alloc", C16>> /\ slub_16byte_free = LowWater
    BY <2>1 DEF LockInv, C16Held
  <2>3. Needs(u) = {C16}
    BY <2>2 DEF Needs, Arg
  <2> QED BY <2>1, <2>2, <2>3 DEF WaitsForItself
<1>6. CASE x[1] = "alloc"
  <2> DEFINE c == Arg(u)
  <2>1. Needs(u) = {c} /\ n = c
    BY <1>6 DEF Needs
  <2>2. AtAlloc(c, r, h, v)
    <3> HIDE DEF r, h, v
    <3> QED BY <1>2, <1>6 DEF At, Arg
  <2> HIDE DEF c, r, h, v
  <2>3. CASE c \in h \intersect {C16, PT}
    <3>1. c = PT /\ owner[PT] = u
      BY <1>5, <2>3 DEF h, HeldBy
    <3>2. HeadOp(u) # "take"
      BY <1>6 DEF HeadOp
    <3>3. Empty(PT)
      BY <3>1, <3>2 DEF LockInv, PtHeld
    <3> QED BY <2>1, <3>1, <3>3 DEF WaitsForItself
  <2>4. CASE c \in Size /\ r = Cons(<<"give", c>>, <<>>) /\ h = {} /\ v = <<>>
    BY <2>4 DEF h
  <2>5. CASE c = C16 /\ \E d, q : Grows(d, q, h, v) /\ r = FromFind(1, FromPm(FromInit1(d, q)))
    <3>1. m \in Early
      BY <2>5, GrowsFacts DEF h
    <3> QED BY <1>4, <2>1, <2>5, <3>1
  <2>6. CASE c = C16 /\ \E k, q, g, w, p : /\ Ranges(k, q, g, w) /\ r = FromSeg(k, q)
                                           /\ h = g \union {VM} /\ v = Append(w, p) /\ IsPage(p)
    <3>1. m \in Early \union {VM}
      BY <2>6, RangesFacts DEF h
    <3> QED BY <1>4, <2>1, <2>6, <3>1
  <2>7. CASE c = C16 /\ \E q, w, p, f : /\ Inner(q, h, w) /\ r = FromTrack(q)
                                        /\ v = Append(Append(w, p), f) /\ Mapping(p, f)
    <3>1. m \in Early
      BY <2>7, InnerFacts DEF h
    <3> QED BY <1>4, <2>1, <2>7, <3>1
  <2>8. CASE c = PT /\ \E q, w, p, f : /\ Outer(q, h, w) /\ r = FromInstall(q)
                                       /\ v = Append(Append(w, p), f) /\ NewTable(p, f)
    <3>1. m \in Size \ {C16}
      BY <2>8, OuterFacts DEF h
    <3> QED BY <1>4, <2>1, <2>8, <3>1
  <2> QED BY <2>2, <2>3, <2>4, <2>5, <2>6, <2>7, <2>8 DEF AtAlloc
<1>7. CASE x[1] = "find"
  <2>1. n = VM
    BY <1>7 DEF Needs
  <2>2. \E k, q : Ranges(k, q, h, v)
    <3> HIDE DEF r, h, v
    <3> QED BY <1>2, <1>7 DEF At, AtFind
  <2>3. m \in Early
    <3> HIDE DEF v
    <3> QED BY <2>2, RangesFacts
  <2> QED BY <1>4, <2>1, <2>3
<1>8. CASE x[1] \in {"pm", "track", "init1"}
  <2>1. n = RAM
    BY <1>8 DEF Needs
  <2>2. (\E q, w : Inner(q, h, w)) \/ (\E c, q, w : Grows(c, q, h, w))
    <3> HIDE DEF r, h, v
    <3>1. x[1] = "pm" => \E q, w : Inner(q, h, w)
      BY <1>2 DEF At, AtPm
    <3>2. x[1] = "track" => \E q, w : Inner(q, h, w)
      BY <1>2 DEF At, AtTrack
    <3>3. x[1] = "init1" => \E c, q, w : Grows(c, q, h, w)
      BY <1>2 DEF At, AtInit1
    <3> QED BY <1>8, <3>1, <3>2, <3>3
  <2>3. m \in Early
    <3>1. CASE \E q, w : Inner(q, h, w)
      BY <3>1, InnerFacts
    <3>2. CASE \E c, q, w : Grows(c, q, h, w)
      BY <3>2, GrowsFacts
    <3> QED BY <2>2, <3>1, <3>2
  <2> QED BY <1>4, <2>1, <2>3
<1>9. CASE x[1] = "put"
  <2>1. h = {}
    <3> HIDE DEF h, r, v
    <3> QED BY <1>2, <1>9 DEF At, AtPut
  <2> QED BY <2>1
<1>10. CASE x[1] \notin {"alloc", "find", "pm", "track", "init1", "put"}
  <2>1. Needs(u) = {}
    BY <1>2, <1>10 DEF Needs, At
  <2> QED BY <2>1
<1> QED BY <1>6, <1>7, <1>8, <1>9, <1>10

\* Of threads that all wait for one another, the last mutex that one of them needs
\* is held by one that waits for itself.
LEMMA LocksOrdered == LockInv => OnlyRefillsBlock
<1> SUFFICES ASSUME LockInv, NEW S \in (SUBSET Thread) \ {{}},
                    \A t \in S : \E u \in S : Waits(t, u),
                    \A t \in S : ~ WaitsForItself(t)
             PROVE  FALSE
  BY DEF OnlyRefillsBlock
<1> DEFINE Wanted == {m \in Mutexes : \E t, u \in S : m \in Needs(t) /\ owner[m] = u}
           Left == {5 - Rank(m) : m \in Wanted}
<1>1. S \subseteq Thread /\ S # {}
  OBVIOUS
<1>2. \A m : Rank(m) \in 1 .. 4
  BY DEF Rank
<1>3. Left \in SUBSET Nat
  BY <1>2
<1>4. Left # {}
  <2>1. PICK t \in S : TRUE
    BY <1>1
  <2>2. PICK u \in S : Waits(t, u)
    BY <2>1
  <2>3. PICK m \in Mutexes : m \in Needs(t) /\ owner[m] = u
    BY <2>2 DEF Waits
  <2>4. m \in Wanted
    BY <2>1, <2>2, <2>3
  <2> QED BY <2>4
<1>5. PICK l \in Left : \A k \in Left : l <= k
  <2> HIDE DEF Left
  <2> QED BY <1>3, <1>4, LeastOf
<1>6. PICK m \in Wanted : l = 5 - Rank(m)
  BY <1>5
<1>7. PICK t \in S, u \in S : m \in Needs(t) /\ owner[m] = u
  BY <1>6
<1>8. PICK w \in S : Waits(u, w)
  BY <1>7
<1>9. PICK n \in Mutexes : n \in Needs(u) /\ owner[n] = w
  BY <1>8 DEF Waits
<1>10. n \in Wanted
  BY <1>7, <1>8, <1>9
<1>11. m \in HeldBy(u)
  BY <1>6, <1>7 DEF HeldBy
<1>12. Rank(m) < Rank(n)
  BY <1>1, <1>7, <1>9, <1>11, HoldsThenNeeds
<1>13. 5 - Rank(m) <= 5 - Rank(n)
  BY <1>5, <1>6, <1>10
<1> QED BY <1>2, <1>12, <1>13

-----------------------------------------------------------------------------
(* The ranges of virtual memory.                                           *)

\* The segments, and the range that the holder of their lock is about to record.
AreasTyped ==
    /\ IsSeq(vm_areas)
    /\ \A i \in DOMAIN vm_areas : vm_areas[i][2] \in Int /\ vm_areas[i][3] \in Nat \ {0}
RangeHeld ==
    \A t \in Thread : owner[VM] = t /\ owner[C16] # t =>
        /\ HeadOp(t) = "alloc" => Reserved(Top(t)[1], Head(Tail(todo[t]))[2])
        /\ HeadOp(t) = "seg" => Reserved(Below(t)[1], Arg(t))

Apart == \A i, j \in DOMAIN vm_areas : i # j =>
             LET a == vm_areas[i]  b == vm_areas[j] IN
             a[2] + a[3] <= b[2] \/ b[2] + b[3] <= a[2]
RangeInv == AreasTyped /\ Apart /\ RangeHeld

\* What the four tests of vm_find_seg() say.
LEMMA MeetsExact ==
    ASSUME NEW seg, seg[2] \in Int, seg[3] \in Nat \ {0}, NEW p \in Int, NEW n \in Nat \ {0}
    PROVE  ~ Meets(seg, p, p + n) <=> p + n <= seg[2] \/ seg[2] + seg[3] <= p
<1> DEFINE a == seg[2]
           b == seg[3]
<1> HIDE DEF a, b
<1>1. a \in Int /\ b \in Nat \ {0}
  BY DEF a, b
<1>2. Meets(seg, p, p + n) <=> \/ a <= p /\ p < a + b
                               \/ a < p + n /\ p + n <= a + b
                               \/ p <= a /\ a < p + n
                               \/ p < a + b /\ a + b <= p + n
  BY DEF Meets, a, b
<1> QED BY <1>1, <1>2 DEF a, b

\* Who holds the lock of vm.c allocates the structure of a segment, records it, or
\* gives the lock back.
LEMMA HolderOps ==
    ASSUME LockInv, NEW t \in Thread, owner[VM] = t
    PROVE  /\ todo[t] # <<>> /\ HeadOp(t) \in {"alloc", "seg", "unlock"}
           /\ At(Head(todo[t]), Tail(todo[t]), HeldBy(t), vals[t])
<1> DEFINE x == Head(todo[t])
           r == Tail(todo[t])
           h == HeldBy(t)
           v == vals[t]
           Early == (Size \ {C16}) \union {PT}
<1>1. VM \in h
  BY LockNumbers DEF HeldBy
<1>2. Shape(todo[t], h, v)
  BY DEF LockInv, Kept
<1> HIDE DEF h, v
<1>3. todo[t] # <<>>
  BY <1>1, <1>2, ConsFacts DEF Shape
<1>4. At(x, r, h, v)
  BY <1>2, <1>3, ShapeHas
<1> HIDE DEF x, r
<1>5. VM \notin Early /\ VM \notin Early \union {RAM}
  BY LockNumbers
<1>6. x[1] \in {"alloc", "seg", "unlock"}
  <2>1. x[1] # "take"
    BY <1>1, <1>4, <1>5, GrowsFacts DEF At, AtTake
  <2>2. x[1] # "find"
    BY <1>1, <1>4, <1>5, RangesFacts DEF At, AtFind
  <2>3. x[1] # "pm"
    BY <1>1, <1>4, <1>5, InnerFacts DEF At, AtPm
  <2>4. x[1] # "ram"
    <3> SUFFICES ASSUME x[1] = "ram" PROVE FALSE
      OBVIOUS
    <3>1. PICK q, g, w, p : Inner(q, g, w) /\ h = g \union {RAM}
      BY <1>4 DEF At, AtRam
    <3>2. g \subseteq Early
      BY <3>1, InnerFacts
    <3> QED BY <1>1, <1>5, <3>1, <3>2
  <2>5. x[1] # "map"
    BY <1>1, <1>4, <1>5, InnerFacts DEF At, AtMap
  <2>6. x[1] # "install"
    <3> SUFFICES ASSUME x[1] = "install" PROVE FALSE
      OBVIOUS
    <3>1. \E q, w : Outer(q, h, w)
      BY <1>4 DEF At, AtInstall
    <3>2. h \subseteq Size \ {C16}
      BY <3>1, OuterFacts
    <3> QED BY <1>1, <1>5, <3>2
  <2>7. x[1] # "track"
    BY <1>1, <1>4, <1>5, InnerFacts DEF At, AtTrack
  <2>8. x[1] # "init1"
    BY <1>1, <1>4, <1>5, GrowsFacts DEF At, AtInit1
  <2>9. x[1] \notin {"give", "sections", "put"}
    BY <1>1, <1>4 DEF At, AtGive, AtSections, AtPut
  <2> QED BY <1>4, <2>1, <2>2, <2>3, <2>4, <2>5, <2>6, <2>7, <2>8, <2>9 DEF At
<1> QED BY <1>3, <1>4, <1>6 DEF HeadOp, x, r, h, v

\* What a step of t does to the others, as far as they hold the lock.
Others(t) == \A u \in Thread \ {t} :
    /\ todo'[u] = todo[u] /\ vals'[u] = vals[u]
    /\ owner'[VM] = u => owner[VM] = u
    /\ owner[C16] = u => owner'[C16] = u

LEMMA OthersKeepRanges ==
    ASSUME RangeInv, NEW t \in Thread, Others(t), UNCHANGED vm_areas,
           owner'[VM] = t /\ owner'[C16] # t =>
               /\ HeadOp(t)' = "alloc" => Reserved(Top(t)[1], Head(Tail(todo[t]))[2])'
               /\ HeadOp(t)' = "seg" => Reserved(Below(t)[1], Arg(t))'
    PROVE  RangeInv'
<1>1. AreasTyped' /\ Apart'
  BY DEF RangeInv, AreasTyped, Apart
<1>2. RangeHeld'
  <2> SUFFICES ASSUME NEW u \in Thread, owner'[VM] = u, owner'[C16] # u
               PROVE  /\ HeadOp(u)' = "alloc" => Reserved(Top(u)[1], Head(Tail(todo[u]))[2])'
                      /\ HeadOp(u)' = "seg" => Reserved(Below(u)[1], Arg(u))'
    BY DEF RangeHeld
  <2>1. CASE u = t
    BY <2>1
  <2>2. CASE u # t
    <3>1. todo'[u] = todo[u] /\ vals'[u] = vals[u] /\ owner[VM] = u /\ owner[C16] # u
      BY <2>2 DEF Others
    <3>2. /\ HeadOp(u)' = HeadOp(u) /\ Top(u)' = Top(u) /\ Below(u)' = Below(u) /\ Arg(u)' = Arg(u)
          /\ Head(Tail(todo'[u])) = Head(Tail(todo[u]))
      BY <3>1 DEF HeadOp, Top, Below, Arg
    <3>3. \A p, n : Reserved(p, n) => Reserved(p, n)'
      BY DEF Reserved, Clear
    <3>4. /\ HeadOp(u) = "alloc" => Reserved(Top(u)[1], Head(Tail(todo[u]))[2])
          /\ HeadOp(u) = "seg" => Reserved(Below(u)[1], Arg(u))
      BY <3>1 DEF RangeInv, RangeHeld
    <3> QED BY <3>2, <3>3, <3>4 DEF Reserved, Clear
  <2> QED BY <2>1, <2>2
<1> QED BY <1>1, <1>2 DEF RangeInv

\* A step of t is nobody else's.
LEMMA OnlyMine ==
    ASSUME Kept, NEW t \in Thread, NEW n, NEW a
    PROVE  /\ Then(t, a) => \A u \in Thread \ {t} : todo'[u] = todo[u]
           /\ todo' = [todo EXCEPT ![t] = a] => \A u \in Thread \ {t} : todo'[u] = todo[u]
           /\ Pop(t, n) \/ Push(t, a) => \A u \in Thread \ {t} : vals'[u] = vals[u]
           /\ vals' = [vals EXCEPT ![t] = a] => \A u \in Thread \ {t} : vals'[u] = vals[u]
  BY DEF Kept, Then, Pop, Push

\* A step that takes no lock and gives none back, outside the section of vm.c.
Plain(t) == /\ \A u \in Thread \ {t} : todo'[u] = todo[u] /\ vals'[u] = vals[u]
            /\ UNCHANGED <<owner, vm_areas>>

LEMMA PlainKeepsRanges ==
    ASSUME LockInv, RangeInv, NEW t \in Thread, owner[VM] # t, Plain(t)
    PROVE  RangeInv'
<1>1. Others(t)
  BY DEF Others, Plain
<1> QED BY <1>1, OthersKeepRanges DEF Plain

LEMMA OpsOutside ==
    ASSUME LockInv, NEW t \in Thread, NEW op, Does(t, op), op \notin {"alloc", "seg", "unlock"}
    PROVE  owner[VM] # t
  BY HolderOps DEF Does, HeadOp

LEMMA StillKeepsRanges ==
    ASSUME RangeInv, UNCHANGED <<vm_areas, owner, todo, vals>>
    PROVE  RangeInv'
  BY DEF RangeInv, AreasTyped, Apart, RangeHeld, Reserved, Clear, HeadOp, Arg, Top, Below

LEMMA FailKeepsRanges == ASSUME RangeInv, NEW why, Fail(why) PROVE RangeInv'
  BY StillKeepsRanges DEF Fail

\* Actions that neither touch a segment nor hold its lock.
LEMMA ElsewhereKeepsRanges ==
    ASSUME LockInv, RangeInv, NEW t \in Thread,
           \/ Map(t) \/ Install(t) \/ Track(t) \/ NewSubpages(t) \/ MapSections(t)
           \/ Put(t) \/ Give(t)
    PROVE  RangeInv'
<1>1. CASE \E why : Fail(why)
  BY <1>1, FailKeepsRanges
<1>2. CASE ~ \E why : Fail(why)
  <2>1. Plain(t) /\ owner[VM] # t
    <3> USE DEF Plain, LockInv
    <3>1. CASE Map(t)
      BY <1>2, <3>1, OpsOutside, OnlyMine DEF Map
    <3>2. CASE Install(t)
      BY <1>2, <3>2, OpsOutside, OnlyMine DEF Install
    <3>3. CASE Track(t)
      BY <3>3, OpsOutside, OnlyMine DEF Track
    <3>4. CASE NewSubpages(t)
      BY <1>2, <3>4, OpsOutside, OnlyMine DEF NewSubpages
    <3>5. CASE MapSections(t)
      BY <1>2, <3>5, OpsOutside, OnlyMine DEF MapSections
    <3>6. CASE Put(t)
      BY <1>2, <3>6, OpsOutside, OnlyMine DEF Put
    <3>7. CASE Give(t)
      BY <3>7, OpsOutside, OnlyMine DEF Give
    <3> QED BY <3>1, <3>2, <3>3, <3>4, <3>5, <3>6, <3>7
  <2> QED BY <2>1, PlainKeepsRanges
<1> QED BY <1>1, <1>2

\* A call begins.
LEMMA StartKeepsRanges ==
    ASSUME LockInv, RangeInv, NEW t \in Thread,
           (\E ops : Call(t, ops)) \/ (\E p, c : FreesObject(t, p, c))
    PROVE  RangeInv'
<1>1. Plain(t) /\ todo[t] = <<>>
  <2> USE DEF Plain, LockInv
  <2>1. CASE \E ops : Call(t, ops)
    BY <2>1, OnlyMine DEF Call
  <2>2. CASE \E p, c : FreesObject(t, p, c)
    BY <2>2, OnlyMine DEF FreesObject
  <2> QED BY <2>1, <2>2
<1>2. owner[VM] # t
  BY <1>1, HolderOps
<1> QED BY <1>1, <1>2, PlainKeepsRanges

\* The lock of the frames.
LEMMA FramesKeepRanges ==
    ASSUME LockInv, RangeInv, NEW t \in Thread, LockRam(t) \/ TakeFrame(t)
    PROVE  RangeInv'
<1>1. CASE \E why : Fail(why)
  BY <1>1, FailKeepsRanges
<1>2. CASE ~ \E why : Fail(why)
  <2>1. owner[VM] # t /\ UNCHANGED vm_areas
    BY <1>2, OpsOutside DEF LockRam, TakeFrame
  <2>2. \A u \in Thread \ {t} : todo'[u] = todo[u] /\ vals'[u] = vals[u]
    <3>1. CASE LockRam(t)
      BY <3>1, OnlyMine DEF LockRam, LockInv
    <3>2. CASE TakeFrame(t)
      BY <1>2, <3>2, OnlyMine DEF TakeFrame, LockInv
    <3> QED BY <3>1, <3>2
  <2>3. owner' = [owner EXCEPT ![RAM] = t] \/ owner' = [owner EXCEPT ![RAM] = NoThread]
    BY <1>2 DEF LockRam, TakeFrame
  <2>4. owner'[VM] = owner[VM] /\ owner'[C16] = owner[C16]
    BY <2>3, LockNumbers DEF LockInv, Kept
  <2>5. Others(t)
    BY <2>2, <2>4 DEF Others
  <2> QED BY <2>1, <2>4, <2>5, OthersKeepRanges
<1> QED BY <1>1, <1>2

LEMMA UnlockKeepsRanges ==
    ASSUME LockInv, RangeInv, NEW t \in Thread, Unlock(t)
    PROVE  RangeInv'
<1> DEFINE m == Arg(t)
<1>1. Does(t, "unlock")
  BY DEF Unlock
<1>2. m = VM
  <2>1. AtUnlock(m, Tail(todo[t]), HeldBy(t), vals[t])
    BY <1>1, Doing DEF At
  <2> HIDE DEF m
  <2> QED BY <2>1, UnlockNext
<1>3. owner' = [owner EXCEPT ![VM] = NoThread] /\ Then(t, <<>>) /\ UNCHANGED <<vals, vm_areas>>
  BY <1>2 DEF Unlock
<1>4. owner'[VM] = NoThread /\ owner'[C16] = owner[C16] /\ NoThread \notin Thread
  BY <1>3, LockNumbers, SlubConstants DEF LockInv, Kept
<1>5. Others(t)
  BY <1>3, <1>4, OnlyMine DEF Others, LockInv
<1> QED BY <1>3, <1>4, <1>5, OthersKeepRanges

LEMMA PairOf ==
    ASSUME NEW y, NEW a, NEW b, y = <<a, b>>
    PROVE  y[1] = a /\ y[2] = b
  OBVIOUS

LEMMA FindKeepsRanges ==
    ASSUME LockInv, RangeInv, NEW t \in Thread, Find(t)
    PROVE  RangeInv'
<1>1. PICK n, p : n = Arg(t) /\ p = Max(FreeRanges(n))
  OBVIOUS
<1>2. Does(t, "find") /\ owner[VM] = NoThread
  BY DEF Find
<1>3. CASE FreeRanges(n) = {}
  BY <1>1, <1>3, FailKeepsRanges DEF Find
<1>4. CASE FreeRanges(n) # {}
  <2>1. /\ owner' = [owner EXCEPT ![VM] = t] /\ vals' = [vals EXCEPT ![t] = Append(@, <<p, -1>>)]
        /\ UNCHANGED vm_areas
    BY <1>1, <1>4 DEF Find, Push
  <2>2. todo' = [todo EXCEPT ![t] = Tail(@)]
    BY <1>1, <1>2, <1>4, ThenNothing DEF Find, Does
  <2>3. AtFind(n, Tail(todo[t]), HeldBy(t), vals[t]) /\ IsSeq(vals[t])
    BY <1>1, <1>2, Doing DEF At
  <2>4. PICK q : Ranges(n, q, HeldBy(t), vals[t]) /\ Tail(todo[t]) = FromSegAlloc(n, q)
    BY <2>3 DEF AtFind
  <2>5. IsSeq(q) /\ n \in {1, FbPages}
    BY <2>4, RangesFacts
  <2>6. n \in Nat \ {0}
    BY <2>5, SlubConstants
  <2>7. todo'[t] = Cons(<<"alloc", C16>>, FromSeg(n, q)) /\ Top(t)' = <<p, -1>>
    <3>1. Last(Append(vals[t], <<p, -1>>)) = <<p, -1>>
      BY <2>3, AppendFacts
    <3>2. todo'[t] = FromSegAlloc(n, q) /\ vals'[t] = Append(vals[t], <<p, -1>>)
      BY <2>1, <2>2, <2>4 DEF LockInv, Kept
    <3> QED BY <3>1, <3>2 DEF Top, FromSegAlloc
  <2>8. Head(Tail(todo'[t])) = <<"seg", n>> /\ HeadOp(t)' = "alloc"
    <3>1. IsSeq(FromSeg(n, q)) /\ IsSeq(FromUnlock(q))
      BY <2>5, FromAreSeqs
    <3>2. Head(todo'[t]) = <<"alloc", C16>> /\ Tail(todo'[t]) = FromSeg(n, q)
      BY <2>7, <3>1, ConsFacts
    <3>3. Head(FromSeg(n, q)) = <<"seg", n>>
      BY <3>1, ConsFacts DEF FromSeg
    <3>4. Head(todo'[t])[1] = "alloc"
      BY <3>2
    <3>5. HeadOp(t)' = "alloc"
      BY <3>4 DEF HeadOp
    <3> QED BY <3>2, <3>3, <3>5
  <2>9. Reserved(p, n)
    BY <1>1, <1>4, <2>6, FoundIsFree
  <2>10. Reserved(p, n)'
    BY <2>1, <2>9 DEF Reserved, Clear
  <2>11. owner'[C16] = owner[C16] /\ owner'[VM] = t
    BY <2>1, LockNumbers DEF LockInv, Kept
  <2>12. Others(t)
    BY <2>1, <2>2, <2>11, OnlyMine DEF Others, LockInv
  <2>13. Reserved(Top(t)[1], Head(Tail(todo[t]))[2])'
    <3>1. Head(Tail(todo'[t]))[2] = n
      BY <2>8, PairOf
    <3>2. Last(vals'[t])[1] = p
      BY <2>7 DEF Top
    <3> QED BY <2>10, <3>1, <3>2 DEF Reserved, Clear, Top
  <2> QED BY <2>1, <2>8, <2>12, <2>13, OthersKeepRanges
<1> QED BY <1>3, <1>4

\* The structure of the segment is there: the range found is still free.
LEMMA AllocKeepsRanges ==
    ASSUME LockInv, RangeInv, NEW t \in Thread, Alloc(t)
    PROVE  RangeInv'
<1>1. PICK c : c = Arg(t)
  OBVIOUS
<1>2. Does(t, "alloc") /\ owner[c] = NoThread /\ NoThread \notin Thread
  BY <1>1, SlubConstants DEF Alloc
<1>3. CASE \E why : Fail(why)
  BY <1>3, FailKeepsRanges
<1>4. CASE ~ \E why : Fail(why)
  <2>1. TakeObject(t, c) \/ (c # C16 /\ Grow(t, c))
    BY <1>1, <1>4, TakeCases DEF Alloc
  <2>2. /\ UNCHANGED vm_areas
        /\ \A u \in Thread \ {t} : todo'[u] = todo[u] /\ vals'[u] = vals[u]
    <3>1. CASE TakeObject(t, c)
      <4>1. UNCHANGED vm_areas /\ \E o : Push(t, o)
        BY <3>1 DEF TakeObject
      <4>2. \E a : Then(t, a)
        BY <3>1 DEF TakeObject
      <4> QED BY <4>1, <4>2, OnlyMine DEF LockInv
    <3>2. CASE Grow(t, c)
      BY <3>2, OnlyMine DEF Grow, LockInv
    <3> QED BY <2>1, <3>1, <3>2
  <2>3. owner' = [owner EXCEPT ![c] = t] \/ owner' = [owner EXCEPT ![c] = NoThread]
    BY <2>1 DEF TakeObject, Grow
  <2>4. /\ \A m \in Mutexes : m # c => owner'[m] = owner[m]
        /\ c \in Mutexes => owner'[c] \in {t, NoThread}
    BY <2>3 DEF LockInv, Kept
  <2>5. Others(t)
    BY <1>2, <2>2, <2>4, LockNumbers DEF Others
  <2>6. ASSUME owner'[VM] = t, owner'[C16] # t
        PROVE  /\ HeadOp(t)' = "alloc" => Reserved(Top(t)[1], Head(Tail(todo[t]))[2])'
               /\ HeadOp(t)' = "seg" => Reserved(Below(t)[1], Arg(t))'
    <3>1. AtAlloc(c, Tail(todo[t]), HeldBy(t), vals[t]) /\ c \notin HeldBy(t)
      BY <1>1, <1>2, Doing, ZenonT(60) DEF At, HeldBy
    <3>2. IsSeq(vals[t]) /\ IsSeq(Tail(todo[t])) /\ HeadOp(t) = "alloc"
      BY <1>2, Doing
    <3>3. c # VM
      <4> SUFFICES ASSUME c = VM PROVE FALSE
        OBVIOUS
      <4> QED BY <3>1, LockNumbers DEF AtAlloc
    <3>4. owner[VM] = t /\ VM \in HeldBy(t)
      BY <2>4, <2>6, <3>3, LockNumbers DEF HeldBy
    <3>5. owner[C16] # t
      <4>1. CASE c = C16
        BY <1>2, <4>1
      <4>2. CASE c # C16
        BY <2>4, <2>6, <4>2, LockNumbers
      <4> QED BY <4>1, <4>2
    <3>6. c = C16 /\ \E n, q, g, w, p : /\ Ranges(n, q, g, w) /\ Tail(todo[t]) = FromSeg(n, q)
                                        /\ HeldBy(t) = g \union {VM} /\ vals[t] = Append(w, p)
      <4> DEFINE r == Tail(todo[t])
                 h == HeldBy(t)
                 v == vals[t]
                 Early == (Size \ {C16}) \union {PT}
      <4> HIDE DEF r, h, v
      <4>1. VM \in h /\ c \notin h /\ AtAlloc(c, r, h, v) /\ VM \notin Early
        BY <3>1, <3>4, LockNumbers DEF r, h, v
      <4>2. ~ \E d, q : Grows(d, q, h, v) /\ r = FromFind(1, FromPm(FromInit1(d, q)))
        BY <4>1, GrowsFacts
      <4>3. ~ \E q, w : Inner(q, h, w)
        BY <4>1, InnerFacts
      <4>4. ~ \E q, w : Outer(q, h, w)
        BY <4>1, OuterFacts
      <4>5. c = C16 /\ \E n, q, g, w, p : /\ Ranges(n, q, g, w) /\ r = FromSeg(n, q)
                                          /\ h = g \union {VM} /\ v = Append(w, p) /\ IsPage(p)
        BY <4>1, <4>2, <4>3, <4>4 DEF AtAlloc
      <4> QED BY <4>5 DEF r, h, v
    <3>7. PICK n, q, g, w, p : /\ Ranges(n, q, g, w) /\ Tail(todo[t]) = FromSeg(n, q)
                               /\ vals[t] = Append(w, p)
      BY <3>6
    <3>8. IsSeq(q) /\ IsSeq(w) /\ IsSeq(FromUnlock(q))
      BY <3>7, RangesFacts, FromAreSeqs
    <3>9. Head(Tail(todo[t])) = <<"seg", n>> /\ Top(t) = p
      BY <3>7, <3>8, ConsFacts, AppendFacts DEF FromSeg, Top
    <3>10. Reserved(p[1], n)
      <4>1. Reserved(Top(t)[1], Head(Tail(todo[t]))[2])
        BY <3>2, <3>4, <3>5 DEF RangeInv, RangeHeld
      <4>2. Head(Tail(todo[t]))[2] = n /\ Top(t)[1] = p[1]
        BY <3>9, PairOf
      <4> QED BY <4>1, <4>2 DEF Reserved, Clear
    <3>11. TakeObject(t, c) /\ owner' # [owner EXCEPT ![c] = t]
      <4>1. owner' # [owner EXCEPT ![c] = t]
        BY <2>6, <3>6, LockNumbers DEF LockInv, Kept
      <4> QED BY <2>1, <3>6, <4>1
    <3>12. Then(t, <<>>) /\ \E o : Push(t, o)
      BY <3>11 DEF TakeObject
    <3>13. todo'[t] = FromSeg(n, q)
      BY <1>2, <3>7, <3>12, ThenNothing DEF Does, LockInv, Kept
    <3>14. PICK o : vals'[t] = Append(vals[t], o)
      BY <3>12 DEF Push, LockInv, Kept
    <3>15. HeadOp(t)' = "seg" /\ Arg(t)' = n
      <4>1. Head(todo'[t]) = <<"seg", n>>
        BY <3>8, <3>13, ConsFacts DEF FromSeg
      <4>2. Head(todo'[t])[1] = "seg" /\ Head(todo'[t])[2] = n
        BY <4>1
      <4> QED BY <4>2 DEF HeadOp, Arg
    <3>16. Below(t)' = p
      <4> DEFINE x == Append(w, p)
      <4>1. IsSeq(x) /\ x[Len(x)] = p /\ Len(x) \in Nat /\ Len(x) # 0
        BY <3>8, AppendFacts
      <4> HIDE DEF x
      <4>2. Len(Append(x, o)) = Len(x) + 1 /\ \A i \in 1 .. Len(x) : Append(x, o)[i] = x[i]
        BY <4>1, AppendFacts
      <4>3. Append(x, o)[Len(Append(x, o)) - 1] = p
        BY <4>1, <4>2
      <4>4. vals'[t] = Append(x, o)
        BY <3>7, <3>14 DEF x
      <4> QED BY <4>3, <4>4 DEF Below
    <3>17. Reserved(p[1], n)'
      BY <2>2, <3>10 DEF Reserved, Clear
    <3> QED BY <3>15, <3>16, <3>17 DEF Reserved, Clear
  <2> QED BY <2>2, <2>5, <2>6, OthersKeepRanges
<1> QED BY <1>3, <1>4

\* A list of segments with one in front.
LEMMA SegmentAdded ==
    ASSUME AreasTyped, Apart, NEW s, NEW p \in Int, NEW n \in Nat \ {0}, Clear(p, n),
           vm_areas' = << <<s, p, n>> >> \o vm_areas
    PROVE  AreasTyped' /\ Apart'
<1> DEFINE x == <<s, p, n>>
           a == vm_areas
           b == Cons(x, a)
<1>1. IsSeq(a) /\ \A i \in DOMAIN a : a[i][2] \in Int /\ a[i][3] \in Nat \ {0}
  BY DEF AreasTyped
<1>2. vm_areas' = b
  BY DEF Cons
<1>3. x[2] = p /\ x[3] = n
  OBVIOUS
<1> HIDE DEF x
<1>4. IsSeq(b) /\ b # <<>> /\ Head(b) = x /\ Tail(b) = a
  BY <1>1, ConsFacts
<1> HIDE DEF b
<1>5. /\ Len(a) \in Nat /\ DOMAIN a = 1 .. Len(a) /\ Len(b) = Len(a) + 1 /\ DOMAIN b = 1 .. Len(a) + 1
      /\ b[1] = x /\ \A i \in 1 .. Len(a) : b[i + 1] = a[i]
  <2>1. PICK S : a \in Seq(S)
    BY <1>1 DEF IsSeq
  <2>2. PICK T : b \in Seq(T)
    BY <1>4 DEF IsSeq
  <2>3. Len(a) \in Nat /\ DOMAIN a = 1 .. Len(a) /\ Len(b) \in Nat /\ DOMAIN b = 1 .. Len(b)
    BY <2>1, <2>2
  <2>4. Len(b) # 0 /\ b[1] = x
    BY <1>4, <2>2
  <2>5. Len(Tail(b)) = Len(b) - 1 /\ \A i \in 1 .. Len(b) - 1 : Tail(b)[i] = b[i + 1]
    BY <2>2, <2>3, <2>4
  <2>6. Len(a) = Len(b) - 1 /\ \A i \in 1 .. Len(b) - 1 : a[i] = b[i + 1]
    BY <1>4, <2>5
  <2> QED BY <2>3, <2>4, <2>6
<1>6. \A i \in DOMAIN b : (i = 1 /\ b[i] = x) \/ (i - 1 \in DOMAIN a /\ b[i] = a[i - 1])
  <2> SUFFICES ASSUME NEW i \in DOMAIN b
               PROVE  (i = 1 /\ b[i] = x) \/ (i - 1 \in DOMAIN a /\ b[i] = a[i - 1])
    OBVIOUS
  <2>1. i \in 1 .. Len(a) + 1 /\ (i = 1 \/ i - 1 \in 1 .. Len(a))
    BY <1>5
  <2>2. i - 1 \in 1 .. Len(a) => b[(i - 1) + 1] = a[i - 1] /\ (i - 1) + 1 = i
    BY <1>5, <2>1
  <2> QED BY <1>5, <2>1, <2>2
<1>7. AreasTyped'
  BY <1>1, <1>2, <1>3, <1>4, <1>6, ZenonT(60) DEF AreasTyped
<1>8. \A i \in DOMAIN a : p + n <= a[i][2] \/ a[i][2] + a[i][3] <= p
  BY <1>1, MeetsExact DEF Clear
<1>9. Apart'
  <2> SUFFICES ASSUME NEW i \in DOMAIN b, NEW j \in DOMAIN b, i # j
               PROVE  b[i][2] + b[i][3] <= b[j][2] \/ b[j][2] + b[j][3] <= b[i][2]
    BY <1>2 DEF Apart
  <2>1. CASE i = 1
    <3>1. b[i] = x /\ j - 1 \in DOMAIN a /\ b[j] = a[j - 1]
      BY <1>5, <1>6, <2>1
    <3> QED BY <1>3, <1>8, <3>1
  <2>2. CASE j = 1
    <3>1. b[j] = x /\ i - 1 \in DOMAIN a /\ b[i] = a[i - 1]
      BY <1>5, <1>6, <2>2
    <3> QED BY <1>3, <1>8, <3>1
  <2>3. CASE i # 1 /\ j # 1
    <3>1. i - 1 \in DOMAIN a /\ b[i] = a[i - 1] /\ j - 1 \in DOMAIN a /\ b[j] = a[j - 1]
      BY <1>6, <2>3
    <3>2. i - 1 # j - 1
      BY <1>5
    <3> QED BY <3>1, <3>2 DEF Apart
  <2> QED BY <2>1, <2>2, <2>3
<1> QED BY <1>7, <1>9

LEMMA AddSegKeepsRanges ==
    ASSUME LockInv, RangeInv, NEW t \in Thread, AddSeg(t)
    PROVE  RangeInv'
<1>1. PICK n, s, p : n = Arg(t) /\ s = Top(t) /\ p = Below(t)[1]
  OBVIOUS
<1>2. Does(t, "seg") /\ Pop(t, 1) /\ Then(t, <<>>) /\ UNCHANGED owner
      /\ vm_areas' = << <<s, p, n>> >> \o vm_areas
  BY <1>1 DEF AddSeg
<1>3. HeadOp(t) = "seg" /\ AtSeg(n, Tail(todo[t]), HeldBy(t), vals[t]) /\ C16 \notin HeldBy(t)
  BY <1>1, <1>2, Doing DEF At
<1>4. owner[VM] = t /\ owner[C16] # t
  <2>1. VM \in HeldBy(t)
    BY <1>3 DEF AtSeg
  <2> QED BY <1>3, <2>1, LockNumbers DEF HeldBy
<1>5. Reserved(p, n)
  BY <1>1, <1>3, <1>4 DEF RangeInv, RangeHeld
<1>6. AreasTyped' /\ Apart'
  BY <1>2, <1>5, SegmentAdded DEF Reserved, RangeInv
<1>7. HeadOp(t)' = "unlock"
  <2>1. PICK q : IsSeq(q) /\ Tail(todo[t]) = FromUnlock(q)
    BY <1>3, RangesFacts DEF AtSeg
  <2>2. todo'[t] = FromUnlock(q)
    BY <1>2, <2>1, ThenNothing DEF Does, LockInv, Kept
  <2>3. Head(todo'[t]) = <<"unlock", VM>>
    BY <2>1, <2>2, ConsFacts DEF FromUnlock
  <2>4. Head(todo'[t])[1] = "unlock"
    BY <2>3
  <2> QED BY <2>4 DEF HeadOp
<1>8. RangeHeld'
  <2> SUFFICES ASSUME NEW u \in Thread, owner'[VM] = u, owner'[C16] # u
               PROVE  /\ HeadOp(u)' = "alloc" => Reserved(Top(u)[1], Head(Tail(todo[u]))[2])'
                      /\ HeadOp(u)' = "seg" => Reserved(Below(u)[1], Arg(u))'
    BY DEF RangeHeld
  <2>1. u = t
    BY <1>2, <1>4
  <2> QED BY <1>7, <2>1
<1> QED BY <1>6, <1>8 DEF RangeInv

LEMMA TakeAfterGrowKeepsRanges ==
    ASSUME LockInv, RangeInv, NEW t \in Thread, TakeAfterGrow(t)
    PROVE  RangeInv'
<1>1. PICK c : c = Arg(t)
  OBVIOUS
<1>8. CASE \E why : Fail(why)
  BY <1>8, FailKeepsRanges
<1> SUFFICES ASSUME ~ \E why : Fail(why) PROVE RangeInv'
  BY <1>8
<1>2. Does(t, "take") /\ TakeObject(t, c)
  BY <1>1, TakeCases DEF TakeAfterGrow
<1>3. c \in HeldBy(t) /\ c # C16 /\ owner[VM] # t
  <2>1. AtTake(c, Tail(todo[t]), HeldBy(t), vals[t]) /\ IsSeq(Tail(todo[t]))
    BY <1>1, <1>2, Doing DEF At
  <2>2. owner[VM] # t
    BY <1>2, OpsOutside
  <2> QED BY <2>1, <2>2, GrowsFacts, LockNumbers DEF AtTake
<1>4. /\ UNCHANGED vm_areas /\ \E o : Push(t, o)
      /\ owner' = [owner EXCEPT ![c] = NoThread] /\ Then(t, <<>>)
  BY <1>2, <1>3 DEF TakeObject, IsLow
<1>5. owner' = [m \in Mutexes |-> IF m = c THEN NoThread ELSE owner[m]]
  BY <1>4 DEF LockInv, Kept
<1>6. /\ \A u \in Thread : owner'[VM] = u => owner[VM] = u
      /\ owner'[C16] = owner[C16]
  BY <1>3, <1>5, LockNumbers, SlubConstants
<1>7. Others(t)
  BY <1>4, <1>6, OnlyMine DEF Others, LockInv
<1> QED BY <1>3, <1>4, <1>6, <1>7, OthersKeepRanges

LEMMA InitRangeInv == Init => RangeInv
<1> SUFFICES ASSUME Init PROVE RangeInv
  OBVIOUS
<1>1. \E s : vm_areas = << <<s, NVa - NSizes, NSizes>> >>
  <2>1. vm_areas = << <<<<NVa - NSizes + C16, NSizes>>, NVa - NSizes + 0, NSizes>> >>
    BY DEF Init
  <2>2. NVa - NSizes + 0 = NVa - NSizes
    BY SlubConstants
  <2> QED BY <2>1, <2>2
<1>2. PICK s : vm_areas = << <<s, NVa - NSizes, NSizes>> >>
  BY <1>1
<1>3. IsSeq(vm_areas)
  <2> DEFINE x == <<s, NVa - NSizes, NSizes>>
  <2> HIDE DEF x
  <2>1. <<x>> \in Seq({x})
    OBVIOUS
  <2> QED BY <1>2, <2>1 DEF IsSeq, x
<1>4. AreasTyped
  BY <1>2, <1>3, SlubConstants DEF AreasTyped
<1>5. Apart
  <2>1. \A i \in DOMAIN vm_areas : i = 1
    BY <1>2
  <2> QED BY <2>1 DEF Apart
<1>6. RangeHeld
  <2>1. owner = [m \in Mutexes |-> NoThread]
    BY DEF Init
  <2>2. NoThread \notin Thread /\ VM \in Mutexes
    BY SlubConstants, LockNumbers
  <2>3. \A t \in Thread : owner[VM] # t
    BY <2>1, <2>2
  <2> QED BY <2>3 DEF RangeHeld
<1> QED BY <1>4, <1>5, <1>6 DEF RangeInv

LEMMA NextKeepsRanges == LockInv /\ RangeInv /\ [Next]_vars /\ ~ misfreed' => RangeInv'
<1> SUFFICES ASSUME LockInv, RangeInv, [Next]_vars, ~ misfreed' PROVE RangeInv'
  OBVIOUS
<1>1. CASE UNCHANGED vars
  BY <1>1, StillKeepsRanges DEF vars
<1>2. CASE \E why : Fail(why)
  BY <1>2, FailKeepsRanges
<1>3. CASE Next /\ ~ \E why : Fail(why)
  <2>1. PICK t \in Thread : \/ \E ops : Call(t, ops)
                            \/ \E p, c : FreesObject(t, p, c)
                            \/ Step(t)
    BY <1>3, NextCases
  <2>2. CASE (\E ops : Call(t, ops)) \/ (\E p, c : FreesObject(t, p, c))
    BY <2>2, StartKeepsRanges
  <2>3. CASE Step(t)
    BY <2>3, AllocKeepsRanges, TakeAfterGrowKeepsRanges, UnlockKeepsRanges, FindKeepsRanges,
       AddSegKeepsRanges, FramesKeepRanges, ElsewhereKeepsRanges DEF Step
  <2> QED BY <2>1, <2>2, <2>3
<1> QED BY <1>1, <1>2, <1>3

-----------------------------------------------------------------------------
(* The invariant of the heap.                                              *)

PtSl       == <<Static, -1>>
Sl16       == <<P16, C16>>
BootSlabs  == {<<P16, i>> : i \in Size} \union {PtSl}
BootFrames == 1 .. NSizes + 1
BootPage(i) == NVa - NSizes + i

\* Slabs: one to a page; those of boot stay, and the only one of 16 bytes is one of them.
SlabRec == [size : Size \union {PT}, page : VA \union {Static}, nfree : Nat, chain : Seq(Nat)]
SlabOk(sl) ==
    /\ slabs[sl] \in SlabRec
    /\ slabs[sl].nfree = Len(slabs[sl].chain) /\ IsInjective(slabs[sl].chain)
    /\ sl = PtSl \/ IsStruct(sl)
    /\ slabs[sl].page = Static <=> sl = PtSl
    /\ slabs[sl].size = C16 => sl = Sl16
SlabsOk ==
    /\ slabs = [sl \in DOMAIN slabs |-> slabs[sl]]
    /\ \A sl \in DOMAIN slabs : SlabOk(sl)
    /\ \A a, b \in DOMAIN slabs : slabs[a].page = slabs[b].page => a = b
    /\ \A i \in Size : /\ <<P16, i>> \in DOMAIN slabs
                       /\ slabs[<<P16, i>>].size = i /\ slabs[<<P16, i>>].page = BootPage(i)
    /\ PtSl \in DOMAIN slabs /\ slabs[PtSl].size = PT

\* Each on the list that it should be on, once.
Listed(x, s) == \E i \in DOMAIN s : s[i] = x
Enumerates(s, S) == IsSeq(s) /\ IsInjective(s) /\ \A x : x \in S <=> Listed(x, s)
ListOf(s) == IF s.nfree = NObj[s.size] THEN "free" ELSE IF s.nfree = 0 THEN "busy" ELSE "part"
Filed(c, l) == {sl \in DOMAIN slabs : slabs[sl].size = c /\ ListOf(slabs[sl]) = l}
ListsOk == \A c \in Size \union {PT}, l \in {"free", "part", "busy"} : Enumerates(lists[c][l], Filed(c, l))

\* The count of 16-byte objects.
LowOk ==
    /\ slub_16byte_free \in Nat /\ slub_16byte_free <= slabs[Sl16].nfree
    /\ LowWater <= slub_16byte_free
    /\ owner[C16] = NoThread => LowWater < slub_16byte_free

\* Entries of frames: a size alone is that of a page of boot.
FramesOk ==
    /\ ram \subseteq 1 .. NRam /\ BootFrames \subseteq ram
    /\ ram_map = [f \in 1 .. NRam |-> ram_map[f]]
    /\ \A f \in 1 .. NRam : ram_map[f] = [lsize |-> ram_map[f].lsize, va |-> ram_map[f].va]
    /\ ram_map[1].lsize = {PT} /\ ram_map[1].va = PtSl
    /\ \A i \in Size : ram_map[i + 2].lsize = {i} /\ ram_map[i + 2].va = <<P16, i>>
    /\ \A f \in 1 .. NRam : f \notin BootFrames =>
          /\ ram_map[f].lsize = {} \/ WHOLE \in ram_map[f].lsize
          /\ ram_map[f].va # NoPt => WHOLE \in ram_map[f].lsize
          /\ ram_map[f].va \notin BootSlabs

\* Page tables: only those of the page of boot can be looked up (Walk).
Usable(d) == IsPt(d) /\ d[1] = 1
Fr(q) == IF Usable(pd[Pde(q)]) THEN ptes[pd[Pde(q)]][Pte(q)] ELSE 0
Pdes == 0 .. Pde(NVa - 1)
PtesOk ==
    /\ ptes = [d \in DOMAIN ptes |-> ptes[d]]
    /\ \A d \in DOMAIN ptes : /\ d = <<d[1], d[2]>> /\ d[1] \in 1 .. NRam
                              /\ ptes[d] = [i \in 0 .. NPte - 1 |-> ptes[d][i]]
                              /\ d[1] = 1 => \A i \in 0 .. NPte - 1 : ptes[d][i] \in {0} \union 2 .. NRam
TablesOk ==
    /\ pd = [x \in Pdes |-> pd[x]]
    /\ PtesOk
    /\ \A x \in Pdes : IsPt(pd[x]) => pd[x] \in DOMAIN ptes
    /\ pd[Pde(NVa - 1)] = <<1, 0>>
    /\ \A x, y \in Pdes : Usable(pd[x]) /\ pd[x] = pd[y] => x = y
    /\ \A i \in Size : Fr(BootPage(i)) = i + 2

\* What threads keep.
ValAt(t, i, q) == t \in Thread /\ i \in DOMAIN vals[t] /\ vals[t][i] = q
PageVal(q)  == \E t, i : ValAt(t, i, <<q, -1>>)
FrameVal(f) == \E t, i : ValAt(t, i, <<f>>)
SlabPage(q) == \E sl \in DOMAIN slabs : slabs[sl].page = q
Tracked(q)  == PageVal(q) \/ SlabPage(q)

\* Mappings of the pages that threads or slabs have.
OneFrame == \A p, q \in VA : Tracked(p) /\ Tracked(q) /\ Fr(p) = Fr(q) /\ Fr(p) # 0 => p = q
FrameBeside == \A q \in VA : Tracked(q) /\ Fr(q) # 0 =>
                   \A t, i : ValAt(t, i, <<Fr(q)>>) => ValAt(t, i - 1, <<q, -1>>)
FramesUsed ==
    /\ \A q \in VA : Tracked(q) /\ Fr(q) # 0 =>
           Fr(q) \in ram /\ (Fr(q) \in BootFrames => \E i \in Size : q = BootPage(i))
    /\ \A f : FrameVal(f) => f \in ram \ BootFrames
WholeFirst == \A t, i : \A q \in VA : ValAt(t, i, <<q, -1>>) /\ Fr(q) # 0 =>
                  WHOLE \in ram_map[Fr(q)].lsize \/ ValAt(t, i + 1, <<Fr(q)>>)
Leads == \A sl \in DOMAIN slabs : slabs[sl].page \in VA /\ Fr(slabs[sl].page) # 0 =>
             ram_map[Fr(slabs[sl].page)].va = sl
TableFrames == \A d \in DOMAIN ptes :
    /\ d[1] \in ram /\ ~ FrameVal(d[1])
    /\ ram_map[d[1]].va \in DOMAIN slabs /\ slabs[ram_map[d[1]].va].size = PT
    /\ \A q \in VA : Tracked(q) /\ Fr(q) = d[1] => q = slabs[ram_map[d[1]].va].page
MapsOk == OneFrame /\ FrameBeside /\ FramesUsed /\ WholeFirst /\ Leads /\ TableFrames

\* Who has what is at q: at most one; an object of a slab's page, somebody; and while
\* a page is not yet given out, nobody has an object of it.
IsSeg(a) == \E i \in DOMAIN vm_areas : vm_areas[i] = a
OnChain(sl, q) == /\ sl \in DOMAIN slabs
                  /\ \E i \in DOMAIN slabs[sl].chain : q = <<slabs[sl].page, slabs[sl].chain[i]>>
Has(k, a, b, q) ==
    \/ k = "val" /\ ValAt(a, b, q)
    \/ k = "live" /\ b = 0 /\ <<q, a>> \in live
    \/ k = "slab" /\ a = 0 /\ b = 0 /\ q \in DOMAIN slabs
    \/ k = "seg" /\ b = 0 /\ IsSeg(a) /\ a[1] = q
    \/ k = "whole" /\ a = 0 /\ b = 0 /\ q \in whole
    \/ k = "pt" /\ b = 0 /\ a \in DOMAIN ptes /\ PtObject(a) = q
    \/ k = "free" /\ b = 0 /\ OnChain(a, q)
Held(q) == \E k, a, b : Has(k, a, b, q)
Own == \A q : \A k, a, b, l, c, d : Has(k, a, b, q) /\ Has(l, c, d, q) => k = l /\ a = c /\ b = d
NoneLost == \A sl \in DOMAIN slabs : \A k \in 0 .. NObj[slabs[sl].size] - 1 : Held(<<slabs[sl].page, k>>)
InPage == \A sl \in DOMAIN slabs : \A k \in Nat : Held(<<slabs[sl].page, k>>) => k < NObj[slabs[sl].size]
PageAlone == \A q \in VA, k \in Nat : PageVal(q) => ~ Held(<<q, k>>)
TokensOk == Own /\ NoneLost /\ InPage /\ PageAlone

\* Every page in use lies in a segment, or is about to.
Known(q) == \E i \in DOMAIN vm_areas : vm_areas[i][2] <= q /\ q < vm_areas[i][2] + vm_areas[i][3]
Used(q) == (\E k \in Int : Held(<<q, k>>)) \/ Fr(q) # 0
Pending(q) == \E t \in Thread : /\ owner[VM] = t
                                /\ \/ owner[C16] = t
                                   \/ HeadOp(t) = "alloc" /\ Top(t) = <<q, -1>>
                                   \/ HeadOp(t) = "seg" /\ Below(t) = <<q, -1>>
KnownOk == \A q \in VA : Used(q) => Known(q) \/ Pending(q)

\* What a thread is about to do.
DoesNow(t, op) == todo[t] # <<>> /\ HeadOp(t) = op
Home(q) == \E sl \in DOMAIN slabs : slabs[sl].page = q /\ slabs[sl].size # PT
GivesOk(t) == DoesNow(t, "give") /\ Arg(t) # WHOLE => Home(Top(t)[1])
InstallsOk(t) == DoesNow(t, "install") =>
                  \E sl \in DOMAIN slabs : slabs[sl].page = Top(t)[1] /\ slabs[sl].size = PT
TakesOk(t) == DoesNow(t, "take") => Filed(Arg(t), "free") # {}
ThreadsOk == \A t \in Thread : GivesOk(t) /\ InstallsOk(t) /\ TakesOk(t)

\* What callers hold.
LiveOk == \A o \in live :
    /\ o = <<o[1], o[2]>> /\ o[2] \in Size \union {WHOLE}
    /\ IF o[2] = WHOLE THEN IsPage(o[1])
       ELSE IsObj(o[1]) /\ Home(o[1][1])

\* The structures of segments and whole pages.
StructsOk == /\ \A a : IsSeg(a) => IsStruct(a[1])
             /\ \A q \in whole : IsStruct(q)

HeapInv == /\ SlabsOk /\ ListsOk /\ LowOk /\ FramesOk /\ TablesOk /\ MapsOk
           /\ TokensOk /\ KnownOk /\ ThreadsOk /\ LiveOk /\ StructsOk

-----------------------------------------------------------------------------
(* Facts about pairs, numbers and lists.                                   *)

LEMMA Tuples ==
    /\ \A a, b, c, d : <<a, b>> = <<c, d>> <=> a = c /\ b = d
    /\ \A a, b : <<a>> = <<b>> <=> a = b
    /\ \A a, b, c : <<a, b>> # <<c>>
    /\ \A a, b : <<a, b>> # <<>> /\ <<a>> # <<>>
    /\ \A a, b : <<a, b>>[1] = a /\ <<a, b>>[2] = b
    /\ \A a : <<a>>[1] = a
<1>1. \A a, b, c : <<a, b>> # <<c>>
  <2> SUFFICES ASSUME NEW a, NEW b, NEW c, <<a, b>> = <<c>> PROVE FALSE
    OBVIOUS
  <2>1. Len(<<a, b>>) = 2 /\ Len(<<c>>) = 1
    OBVIOUS
  <2> QED BY <2>1
<1> QED BY <1>1

\* Numbers of locks, pages, and lists.
LEMMA Numbers ==
    /\ NSizes \in Nat /\ 2 <= NSizes /\ NVa \in Nat /\ NPte \in Nat /\ 1 <= NPte
    /\ Static = NVa /\ Static \notin VA /\ C16 = 1 /\ C16 \in Size /\ PT = NSizes
    /\ PT \notin Size /\ C16 # PT /\ WHOLE \notin Size /\ WHOLE # PT
    /\ NRam \in Int
    /\ \A c \in Size \union {PT} : NObj[c] \in Nat /\ 2 <= NObj[c]
    /\ \A i \in Size : i \in Nat /\ i < NSizes
<1>1. /\ NSizes \in Nat /\ 2 <= NSizes /\ NVa \in Nat /\ NPte \in Nat /\ 1 <= NPte
      /\ NRam > NSizes /\ NObj \in [Size \union {PT} -> Nat \ {0, 1}]
  BY SlubConstants
<1>2. NRam \in Int
  BY SlubConstants
<1>3. \A c \in Size \union {PT} : NObj[c] \in Nat /\ 2 <= NObj[c]
  BY <1>1
<1> QED BY <1>1, <1>2, <1>3 DEF Size, C16, PT, WHOLE, VA, Static

-----------------------------------------------------------------------------
(* Results pushed and popped.                                              *)

LEMMA ValsTyped ==
    ASSUME LockInv, NEW t \in Thread
    PROVE  /\ vals = [u \in Thread |-> vals[u]] /\ IsSeq(vals[t])
           /\ todo = [u \in Thread |-> todo[u]]
           /\ Len(vals[t]) \in Nat /\ DOMAIN vals[t] = 1 .. Len(vals[t])
<1>1. IsSeq(vals[t]) /\ Kept
  BY DEF LockInv, Kept, Shape
<1>2. PICK S : vals[t] \in Seq(S)
  BY <1>1 DEF IsSeq
<1> QED BY <1>1, <1>2 DEF Kept

LEMMA SeqFacts ==
    ASSUME NEW s, IsSeq(s)
    PROVE  Len(s) \in Nat /\ DOMAIN s = 1 .. Len(s)
<1>1. PICK S : s \in Seq(S)
  BY DEF IsSeq
<1> QED BY <1>1

LEMMA AppendDomain ==
    ASSUME NEW s, IsSeq(s), NEW v
    PROVE  /\ DOMAIN Append(s, v) = 1 .. Len(s) + 1 /\ DOMAIN s = 1 .. Len(s) /\ Len(s) \in Nat
           /\ \A i \in 1 .. Len(s) : Append(s, v)[i] = s[i]
           /\ Append(s, v)[Len(s) + 1] = v
<1>1. /\ IsSeq(Append(s, v)) /\ Len(Append(s, v)) = Len(s) + 1 /\ Append(s, v)[Len(s) + 1] = v
      /\ \A i \in 1 .. Len(s) : Append(s, v)[i] = s[i]
  BY AppendFacts
<1> QED BY <1>1, SeqFacts

LEMMA Pushed ==
    ASSUME LockInv, NEW t \in Thread, NEW v, vals' = [vals EXCEPT ![t] = Append(@, v)]
    PROVE  \A u, i, q : ValAt(u, i, q)' <=> ValAt(u, i, q) \/ (u = t /\ i = Len(vals[t]) + 1 /\ q = v)
<1>1. vals = [u \in Thread |-> vals[u]] /\ IsSeq(vals[t])
  BY ValsTyped
<1>2. vals'[t] = Append(vals[t], v) /\ \A u \in Thread : u # t => vals'[u] = vals[u]
  BY <1>1
<1> SUFFICES ASSUME NEW u, NEW i, NEW q
             PROVE  ValAt(u, i, q)' <=> ValAt(u, i, q) \/ (u = t /\ i = Len(vals[t]) + 1 /\ q = v)
  OBVIOUS
<1>3. CASE u = t
  <2>1. /\ DOMAIN Append(vals[t], v) = 1 .. Len(vals[t]) + 1 /\ DOMAIN vals[t] = 1 .. Len(vals[t])
        /\ Len(vals[t]) \in Nat
        /\ \A j \in 1 .. Len(vals[t]) : Append(vals[t], v)[j] = vals[t][j]
        /\ Append(vals[t], v)[Len(vals[t]) + 1] = v
    BY <1>1, AppendDomain
  <2> QED BY <1>2, <1>3, <2>1 DEF ValAt
<1>4. CASE u # t
  BY <1>2, <1>4 DEF ValAt
<1> QED BY <1>3, <1>4

LEMMA Popped ==
    ASSUME LockInv, NEW t \in Thread, NEW n \in Nat, n <= Len(vals[t]), Pop(t, n)
    PROVE  \A u, i, q : ValAt(u, i, q)' <=> ValAt(u, i, q) /\ ~ (u = t /\ i > Len(vals[t]) - n)
<1>1. vals = [u \in Thread |-> vals[u]] /\ IsSeq(vals[t])
  BY ValsTyped
<1>2. /\ vals'[t] = SubSeq(vals[t], 1, Len(vals[t]) - n)
      /\ \A u \in Thread : u # t => vals'[u] = vals[u]
  BY <1>1 DEF Pop
<1>3. PICK S : vals[t] \in Seq(S)
  BY <1>1 DEF IsSeq
<1>4. /\ DOMAIN vals[t] = 1 .. Len(vals[t]) /\ Len(vals[t]) \in Nat
      /\ DOMAIN SubSeq(vals[t], 1, Len(vals[t]) - n) = 1 .. Len(vals[t]) - n
      /\ \A i \in 1 .. Len(vals[t]) - n : SubSeq(vals[t], 1, Len(vals[t]) - n)[i] = vals[t][i]
  BY <1>3
<1> SUFFICES ASSUME NEW u, NEW i, NEW q
             PROVE  ValAt(u, i, q)' <=> ValAt(u, i, q) /\ ~ (u = t /\ i > Len(vals[t]) - n)
  OBVIOUS
<1>5. CASE u = t
  <2>1. PICK l, w : l = Len(vals[t]) - n /\ w = vals'[t]
    OBVIOUS
  <2>2. l \in Int /\ l <= Len(vals[t]) /\ DOMAIN w = 1 .. l /\ \A j \in 1 .. l : w[j] = vals[t][j]
    BY <1>2, <1>4, <2>1
  <2>3. ValAt(u, i, q)' <=> i \in 1 .. l /\ vals[t][i] = q
    BY <1>5, <2>1, <2>2 DEF ValAt
  <2>4. ValAt(u, i, q) <=> i \in 1 .. Len(vals[t]) /\ vals[t][i] = q
    BY <1>4, <1>5 DEF ValAt
  <2>5. i \in 1 .. l <=> i \in 1 .. Len(vals[t]) /\ ~ i > l
    BY <1>4, <2>2
  <2> QED BY <1>5, <2>1, <2>3, <2>4, <2>5
<1>6. CASE u # t
  BY <1>2, <1>6 DEF ValAt
<1> QED BY <1>5, <1>6

-----------------------------------------------------------------------------
(* Lists of slabs.                                                         *)

LEMMA WithoutKeeps ==
    ASSUME NEW s, NEW S, NEW x, Enumerates(s, S)
    PROVE  Enumerates(Without(s, x), S \ {x})
<1>1. PICK T : s \in Seq(T)
  BY DEF Enumerates, IsSeq
<1>2. /\ \A i, j \in DOMAIN s : s[i] = s[j] => i = j
      /\ DOMAIN s = 1 .. Len(s) /\ Len(s) \in Nat
      /\ \A y : y \in S <=> Listed(y, s)
  BY <1>1 DEF Enumerates, IsInjective
<1>3. CASE x \notin Range(s)
  <2>1. Without(s, x) = s
    BY <1>3 DEF Without
  <2>2. x \notin S
    BY <1>2, <1>3 DEF Listed, Range
  <2> QED BY <2>1, <2>2 DEF Enumerates
<1>4. CASE x \in Range(s)
  <2>1. PICK n : n = CHOOSE i \in DOMAIN s : s[i] = x
    OBVIOUS
  <2>2. n \in DOMAIN s /\ s[n] = x
    BY <1>4, <2>1 DEF Range
  <2> DEFINE w == SubSeq(s, 1, n - 1) \o SubSeq(s, n + 1, Len(s))
  <2>3. Without(s, x) = w
    BY <1>4, <2>1 DEF Without, RemoveAt
  <2>4. /\ SubSeq(s, 1, n - 1) \in Seq(T) /\ Len(SubSeq(s, 1, n - 1)) = n - 1
        /\ \A i \in 1 .. n - 1 : SubSeq(s, 1, n - 1)[i] = s[i]
    BY <1>1, <1>2, <2>2
  <2>5. /\ SubSeq(s, n + 1, Len(s)) \in Seq(T) /\ Len(SubSeq(s, n + 1, Len(s))) = Len(s) - n
        /\ \A i \in 1 .. Len(s) - n : SubSeq(s, n + 1, Len(s))[i] = s[n + i]
    BY <1>1, <1>2, <2>2
  <2>6. /\ w \in Seq(T) /\ Len(w) = Len(s) - 1
        /\ \A i \in 1 .. Len(s) - 1 : w[i] = IF i < n THEN s[i] ELSE s[i + 1]
    <3> DEFINE a == SubSeq(s, 1, n - 1)
               b == SubSeq(s, n + 1, Len(s))
    <3>1. a \in Seq(T) /\ b \in Seq(T) /\ Len(a) = n - 1 /\ Len(b) = Len(s) - n /\ w = a \o b
      BY <2>4, <2>5
    <3>2. n \in 1 .. Len(s)
      BY <1>2, <2>2
    <3>3. (\A i \in 1 .. n - 1 : a[i] = s[i]) /\ (\A i \in 1 .. Len(s) - n : b[i] = s[n + i])
      BY <2>4, <2>5
    <3> HIDE DEF a, b, w
    <3>4. /\ w \in Seq(T) /\ Len(w) = Len(a) + Len(b)
          /\ \A i \in 1 .. Len(a) + Len(b) : w[i] = IF i <= Len(a) THEN a[i] ELSE b[i - Len(a)]
      BY <3>1, ConcatProperties
    <3>5. ASSUME NEW i \in 1 .. Len(s) - 1 PROVE w[i] = IF i < n THEN s[i] ELSE s[i + 1]
      <4>1. CASE i < n
        BY <1>2, <3>1, <3>2, <3>3, <3>4, <4>1
      <4>2. CASE ~ i < n
        <5>1. w[i] = b[i - (n - 1)] /\ i - (n - 1) \in 1 .. Len(s) - n
          BY <1>2, <3>1, <3>2, <3>4, <4>2
        <5>2. n + (i - (n - 1)) = i + 1
          BY <1>2, <3>2
        <5> QED BY <3>3, <4>2, <5>1, <5>2
      <4> QED BY <4>1, <4>2
    <3> QED BY <1>2, <3>1, <3>2, <3>4, <3>5
  <2> HIDE DEF w
  <2>7. DOMAIN w = 1 .. Len(s) - 1 /\ n \in 1 .. Len(s)
    BY <1>2, <2>2, <2>6
  <2>8. IsInjective(w)
    <3> SUFFICES ASSUME NEW i \in DOMAIN w, NEW j \in DOMAIN w, w[i] = w[j] PROVE i = j
      BY DEF IsInjective
    <3>1. \E k \in 1 .. Len(s) : w[i] = s[k] /\ (i < n => k = i) /\ (~ i < n => k = i + 1)
      BY <1>2, <2>6, <2>7
    <3>2. \E k \in 1 .. Len(s) : w[j] = s[k] /\ (j < n => k = j) /\ (~ j < n => k = j + 1)
      BY <1>2, <2>6, <2>7
    <3>3. PICK k \in 1 .. Len(s) : w[i] = s[k] /\ (i < n => k = i) /\ (~ i < n => k = i + 1)
      BY <3>1
    <3>4. PICK m \in 1 .. Len(s) : w[j] = s[m] /\ (j < n => m = j) /\ (~ j < n => m = j + 1)
      BY <3>2
    <3>5. k = m
      BY <1>2, <3>3, <3>4
    <3> QED BY <2>7, <3>3, <3>4, <3>5
  <2>9. \A y : y \in S \ {x} <=> Listed(y, w)
    <3> SUFFICES ASSUME NEW y PROVE y \in S \ {x} <=> Listed(y, w)
      OBVIOUS
    <3>1. ASSUME y \in S \ {x} PROVE Listed(y, w)
      <4>1. PICK k \in DOMAIN s : s[k] = y
        BY <1>2, <3>1 DEF Listed
      <4>2. k # n
        BY <2>2, <3>1, <4>1
      <4>3. CASE k < n
        BY <1>2, <2>6, <2>7, <4>1, <4>3 DEF Listed
      <4>4. CASE k > n
        <5>1. k - 1 \in DOMAIN w /\ w[k - 1] = s[(k - 1) + 1] /\ (k - 1) + 1 = k
          BY <1>2, <2>6, <2>7, <4>1, <4>4
        <5> QED BY <4>1, <5>1 DEF Listed
      <4> QED BY <1>2, <2>7, <4>1, <4>2, <4>3, <4>4
    <3>2. ASSUME Listed(y, w) PROVE y \in S \ {x}
      <4>1. PICK i \in DOMAIN w : w[i] = y
        BY <3>2 DEF Listed
      <4>2. \E k \in 1 .. Len(s) : w[i] = s[k] /\ (i < n => k = i) /\ (~ i < n => k = i + 1)
        BY <1>2, <2>6, <2>7
      <4>3. PICK k \in 1 .. Len(s) : y = s[k] /\ k # n
        BY <2>7, <4>1, <4>2
      <4> QED BY <1>2, <2>2, <4>3 DEF Listed
    <3> QED BY <3>1, <3>2
  <2> QED BY <2>3, <2>6, <2>8, <2>9 DEF Enumerates, IsSeq
<1> QED BY <1>3, <1>4

LEMMA FirstKeeps ==
    ASSUME NEW s, NEW S, NEW x, Enumerates(s, S), x \notin S
    PROVE  Enumerates(<<x>> \o s, S \union {x})
<1>1. PICK T : s \in Seq(T)
  BY DEF Enumerates, IsSeq
<1> DEFINE W == T \union {x}
           w == <<x>> \o s
<1>2. s \in Seq(W) /\ <<x>> \in Seq(W) /\ Len(<<x>>) = 1 /\ <<x>>[1] = x
  BY <1>1
<1>3. /\ \A i, j \in DOMAIN s : s[i] = s[j] => i = j
      /\ DOMAIN s = 1 .. Len(s) /\ Len(s) \in Nat
      /\ \A y : y \in S <=> Listed(y, s)
  BY <1>1 DEF Enumerates, IsInjective
<1>4. /\ w \in Seq(W) /\ Len(w) = Len(s) + 1 /\ w[1] = x /\ \A i \in 1 .. Len(s) : w[i + 1] = s[i]
  BY <1>2, <1>3
<1> HIDE DEF w, W
<1>5. DOMAIN w = 1 .. Len(s) + 1
  BY <1>3, <1>4
<1>6. \A i \in DOMAIN w : (i = 1 /\ w[i] = x) \/ (i - 1 \in DOMAIN s /\ w[i] = s[i - 1])
  <2> SUFFICES ASSUME NEW i \in DOMAIN w, i # 1 PROVE i - 1 \in DOMAIN s /\ w[i] = s[i - 1]
    BY <1>4
  <2>1. i - 1 \in 1 .. Len(s) /\ (i - 1) + 1 = i
    BY <1>3, <1>5
  <2> QED BY <1>3, <1>4, <2>1
<1>7. \A i \in DOMAIN s : s[i] # x
  BY <1>3 DEF Listed
<1>8. IsInjective(w)
  <2> SUFFICES ASSUME NEW i \in DOMAIN w, NEW j \in DOMAIN w, w[i] = w[j] PROVE i = j
    BY DEF IsInjective
  <2> QED BY <1>3, <1>5, <1>6, <1>7
<1>9. \A y : y \in S \union {x} <=> Listed(y, w)
  <2> SUFFICES ASSUME NEW y PROVE y \in S \union {x} <=> Listed(y, w)
    OBVIOUS
  <2>1. Listed(y, w) => y \in S \union {x}
    BY <1>3, <1>6 DEF Listed
  <2>2. y = x => Listed(y, w)
    BY <1>3, <1>4, <1>5 DEF Listed
  <2>3. y \in S => Listed(y, w)
    <3> SUFFICES ASSUME y \in S PROVE Listed(y, w)
      OBVIOUS
    <3>1. PICK i \in DOMAIN s : s[i] = y
      BY <1>3 DEF Listed
    <3>2. i + 1 \in DOMAIN w /\ w[i + 1] = y
      BY <1>3, <1>4, <1>5, <3>1
    <3> QED BY <3>2 DEF Listed
  <2> QED BY <2>1, <2>2, <2>3
<1> QED BY <1>4, <1>8, <1>9 DEF Enumerates, IsSeq, w

LEMMA LastKeeps ==
    ASSUME NEW s, NEW S, NEW x, Enumerates(s, S), x \notin S
    PROVE  Enumerates(Append(s, x), S \union {x})
<1>1. IsSeq(s) /\ (\A i, j \in DOMAIN s : s[i] = s[j] => i = j) /\ \A y : y \in S <=> Listed(y, s)
  BY DEF Enumerates, IsInjective
<1> DEFINE w == Append(s, x)
<1>2. /\ DOMAIN w = 1 .. Len(s) + 1 /\ DOMAIN s = 1 .. Len(s) /\ Len(s) \in Nat
      /\ \A i \in 1 .. Len(s) : w[i] = s[i]
      /\ w[Len(s) + 1] = x /\ IsSeq(w)
  BY <1>1, AppendDomain, AppendFacts
<1> HIDE DEF w
<1>3. \A i \in DOMAIN s : s[i] # x
  BY <1>1 DEF Listed
<1>4. IsInjective(w)
  <2> SUFFICES ASSUME NEW i \in DOMAIN w, NEW j \in DOMAIN w, w[i] = w[j] PROVE i = j
    BY DEF IsInjective
  <2>1. i = Len(s) + 1 \/ i \in DOMAIN s
    BY <1>2
  <2>2. j = Len(s) + 1 \/ j \in DOMAIN s
    BY <1>2
  <2> QED BY <1>1, <1>2, <1>3, <2>1, <2>2
<1>5. \A y : y \in S \union {x} <=> Listed(y, w)
  <2> SUFFICES ASSUME NEW y PROVE y \in S \union {x} <=> Listed(y, w)
    OBVIOUS
  <2>1. \A i \in DOMAIN w : i = Len(s) + 1 \/ i \in DOMAIN s
    BY <1>2
  <2>2. \A i \in DOMAIN s : i \in DOMAIN w
    BY <1>2
  <2>3. Len(s) + 1 \in DOMAIN w
    BY <1>2
  <2> QED BY <1>1, <1>2, <2>1, <2>2, <2>3 DEF Listed
<1> QED BY <1>2, <1>4, <1>5 DEF Enumerates, w

\* The head of a list is one of those it is of.
LEMMA HeadOfList ==
    ASSUME NEW s, NEW S, Enumerates(s, S)
    PROVE  (s = <<>> <=> S = {}) /\ (s # <<>> => Head(s) \in S)
<1>1. PICK T : s \in Seq(T)
  BY DEF Enumerates, IsSeq
<1>2. \A x : x \in S <=> \E i \in DOMAIN s : s[i] = x
  BY DEF Enumerates, Listed
<1>3. s # <<>> => 1 \in DOMAIN s /\ Head(s) = s[1]
  BY <1>1
<1>4. s = <<>> => DOMAIN s = {}
  BY <1>1
<1> QED BY <1>2, <1>3, <1>4

\* A refilled list: pages.
LEMMA PdeOf ==
    ASSUME NEW q \in VA
    PROVE  /\ Pde(q) \in Pdes /\ Pte(q) \in 0 .. NPte - 1 /\ q = Pde(q) * NPte + Pte(q)
           /\ Pde(q) \in Nat
<1>1. NPte \in Nat /\ 1 <= NPte /\ q \in Nat /\ NVa \in Nat /\ q <= NVa - 1
  BY Numbers DEF VA
<1>2. Pde(q) \in Nat /\ Pte(q) \in 0 .. NPte - 1 /\ q = Pde(q) * NPte + Pte(q)
  BY <1>1 DEF Pde, Pte
<1>3. NVa - 1 \in Nat
  BY <1>1
<1>4. /\ Pde(NVa - 1) \in Nat /\ (NVa - 1) % NPte \in 0 .. NPte - 1
      /\ NVa - 1 = Pde(NVa - 1) * NPte + ((NVa - 1) % NPte)
  BY <1>1, <1>3 DEF Pde
<1>5. Pde(q) <= Pde(NVa - 1)
  <2> DEFINE a == Pde(q)
             b == Pde(NVa - 1)
             r == Pte(q)
             z == (NVa - 1) % NPte
  <2>1. a \in Nat /\ b \in Nat /\ r \in 0 .. NPte - 1 /\ z \in 0 .. NPte - 1
        /\ a * NPte + r <= b * NPte + z /\ NPte \in Nat /\ 1 <= NPte
    BY <1>1, <1>2, <1>4
  <2> HIDE DEF a, b, r, z
  <2>2. a > b => a * NPte >= (b + 1) * NPte
    BY <2>1
  <2>3. (b + 1) * NPte = b * NPte + NPte
    BY <2>1
  <2>4. a * NPte \in Int /\ b * NPte \in Int
    BY <2>1
  <2>5. ~ a > b
    <3> DEFINE x == a * NPte
               y == b * NPte
               y1 == (b + 1) * NPte
    <3>1. x \in Int /\ y \in Int /\ y1 = y + NPte /\ (a > b => x >= y1) /\ x + r <= y + z
      BY <2>1, <2>2, <2>3, <2>4
    <3> HIDE DEF x, y, y1
    <3> QED BY <2>1, <3>1
  <2> QED BY <2>1, <2>5 DEF a, b
<1> QED BY <1>2, <1>4, <1>5 DEF Pdes

-----------------------------------------------------------------------------
(* What the invariant of the heap says of slabs, and that it is sound.     *)

LEMMA SlabFacts ==
    ASSUME SlabsOk, NEW sl \in DOMAIN slabs
    PROVE  /\ slabs[sl].size \in Size \union {PT} /\ slabs[sl].page \in VA \union {Static}
           /\ slabs[sl].nfree \in Nat /\ slabs[sl].chain \in Seq(Nat)
           /\ slabs[sl].nfree = Len(slabs[sl].chain) /\ IsInjective(slabs[sl].chain)
           /\ DOMAIN slabs[sl].chain = 1 .. Len(slabs[sl].chain)
           /\ sl = PtSl \/ IsStruct(sl)
           /\ slabs[sl].page = Static <=> sl = PtSl
           /\ slabs[sl].size = C16 => sl = Sl16
           /\ slabs[sl] = [size |-> slabs[sl].size, page |-> slabs[sl].page,
                           nfree |-> slabs[sl].nfree, chain |-> slabs[sl].chain]
<1>1. SlabOk(sl)
  BY DEF SlabsOk
<1>2. slabs[sl] \in SlabRec
  BY <1>1 DEF SlabOk
<1>3. /\ slabs[sl].size \in Size \union {PT} /\ slabs[sl].page \in VA \union {Static}
      /\ slabs[sl].nfree \in Nat /\ slabs[sl].chain \in Seq(Nat)
      /\ slabs[sl] = [size |-> slabs[sl].size, page |-> slabs[sl].page,
                      nfree |-> slabs[sl].nfree, chain |-> slabs[sl].chain]
  BY <1>2 DEF SlabRec
<1>4. DOMAIN slabs[sl].chain = 1 .. Len(slabs[sl].chain)
  BY <1>3
<1> QED BY <1>1, <1>3, <1>4 DEF SlabOk

LEMMA BootFacts ==
    ASSUME SlabsOk
    PROVE  /\ \A i \in Size : /\ <<P16, i>> \in DOMAIN slabs /\ slabs[<<P16, i>>].size = i
                              /\ slabs[<<P16, i>>].page = BootPage(i) /\ BootPage(i) \in VA
           /\ Sl16 \in DOMAIN slabs /\ slabs[Sl16].size = C16 /\ slabs[Sl16].page = P16
           /\ PtSl \in DOMAIN slabs /\ slabs[PtSl].size = PT /\ slabs[PtSl].page = Static
           /\ BootSlabs \subseteq DOMAIN slabs /\ P16 \in VA /\ P16 = BootPage(C16)
<1>1. \A i \in Size : /\ <<P16, i>> \in DOMAIN slabs /\ slabs[<<P16, i>>].size = i
                      /\ slabs[<<P16, i>>].page = BootPage(i)
  BY DEF SlabsOk
<1>2. PtSl \in DOMAIN slabs /\ slabs[PtSl].size = PT
  BY DEF SlabsOk
<1>3. slabs[PtSl].page = Static
  BY <1>2, SlabFacts
<1>4. P16 = BootPage(C16) /\ C16 \in Size
  BY Numbers DEF P16, BootPage
<1>5. \A i \in Size : BootPage(i) \in VA
  <2> SUFFICES ASSUME NEW i \in Size PROVE BootPage(i) \in VA
    OBVIOUS
  <2>1. <<P16, i>> \in DOMAIN slabs /\ slabs[<<P16, i>>].page = BootPage(i) /\ slabs[<<P16, i>>].size = i
    BY <1>1
  <2>2. slabs[<<P16, i>>].page \in VA \union {Static} /\ (slabs[<<P16, i>>].page = Static <=> <<P16, i>> = PtSl)
    BY <2>1, SlabFacts
  <2>3. <<P16, i>> # PtSl
    BY <1>2, <2>1, Numbers
  <2> QED BY <2>1, <2>2, <2>3
<1> QED BY <1>1, <1>2, <1>3, <1>4, <1>5 DEF BootSlabs, Sl16

\* The slab of which an object is taken.
LEMMA FirstSlabFacts ==
    ASSUME SlabsOk, ListsOk, NEW c \in Size \union {PT}, ~ Empty(c)
    PROVE  LET sl == FirstSlab(c) IN
           /\ sl \in DOMAIN slabs /\ slabs[sl].size = c /\ slabs[sl].nfree # 0
           /\ slabs[sl].chain # <<>> /\ Head(slabs[sl].chain) \in Nat
           /\ (lists[c]["part"] # <<>> /\ sl \in Filed(c, "part")) \/ sl \in Filed(c, "free")
           /\ c \in Size => slabs[sl].page \in VA
           /\ c = C16 => sl = Sl16
<1> DEFINE sl == FirstSlab(c)
<1>1. /\ lists[c]["part"] # <<>> => Head(lists[c]["part"]) \in Filed(c, "part")
      /\ lists[c]["free"] # <<>> => Head(lists[c]["free"]) \in Filed(c, "free")
  BY HeadOfList DEF ListsOk
<1>2. (lists[c]["part"] # <<>> /\ sl \in Filed(c, "part")) \/ sl \in Filed(c, "free")
  BY <1>1 DEF FirstSlab, Empty
<1> HIDE DEF sl
<1>3. sl \in DOMAIN slabs /\ slabs[sl].size = c /\ ListOf(slabs[sl]) \in {"part", "free"}
  BY <1>2 DEF Filed
<1>4. /\ slabs[sl].page \in VA \union {Static}
      /\ slabs[sl].nfree \in Nat /\ slabs[sl].chain \in Seq(Nat)
      /\ slabs[sl].nfree = Len(slabs[sl].chain)
      /\ slabs[sl].page = Static <=> sl = PtSl
      /\ slabs[sl].size = C16 => sl = Sl16
  BY <1>3, SlabFacts
<1>5. slabs[sl].nfree # 0
  BY <1>3, <1>4, Numbers DEF ListOf
<1>6. slabs[sl].chain # <<>> /\ Head(slabs[sl].chain) \in Nat
  BY <1>4, <1>5
<1>7. c \in Size => sl # PtSl
  BY <1>3, BootFacts, Numbers
<1> QED BY <1>2, <1>3, <1>4, <1>5, <1>6, <1>7 DEF sl

\* A page that can be looked up is mapped by a table of the page of boot.
LEMMA LookedUp ==
    ASSUME FramesOk, TablesOk, NEW q \in VA, VaToPa(q) = "no"
    PROVE  Usable(pd[Pde(q)]) /\ Frame(q) = Fr(q) /\ Fr(q) \in 2 .. NRam /\ owner[RAM] = NoThread
<1> DEFINE d == pd[Pde(q)]
<1>1. q # Static /\ Pde(q) \in Pdes /\ Pte(q) \in 0 .. NPte - 1
  BY Numbers, PdeOf
<1>2. IsPt(d) /\ Walk(d) = "no" /\ Frame(q) # 0
  BY <1>1 DEF VaToPa
<1>3. d \in DOMAIN ptes /\ d[1] \in 1 .. NRam
  BY <1>1, <1>2 DEF TablesOk, PtesOk
<1>4. ram_map[d[1]].lsize = {PT} /\ owner[RAM] = NoThread
  BY <1>2 DEF Walk
<1> HIDE DEF d
<1>5. d[1] = 1
  <2>1. \A i \in Size : ram_map[i + 2].lsize # {PT}
    BY Numbers DEF FramesOk
  <2>2. \A f \in 1 .. NRam : f \notin BootFrames => ram_map[f].lsize # {PT}
    BY Numbers DEF FramesOk
  <2>3. \A f \in BootFrames : f = 1 \/ \E i \in Size : f = i + 2
    <3> SUFFICES ASSUME NEW f \in BootFrames, f # 1 PROVE \E i \in Size : f = i + 2
      OBVIOUS
    <3>1. f - 2 \in Size /\ f = (f - 2) + 2
      BY Numbers DEF BootFrames, Size
    <3> QED BY <3>1
  <2> QED BY <1>3, <1>4, <2>1, <2>2, <2>3
<1>6. Usable(d)
  BY <1>2, <1>5 DEF Usable
<1>7. Frame(q) = Fr(q)
  BY <1>1, <1>6 DEF Frame, Fr, d
<1>8. ptes[d][Pte(q)] \in {0} \union 2 .. NRam
  BY <1>1, <1>3, <1>5 DEF TablesOk, PtesOk
<1>9. Frame(q) = ptes[d][Pte(q)]
  BY <1>1 DEF Frame, d
<1> QED BY <1>2, <1>4, <1>6, <1>7, <1>8, <1>9 DEF d

LEMMA BootFrameOf ==
    ASSUME NEW f \in BootFrames, f # 1
    PROVE  f - 2 \in Size /\ f = (f - 2) + 2
  BY Numbers DEF BootFrames, Size

\* What kfree() finds.
LEMMA FreeFindsIt ==
    ASSUME HeapInv, NEW p, IsObj(p), Held(p), Home(p[1])
    PROVE  FreeFinds(p)
<1> SUFFICES ASSUME Refuses(p) = "no", WHOLE \notin Entry(p).lsize
             PROVE  PutsTo(Entry(p).va, p)
  BY DEF FreeFinds
<1>1. PICK n \in VA, k \in Nat : p = <<n, k>>
  BY DEF IsObj
<1>2. p[1] = n
  BY <1>1
<1>3. SlabsOk /\ FramesOk /\ TablesOk /\ InPage /\ MapsOk
  BY DEF HeapInv, TokensOk
<1>4. PICK f, sl : f = Fr(n) /\ sl = ram_map[f].va
  OBVIOUS
<1>5. f \in 2 .. NRam /\ Frame(n) = f
  <2>1. VaToPa(n) = "no"
    BY <1>2, Tuples DEF Refuses
  <2> QED BY <1>3, <1>4, <2>1, LookedUp
<1>6. Entry(p) = ram_map[f]
  BY <1>2, <1>5 DEF Entry
<1>7. sl \in DOMAIN slabs /\ slabs[sl].page = n /\ sl # NoPt
  <2>1. PICK x \in DOMAIN slabs : slabs[x].page = n
    BY <1>2 DEF Home
  <2>2. x = sl
    BY <1>3, <1>4, <1>5, <2>1 DEF MapsOk, Leads
  <2>3. x = PtSl \/ IsStruct(x)
    BY <1>3, <2>1, SlabFacts
  <2>4. \E a, b : x = <<a, b>>
    BY <2>3 DEF PtSl, IsStruct
  <2>5. x # <<>>
    BY <2>4, Tuples
  <2> QED BY <2>1, <2>2, <2>5 DEF NoPt
<1>8. k < NObj[slabs[sl].size]
  BY <1>1, <1>3, <1>7 DEF InPage
<1>9. WHOLE \notin ram_map[f].lsize
  BY <1>6
<1>10. f \in BootFrames
  BY <1>3, <1>4, <1>5, <1>7, <1>9 DEF FramesOk
<1>11. f - 2 \in Size /\ f = (f - 2) + 2
  BY <1>5, <1>10, BootFrameOf
<1>12. sl = <<P16, f - 2>>
  BY <1>3, <1>4, <1>11 DEF FramesOk
<1>13. slabs[sl].size = f - 2 /\ n = NVa - NSizes + (f - 2)
  BY <1>3, <1>7, <1>11, <1>12, BootFacts DEF BootPage
<1>14. PutsTo(sl, p)
  BY <1>1, <1>8, <1>11, <1>12, <1>13 DEF PutsTo
<1> QED BY <1>4, <1>6, <1>14

LEMMA HeapIsSound ==
    ASSUME LockInv, HeapInv
    PROVE  Sound
<1>1. SlabsOk /\ ListsOk /\ FramesOk /\ TablesOk /\ LiveOk /\ ThreadsOk
  BY DEF HeapInv
<1>2. ASSUME NEW c \in Size \union {PT}, ~ Empty(c) PROVE Yields(c, FirstObject(c))
  <2>1. PICK sl, k : sl = FirstSlab(c) /\ k = Head(slabs[sl].chain)
    OBVIOUS
  <2>2. /\ sl \in DOMAIN slabs /\ k \in Nat /\ c \in Size => slabs[sl].page \in VA
        /\ c = C16 => sl = Sl16
    BY <1>1, <1>2, <2>1, FirstSlabFacts
  <2>3. sl \in DOMAIN slabs /\ k \in Nat
    BY <1>1, <1>2, <2>1, FirstSlabFacts
  <2>4. c \in Size => slabs[sl].page \in VA
    BY <2>2, <2>3
  <2>5. slabs[sl].page \in VA \union {Static}
    BY <1>1, <2>3, SlabFacts
  <2>6. c = C16 => slabs[sl].page = P16
    BY <1>1, <2>2, BootFacts
  <2>7. FirstObject(c) = <<slabs[sl].page, k>>
    BY <2>1 DEF FirstObject
  <2> QED BY <2>3, <2>4, <2>5, <2>6, <2>7 DEF Yields, IsPtObj, IsObj, IsStruct
<1>3. ASSUME NEW t \in Thread, todo[t] # <<>>, HeadOp(t) = "take" PROVE ~ Empty(Arg(t))
  <2>1. Filed(Arg(t), "free") # {}
    BY <1>1, <1>3 DEF ThreadsOk, TakesOk, DoesNow
  <2>2. AtTake(Arg(t), Tail(todo[t]), HeldBy(t), vals[t])
    <3>1. Shape(todo[t], HeldBy(t), vals[t])
      BY DEF LockInv, Kept
    <3>2. At(Head(todo[t]), Tail(todo[t]), HeldBy(t), vals[t])
      BY <1>3, <3>1, ShapeHas
    <3> QED BY <1>3, <3>2 DEF At, HeadOp, Arg
  <2>3. Arg(t) \in Size \union {PT}
    BY <2>2, GrowsFacts DEF AtTake
  <2>4. Enumerates(lists[Arg(t)]["free"], Filed(Arg(t), "free"))
    BY <1>1, <2>3 DEF ListsOk
  <2>5. lists[Arg(t)]["free"] # <<>>
    BY <2>1, <2>4, HeadOfList
  <2> QED BY <2>5 DEF Empty
<1>4. pd[Pde(NVa - 1)] # NoPt /\ ram \subseteq 1 .. NRam
  BY <1>1, Tuples DEF TablesOk, PtesOk, FramesOk, NoPt
<1>5. ASSUME NEW o \in live, o[2] # WHOLE PROVE FreeFinds(o[1])
  <2>1. o = <<o[1], o[2]>> /\ IsObj(o[1]) /\ Home(o[1][1])
    BY <1>1, <1>5 DEF LiveOk
  <2>2. Held(o[1])
    BY <2>1 DEF Held, Has
  <2> QED BY <2>1, <2>2, FreeFindsIt
<1> QED BY <1>2, <1>3, <1>4, <1>5 DEF Sound

-----------------------------------------------------------------------------
(* What a step may leave as it is.                                         *)

SameSlabs == /\ DOMAIN slabs' = DOMAIN slabs
             /\ \A sl \in DOMAIN slabs : slabs'[sl].page = slabs[sl].page /\ slabs'[sl].size = slabs[sl].size
\* The pages and frames that threads keep.
SamePages == \A t, i, q : /\ ValAt(t, i, <<q, -1>>)' <=> ValAt(t, i, <<q, -1>>)
                          /\ ValAt(t, i, <<q>>)' <=> ValAt(t, i, <<q>>)
SameOthers(t) == \A u \in Thread \ {t} : todo'[u] = todo[u] /\ vals'[u] = vals[u]
Object(v) == \E a : \E k \in Nat : v = <<a, k>>

LEMMA ObjectsDiffer ==
    ASSUME NEW v, Object(v)
    PROVE  \A q : v # <<q, -1>> /\ v # <<q>>
  BY Tuples DEF Object

LEMMA KindsAreObjects ==
    ASSUME NEW v, IsPtObj(v) \/ IsObj(v) \/ IsStruct(v)
    PROVE  Object(v)
  BY DEF Object, IsPtObj, IsObj, IsStruct

LEMMA SameByPush ==
    ASSUME NEW t, NEW n, NEW v, Object(v),
           \A u, i, q : ValAt(u, i, q)' <=> ValAt(u, i, q) \/ (u = t /\ i = n /\ q = v)
    PROVE  SamePages
<1>1. \A q : v # <<q, -1>> /\ v # <<q>>
  BY ObjectsDiffer
<1> QED BY <1>1 DEF SamePages

LEMMA SameByPop ==
    ASSUME NEW t, NEW l, \A i, q : i > l /\ ValAt(t, i, q) => Object(q),
           \A u, i, q : ValAt(u, i, q)' <=> ValAt(u, i, q) /\ ~ (u = t /\ i > l)
    PROVE  SamePages
<1>1. \A v : Object(v) => \A q : v # <<q, -1>> /\ v # <<q>>
  BY ObjectsDiffer
<1> QED BY <1>1 DEF SamePages

LEMMA SameVals == ASSUME UNCHANGED vals PROVE SamePages
  BY DEF SamePages, ValAt

LEMMA SlabPageHeld ==
    ASSUME SlabsOk, NoneLost, NEW sl \in DOMAIN slabs
    PROVE  Held(<<slabs[sl].page, 0>>)
<1>1. slabs[sl].size \in Size \union {PT}
  BY SlabFacts
<1>2. PICK n : n = NObj[slabs[sl].size]
  OBVIOUS
<1>3. n \in Nat /\ 2 <= n
  BY <1>1, <1>2, Numbers
<1>4. 0 \in 0 .. n - 1
  BY <1>3
<1> QED BY <1>2, <1>4 DEF NoneLost

\* A page that a thread still builds has no slab.
LEMMA PageNotSlab ==
    ASSUME HeapInv, NEW q \in VA, PageVal(q)
    PROVE  ~ SlabPage(q)
<1> SUFFICES ASSUME NEW sl \in DOMAIN slabs, slabs[sl].page = q PROVE FALSE
  BY DEF SlabPage
<1>1. Held(<<q, 0>>)
  BY SlabPageHeld DEF HeapInv, TokensOk
<1>2. ~ Held(<<q, 0>>)
  BY DEF HeapInv, TokensOk, PageAlone
<1> QED BY <1>1, <1>2

LEMMA SlabPageSame ==
    ASSUME SameSlabs
    PROVE  \A q : SlabPage(q)' <=> SlabPage(q)
  BY DEF SameSlabs, SlabPage

-----------------------------------------------------------------------------
(* Tokens.                                                                 *)

MovedTo(q0, k1, a1, b1) == \A k, a, b, q :
    Has(k, a, b, q)' <=> IF q = q0 THEN k = k1 /\ a = a1 /\ b = b1 ELSE Has(k, a, b, q)
Dropped(q0) == \A k, a, b, q : Has(k, a, b, q)' <=> Has(k, a, b, q) /\ q # q0
Bystander(q0) == \A sl \in DOMAIN slabs, k \in Nat : q0 # <<slabs[sl].page, k>>

LEMMA TokensFollow ==
    ASSUME TokensOk, SlabsOk, SameSlabs, Own', \A q : PageVal(q)' => PageVal(q), \A q : Held(q)' => Held(q),
           \A sl \in DOMAIN slabs, k \in Nat : Held(<<slabs[sl].page, k>>) => Held(<<slabs[sl].page, k>>)'
    PROVE  TokensOk'
<1>1. NoneLost'
  <2> SUFFICES ASSUME NEW sl \in DOMAIN slabs', NEW k \in 0 .. NObj[slabs'[sl].size] - 1
               PROVE  Held(<<slabs[sl].page, k>>)'
    BY DEF NoneLost
  <2>1. sl \in DOMAIN slabs /\ slabs'[sl].page = slabs[sl].page /\ slabs'[sl].size = slabs[sl].size
    BY DEF SameSlabs
  <2>2. k \in Nat
    OBVIOUS
  <2>3. Held(<<slabs[sl].page, k>>)
    BY <2>1 DEF TokensOk, NoneLost
  <2>4. PICK p : p = slabs[sl].page
    OBVIOUS
  <2>5. Held(<<p, k>>)'
    BY <2>1, <2>2, <2>3, <2>4
  <2> QED BY <2>1, <2>4, <2>5
<1>2. InPage'
  <2> SUFFICES ASSUME NEW sl \in DOMAIN slabs', NEW k \in Nat, Held(<<slabs[sl].page, k>>)'
               PROVE  k < NObj[slabs'[sl].size]
    BY DEF InPage
  <2>1. sl \in DOMAIN slabs /\ slabs'[sl].page = slabs[sl].page /\ slabs'[sl].size = slabs[sl].size
    BY DEF SameSlabs
  <2>2. PICK p : p = slabs[sl].page
    OBVIOUS
  <2>3. Held(<<p, k>>)'
    BY <2>1, <2>2
  <2>4. Held(<<p, k>>)
    BY <2>3
  <2> QED BY <2>1, <2>2, <2>4 DEF TokensOk, InPage
<1>3. PageAlone'
  BY DEF TokensOk, PageAlone
<1> QED BY <1>1, <1>2, <1>3 DEF TokensOk

LEMMA HeldAlong ==
    ASSUME SameSlabs, \A q : Held(q) => Held(q)'
    PROVE  \A sl \in DOMAIN slabs, k \in Nat : Held(<<slabs[sl].page, k>>) => Held(<<slabs[sl].page, k>>)'
<1> SUFFICES ASSUME NEW sl \in DOMAIN slabs, NEW k \in Nat, Held(<<slabs[sl].page, k>>)
             PROVE  Held(<<slabs[sl].page, k>>)'
  OBVIOUS
<1>1. PICK x : x = <<slabs[sl].page, k>>
  OBVIOUS
<1>2. slabs'[sl].page = slabs[sl].page
  BY DEF SameSlabs
<1>3. Held(x)'
  BY <1>1
<1> QED BY <1>1, <1>2, <1>3

LEMMA TokensMoved ==
    ASSUME HeapInv, SameSlabs, NEW q0, NEW k1, NEW a1, NEW b1, MovedTo(q0, k1, a1, b1), Held(q0),
           \A q : PageVal(q)' => PageVal(q)
    PROVE  TokensOk' /\ \A q : Held(q)' <=> Held(q)
<1>1. TokensOk /\ SlabsOk
  BY DEF HeapInv
<1>2. Own'
  BY <1>1 DEF TokensOk, Own, MovedTo
<1>3. \A q : Held(q)' <=> Held(q)
  BY DEF Held, MovedTo
<1>4. \A sl \in DOMAIN slabs, k \in Nat : Held(<<slabs[sl].page, k>>) => Held(<<slabs[sl].page, k>>)'
  BY <1>3, HeldAlong
<1>5. \A q : Held(q)' => Held(q)
  BY <1>3
<1>6. TokensOk'
  BY <1>1, <1>2, <1>4, <1>5, TokensFollow
<1> QED BY <1>3, <1>6

LEMMA TokensDropped ==
    ASSUME HeapInv, SameSlabs, NEW q0, Dropped(q0), Bystander(q0)
    PROVE  TokensOk' /\ \A q : Held(q)' <=> Held(q) /\ q # q0
<1>1. TokensOk /\ SlabsOk
  BY DEF HeapInv
<1>2. Own'
  BY <1>1 DEF TokensOk, Own, Dropped
<1>3. \A q : Held(q)' <=> Held(q) /\ q # q0
  BY DEF Held, Dropped
<1>4. \A sl \in DOMAIN slabs, k \in Nat : Held(<<slabs[sl].page, k>>) => Held(<<slabs[sl].page, k>>)'
  <2> SUFFICES ASSUME NEW sl \in DOMAIN slabs, NEW k \in Nat, Held(<<slabs[sl].page, k>>)
               PROVE  Held(<<slabs[sl].page, k>>)'
    OBVIOUS
  <2>1. PICK x : x = <<slabs[sl].page, k>>
    OBVIOUS
  <2>2. x # q0
    BY <2>1 DEF Bystander
  <2>3. slabs'[sl].page = slabs[sl].page
    BY DEF SameSlabs
  <2>4. Held(x)'
    BY <1>3, <2>1, <2>2
  <2> QED BY <2>1, <2>3, <2>4
<1>5. \A q : PageVal(q)' => PageVal(q)
  <2> SUFFICES ASSUME NEW q, PageVal(q)' PROVE PageVal(q)
    OBVIOUS
  <2>1. \A u, i, x : ValAt(u, i, x) <=> Has("val", u, i, x)
    BY DEF Has
  <2>2. \A u, i, x : ValAt(u, i, x)' <=> Has("val", u, i, x)'
    BY DEF Has
  <2> QED BY <2>1, <2>2 DEF PageVal, Dropped
<1> QED BY <1>1, <1>2, <1>3, <1>4, <1>5, TokensFollow

LEMMA TokensSame ==
    ASSUME HeapInv, SameSlabs, \A k, a, b, q : Has(k, a, b, q)' <=> Has(k, a, b, q)
    PROVE  TokensOk' /\ \A q : Held(q)' <=> Held(q)
<1>1. TokensOk /\ SlabsOk
  BY DEF HeapInv
<1>2. Own'
  BY <1>1 DEF TokensOk, Own
<1>3. \A q : Held(q)' <=> Held(q)
  BY DEF Held
<1>4. \A q : PageVal(q)' => PageVal(q)
  <2> SUFFICES ASSUME NEW q, PageVal(q)' PROVE PageVal(q)
    OBVIOUS
  <2>1. \A u, i, x : ValAt(u, i, x) <=> Has("val", u, i, x)
    BY DEF Has
  <2>2. \A u, i, x : ValAt(u, i, x)' <=> Has("val", u, i, x)'
    BY DEF Has
  <2> QED BY <2>1, <2>2 DEF PageVal
<1>5. \A sl \in DOMAIN slabs, k \in Nat : Held(<<slabs[sl].page, k>>) => Held(<<slabs[sl].page, k>>)'
  BY <1>3, HeldAlong
<1>6. \A q : Held(q)' => Held(q)
  BY <1>3
<1>7. TokensOk'
  BY <1>1, <1>2, <1>4, <1>5, <1>6, TokensFollow
<1> QED BY <1>3, <1>7

-----------------------------------------------------------------------------
(* Mappings.                                                               *)

\* The mapping of va, whose frame is kept beside it, and what may be lost.
Remap(va, f) == \A q \in VA : Fr(q)' = Fr(q) \/ Fr(q)' = 0 \/ (q = va /\ Fr(q)' = f)

LEMMA MapsSame ==
    ASSUME MapsOk, SameSlabs, SamePages, UNCHANGED <<tables, frames>>
    PROVE  MapsOk'
<1>1. \A q : Tracked(q)' <=> Tracked(q)
  BY SlabPageSame DEF Tracked, PageVal, SamePages
<1>2. \A q : Fr(q)' = Fr(q)
  BY DEF Fr, tables, Usable, IsPt
<1>3. UNCHANGED <<ram, ram_map, ptes>>
  BY DEF frames, tables
<1>4. \A f : FrameVal(f)' <=> FrameVal(f)
  BY DEF FrameVal, SamePages
<1>5. OneFrame' /\ FramesUsed'
  BY <1>1, <1>2, <1>3, <1>4 DEF MapsOk, OneFrame, FramesUsed
<1>6. FrameBeside'
  BY <1>1, <1>2 DEF MapsOk, FrameBeside, SamePages
<1>7. WholeFirst'
  BY <1>2, <1>3 DEF MapsOk, WholeFirst, SamePages
<1>8. Leads'
  BY <1>2, <1>3 DEF MapsOk, Leads, SameSlabs
<1>9. TableFrames'
  BY <1>1, <1>2, <1>3, <1>4 DEF MapsOk, TableFrames, SameSlabs
<1> QED BY <1>5, <1>6, <1>7, <1>8, <1>9 DEF MapsOk

LEMMA MapsRemapped ==
    ASSUME HeapInv, SameSlabs, SamePages, UNCHANGED frames,
           NEW t, NEW i \in Nat, NEW va \in VA, NEW f, ValAt(t, i, <<va, -1>>), ValAt(t, i + 1, <<f>>),
           Remap(va, f)
    PROVE  /\ OneFrame' /\ FrameBeside' /\ FramesUsed' /\ WholeFirst' /\ Leads'
           /\ \A d \in DOMAIN ptes, q \in VA : Tracked(q)' /\ Fr(q)' = d[1] => q = slabs[ram_map[d[1]].va].page
<1>1. \A q : Tracked(q)' <=> Tracked(q)
  BY SlabPageSame DEF Tracked, PageVal, SamePages
<1>2. UNCHANGED <<ram, ram_map>>
  BY DEF frames
<1>3. \A x : FrameVal(x)' <=> FrameVal(x)
  BY DEF FrameVal, SamePages
<1>4. /\ \A u, j : ValAt(u, j, <<va, -1>>) => u = t /\ j = i
      /\ \A u, j : ValAt(u, j, <<f>>) => u = t /\ j = i + 1
  <2>1. /\ \A u, j : Has("val", u, j, <<va, -1>>) => u = t /\ j = i
        /\ \A u, j : Has("val", u, j, <<f>>) => u = t /\ j = i + 1
    <3>1. Has("val", t, i, <<va, -1>>) /\ Has("val", t, i + 1, <<f>>) /\ Own
      BY DEF Has, HeapInv, TokensOk
    <3> QED BY <3>1 DEF Own
  <2> QED BY <2>1 DEF Has
<1>5. MapsOk /\ FrameVal(f) /\ f \in ram \ BootFrames /\ ~ SlabPage(va)
  <2>1. MapsOk /\ FrameVal(f) /\ PageVal(va)
    BY DEF HeapInv, FrameVal, PageVal
  <2>2. f \in ram \ BootFrames
    BY <2>1 DEF MapsOk, FramesUsed
  <2> QED BY <2>1, <2>2, PageNotSlab
<1>6. \A q \in VA : Tracked(q) /\ Fr(q) = f /\ Fr(q) # 0 => q = va
  <2> SUFFICES ASSUME NEW q \in VA, Tracked(q), Fr(q) = f, Fr(q) # 0 PROVE q = va
    OBVIOUS
  <2>1. ValAt(t, (i + 1) - 1, <<q, -1>>)
    BY <1>5 DEF MapsOk, FrameBeside
  <2>2. (i + 1) - 1 = i
    OBVIOUS
  <2>3. <<q, -1>> = <<va, -1>>
    BY <2>1, <2>2 DEF ValAt
  <2> QED BY <2>3, Tuples
<1>7. OneFrame'
  BY <1>1, <1>5, <1>6 DEF MapsOk, OneFrame, Remap
<1>8. FrameBeside'
  <2> SUFFICES ASSUME NEW q \in VA, Tracked(q)', Fr(q)' # 0, NEW u, NEW j, ValAt(u, j, <<Fr(q)>>)'
               PROVE  ValAt(u, j - 1, <<q, -1>>)'
    BY DEF FrameBeside
  <2>1. PICK g : g = Fr(q)'
    OBVIOUS
  <2>2. ValAt(u, j, <<g>>)'
    BY <2>1 DEF ValAt
  <2>3. ValAt(u, j, <<g>>)
    BY <2>2 DEF SamePages
  <2>4. CASE g = Fr(q)
    <3>1. ValAt(u, j - 1, <<q, -1>>)
      BY <1>1, <1>5, <2>1, <2>3, <2>4 DEF MapsOk, FrameBeside
    <3> QED BY <3>1 DEF SamePages
  <2>5. CASE q = va /\ g = f
    <3>1. u = t /\ j = i + 1 /\ j - 1 = i
      BY <1>4, <2>3, <2>5
    <3>2. ValAt(u, j - 1, <<q, -1>>)
      BY <2>5, <3>1
    <3> QED BY <3>2 DEF SamePages
  <2> QED BY <2>1, <2>4, <2>5 DEF Remap
<1>9. FramesUsed'
  BY <1>1, <1>2, <1>3, <1>5 DEF MapsOk, FramesUsed, Remap
<1>10. WholeFirst'
  <2> SUFFICES ASSUME NEW u, NEW j, NEW q \in VA, ValAt(u, j, <<q, -1>>)', Fr(q)' # 0
               PROVE  WHOLE \in ram_map'[Fr(q)'].lsize \/ ValAt(u, j + 1, <<Fr(q)>>)'
    BY DEF WholeFirst
  <2>1. PICK g : g = Fr(q)'
    OBVIOUS
  <2>2. ValAt(u, j, <<q, -1>>)
    BY DEF SamePages
  <2>3. WHOLE \in ram_map[g].lsize \/ ValAt(u, j + 1, <<g>>)
    <3>1. CASE g = Fr(q)
      BY <1>5, <2>1, <2>2, <3>1 DEF MapsOk, WholeFirst
    <3>2. CASE q = va /\ g = f
      BY <1>4, <2>2, <3>2
    <3> QED BY <2>1, <3>1, <3>2 DEF Remap
  <2>4. WHOLE \in ram_map'[g].lsize \/ ValAt(u, j + 1, <<g>>)'
    BY <1>2, <2>3 DEF SamePages
  <2> QED BY <2>1, <2>4 DEF ValAt
<1>11. Leads'
  <2> SUFFICES ASSUME NEW sl \in DOMAIN slabs', slabs'[sl].page \in VA, Fr(slabs[sl].page)' # 0
               PROVE  ram_map'[Fr(slabs[sl].page)'].va = sl
    BY DEF Leads
  <2>1. PICK p : p = slabs'[sl].page
    OBVIOUS
  <2>2. sl \in DOMAIN slabs /\ slabs[sl].page = p
    BY <2>1 DEF SameSlabs
  <2>3. p # va
    BY <1>5, <2>2 DEF SlabPage
  <2>4. Fr(p)' = Fr(p)
    BY <2>1, <2>3 DEF Remap
  <2> QED BY <1>2, <1>5, <2>1, <2>2, <2>4 DEF MapsOk, Leads
<1>12. \A d \in DOMAIN ptes, q \in VA : Tracked(q)' /\ Fr(q)' = d[1] => q = slabs[ram_map[d[1]].va].page
  <2> SUFFICES ASSUME NEW d \in DOMAIN ptes, NEW q \in VA, Tracked(q)', Fr(q)' = d[1]
               PROVE  q = slabs[ram_map[d[1]].va].page
    OBVIOUS
  <2>1. d[1] # f /\ d[1] # 0
    BY <1>5 DEF MapsOk, TableFrames, HeapInv, TablesOk, PtesOk
  <2>2. Fr(q) = d[1]
    BY <2>1 DEF Remap
  <2> QED BY <1>1, <1>5, <2>2 DEF MapsOk, TableFrames
<1> QED BY <1>7, <1>8, <1>9, <1>10, <1>11, <1>12

\* A page is given up that is the last result.
LEMMA MapsPopped ==
    ASSUME MapsOk, SameSlabs, UNCHANGED frames, \A q \in VA : Fr(q)' = Fr(q), UNCHANGED ptes,
           NEW t, NEW l \in Int, \A i, f : i > l => ~ ValAt(t, i, <<f>>),
           \A u, i, q : ValAt(u, i, q)' <=> ValAt(u, i, q) /\ ~ (u = t /\ i > l),
           \A u, i, q : ValAt(u, i, q) => i \in Nat
    PROVE  MapsOk'
<1>1. /\ \A q : Tracked(q)' => Tracked(q)
      /\ \A f : FrameVal(f)' => FrameVal(f)
      /\ UNCHANGED <<ram, ram_map>>
  BY SlabPageSame DEF Tracked, PageVal, FrameVal, frames
<1>2. OneFrame' /\ FramesUsed'
  BY <1>1 DEF MapsOk, OneFrame, FramesUsed
<1>3. FrameBeside'
  <2> SUFFICES ASSUME NEW q \in VA, Tracked(q)', Fr(q)' # 0, NEW u, NEW j, ValAt(u, j, <<Fr(q)>>)'
               PROVE  ValAt(u, j - 1, <<q, -1>>)'
    BY DEF FrameBeside
  <2>1. PICK g : g = Fr(q)
    OBVIOUS
  <2>2. ValAt(u, j, <<g>>)' /\ g # 0
    BY <2>1 DEF ValAt
  <2>3. ValAt(u, j, <<g>>) /\ ~ (u = t /\ j > l) /\ j \in Nat
    BY <2>2
  <2>4. ValAt(u, j - 1, <<q, -1>>)
    BY <1>1, <2>1, <2>2, <2>3 DEF MapsOk, FrameBeside
  <2>5. ~ (u = t /\ j - 1 > l)
    BY <2>3
  <2> QED BY <2>4, <2>5
<1>4. WholeFirst'
  <2> SUFFICES ASSUME NEW u, NEW j, NEW q \in VA, ValAt(u, j, <<q, -1>>)', Fr(q)' # 0
               PROVE  WHOLE \in ram_map'[Fr(q)'].lsize \/ ValAt(u, j + 1, <<Fr(q)>>)'
    BY DEF WholeFirst
  <2>1. PICK g : g = Fr(q)
    OBVIOUS
  <2>2. WHOLE \in ram_map[g].lsize \/ ValAt(u, j + 1, <<g>>)
    BY <2>1 DEF MapsOk, WholeFirst
  <2>3. WHOLE \in ram_map'[g].lsize \/ ValAt(u, j + 1, <<g>>)'
    BY <1>1, <2>2
  <2> QED BY <2>1, <2>3 DEF ValAt
<1>5. Leads'
  BY <1>1 DEF MapsOk, Leads, SameSlabs
<1>6. TableFrames'
  BY <1>1 DEF MapsOk, TableFrames, SameSlabs
<1> QED BY <1>2, <1>3, <1>4, <1>5, <1>6 DEF MapsOk

-----------------------------------------------------------------------------
(* Pages in use, other threads, callers.                                   *)

LEMMA KnownStays ==
    ASSUME KnownOk, \A q \in VA : Used(q)' => Used(q), UNCHANGED vm_areas,
           \A q \in VA : Pending(q) => Pending(q)'
    PROVE  KnownOk'
  BY DEF KnownOk, Known

\* Thread t does not allocate a range, and lets who does do so.
LEMMA PendingStays ==
    ASSUME NEW t \in Thread, SameOthers(t),
           \A u \in Thread \ {t} : owner[VM] = u => owner'[VM] = u,
           \A u \in Thread \ {t} : owner[C16] = u => owner'[C16] = u,
           owner[VM] = t => owner[C16] # t /\ HeadOp(t) \notin {"alloc", "seg"}
    PROVE  \A q : Pending(q) => Pending(q)'
<1> SUFFICES ASSUME NEW q, Pending(q) PROVE Pending(q)'
  OBVIOUS
<1>1. PICK u \in Thread : /\ owner[VM] = u
                          /\ \/ owner[C16] = u
                             \/ HeadOp(u) = "alloc" /\ Top(u) = <<q, -1>>
                             \/ HeadOp(u) = "seg" /\ Below(u) = <<q, -1>>
  BY DEF Pending
<1>2. u # t
  BY <1>1
<1>3. todo'[u] = todo[u] /\ vals'[u] = vals[u]
  BY <1>2 DEF SameOthers
<1>4. HeadOp(u)' = HeadOp(u) /\ Top(u)' = Top(u) /\ Below(u)' = Below(u)
  BY <1>3 DEF HeadOp, Top, Below
<1> QED BY <1>1, <1>2, <1>4 DEF Pending

LEMMA OthersStay ==
    ASSUME ThreadsOk, NEW t \in Thread, SameOthers(t), SameSlabs,
           \A u \in Thread \ {t} : DoesNow(u, "take") /\ Filed(Arg(u), "free") # {} => Filed(Arg(u), "free")' # {}
    PROVE  \A u \in Thread \ {t} : (GivesOk(u) /\ InstallsOk(u) /\ TakesOk(u))'
<1> SUFFICES ASSUME NEW u \in Thread \ {t} PROVE (GivesOk(u) /\ InstallsOk(u) /\ TakesOk(u))'
  OBVIOUS
<1>1. todo'[u] = todo[u] /\ vals'[u] = vals[u]
  BY DEF SameOthers
<1>2. /\ \A op : DoesNow(u, op)' <=> DoesNow(u, op)
      /\ Arg(u)' = Arg(u) /\ Top(u)' = Top(u)
  BY <1>1 DEF DoesNow, HeadOp, Arg, Top
<1>3. GivesOk(u) /\ InstallsOk(u) /\ TakesOk(u)
  BY DEF ThreadsOk
<1>4. GivesOk(u)'
  BY <1>2, <1>3 DEF GivesOk, Home, SameSlabs
<1>5. InstallsOk(u)'
  BY <1>2, <1>3 DEF InstallsOk, SameSlabs
<1>6. TakesOk(u)'
  BY <1>2, <1>3 DEF TakesOk, Filed
<1> QED BY <1>4, <1>5, <1>6

LEMMA LiveStays ==
    ASSUME LiveOk, SameSlabs, live' \subseteq live
    PROVE  LiveOk'
<1>1. \A q : Home(q) => Home(q)'
  BY DEF Home, SameSlabs
<1> QED BY <1>1 DEF LiveOk

\* The page tables' objects.
LEMMA TablesObjects ==
    ASSUME HeapInv, SameSlabs, \A d \in DOMAIN ptes : ram_map'[d[1]].va = ram_map[d[1]].va
    PROVE  \A d \in DOMAIN ptes : PtObject(d)' = PtObject(d)
  BY DEF HeapInv, MapsOk, TableFrames, PtObject, SameSlabs

\* What depends on the slabs alone.
LEMMA SlabsStay ==
    ASSUME HeapInv, UNCHANGED <<slabs, lists>>
    PROVE  SlabsOk' /\ ListsOk' /\ SameSlabs /\ \A c, l : Filed(c, l)' = Filed(c, l)
<1>1. SlabsOk /\ ListsOk
  BY DEF HeapInv
<1>2. SlabsOk'
  <2>1. \A sl : SlabOk(sl)' <=> SlabOk(sl)
    BY DEF SlabOk
  <2> QED BY <1>1, <2>1 DEF SlabsOk
<1>3. \A c, l : Filed(c, l)' = Filed(c, l)
  BY DEF Filed, ListOf
<1>4. ListsOk'
  BY <1>1, <1>3 DEF ListsOk
<1>5. SameSlabs
  BY DEF SameSlabs
<1> QED BY <1>2, <1>3, <1>4, <1>5

LEMMA LowStays ==
    ASSUME LowOk, UNCHANGED slub_16byte_free, slabs'[Sl16].nfree >= slabs[Sl16].nfree, owner'[C16] = owner[C16],
           slabs'[Sl16].nfree \in Nat, slabs[Sl16].nfree \in Nat
    PROVE  LowOk'
  BY DEF LowOk

LEMMA FramesStay == ASSUME FramesOk, UNCHANGED frames PROVE FramesOk'
  BY DEF FramesOk, frames

LEMMA TablesStay ==
    ASSUME TablesOk, UNCHANGED tables
    PROVE  TablesOk' /\ \A q : Fr(q)' = Fr(q)
<1>1. \A q : Fr(q)' = Fr(q)
  BY DEF Fr, tables, Usable, IsPt
<1>2. UNCHANGED <<pd, ptes>>
  BY DEF tables
<1>3. TablesOk'
  BY <1>1, <1>2 DEF TablesOk, PtesOk, Usable, IsPt
<1> QED BY <1>1, <1>3

-----------------------------------------------------------------------------
(* What follows a step, and the results that it finds.                     *)

Begins(r, ops) == r # <<>> /\ Head(r)[1] \in ops
After(x, r) ==
    /\ x[1] = "alloc" => \/ r # <<>> /\ Head(r) = <<"give", x[2]>> /\ x[2] \in Size
                         \/ x[2] = C16 /\ Begins(r, {"find", "seg", "track"})
                         \/ x[2] = PT /\ Begins(r, {"install"})
    /\ x[1] = "take" => \/ r # <<>> /\ Head(r) = <<"give", x[2]>> /\ x[2] \in Size
                        \/ x[2] = PT /\ Begins(r, {"install"})
    /\ x[1] = "find" => Begins(r, {"alloc"})
    /\ x[1] = "seg" => Begins(r, {"unlock"})
    /\ x[1] = "unlock" => Begins(r, {"pm", "sections"})
    /\ x[1] = "pm" => Begins(r, {"ram"})
    /\ x[1] = "ram" => Begins(r, {"map"})
    /\ x[1] = "map" => Begins(r, {"alloc"})
    /\ x[1] = "install" => Begins(r, {"alloc"})
    /\ x[1] = "track" => (r # <<>> /\ Head(r) = <<"give", WHOLE>>) \/ Begins(r, {"init1"})
    /\ x[1] = "init1" => r # <<>> /\ Head(r) = <<"take", x[2]>>
    /\ x[1] \in {"give", "sections", "put"} => r = <<>>

LEMMA BeginsCons ==
    ASSUME NEW x, NEW r, IsSeq(r)
    PROVE  \A ops : x[1] \in ops => Begins(Cons(x, r), ops)
  BY ConsFacts DEF Begins

LEMMA InnerBegins ==
    ASSUME NEW q, NEW h, NEW v, Inner(q, h, v)
    PROVE  (q # <<>> /\ Head(q) = <<"give", WHOLE>>) \/ Begins(q, {"init1"})
<1>1. CASE Whole(q, h, v)
  BY <1>1, ConsFacts, EmptyIsSeq DEF Whole
<1>2. CASE \E c, r, w, s : Grows(c, r, h, w) /\ q = FromInit1(c, r) /\ v = Append(w, s) /\ IsStruct(s)
  <2>1. PICK c, r, w, s : Grows(c, r, h, w) /\ q = FromInit1(c, r)
    BY <1>2
  <2>2. IsSeq(r)
    BY <2>1, GrowsFacts
  <2>3. <<"init1", c>>[1] \in {"init1"}
    OBVIOUS
  <2> QED BY <2>1, <2>2, <2>3, BeginsCons DEF FromInit1
<1> QED BY <1>1, <1>2 DEF Inner

LEMMA TakeFollowed ==
    ASSUME NEW c, NEW r, NEW h, NEW v, AtTake(c, r, h, v), IsSeq(r)
    PROVE  \/ r # <<>> /\ Head(r) = <<"give", c>> /\ c \in Size
           \/ c = PT /\ Begins(r, {"install"})
<1>1. Grows(c, Cons(<<"take", c>>, r), h, v)
  BY DEF AtTake
<1>2. CASE GrowsList(c, Cons(<<"take", c>>, r), h, v)
  <2>1. r = Cons(<<"give", c>>, <<>>) /\ c \in Size
    BY <1>2, ConsFacts, EmptyIsSeq DEF GrowsList
  <2> QED BY <2>1, ConsFacts, EmptyIsSeq
<1>3. CASE c = PT /\ GrowsPt(Cons(<<"take", c>>, r), h, v)
  <2>1. PICK q, g, w : Outer(q, g, w) /\ Cons(<<"take", c>>, r) = Cons(<<"take", PT>>, FromInstall(q))
    BY <1>3 DEF GrowsPt
  <2>2. IsSeq(FromInstall(q)) /\ IsSeq(FromWhole(q))
    BY <2>1, OuterFacts, FromAreSeqs
  <2>3. r = FromInstall(q)
    BY <1>3, <2>1, <2>2, ConsFacts
  <2>4. <<"install">>[1] \in {"install"}
    OBVIOUS
  <2> QED BY <1>3, <2>2, <2>3, <2>4, BeginsCons DEF FromInstall
<1> QED BY <1>1, <1>2, <1>3 DEF Grows

LEMMA AllocFollowed ==
    ASSUME NEW c, NEW r, NEW h, NEW v, AtAlloc(c, r, h, v), IsSeq(r), c \notin h
    PROVE  \/ r # <<>> /\ Head(r) = <<"give", c>> /\ c \in Size
           \/ c = C16 /\ Begins(r, {"find", "seg", "track"})
           \/ c = PT /\ Begins(r, {"install"})
<1>1. \A n : /\ <<"find", n>>[1] \in {"find", "seg", "track"} /\ <<"seg", n>>[1] \in {"find", "seg", "track"}
             /\ <<"track">>[1] \in {"find", "seg", "track"} /\ <<"install">>[1] \in {"install"}
  OBVIOUS
<1>2. CASE c \in Size /\ r = Cons(<<"give", c>>, <<>>)
  BY <1>2, ConsFacts, EmptyIsSeq
<1>3. CASE c = C16 /\ \E d, q : Grows(d, q, h, v) /\ r = FromFind(1, FromPm(FromInit1(d, q)))
  <2>1. PICK d, q : Grows(d, q, h, v) /\ r = FromFind(1, FromPm(FromInit1(d, q)))
    BY <1>3
  <2>2. IsSeq(FromSegAlloc(1, FromPm(FromInit1(d, q))))
    BY <2>1, GrowsFacts, FromAreSeqs
  <2> QED BY <1>1, <1>3, <2>1, <2>2, BeginsCons DEF FromFind
<1>4. CASE /\ c = C16
           /\ \E n, q, g, w, p : /\ Ranges(n, q, g, w) /\ r = FromSeg(n, q)
                                 /\ h = g \union {VM} /\ v = Append(w, p) /\ IsPage(p)
  <2>1. PICK n, q, g, w, p : Ranges(n, q, g, w) /\ r = FromSeg(n, q)
    BY <1>4
  <2>2. IsSeq(FromUnlock(q))
    BY <2>1, RangesFacts, FromAreSeqs
  <2> QED BY <1>1, <1>4, <2>1, <2>2, BeginsCons DEF FromSeg
<1>5. CASE /\ c = C16
           /\ \E q, w, p, f : /\ Inner(q, h, w) /\ r = FromTrack(q)
                              /\ v = Append(Append(w, p), f) /\ Mapping(p, f)
  <2>1. PICK q, w : Inner(q, h, w) /\ r = FromTrack(q)
    BY <1>5
  <2>2. IsSeq(q)
    BY <2>1, InnerFacts
  <2> QED BY <1>1, <1>5, <2>1, <2>2, BeginsCons DEF FromTrack
<1>6. CASE /\ c = PT
           /\ \E q, w, p, f : /\ Outer(q, h, w) /\ r = FromInstall(q)
                              /\ v = Append(Append(w, p), f) /\ NewTable(p, f)
  <2>1. PICK q, w : Outer(q, h, w) /\ r = FromInstall(q)
    BY <1>6
  <2>2. IsSeq(FromWhole(q))
    BY <2>1, OuterFacts, FromAreSeqs
  <2> QED BY <1>1, <1>6, <2>1, <2>2, BeginsCons DEF FromInstall
<1> QED BY <1>2, <1>3, <1>4, <1>5, <1>6 DEF AtAlloc

LEMMA StepFollowed ==
    ASSUME NEW x, NEW r, NEW h, NEW v, At(x, r, h, v), IsSeq(r), x[1] = "alloc" => x[2] \notin h
    PROVE  After(x, r)
<1>1. x[1] = "alloc" => \/ r # <<>> /\ Head(r) = <<"give", x[2]>> /\ x[2] \in Size
                        \/ x[2] = C16 /\ Begins(r, {"find", "seg", "track"})
                        \/ x[2] = PT /\ Begins(r, {"install"})
  BY AllocFollowed DEF At
<1>2. x[1] = "take" => \/ r # <<>> /\ Head(r) = <<"give", x[2]>> /\ x[2] \in Size
                       \/ x[2] = PT /\ Begins(r, {"install"})
  BY TakeFollowed DEF At
<1>3. x[1] = "find" => Begins(r, {"alloc"})
  <2> SUFFICES ASSUME x[1] = "find" PROVE Begins(r, {"alloc"})
    OBVIOUS
  <2>1. PICK q : Ranges(x[2], q, h, v) /\ r = FromSegAlloc(x[2], q)
    BY DEF At, AtFind
  <2>2. IsSeq(FromSeg(x[2], q)) /\ <<"alloc", C16>>[1] \in {"alloc"}
    BY <2>1, RangesFacts, FromAreSeqs
  <2> QED BY <2>1, <2>2, BeginsCons DEF FromSegAlloc
<1>4. x[1] = "seg" => Begins(r, {"unlock"})
  <2> SUFFICES ASSUME x[1] = "seg" PROVE Begins(r, {"unlock"})
    OBVIOUS
  <2>1. PICK q, g, w : Ranges(x[2], q, g, w) /\ r = FromUnlock(q)
    BY DEF At, AtSeg
  <2>2. IsSeq(q) /\ <<"unlock", VM>>[1] \in {"unlock"}
    BY <2>1, RangesFacts
  <2> QED BY <2>1, <2>2, BeginsCons DEF FromUnlock
<1>5. x[1] = "unlock" => Begins(r, {"pm", "sections"})
  <2> SUFFICES ASSUME x[1] = "unlock" PROVE Begins(r, {"pm", "sections"})
    OBVIOUS
  <2>1. PICK n, g, w : Ranges(n, r, g, w)
    BY DEF At, AtUnlock
  <2>2. <<"pm">>[1] \in {"pm", "sections"} /\ <<"sections">>[1] \in {"pm", "sections"}
    OBVIOUS
  <2>3. CASE r = Cons(<<"sections">>, <<>>)
    BY <2>2, <2>3, BeginsCons, EmptyIsSeq
  <2>4. CASE \E q : Inner(q, g, w) /\ r = FromPm(q)
    <3>1. PICK q : Inner(q, g, w) /\ r = FromPm(q)
      BY <2>4
    <3>2. IsSeq(FromRam(q))
      BY <3>1, InnerFacts, FromAreSeqs
    <3> QED BY <2>2, <3>1, <3>2, BeginsCons DEF FromPm
  <2> QED BY <2>1, <2>3, <2>4 DEF Ranges
<1>6. x[1] = "pm" => Begins(r, {"ram"})
  <2> SUFFICES ASSUME x[1] = "pm" PROVE Begins(r, {"ram"})
    OBVIOUS
  <2>1. PICK q, w : Inner(q, h, w) /\ r = FromRam(q)
    BY DEF At, AtPm
  <2>2. IsSeq(FromMap(q)) /\ <<"ram">>[1] \in {"ram"}
    BY <2>1, InnerFacts, FromAreSeqs
  <2> QED BY <2>1, <2>2, BeginsCons DEF FromRam
<1>7. x[1] = "ram" => Begins(r, {"map"})
  <2> SUFFICES ASSUME x[1] = "ram" PROVE Begins(r, {"map"})
    OBVIOUS
  <2>1. PICK q, g, w : Inner(q, g, w) /\ r = FromMap(q)
    BY DEF At, AtRam
  <2>2. IsSeq(FromWhole(q)) /\ <<"map">>[1] \in {"map"}
    BY <2>1, InnerFacts, FromAreSeqs
  <2> QED BY <2>1, <2>2, BeginsCons DEF FromMap
<1>8. (\E q : IsSeq(q) /\ r = FromWhole(q)) => Begins(r, {"alloc"})
  <2> SUFFICES ASSUME NEW q, IsSeq(q), r = FromWhole(q) PROVE Begins(r, {"alloc"})
    OBVIOUS
  <2>1. IsSeq(FromTrack(q)) /\ <<"alloc", C16>>[1] \in {"alloc"}
    BY FromAreSeqs
  <2> QED BY <2>1, BeginsCons DEF FromWhole
<1>9. x[1] = "map" => Begins(r, {"alloc"})
  BY <1>8, InnerFacts DEF At, AtMap
<1>10. x[1] = "install" => Begins(r, {"alloc"})
  BY <1>8, OuterFacts DEF At, AtInstall
<1>11. x[1] = "track" => (r # <<>> /\ Head(r) = <<"give", WHOLE>>) \/ Begins(r, {"init1"})
  BY InnerBegins DEF At, AtTrack
<1>12. x[1] = "init1" => r # <<>> /\ Head(r) = <<"take", x[2]>>
  BY Init1Next DEF At
<1>13. x[1] \in {"give", "sections", "put"} => r = <<>>
  BY DEF At, AtGive, AtSections, AtPut
<1> QED BY <1>1, <1>2, <1>3, <1>4, <1>5, <1>6, <1>7, <1>9, <1>10, <1>11, <1>12, <1>13 DEF After

\* Results at the end of a list.
LEMMA LastThree ==
    ASSUME NEW w, NEW a, NEW b, NEW c, IsSeq(w)
    PROVE  /\ LET v == Append(w, a) IN Len(v) \in Nat /\ Len(v) >= 1 /\ v[Len(v)] = a /\ Len(v) = Len(w) + 1
           /\ LET v == Append(Append(w, a), b) IN
              Len(v) \in Nat /\ Len(v) >= 2 /\ v[Len(v) - 1] = a /\ v[Len(v)] = b /\ Len(v) = Len(w) + 2
           /\ LET v == Append(Append(Append(w, a), b), c) IN
              /\ Len(v) \in Nat /\ Len(v) >= 3 /\ Len(v) = Len(w) + 3
              /\ v[Len(v) - 2] = a /\ v[Len(v) - 1] = b /\ v[Len(v)] = c
<1> DEFINE x == Append(w, a)
           y == Append(x, b)
           z == Append(y, c)
<1>1. IsSeq(x) /\ Len(x) = Len(w) + 1 /\ Len(w) \in Nat /\ x[Len(x)] = a
  BY AppendFacts
<1> HIDE DEF x
<1>2. IsSeq(y) /\ Len(y) = Len(x) + 1 /\ y[Len(y)] = b /\ \A i \in 1 .. Len(x) : y[i] = x[i]
  BY <1>1, AppendFacts
<1> HIDE DEF y
<1>3. IsSeq(z) /\ Len(z) = Len(y) + 1 /\ z[Len(z)] = c /\ \A i \in 1 .. Len(y) : z[i] = y[i]
  BY <1>2, AppendFacts
<1> HIDE DEF z
<1>4. Len(y) = Len(w) + 2 /\ Len(y) - 1 = Len(x) /\ y[Len(y) - 1] = a /\ Len(y) \in Nat /\ Len(y) >= 2
  BY <1>1, <1>2
<1>5. Len(z) = Len(w) + 3 /\ Len(z) - 1 = Len(y) /\ Len(z) - 2 = Len(y) - 1 /\ Len(z) \in Nat /\ Len(z) >= 3
  BY <1>1, <1>3, <1>4
<1>6. z[Len(z) - 1] = b /\ z[Len(z) - 2] = a
  BY <1>1, <1>2, <1>3, <1>4, <1>5
<1> QED BY <1>1, <1>2, <1>3, <1>4, <1>5, <1>6 DEF x, y, z

\* The results that a step finds.
Finds(x, v) ==
    LET n == Len(v) IN
    /\ n \in Nat
    /\ x[1] = "seg" => n >= 2 /\ IsPage(v[n - 1]) /\ IsStruct(v[n])
    /\ x[1] \in {"unlock", "pm", "ram"} => n >= 1 /\ IsPage(v[n])
    /\ x[1] = "map" => n >= 2 /\ Mapping(v[n - 1], v[n])
    /\ x[1] = "install" => n >= 3 /\ NewTable(v[n - 2], v[n - 1]) /\ IsPtObj(v[n])
    /\ x[1] = "track" => n >= 3 /\ Mapping(v[n - 2], v[n - 1]) /\ IsStruct(v[n])
    /\ x[1] = "init1" => n >= 2 /\ IsStruct(v[n - 1]) /\ IsPage(v[n]) /\ x[2] \in (Size \ {C16}) \union {PT}
    /\ x[1] = "give" => n = 1 /\ IF x[2] = WHOLE THEN IsPage(v[n]) ELSE IsObj(v[n])
    /\ x[1] = "give" => x[2] \in Size \union {WHOLE}
    /\ x[1] = "sections" => n = 1 /\ IsPage(v[n])
    /\ x[1] = "put" => n = 1 /\ PutsTo(x[2], v[n])

LEMMA StepFinds ==
    ASSUME NEW x, NEW r, NEW h, NEW v, At(x, r, h, v), IsSeq(v)
    PROVE  Finds(x, v)
<1> DEFINE n == Len(v)
<1>1. n \in Nat
  BY SeqFacts
<1>2. x[1] = "seg" => n >= 2 /\ IsPage(v[n - 1]) /\ IsStruct(v[n])
  <2> SUFFICES ASSUME x[1] = "seg" PROVE n >= 2 /\ IsPage(v[n - 1]) /\ IsStruct(v[n])
    OBVIOUS
  <2>1. PICK q, g, w, p, s : Ranges(x[2], q, g, w) /\ v = Append(Append(w, p), s) /\ IsPage(p) /\ IsStruct(s)
    BY DEF At, AtSeg
  <2> QED BY <2>1, RangesFacts, LastThree
<1>3. x[1] \in {"unlock", "pm", "ram"} => n >= 1 /\ IsPage(v[n])
  <2> SUFFICES ASSUME x[1] \in {"unlock", "pm", "ram"} PROVE n >= 1 /\ IsPage(v[n])
    OBVIOUS
  <2>1. \E w, p : IsSeq(w) /\ v = Append(w, p) /\ IsPage(p)
    <3>1. CASE x[1] = "unlock"
      BY <3>1, RangesFacts DEF At, AtUnlock
    <3>2. CASE x[1] = "pm"
      BY <3>2, InnerFacts DEF At, AtPm
    <3>3. CASE x[1] = "ram"
      BY <3>3, InnerFacts DEF At, AtRam
    <3> QED BY <3>1, <3>2, <3>3
  <2> QED BY <2>1, LastThree
<1>4. x[1] = "map" => n >= 2 /\ Mapping(v[n - 1], v[n])
  <2> SUFFICES ASSUME x[1] = "map" PROVE n >= 2 /\ Mapping(v[n - 1], v[n])
    OBVIOUS
  <2>1. PICK q, w, p, f : Inner(q, h, w) /\ v = Append(Append(w, p), f) /\ Mapping(p, f)
    BY DEF At, AtMap
  <2> QED BY <2>1, InnerFacts, LastThree
<1>5. x[1] = "install" => n >= 3 /\ NewTable(v[n - 2], v[n - 1]) /\ IsPtObj(v[n])
  <2> SUFFICES ASSUME x[1] = "install" PROVE n >= 3 /\ NewTable(v[n - 2], v[n - 1]) /\ IsPtObj(v[n])
    OBVIOUS
  <2>1. PICK q, w, p, f, o : /\ Outer(q, h, w) /\ NewTable(p, f) /\ IsPtObj(o)
                             /\ v = Append(Append(Append(w, p), f), o)
    BY DEF At, AtInstall
  <2> QED BY <2>1, OuterFacts, LastThree
<1>6. x[1] = "track" => n >= 3 /\ Mapping(v[n - 2], v[n - 1]) /\ IsStruct(v[n])
  <2> SUFFICES ASSUME x[1] = "track" PROVE n >= 3 /\ Mapping(v[n - 2], v[n - 1]) /\ IsStruct(v[n])
    OBVIOUS
  <2>1. PICK w, p, f, o : /\ Inner(r, h, w) /\ v = Append(Append(Append(w, p), f), o)
                          /\ Mapping(p, f) /\ IsStruct(o)
    BY DEF At, AtTrack
  <2> QED BY <2>1, InnerFacts, LastThree
<1>7. x[1] = "init1" => n >= 2 /\ IsStruct(v[n - 1]) /\ IsPage(v[n]) /\ x[2] \in (Size \ {C16}) \union {PT}
  <2> SUFFICES ASSUME x[1] = "init1"
               PROVE  n >= 2 /\ IsStruct(v[n - 1]) /\ IsPage(v[n]) /\ x[2] \in (Size \ {C16}) \union {PT}
    OBVIOUS
  <2>1. PICK w, s, p : Grows(x[2], r, h, w) /\ v = Append(Append(w, s), p) /\ IsStruct(s) /\ IsPage(p)
    BY DEF At, AtInit1
  <2> QED BY <2>1, GrowsFacts, LastThree
<1>8. x[1] = "give" => /\ n = 1 /\ IF x[2] = WHOLE THEN IsPage(v[n]) ELSE IsObj(v[n])
                       /\ x[2] \in Size \union {WHOLE}
  <2> SUFFICES ASSUME x[1] = "give"
               PROVE  /\ n = 1 /\ IF x[2] = WHOLE THEN IsPage(v[n]) ELSE IsObj(v[n])
                      /\ x[2] \in Size \union {WHOLE}
    OBVIOUS
  <2>1. PICK o : v = Append(<<>>, o) /\ IF x[2] = WHOLE THEN IsPage(o) ELSE IsObj(o)
    BY DEF At, AtGive
  <2>2. n = Len(<<>>) + 1 /\ v[n] = o
    BY <2>1, EmptyIsSeq, LastThree
  <2>3. x[2] \in Size \union {WHOLE}
    BY DEF At, AtGive
  <2> QED BY <2>1, <2>2, <2>3
<1>9. x[1] = "sections" => n = 1 /\ IsPage(v[n])
  <2> SUFFICES ASSUME x[1] = "sections" PROVE n = 1 /\ IsPage(v[n])
    OBVIOUS
  <2>1. PICK o : v = Append(<<>>, o) /\ IsPage(o)
    BY DEF At, AtSections
  <2>2. n = Len(<<>>) + 1 /\ v[n] = o
    BY <2>1, EmptyIsSeq, LastThree
  <2> QED BY <2>1, <2>2
<1>10. x[1] = "put" => n = 1 /\ PutsTo(x[2], v[n])
  <2> SUFFICES ASSUME x[1] = "put" PROVE n = 1 /\ PutsTo(x[2], v[n])
    OBVIOUS
  <2>1. PICK p : v = Append(<<>>, p) /\ PutsTo(x[2], p)
    BY DEF At, AtPut
  <2>2. n = Len(<<>>) + 1 /\ v[n] = p
    BY <2>1, EmptyIsSeq, LastThree
  <2> QED BY <2>1, <2>2
<1> HIDE DEF n
<1>13. /\ x[1] = "give" => n = 1 /\ IF x[2] = WHOLE THEN IsPage(v[n]) ELSE IsObj(v[n])
       /\ x[1] = "give" => x[2] \in Size \union {WHOLE}
  BY <1>8
<1> QED BY <1>1, <1>2, <1>3, <1>4, <1>5, <1>6, <1>7, <1>9, <1>10, <1>13 DEF Finds, n

LEMMA StepFacts ==
    ASSUME LockInv, NEW t \in Thread, NEW op, Does(t, op), op = "alloc" => owner[Arg(t)] = NoThread
    PROVE  /\ After(Head(todo[t]), Tail(todo[t])) /\ Finds(Head(todo[t]), vals[t])
           /\ Head(todo[t])[1] = op /\ HeadOp(t) = op /\ Head(todo[t])[2] = Arg(t)
<1>1. /\ IsSeq(vals[t]) /\ IsSeq(Tail(todo[t])) /\ HeadOp(t) = op
      /\ At(Head(todo[t]), Tail(todo[t]), HeldBy(t), vals[t]) /\ Head(todo[t])[1] = op
      /\ Arg(t) = Head(todo[t])[2]
  BY Doing
<1>2. op = "alloc" => Arg(t) \notin HeldBy(t)
  BY SlubConstants DEF HeldBy
<1> QED BY <1>1, <1>2, StepFollowed, StepFinds

LEMMA TailNext ==
    ASSUME LockInv, NEW t \in Thread, NEW op, Does(t, op), Then(t, <<>>)
    PROVE  todo'[t] = Tail(todo[t])
<1>1. todo' = [todo EXCEPT ![t] = Tail(@)]
  BY ThenNothing DEF Does
<1> QED BY <1>1 DEF LockInv, Kept

-----------------------------------------------------------------------------
(* Steps that leave the heap alone.                                        *)

NowOk(t) == GivesOk(t) /\ InstallsOk(t) /\ TakesOk(t)
Acting   == {"give", "install", "take"}
Quiet(r) == r = <<>> \/ Head(r)[1] \notin Acting

LEMMA QuietHead ==
    ASSUME NEW t, Quiet(todo'[t])
    PROVE  NowOk(t)'
<1>1. \A op \in Acting : ~ DoesNow(t, op)'
  BY DEF DoesNow, HeadOp, Quiet
<1>2. /\ ~ DoesNow(t, "give")' /\ ~ DoesNow(t, "install")' /\ ~ DoesNow(t, "take")'
  BY <1>1 DEF Acting
<1> QED BY <1>2 DEF NowOk, GivesOk, InstallsOk, TakesOk

LEMMA QuietBegins ==
    ASSUME NEW r, NEW ops, Begins(r, ops), ops \intersect Acting = {}
    PROVE  Quiet(r)
  BY DEF Begins, Quiet

LEMMA StillHeap ==
    ASSUME HeapInv, UNCHANGED <<memory, tables, frames>>, owner'[C16] = owner[C16], SamePages
    PROVE  /\ SlabsOk' /\ ListsOk' /\ LowOk' /\ FramesOk' /\ TablesOk' /\ MapsOk' /\ SameSlabs
           /\ \A q : Fr(q)' = Fr(q)
           /\ \A d \in DOMAIN ptes : PtObject(d)' = PtObject(d)
           /\ \A c, l : Filed(c, l)' = Filed(c, l)
<1>1. UNCHANGED <<slabs, lists, slub_16byte_free, ptes, ram_map>>
  BY DEF memory, tables, frames
<1>2. SlabsOk' /\ ListsOk' /\ SameSlabs /\ \A c, l : Filed(c, l)' = Filed(c, l)
  BY <1>1, SlabsStay
<1>3. LowOk'
  BY <1>1 DEF HeapInv, LowOk
<1>4. FramesOk'
  BY FramesStay DEF HeapInv
<1>5. TablesOk' /\ \A q : Fr(q)' = Fr(q)
  BY TablesStay DEF HeapInv
<1>6. MapsOk'
  BY <1>2, MapsSame DEF HeapInv
<1>7. \A d \in DOMAIN ptes : PtObject(d)' = PtObject(d)
  BY <1>1 DEF PtObject
<1> QED BY <1>2, <1>3, <1>4, <1>5, <1>6, <1>7

LEMMA HasSame ==
    ASSUME UNCHANGED <<slabs, ptes, ram_map, whole, vm_areas, live, vals>>
    PROVE  \A k, a, b, q : Has(k, a, b, q)' <=> Has(k, a, b, q)
  BY DEF Has, ValAt, IsSeg, PtObject, OnChain

LEMMA UsedSame ==
    ASSUME \A q : Held(q)' => Held(q), \A q \in VA : Fr(q)' = Fr(q) \/ Fr(q)' = 0
    PROVE  \A q \in VA : Used(q)' => Used(q)
  BY DEF Used

LEMMA StructsSame ==
    ASSUME StructsOk, UNCHANGED <<vm_areas, whole>>
    PROVE  StructsOk'
  BY DEF StructsOk, IsSeg, IsStruct

LEMMA AllThreads ==
    ASSUME NEW t \in Thread, NowOk(t)', ThreadsOk, SameOthers(t), SameSlabs,
           \A u \in Thread \ {t} : DoesNow(u, "take") /\ Filed(Arg(u), "free") # {} => Filed(Arg(u), "free")' # {}
    PROVE  ThreadsOk'
<1>1. \A u \in Thread \ {t} : (GivesOk(u) /\ InstallsOk(u) /\ TakesOk(u))'
  BY OthersStay
<1>2. \A u \in Thread \ {t} : NowOk(u)'
  BY <1>1 DEF NowOk
<1>3. \A u \in Thread : NowOk(u)'
  BY <1>2
<1> QED BY <1>3 DEF ThreadsOk, NowOk

LEMMA QuietStep ==
    ASSUME HeapInv, NEW t \in Thread, SameOthers(t), NowOk(t)',
           UNCHANGED <<memory, tables, frames, vm_areas, live, vals>>,
           owner'[C16] = owner[C16], \A q : Pending(q) => Pending(q)'
    PROVE  HeapInv'
<1>1. SamePages
  BY SameVals
<1>2. /\ SlabsOk' /\ ListsOk' /\ LowOk' /\ FramesOk' /\ TablesOk' /\ MapsOk' /\ SameSlabs
      /\ \A q : Fr(q)' = Fr(q)
      /\ \A c, l : Filed(c, l)' = Filed(c, l)
  BY <1>1, StillHeap
<1>3. UNCHANGED <<slabs, ptes, ram_map, whole>>
  BY DEF memory, tables, frames
<1>4. \A k, a, b, q : Has(k, a, b, q)' <=> Has(k, a, b, q)
  BY <1>3, HasSame
<1>5. TokensOk' /\ \A q : Held(q)' <=> Held(q)
  BY <1>2, <1>4, TokensSame
<1>6. KnownOk'
  <2>1. KnownOk
    BY DEF HeapInv
  <2>2. \A q \in VA : Used(q)' => Used(q)
    BY <1>2, <1>5, UsedSame
  <2> QED BY <2>1, <2>2, KnownStays
<1>7. ThreadsOk'
  <2>1. ThreadsOk
    BY DEF HeapInv
  <2>2. \A u \in Thread \ {t} : DoesNow(u, "take") /\ Filed(Arg(u), "free") # {} => Filed(Arg(u), "free")' # {}
    <3>1. \A u \in Thread \ {t} : Arg(u)' = Arg(u)
      BY DEF SameOthers, Arg
    <3> QED BY <1>2, <3>1 DEF Filed
  <2> QED BY <1>2, <2>1, <2>2, AllThreads
<1>8. LiveOk' /\ StructsOk'
  <2>1. LiveOk /\ StructsOk
    BY DEF HeapInv
  <2>2. live' \subseteq live
    OBVIOUS
  <2> QED BY <1>2, <1>3, <2>1, <2>2, LiveStays, StructsSame
<1> QED BY <1>2, <1>5, <1>6, <1>7, <1>8 DEF HeapInv

LEMMA StutterHeap ==
    ASSUME HeapInv, UNCHANGED <<memory, vm_areas, tables, frames, owner, todo, vals, live>>
    PROVE  HeapInv'
<1>1. CASE Thread # {}
  <2>1. PICK t \in Thread : TRUE
    BY <1>1
  <2>2. SameOthers(t)
    BY DEF SameOthers
  <2>3. \A q : Pending(q) => Pending(q)'
    BY DEF Pending, HeadOp, Top, Below
  <2>4. NowOk(t)'
    <3>1. NowOk(t)
      BY <2>1 DEF HeapInv, ThreadsOk, NowOk
    <3>2. UNCHANGED <<slabs, todo, vals>>
      BY DEF memory
    <3> QED BY <3>1, <3>2 DEF NowOk, GivesOk, InstallsOk, TakesOk, DoesNow, HeadOp, Arg, Top,
            Filed, ListOf, Home
  <2> QED BY <2>2, <2>3, <2>4, QuietStep
<1>2. CASE Thread = {}
  <2>1. SamePages
    BY SameVals
  <2>2. /\ SlabsOk' /\ ListsOk' /\ LowOk' /\ FramesOk' /\ TablesOk' /\ MapsOk' /\ SameSlabs
        /\ \A q : Fr(q)' = Fr(q)
    BY <2>1, StillHeap
  <2>3. UNCHANGED <<slabs, ptes, ram_map, whole>>
    BY DEF memory, tables, frames
  <2>4. \A k, a, b, q : Has(k, a, b, q)' <=> Has(k, a, b, q)
    BY <2>3, HasSame
  <2>5. TokensOk' /\ \A q : Held(q)' <=> Held(q)
    BY <2>2, <2>4, TokensSame
  <2>6. KnownOk'
    <3>1. KnownOk
      BY DEF HeapInv
    <3>2. \A q \in VA : Used(q)' => Used(q)
      BY <2>2, <2>5, UsedSame
    <3>3. \A q : Pending(q) => Pending(q)'
      BY <1>2 DEF Pending
    <3> QED BY <3>1, <3>2, <3>3, KnownStays
  <2>7. LiveOk' /\ StructsOk'
    <3>1. LiveOk /\ StructsOk
      BY DEF HeapInv
    <3>2. live' \subseteq live
      OBVIOUS
    <3> QED BY <2>2, <2>3, <3>1, <3>2, LiveStays, StructsSame
  <2>8. ThreadsOk'
    BY <1>2 DEF ThreadsOk
  <2> QED BY <2>2, <2>5, <2>6, <2>7, <2>8 DEF HeapInv
<1> QED BY <1>1, <1>2

LEMMA FailHeap == ASSUME HeapInv, NEW why, Fail(why) PROVE HeapInv'
  BY StutterHeap DEF Fail

-----------------------------------------------------------------------------
(* Locks and calls.                                                        *)

\* A thread outside the section of vm.c.
LEMMA NotHolding ==
    ASSUME LockInv, NEW t \in Thread, NEW op, Does(t, op), op \notin {"alloc", "seg"}
    PROVE  owner[VM] = t => owner[C16] # t /\ HeadOp(t) \notin {"alloc", "seg"}
<1>1. HeadOp(t) = op
  BY Doing
<1>2. C16 \notin HeldBy(t)
  BY Doing
<1>3. owner[C16] # t
  BY <1>2, LockNumbers DEF HeldBy
<1> QED BY <1>1, <1>3

LEMMA UnlockHeap == ASSUME LockInv, HeapInv, NEW t \in Thread, Unlock(t) PROVE HeapInv'
<1>1. Does(t, "unlock") /\ Then(t, <<>>) /\ UNCHANGED <<memory, vm_areas, tables, frames, vals, live>>
      /\ owner' = [owner EXCEPT ![Arg(t)] = NoThread]
  BY DEF Unlock
<1>2. Arg(t) = VM
  <2> DEFINE m == Arg(t)
  <2>1. AtUnlock(m, Tail(todo[t]), HeldBy(t), vals[t])
    BY <1>1, Doing DEF At
  <2> HIDE DEF m
  <2>2. m = VM
    BY <2>1 DEF AtUnlock
  <2> QED BY <2>2 DEF m
<1>3. \A m \in Mutexes : owner'[m] = IF m = VM THEN NoThread ELSE owner[m]
  BY <1>1, <1>2 DEF LockInv, Kept
<1>4. owner'[C16] = owner[C16]
  BY <1>3, LockNumbers
<1>5. SameOthers(t)
  BY <1>1, OnlyMine DEF SameOthers, LockInv
<1>6. owner[VM] = t
  <2>1. AtUnlock(VM, Tail(todo[t]), HeldBy(t), vals[t])
    BY <1>1, <1>2, Doing DEF At
  <2>2. VM \in HeldBy(t)
    BY <2>1 DEF AtUnlock
  <2> QED BY <2>2 DEF HeldBy
<1>7. \A q : Pending(q) => Pending(q)'
  <2>1. \A u \in Thread \ {t} : owner[VM] = u => owner'[VM] = u
    BY <1>6
  <2>2. \A u \in Thread \ {t} : owner[C16] = u => owner'[C16] = u
    BY <1>4
  <2>3. owner[VM] = t => owner[C16] # t /\ HeadOp(t) \notin {"alloc", "seg"}
    BY <1>1, NotHolding
  <2> QED BY <1>5, <2>1, <2>2, <2>3, PendingStays
<1>8. NowOk(t)'
  <2>1. After(Head(todo[t]), Tail(todo[t])) /\ Head(todo[t])[1] = "unlock"
    BY <1>1, StepFacts
  <2>2. Begins(Tail(todo[t]), {"pm", "sections"})
    BY <2>1 DEF After
  <2>3. todo'[t] = Tail(todo[t])
    BY <1>1, TailNext
  <2> QED BY <2>2, <2>3, QuietBegins, QuietHead DEF Acting
<1> QED BY <1>1, <1>4, <1>5, <1>7, <1>8, QuietStep

LEMMA LockRamHeap == ASSUME LockInv, HeapInv, NEW t \in Thread, LockRam(t) PROVE HeapInv'
<1>1. Does(t, "pm") /\ Then(t, <<>>) /\ UNCHANGED <<memory, vm_areas, tables, frames, vals, live>>
      /\ owner' = [owner EXCEPT ![RAM] = t]
  BY DEF LockRam
<1>2. \A m \in Mutexes : owner'[m] = IF m = RAM THEN t ELSE owner[m]
  BY <1>1 DEF LockInv, Kept
<1>3. owner'[C16] = owner[C16] /\ owner'[VM] = owner[VM]
  BY <1>2, LockNumbers
<1>4. SameOthers(t)
  BY <1>1, OnlyMine DEF SameOthers, LockInv
<1>5. \A q : Pending(q) => Pending(q)'
  <2>1. owner[VM] = t => owner[C16] # t /\ HeadOp(t) \notin {"alloc", "seg"}
    BY <1>1, NotHolding
  <2> QED BY <1>3, <1>4, <2>1, PendingStays
<1>6. NowOk(t)'
  <2>1. After(Head(todo[t]), Tail(todo[t])) /\ Head(todo[t])[1] = "pm"
    BY <1>1, StepFacts
  <2>2. Begins(Tail(todo[t]), {"ram"})
    BY <2>1 DEF After
  <2>3. todo'[t] = Tail(todo[t])
    BY <1>1, TailNext
  <2> QED BY <2>2, <2>3, QuietBegins, QuietHead DEF Acting
<1> QED BY <1>1, <1>3, <1>4, <1>5, <1>6, QuietStep

\* An idle thread holds nothing and keeps nothing.
LEMMA Idle ==
    ASSUME LockInv, NEW t \in Thread, todo[t] = <<>>
    PROVE  vals[t] = <<>> /\ owner[VM] # t /\ owner[C16] # t
<1>1. Shape(todo[t], HeldBy(t), vals[t])
  BY DEF LockInv, Kept
<1>2. HeldBy(t) = {} /\ vals[t] = <<>>
  BY <1>1, ConsFacts DEF Shape
<1> QED BY <1>2, LockNumbers DEF HeldBy

LEMMA CallHeap ==
    ASSUME LockInv, HeapInv, NEW t \in Thread, NEW ops, Call(t, ops), Quiet(ops)
    PROVE  HeapInv'
<1>1. todo' = [todo EXCEPT ![t] = ops] /\ UNCHANGED <<memory, vm_areas, tables, frames, owner, vals, live>>
  BY DEF Call
<1>2. SameOthers(t)
  BY <1>1, OnlyMine DEF SameOthers, LockInv
<1>3. \A q : Pending(q) => Pending(q)'
  <2>1. owner[VM] # t
    BY Idle DEF Call
  <2> QED BY <1>1, <1>2, <2>1, PendingStays
<1>4. todo'[t] = ops
  BY <1>1 DEF LockInv, Kept
<1>5. NowOk(t)'
  BY <1>4, QuietHead
<1> QED BY <1>1, <1>2, <1>3, <1>5, QuietStep

\* The holder of the lock of vm.c allocates 16 bytes, for its segment.
LEMMA AllocHolder ==
    ASSUME LockInv, NEW t \in Thread, Does(t, "alloc"), owner[Arg(t)] = NoThread, owner[VM] = t
    PROVE  Arg(t) = C16 /\ owner[C16] # t /\ Begins(Tail(todo[t]), {"seg"}) /\ Len(vals[t]) >= 1
<1> DEFINE c == Arg(t)
           r == Tail(todo[t])
           h == HeldBy(t)
           v == vals[t]
           Early == (Size \ {C16}) \union {PT}
<1>1. At(Head(todo[t]), r, h, v) /\ Head(todo[t])[1] = "alloc" /\ c = Head(todo[t])[2] /\ IsSeq(v)
  BY Doing
<1>2. AtAlloc(c, r, h, v) /\ c \notin h /\ IsSeq(v)
  <2>1. AtAlloc(c, r, h, v)
    <3> HIDE DEF c, r, h, v
    <3> QED BY <1>1 DEF At
  <2>2. c \notin h
    BY SlubConstants DEF HeldBy
  <2> QED BY <1>1, <2>1, <2>2
<1>3. VM \in h
  BY LockNumbers DEF HeldBy
<1> HIDE DEF c, r, h, v
<1>4. VM \notin Early
  BY LockNumbers
<1>5. ~ \E d, q : Grows(d, q, h, v) /\ r = FromFind(1, FromPm(FromInit1(d, q)))
  BY <1>3, <1>4, GrowsFacts
<1>6. ~ \E q, w : Inner(q, h, w)
  BY <1>3, <1>4, InnerFacts
<1>7. ~ \E q, w : Outer(q, h, w)
  BY <1>3, <1>4, OuterFacts
<1>8. c = C16 /\ \E n, q, g, w, p : /\ Ranges(n, q, g, w) /\ r = FromSeg(n, q)
                                    /\ h = g \union {VM} /\ v = Append(w, p) /\ IsPage(p)
  BY <1>2, <1>3, <1>5, <1>6, <1>7 DEF AtAlloc
<1>9. PICK n, q, g, w, p : Ranges(n, q, g, w) /\ r = FromSeg(n, q) /\ v = Append(w, p)
  BY <1>8
<1>10. IsSeq(FromUnlock(q)) /\ IsSeq(w)
  BY <1>9, RangesFacts, FromAreSeqs
<1>11. <<"seg", n>>[1] \in {"seg"}
  OBVIOUS
<1>12. Begins(r, {"seg"})
  BY <1>9, <1>10, <1>11, BeginsCons DEF FromSeg
<1>13. Len(v) >= 1
  BY <1>9, <1>10, LastThree
<1>14. owner[C16] # t
  <2>1. owner[C16] = NoThread
    BY <1>8 DEF c
  <2> QED BY <2>1, SlubConstants
<1> QED BY <1>8, <1>12, <1>13, <1>14 DEF c, r, v

\* Nobody refills what is not needed: a refill takes a structure first.
LEMMA GrowHeap ==
    ASSUME LockInv, HeapInv, NEW t \in Thread, Does(t, "alloc"), NEW c, c = Arg(t), c # C16,
           owner[c] = NoThread, Grow(t, c)
    PROVE  HeapInv'
<1>1. /\ owner' = [owner EXCEPT ![c] = t] /\ Then(t, Refill(c) \o << <<"take", c>> >>)
      /\ UNCHANGED <<memory, vm_areas, tables, frames, vals, live>>
  BY DEF Grow
<1>2. owner[VM] # t
  BY AllocHolder
<1>3. \A m \in Mutexes : owner'[m] = IF m = c THEN t ELSE owner[m]
  BY <1>1 DEF LockInv, Kept
<1>4. owner'[C16] = owner[C16] /\ \A u \in Thread : owner[VM] = u => owner'[VM] = u
  BY <1>3, LockNumbers, SlubConstants
<1>5. SameOthers(t)
  BY <1>1, OnlyMine DEF SameOthers, LockInv
<1>6. \A q : Pending(q) => Pending(q)'
  BY <1>2, <1>4, <1>5, PendingStays
<1>7. NowOk(t)'
  <2>1. IsSeq(Tail(todo[t]))
    BY Doing
  <2>2. todo'[t] = FromRefill(c, Cons(<<"take", c>>, Tail(todo[t])))
    <3>1. todo'[t] = (Refill(c) \o << <<"take", c>> >>) \o Tail(todo[t])
      BY <1>1 DEF Then, LockInv, Kept
    <3> QED BY <2>1, <3>1, RefillForm
  <2>3. IsSeq(FromFind(1, FromPm(FromInit1(c, Cons(<<"take", c>>, Tail(todo[t]))))))
    BY <2>1, ConsFacts, FromAreSeqs
  <2>4. <<"alloc", C16>>[1] \in {"alloc"}
    OBVIOUS
  <2>5. Begins(todo'[t], {"alloc"})
    BY <2>2, <2>3, <2>4, BeginsCons DEF FromRefill
  <2> QED BY <2>5, QuietBegins, QuietHead DEF Acting
<1> QED BY <1>1, <1>4, <1>5, <1>6, <1>7, QuietStep

-----------------------------------------------------------------------------
(* What happens to the results of a thread, and to what they stand for.    *)

LEMMA HasVal ==
    /\ \A u, i, x : ValAt(u, i, x) <=> Has("val", u, i, x)
    /\ \A u, i, x : ValAt(u, i, x)' <=> Has("val", u, i, x)'
  BY DEF Has

OtherSame == \A k, a, b, q : k # "val" => (Has(k, a, b, q)' <=> Has(k, a, b, q))
OtherAdded(k1, a1, b1, q0) == \A k, a, b, q : k # "val" =>
    (Has(k, a, b, q)' <=> Has(k, a, b, q) \/ (k = k1 /\ a = a1 /\ b = b1 /\ q = q0))

LEMMA RestSame ==
    ASSUME UNCHANGED <<slabs, ptes, ram_map, whole, vm_areas, live>>
    PROVE  OtherSame
  BY DEF OtherSame, Has, IsSeg, PtObject, OnChain

\* The last result is given up.
LEMMA PopOne ==
    ASSUME LockInv, NEW t \in Thread, Len(vals[t]) >= 1, Pop(t, 1)
    PROVE  LET n == Len(vals[t]) IN
           /\ n \in Nat /\ ValAt(t, n, Top(t)) /\ Top(t) = vals[t][n]
           /\ \A u, i, q : ValAt(u, i, q)' <=> ValAt(u, i, q) /\ ~ (u = t /\ i > n - 1)
           /\ \A i, q : i > n - 1 /\ ValAt(t, i, q) => i = n /\ q = Top(t)
           /\ \A u, i, q : ValAt(u, i, q)' <=> ValAt(u, i, q) /\ ~ (u = t /\ i = n)
           /\ \A u, i, q : ValAt(u, i, q) => i \in Nat
<1> DEFINE n == Len(vals[t])
<1>1. n \in Nat /\ DOMAIN vals[t] = 1 .. n /\ IsSeq(vals[t]) /\ n >= 1
  BY ValsTyped
<1>2. Top(t) = vals[t][n]
  BY <1>1 DEF Top, Last
<1>3. ValAt(t, n, Top(t))
  BY <1>1, <1>2 DEF ValAt
<1>4. \A u, i, q : ValAt(u, i, q)' <=> ValAt(u, i, q) /\ ~ (u = t /\ i > n - 1)
  BY <1>1, Popped
<1>5. \A u, i, q : ValAt(u, i, q) => i \in Nat
  <2> SUFFICES ASSUME NEW u, NEW i, NEW q, ValAt(u, i, q) PROVE i \in Nat
    OBVIOUS
  <2>1. u \in Thread /\ i \in DOMAIN vals[u]
    BY DEF ValAt
  <2>2. DOMAIN vals[u] = 1 .. Len(vals[u]) /\ Len(vals[u]) \in Nat
    BY <2>1, ValsTyped
  <2> QED BY <2>1, <2>2
<1>6. \A i, q : i > n - 1 /\ ValAt(t, i, q) => i = n /\ q = Top(t)
  <2> SUFFICES ASSUME NEW i, NEW q, i > n - 1, ValAt(t, i, q) PROVE i = n /\ q = Top(t)
    OBVIOUS
  <2>1. i \in DOMAIN vals[t] /\ vals[t][i] = q
    BY DEF ValAt
  <2>2. i \in 1 .. n
    BY <1>1, <2>1
  <2>3. i = n
    BY <1>1, <2>2
  <2> QED BY <1>2, <2>1, <2>3
<1>7. \A u, i, q : ValAt(u, i, q)' <=> ValAt(u, i, q) /\ ~ (u = t /\ i = n)
  <2> SUFFICES ASSUME NEW u, NEW i, NEW q PROVE ValAt(u, i, q)' <=> ValAt(u, i, q) /\ ~ (u = t /\ i = n)
    OBVIOUS
  <2>1. CASE u = t /\ ValAt(u, i, q)
    <3>1. i > n - 1 => i = n
      BY <1>6, <2>1
    <3>2. i = n => i > n - 1
      BY <1>1
    <3> QED BY <1>4, <2>1, <3>1, <3>2
  <2>2. CASE ~ (u = t /\ ValAt(u, i, q))
    BY <1>4, <2>2
  <2> QED BY <2>1, <2>2
<1> QED BY <1>1, <1>2, <1>3, <1>4, <1>5, <1>6, <1>7

LEMMA TopMoved ==
    ASSUME LockInv, HeapInv, NEW t \in Thread, Len(vals[t]) >= 1, Pop(t, 1),
           NEW k1, NEW a1, NEW b1, NEW q0, q0 = Top(t), k1 # "val", OtherAdded(k1, a1, b1, q0)
    PROVE  MovedTo(q0, k1, a1, b1) /\ Held(q0)
<1> DEFINE n == Len(vals[t])
<1>1. /\ ValAt(t, n, q0)
      /\ \A u, i, q : ValAt(u, i, q)' <=> ValAt(u, i, q) /\ ~ (u = t /\ i = n)
      /\ \A q : ValAt(t, n, q) => q = q0
  <2>1. ValAt(t, n, Top(t)) /\ \A u, i, q : ValAt(u, i, q)' <=> ValAt(u, i, q) /\ ~ (u = t /\ i = n)
    BY PopOne
  <2>2. \A q : ValAt(t, n, q) => q = Top(t)
    BY PopOne DEF ValAt
  <2> QED BY <2>1, <2>2
<1> HIDE DEF n
<1>2. Own
  BY DEF HeapInv, TokensOk
<1>3. Has("val", t, n, q0)
  BY <1>1, HasVal
<1>4. \A k, a, b : Has(k, a, b, q0) => k = "val" /\ a = t /\ b = n
  BY <1>2, <1>3 DEF Own
<1>5. \A a, b, q : Has("val", a, b, q)' <=> IF q = q0 THEN FALSE ELSE Has("val", a, b, q)
  BY <1>1, <1>4, HasVal
<1>6. \A k, a, b, q : Has(k, a, b, q)' <=> IF q = q0 THEN k = k1 /\ a = a1 /\ b = b1 ELSE Has(k, a, b, q)
  <2> SUFFICES ASSUME NEW k, NEW a, NEW b, NEW q
               PROVE  Has(k, a, b, q)' <=> IF q = q0 THEN k = k1 /\ a = a1 /\ b = b1 ELSE Has(k, a, b, q)
    OBVIOUS
  <2>1. CASE k = "val"
    BY <1>5, <2>1
  <2>2. CASE k # "val"
    <3>1. Has(k, a, b, q)' <=> Has(k, a, b, q) \/ (k = k1 /\ a = a1 /\ b = b1 /\ q = q0)
      BY <2>2 DEF OtherAdded
    <3> QED BY <1>4, <2>2, <3>1
  <2> QED BY <2>1, <2>2
<1> QED BY <1>3, <1>6 DEF MovedTo, Held

LEMMA TopDropped ==
    ASSUME LockInv, HeapInv, NEW t \in Thread, Len(vals[t]) >= 1, Pop(t, 1), NEW q0, q0 = Top(t), OtherSame
    PROVE  Dropped(q0)
<1> DEFINE n == Len(vals[t])
<1>1. /\ ValAt(t, n, q0)
      /\ \A u, i, q : ValAt(u, i, q)' <=> ValAt(u, i, q) /\ ~ (u = t /\ i = n)
      /\ \A q : ValAt(t, n, q) => q = q0
  <2>1. ValAt(t, n, Top(t)) /\ \A u, i, q : ValAt(u, i, q)' <=> ValAt(u, i, q) /\ ~ (u = t /\ i = n)
    BY PopOne
  <2>2. \A q : ValAt(t, n, q) => q = Top(t)
    BY PopOne DEF ValAt
  <2> QED BY <2>1, <2>2
<1> HIDE DEF n
<1>2. Own
  BY DEF HeapInv, TokensOk
<1>3. Has("val", t, n, q0)
  BY <1>1, HasVal
<1>4. \A k, a, b : Has(k, a, b, q0) => k = "val" /\ a = t /\ b = n
  BY <1>2, <1>3 DEF Own
<1>5. \A a, b, q : Has("val", a, b, q)' <=> Has("val", a, b, q) /\ q # q0
  BY <1>1, <1>4, HasVal
<1>6. \A k, a, b, q : Has(k, a, b, q)' <=> Has(k, a, b, q) /\ q # q0
  <2> SUFFICES ASSUME NEW k, NEW a, NEW b, NEW q
               PROVE  Has(k, a, b, q)' <=> Has(k, a, b, q) /\ q # q0
    OBVIOUS
  <2>1. CASE k = "val"
    BY <1>5, <2>1
  <2>2. CASE k # "val"
    <3>1. Has(k, a, b, q)' <=> Has(k, a, b, q)
      BY <2>2 DEF OtherSame
    <3> QED BY <1>4, <2>2, <3>1
  <2> QED BY <2>1, <2>2
<1> QED BY <1>6 DEF Dropped

LEMMA PushAdded ==
    ASSUME LockInv, HeapInv, NEW t \in Thread, NEW q0, Push(t, q0), ~ Held(q0), OtherSame
    PROVE  MovedTo(q0, "val", t, Len(vals[t]) + 1)
<1> DEFINE n == Len(vals[t]) + 1
<1>1. \A u, i, q : ValAt(u, i, q)' <=> ValAt(u, i, q) \/ (u = t /\ i = n /\ q = q0)
  BY Pushed DEF Push
<1> HIDE DEF n
<1>2. \A k, a, b : ~ Has(k, a, b, q0)
  BY DEF Held
<1>3. \A k, a, b, q : Has(k, a, b, q)' <=> IF q = q0 THEN k = "val" /\ a = t /\ b = n ELSE Has(k, a, b, q)
  <2> SUFFICES ASSUME NEW k, NEW a, NEW b, NEW q
               PROVE  Has(k, a, b, q)' <=> IF q = q0 THEN k = "val" /\ a = t /\ b = n ELSE Has(k, a, b, q)
    OBVIOUS
  <2>1. CASE k = "val"
    BY <1>1, <1>2, <2>1, HasVal
  <2>2. CASE k # "val"
    BY <1>2, <2>2 DEF OtherSame
  <2> QED BY <2>1, <2>2
<1> QED BY <1>3 DEF MovedTo, n

LEMMA TokensAdded ==
    ASSUME HeapInv, SameSlabs, NEW q0, NEW k1, NEW a1, NEW b1, MovedTo(q0, k1, a1, b1), ~ Held(q0),
           ~ Object(q0), \A q \in VA, k \in Nat : PageVal(q)' /\ ~ PageVal(q) => ~ Held(<<q, k>>)
    PROVE  TokensOk' /\ \A q : Held(q)' <=> Held(q) \/ q = q0
<1>1. TokensOk /\ SlabsOk
  BY DEF HeapInv
<1>2. Own'
  BY <1>1 DEF TokensOk, Own, MovedTo
<1>3. \A q : Held(q)' <=> Held(q) \/ q = q0
  BY DEF Held, MovedTo
<1>4. NoneLost'
  <2> SUFFICES ASSUME NEW sl \in DOMAIN slabs', NEW k \in 0 .. NObj[slabs'[sl].size] - 1
               PROVE  Held(<<slabs[sl].page, k>>)'
    BY DEF NoneLost
  <2>1. sl \in DOMAIN slabs /\ slabs'[sl].page = slabs[sl].page /\ slabs'[sl].size = slabs[sl].size
    BY DEF SameSlabs
  <2>2. PICK x : x = <<slabs[sl].page, k>>
    OBVIOUS
  <2>3. Held(x)
    BY <1>1, <2>1, <2>2 DEF TokensOk, NoneLost
  <2>4. Held(x)'
    BY <1>3, <2>3
  <2> QED BY <2>1, <2>2, <2>4
<1>5. InPage'
  <2> SUFFICES ASSUME NEW sl \in DOMAIN slabs', NEW k \in Nat, Held(<<slabs[sl].page, k>>)'
               PROVE  k < NObj[slabs'[sl].size]
    BY DEF InPage
  <2>1. sl \in DOMAIN slabs /\ slabs'[sl].page = slabs[sl].page /\ slabs'[sl].size = slabs[sl].size
    BY DEF SameSlabs
  <2>2. PICK x : x = <<slabs[sl].page, k>>
    OBVIOUS
  <2>3. Held(x)'
    BY <2>1, <2>2
  <2>4. x # q0
    BY <2>1, <2>2 DEF Object
  <2>5. Held(x)
    BY <1>3, <2>3, <2>4
  <2> QED BY <1>1, <2>1, <2>2, <2>5 DEF TokensOk, InPage
<1>6. PageAlone'
  <2> SUFFICES ASSUME NEW q \in VA, NEW k \in Nat, PageVal(q)', Held(<<q, k>>)' PROVE FALSE
    BY DEF PageAlone
  <2>1. PICK x : x = <<q, k>>
    OBVIOUS
  <2>2. Held(x) \/ x = q0
    BY <1>3, <2>1
  <2>3. x # q0
    BY <2>1 DEF Object
  <2>4. ~ Held(x)
    BY <1>1, <2>1 DEF TokensOk, PageAlone
  <2> QED BY <2>2, <2>3, <2>4
<1> QED BY <1>2, <1>3, <1>4, <1>5, <1>6 DEF TokensOk

-----------------------------------------------------------------------------
(* Ranges.                                                                 *)

LEMMA InFront ==
    ASSUME NEW x, NEW s, IsSeq(s)
    PROVE  \A y : Listed(y, <<x>> \o s) <=> y = x \/ Listed(y, s)
<1> DEFINE b == Cons(x, s)
<1>1. IsSeq(b) /\ b # <<>> /\ Head(b) = x /\ Tail(b) = s
  BY ConsFacts
<1> HIDE DEF b
<1>2. /\ Len(s) \in Nat /\ DOMAIN s = 1 .. Len(s) /\ DOMAIN b = 1 .. Len(s) + 1
      /\ b[1] = x /\ \A i \in 1 .. Len(s) : b[i + 1] = s[i]
  <2>1. PICK T : b \in Seq(T)
    BY <1>1 DEF IsSeq
  <2>2. Len(s) \in Nat /\ DOMAIN s = 1 .. Len(s) /\ Len(b) \in Nat /\ DOMAIN b = 1 .. Len(b)
    BY <2>1, SeqFacts
  <2>3. Len(b) # 0 /\ b[1] = x
    BY <1>1, <2>1
  <2>4. Len(Tail(b)) = Len(b) - 1 /\ \A i \in 1 .. Len(b) - 1 : Tail(b)[i] = b[i + 1]
    BY <2>1, <2>2, <2>3
  <2>5. Len(s) = Len(b) - 1 /\ \A i \in 1 .. Len(b) - 1 : s[i] = b[i + 1]
    BY <1>1, <2>4
  <2> QED BY <2>2, <2>3, <2>5
<1>3. \A y : Listed(y, b) <=> y = x \/ Listed(y, s)
  <2> SUFFICES ASSUME NEW y PROVE Listed(y, b) <=> y = x \/ Listed(y, s)
    OBVIOUS
  <2>1. ASSUME Listed(y, b) PROVE y = x \/ Listed(y, s)
    <3>1. PICK i \in 1 .. Len(s) + 1 : b[i] = y
      BY <1>2, <2>1 DEF Listed
    <3>2. CASE i = 1
      BY <1>2, <3>1, <3>2
    <3>3. CASE i # 1
      <4>1. i - 1 \in 1 .. Len(s) /\ (i - 1) + 1 = i
        BY <1>2, <3>3
      <4>2. s[i - 1] = y
        BY <1>2, <3>1, <4>1
      <4> QED BY <1>2, <4>1, <4>2 DEF Listed
    <3> QED BY <3>2, <3>3
  <2>2. ASSUME y = x PROVE Listed(y, b)
    BY <1>2, <2>2 DEF Listed
  <2>3. ASSUME Listed(y, s) PROVE Listed(y, b)
    <3>1. PICK i \in 1 .. Len(s) : s[i] = y
      BY <1>2, <2>3 DEF Listed
    <3>2. b[i + 1] = y /\ i + 1 \in 1 .. Len(s) + 1
      BY <1>2, <3>1
    <3> QED BY <1>2, <3>2 DEF Listed
  <2> QED BY <2>1, <2>2, <2>3
<1> QED BY <1>3 DEF b, Cons

LEMMA KnownIs == \A q : Known(q) <=> \E a : IsSeg(a) /\ a[2] <= q /\ q < a[2] + a[3]
  BY DEF Known, IsSeg

\* A step by which t goes on to one that needs nothing.
LEMMA QuietNext ==
    ASSUME LockInv, NEW t \in Thread, NEW op, Does(t, op), op # "alloc", Then(t, <<>>),
           NEW ops, Begins(Tail(todo[t]), ops), ops \intersect Acting = {}
    PROVE  NowOk(t)'
  BY TailNext, QuietBegins, QuietHead

LEMMA AddSegHeap == ASSUME LockInv, RangeInv, HeapInv, NEW t \in Thread, AddSeg(t) PROVE HeapInv'
<1>1. PICK m, s, p : m = Arg(t) /\ s = Top(t) /\ p = Below(t)[1]
  OBVIOUS
<1>2. /\ Does(t, "seg") /\ Pop(t, 1) /\ Then(t, <<>>)
      /\ UNCHANGED <<memory, tables, frames, owner, live>>
      /\ vm_areas' = << <<s, p, m>> >> \o vm_areas
  BY <1>1 DEF AddSeg
<1>3. /\ After(Head(todo[t]), Tail(todo[t])) /\ Finds(Head(todo[t]), vals[t])
      /\ Head(todo[t])[1] = "seg" /\ HeadOp(t) = "seg"
  BY <1>2, StepFacts
<1>4. Len(vals[t]) >= 2 /\ IsPage(Below(t)) /\ IsStruct(vals[t][Len(vals[t])]) /\ Len(vals[t]) \in Nat
  BY <1>3 DEF Finds, Below
<1>5. Len(vals[t]) >= 1
  BY <1>4
<1>6. PICK n : n = Len(vals[t])
  OBVIOUS
<1>7. /\ n \in Nat /\ ValAt(t, n, s) /\ s = vals[t][n]
      /\ \A u, i, q : ValAt(u, i, q)' <=> ValAt(u, i, q) /\ ~ (u = t /\ i > n - 1)
      /\ \A i, q : i > n - 1 /\ ValAt(t, i, q) => i = n /\ q = s
  BY <1>1, <1>2, <1>5, <1>6, PopOne
<1>8. IsStruct(s) /\ Object(s)
  <2>1. IsStruct(s)
    BY <1>4, <1>6, <1>7
  <2> QED BY <2>1, KindsAreObjects
<1>9. SamePages
  <2>1. \A i, q : i > n - 1 /\ ValAt(t, i, q) => Object(q)
    BY <1>7, <1>8
  <2>2. \E l : (\A i, q : i > l /\ ValAt(t, i, q) => Object(q))
               /\ \A u, i, q : ValAt(u, i, q)' <=> ValAt(u, i, q) /\ ~ (u = t /\ i > l)
    BY <1>7, <2>1
  <2> QED BY <2>2, SameByPop
<1>10. /\ SlabsOk' /\ ListsOk' /\ LowOk' /\ FramesOk' /\ TablesOk' /\ MapsOk' /\ SameSlabs
       /\ \A q : Fr(q)' = Fr(q)
       /\ \A c, l : Filed(c, l)' = Filed(c, l)
  BY <1>2, <1>9, StillHeap
<1>11. UNCHANGED <<slabs, ptes, ram_map, whole, owner>>
  BY <1>2 DEF memory, tables, frames
<1>12. \A a : IsSeg(a)' <=> a = <<s, p, m>> \/ IsSeg(a)
  <2>1. IsSeq(vm_areas)
    BY DEF RangeInv, AreasTyped
  <2>2. \A a : Listed(a, vm_areas') <=> a = <<s, p, m>> \/ Listed(a, vm_areas)
    BY <1>2, <2>1, InFront
  <2>3. \A a : (IsSeg(a) <=> Listed(a, vm_areas)) /\ (IsSeg(a)' <=> Listed(a, vm_areas'))
    BY DEF IsSeg, Listed
  <2> QED BY <2>2, <2>3
<1>13. PICK seg : seg = <<s, p, m>>
  OBVIOUS
<1>14. seg[1] = s /\ seg[2] = p /\ seg[3] = m
  BY <1>13
<1>15. OtherAdded("seg", seg, 0, s)
  <2> SUFFICES ASSUME NEW k, NEW a, NEW b, NEW q, k # "val"
               PROVE  Has(k, a, b, q)' <=> Has(k, a, b, q) \/ (k = "seg" /\ a = seg /\ b = 0 /\ q = s)
    BY DEF OtherAdded
  <2>1. CASE k = "seg"
    BY <1>12, <1>13, <1>14, <2>1 DEF Has
  <2>2. CASE k # "seg"
    BY <1>2, <1>11, <2>2 DEF Has, PtObject, OnChain
  <2> QED BY <2>1, <2>2
<1>16. MovedTo(s, "seg", seg, 0) /\ Held(s)
  BY <1>1, <1>2, <1>5, <1>15, TopMoved
<1>17. TokensOk' /\ \A q : Held(q)' <=> Held(q)
  <2>1. \A q : PageVal(q)' => PageVal(q)
    BY <1>9 DEF PageVal, SamePages
  <2> QED BY <1>10, <1>16, <2>1, TokensMoved
<1>18. KnownOk'
  <2>1. \A q \in VA : Used(q)' => Used(q)
    BY <1>10, <1>17, UsedSame
  <2>2. SameOthers(t)
    BY <1>2, OnlyMine DEF SameOthers, LockInv
  <2>3. owner[VM] = t
    <3>1. \E x : AtSeg(x, Tail(todo[t]), HeldBy(t), vals[t])
      BY <1>2, Doing DEF At
    <3>2. VM \in HeldBy(t)
      BY <3>1 DEF AtSeg
    <3> QED BY <3>2 DEF HeldBy
  <2>4. owner[C16] # t
    BY <1>2, <2>3, Doing, LockNumbers DEF HeldBy
  <2>5. Reserved(p, m)
    BY <1>1, <1>3, <2>3, <2>4 DEF RangeInv, RangeHeld
  <2>6. p \in Int /\ m \in Nat \ {0}
    BY <2>5 DEF Reserved
  <2>7. Known(p)'
    <3>1. \E i \in DOMAIN vm_areas' : vm_areas'[i] = seg
      BY <1>12, <1>13 DEF IsSeg
    <3> QED BY <1>14, <2>6, <3>1 DEF Known
  <2>8. \A q : Known(q) => Known(q)'
    <3>1. \A a : IsSeg(a) => \E i \in DOMAIN vm_areas' : vm_areas'[i] = a
      BY <1>12 DEF IsSeg
    <3> QED BY <3>1 DEF Known, IsSeg
  <2>9. \A q \in VA : Pending(q) => q = p
    <3> SUFFICES ASSUME NEW q \in VA, Pending(q) PROVE q = p
      OBVIOUS
    <3>1. Below(t) = <<q, -1>>
      BY <1>3, <2>3, <2>4 DEF Pending
    <3> QED BY <1>1, <3>1, Tuples
  <2> QED BY <2>1, <2>7, <2>8, <2>9 DEF HeapInv, KnownOk
<1>19. ThreadsOk'
  <2>1. SameOthers(t)
    BY <1>2, OnlyMine DEF SameOthers, LockInv
  <2>2. NowOk(t)'
    <3>1. Begins(Tail(todo[t]), {"unlock"})
      BY <1>3 DEF After
    <3>2. {"unlock"} \intersect Acting = {}
      BY DEF Acting
    <3> QED BY <1>2, <3>1, <3>2, QuietNext
  <2>3. ThreadsOk
    BY DEF HeapInv
  <2>4. \A u \in Thread \ {t} : DoesNow(u, "take") /\ Filed(Arg(u), "free") # {} => Filed(Arg(u), "free")' # {}
    <3>1. \A u \in Thread \ {t} : Arg(u)' = Arg(u)
      BY <2>1 DEF SameOthers, Arg
    <3> QED BY <1>10, <3>1 DEF Filed
  <2> QED BY <1>10, <2>1, <2>2, <2>3, <2>4, AllThreads
<1>20. LiveOk' /\ StructsOk'
  <2>1. LiveOk /\ StructsOk /\ live' \subseteq live
    BY <1>2 DEF HeapInv
  <2>2. StructsOk'
    <3>1. \A a : IsSeg(a)' => IsStruct(a[1])
      BY <1>8, <1>12, <1>13, <1>14, <2>1 DEF StructsOk
    <3> QED BY <1>11, <2>1, <3>1 DEF StructsOk, IsStruct
  <2> QED BY <1>10, <2>1, <2>2, LiveStays
<1> QED BY <1>10, <1>17, <1>18, <1>19, <1>20 DEF HeapInv

-----------------------------------------------------------------------------
(* A range is found; an object is given to the caller.                     *)

LEMMA ThreadsFollow ==
    ASSUME HeapInv, NEW t \in Thread, SameOthers(t), SameSlabs, NowOk(t)', \A c, l : Filed(c, l)' = Filed(c, l)
    PROVE  ThreadsOk'
<1>1. ThreadsOk
  BY DEF HeapInv
<1>2. \A u \in Thread \ {t} : DoesNow(u, "take") /\ Filed(Arg(u), "free") # {} => Filed(Arg(u), "free")' # {}
  <2>1. \A u \in Thread \ {t} : Arg(u)' = Arg(u)
    BY DEF SameOthers, Arg
  <2> QED BY <2>1 DEF Filed
<1> QED BY <1>1, <1>2, AllThreads

\* A page that is mapped nowhere is a result.
LEMMA MapsNewPage ==
    ASSUME MapsOk, TablesOk, SameSlabs, UNCHANGED <<tables, frames>>, NEW t, NEW n, NEW p, Fr(p) = 0,
           \A u, i, q : ValAt(u, i, q)' <=> ValAt(u, i, q) \/ (u = t /\ i = n /\ q = <<p, -1>>)
    PROVE  MapsOk'
<1>1. \A q : Tracked(q)' <=> Tracked(q) \/ q = p
  BY SlabPageSame, Tuples DEF Tracked, PageVal
<1>2. \A q : Fr(q)' = Fr(q)
  BY DEF Fr, tables, Usable, IsPt
<1>3. UNCHANGED <<ram, ram_map, ptes>>
  BY DEF frames, tables
<1>4. \A u, i, f : ValAt(u, i, <<f>>)' <=> ValAt(u, i, <<f>>)
  BY Tuples
<1>5. \A u, i, q : ValAt(u, i, <<q, -1>>)' <=> ValAt(u, i, <<q, -1>>) \/ (u = t /\ i = n /\ q = p)
  BY Tuples
<1>6. \A f : FrameVal(f)' <=> FrameVal(f)
  BY <1>4 DEF FrameVal
<1>7. OneFrame' /\ FramesUsed'
  BY <1>1, <1>2, <1>3, <1>6 DEF MapsOk, OneFrame, FramesUsed
<1>8. FrameBeside'
  <2> SUFFICES ASSUME NEW q \in VA, Tracked(q)', Fr(q)' # 0, NEW u, NEW j, ValAt(u, j, <<Fr(q)>>)'
               PROVE  ValAt(u, j - 1, <<q, -1>>)'
    BY DEF FrameBeside
  <2>1. PICK g : g = Fr(q)
    OBVIOUS
  <2>2. ValAt(u, j, <<g>>)' /\ g # 0 /\ q # p /\ Tracked(q)
    BY <1>1, <1>2, <2>1 DEF ValAt
  <2>3. ValAt(u, j - 1, <<q, -1>>)
    BY <1>4, <2>1, <2>2 DEF MapsOk, FrameBeside
  <2> QED BY <1>5, <2>3
<1>9. WholeFirst'
  <2> SUFFICES ASSUME NEW u, NEW j, NEW q \in VA, ValAt(u, j, <<q, -1>>)', Fr(q)' # 0
               PROVE  WHOLE \in ram_map'[Fr(q)'].lsize \/ ValAt(u, j + 1, <<Fr(q)>>)'
    BY DEF WholeFirst
  <2>1. PICK g : g = Fr(q)
    OBVIOUS
  <2>2. q # p /\ ValAt(u, j, <<q, -1>>) /\ g # 0
    BY <1>2, <1>5, <2>1
  <2>3. WHOLE \in ram_map[g].lsize \/ ValAt(u, j + 1, <<g>>)
    BY <2>1, <2>2 DEF MapsOk, WholeFirst
  <2>4. WHOLE \in ram_map'[g].lsize \/ ValAt(u, j + 1, <<g>>)'
    BY <1>3, <1>4, <2>3
  <2> QED BY <1>2, <2>1, <2>4 DEF ValAt
<1>10. Leads'
  BY <1>2, <1>3 DEF MapsOk, Leads, SameSlabs
<1>11. TableFrames'
  <2> SUFFICES ASSUME NEW d \in DOMAIN ptes
               PROVE  /\ d[1] \in ram /\ ~ FrameVal(d[1])
                      /\ ram_map[d[1]].va \in DOMAIN slabs /\ slabs[ram_map[d[1]].va].size = PT
                      /\ \A q \in VA : Tracked(q)' /\ Fr(q) = d[1] => q = slabs[ram_map[d[1]].va].page
    BY <1>2, <1>3, <1>6 DEF TableFrames, SameSlabs
  <2>1. /\ d[1] \in ram /\ ~ FrameVal(d[1])
        /\ ram_map[d[1]].va \in DOMAIN slabs /\ slabs[ram_map[d[1]].va].size = PT
        /\ \A q \in VA : Tracked(q) /\ Fr(q) = d[1] => q = slabs[ram_map[d[1]].va].page
    BY DEF MapsOk, TableFrames
  <2>2. d[1] # 0
    BY Numbers DEF TablesOk, PtesOk
  <2> QED BY <1>1, <2>1, <2>2
<1> QED BY <1>7, <1>8, <1>9, <1>10, <1>11 DEF MapsOk

\* vm_find_free() finds a page of which nothing is in use.
LEMMA FoundUnused ==
    ASSUME LockInv, RangeInv, HeapInv, NEW t \in Thread, Does(t, "find"), owner[VM] = NoThread,
           NEW m, m = Arg(t), FreeRanges(m) # {}, NEW p, p = Max(FreeRanges(m))
    PROVE  /\ Reserved(p, m) /\ p \in VA /\ p + m <= NVa /\ p \in FreeRanges(m)
           /\ (\A q : ~ Pending(q)) /\ ~ Known(p) /\ Fr(p) = 0 /\ \A k \in Int : ~ Held(<<p, k>>)
<1>1. /\ Reserved(p, m) /\ p \in VA /\ p + m <= NVa /\ p \in FreeRanges(m)
  <2>1. \E q : Ranges(m, q, HeldBy(t), vals[t])
    BY Doing DEF At, AtFind
  <2>2. m \in Nat \ {0}
    BY <2>1, RangesFacts, SlubConstants
  <2>3. Reserved(p, m) /\ p \in 0 .. NVa - m /\ p \in FreeRanges(m)
    BY <2>2, FoundIsFree
  <2> QED BY <2>2, <2>3, Numbers DEF VA
<1>2. \A q : ~ Pending(q)
  BY SlubConstants DEF Pending
<1>3. ~ Known(p)
  <2> SUFFICES ASSUME NEW i \in DOMAIN vm_areas, vm_areas[i][2] <= p, p < vm_areas[i][2] + vm_areas[i][3]
               PROVE  FALSE
    BY DEF Known
  <2>1. ~ Meets(vm_areas[i], p, p + m) /\ p \in Int /\ m \in Nat \ {0}
    BY <1>1 DEF Reserved, Clear
  <2>2. vm_areas[i][2] \in Int /\ vm_areas[i][3] \in Nat \ {0}
    BY DEF RangeInv, AreasTyped
  <2>3. p + m <= vm_areas[i][2] \/ vm_areas[i][2] + vm_areas[i][3] <= p
    BY <2>1, <2>2, MeetsExact
  <2> QED BY <2>1, <2>2, <2>3
<1>4. ~ Used(p)
  BY <1>1, <1>2, <1>3 DEF HeapInv, KnownOk
<1> QED BY <1>1, <1>2, <1>3, <1>4 DEF Used

LEMMA FindHeap == ASSUME LockInv, RangeInv, HeapInv, NEW t \in Thread, Find(t) PROVE HeapInv'
<1>1. PICK m, p, n : m = Arg(t) /\ p = Max(FreeRanges(m)) /\ n = Len(vals[t]) + 1
  OBVIOUS
<1>2. Does(t, "find") /\ owner[VM] = NoThread
  BY DEF Find
<1>3. CASE FreeRanges(m) = {}
  BY <1>1, <1>3, FailHeap DEF Find
<1>4. CASE FreeRanges(m) # {}
  <2>1. /\ owner' = [owner EXCEPT ![VM] = t] /\ Push(t, <<p, -1>>) /\ Then(t, <<>>)
        /\ UNCHANGED <<memory, vm_areas, tables, frames, live>>
    BY <1>1, <1>4 DEF Find
  <2>2. /\ Reserved(p, m) /\ p \in VA /\ \A q : ~ Pending(q)
        /\ Fr(p) = 0 /\ \A k \in Int : ~ Held(<<p, k>>)
    BY <1>1, <1>2, <1>4, FoundUnused
  <2>3. \A u, i, q : ValAt(u, i, q)' <=> ValAt(u, i, q) \/ (u = t /\ i = n /\ q = <<p, -1>>)
    BY <1>1, <2>1, Pushed, ZenonT(60) DEF Push
  <2>4. UNCHANGED <<slabs, lists, slub_16byte_free, whole, ptes, ram_map>>
    BY <2>1 DEF memory, tables, frames
  <2>5. SlabsOk' /\ ListsOk' /\ SameSlabs /\ \A c, l : Filed(c, l)' = Filed(c, l)
    BY <2>4, SlabsStay
  <2>6. /\ \A x \in Mutexes : owner'[x] = IF x = VM THEN t ELSE owner[x]
    BY <2>1 DEF LockInv, Kept
  <2>7. owner'[C16] = owner[C16] /\ owner'[VM] = t
    BY <2>6, LockNumbers
  <2>8. LowOk'
    BY <2>4, <2>7 DEF HeapInv, LowOk
  <2>9. FramesOk' /\ TablesOk' /\ \A q : Fr(q)' = Fr(q)
    BY <2>1, FramesStay, TablesStay DEF HeapInv
  <2>10. MapsOk'
    BY <2>1, <2>2, <2>3, <2>5, MapsNewPage DEF HeapInv
  <2>11. TokensOk' /\ \A q : Held(q)' <=> Held(q) \/ q = <<p, -1>>
    <3>1. ~ Held(<<p, -1>>)
      BY <2>2
    <3>2. OtherSame
      BY <2>1, <2>4, RestSame
    <3>3. MovedTo(<<p, -1>>, "val", t, n)
      BY <1>1, <2>1, <3>1, <3>2, PushAdded
    <3>4. ~ Object(<<p, -1>>)
      BY Tuples DEF Object
    <3>5. \A q \in VA, k \in Nat : PageVal(q)' /\ ~ PageVal(q) => ~ Held(<<q, k>>)
      <4>1. \A q : PageVal(q)' /\ ~ PageVal(q) => q = p
        BY <2>3, Tuples DEF PageVal
      <4> QED BY <2>2, <4>1
    <3> QED BY <2>5, <3>1, <3>3, <3>4, <3>5, TokensAdded
  <2>12. SameOthers(t)
    BY <2>1, OnlyMine DEF SameOthers, LockInv
  <2>13. Begins(todo'[t], {"alloc"})
    <3>1. Begins(Tail(todo[t]), {"alloc"})
      BY <1>2, StepFacts DEF After
    <3> QED BY <1>2, <2>1, <3>1, TailNext
  <2>14. KnownOk'
    <3> SUFFICES ASSUME NEW q \in VA, Used(q)' PROVE Known(q)' \/ Pending(q)'
      BY DEF KnownOk
    <3>1. CASE q = p
      <4>1. HeadOp(t)' = "alloc"
        BY <2>13 DEF Begins, HeadOp
      <4>2. Top(t)' = <<p, -1>>
        <5>1. IsSeq(vals[t]) /\ vals'[t] = Append(vals[t], <<p, -1>>)
          BY <2>1, ValsTyped DEF Push
        <5> QED BY <5>1, AppendFacts DEF Top
      <4> QED BY <2>7, <3>1, <4>1, <4>2 DEF Pending
    <3>2. CASE q # p
      <4>1. Used(q)
        <5>1. \A k \in Int : <<q, k>> # <<p, -1>>
          BY <3>2, Tuples
        <5> QED BY <2>9, <2>11, <5>1 DEF Used
      <4>2. Known(q)
        BY <2>2, <4>1 DEF HeapInv, KnownOk
      <4> QED BY <2>1, <4>2 DEF Known
    <3> QED BY <3>1, <3>2
  <2>15. ThreadsOk'
    <3>1. NowOk(t)'
      BY <2>13, QuietBegins, QuietHead DEF Acting
    <3> QED BY <2>5, <2>12, <3>1, ThreadsFollow
  <2>16. LiveOk' /\ StructsOk'
    <3>1. LiveOk /\ StructsOk /\ live' \subseteq live
      BY <2>1 DEF HeapInv
    <3> QED BY <2>1, <2>4, <2>5, <3>1, LiveStays, StructsSame
  <2> QED BY <2>5, <2>8, <2>9, <2>10, <2>11, <2>14, <2>15, <2>16 DEF HeapInv
<1> QED BY <1>3, <1>4

\* kmalloc() returns: the object is a caller's.
LEMMA GiveHeap == ASSUME LockInv, HeapInv, NEW t \in Thread, Give(t) PROVE HeapInv'
<1>1. PICK c, q0, n : c = Arg(t) /\ q0 = Top(t) /\ n = Len(vals[t])
  OBVIOUS
<1>2. /\ Does(t, "give") /\ live' = live \union {<<q0, c>>} /\ Pop(t, 1) /\ Then(t, <<>>)
      /\ UNCHANGED <<memory, vm_areas, tables, frames, owner>>
  BY <1>1 DEF Give
<1>3. /\ After(Head(todo[t]), Tail(todo[t])) /\ Finds(Head(todo[t]), vals[t])
      /\ Head(todo[t])[1] = "give" /\ HeadOp(t) = "give" /\ Head(todo[t])[2] = c
  BY <1>1, <1>2, StepFacts
<1>4. n = 1 /\ (IF c = WHOLE THEN IsPage(vals[t][n]) ELSE IsObj(vals[t][n])) /\ c \in Size \union {WHOLE}
  BY <1>1, <1>3 DEF Finds
<1>5. Len(vals[t]) >= 1
  BY <1>1, <1>4
<1>6. /\ ValAt(t, n, q0) /\ q0 = vals[t][n]
      /\ \A u, i, q : ValAt(u, i, q)' <=> ValAt(u, i, q) /\ ~ (u = t /\ i > n - 1)
      /\ \A i, q : i > n - 1 /\ ValAt(t, i, q) => i = n /\ q = q0
      /\ \A u, i, q : ValAt(u, i, q) => i \in Nat
  BY <1>1, <1>2, <1>5, PopOne
<1>7. UNCHANGED <<slabs, lists, slub_16byte_free, whole, ptes, ram_map>>
  BY <1>2 DEF memory, tables, frames
<1>8. SlabsOk' /\ ListsOk' /\ SameSlabs /\ \A a, l : Filed(a, l)' = Filed(a, l)
  BY <1>7, SlabsStay
<1>9. LowOk'
  BY <1>2, <1>7 DEF HeapInv, LowOk
<1>10. FramesOk' /\ TablesOk' /\ \A q : Fr(q)' = Fr(q)
  BY <1>2, FramesStay, TablesStay DEF HeapInv
<1>11. IF c = WHOLE THEN IsPage(q0) ELSE IsObj(q0)
  BY <1>4, <1>6
<1>12. \A f : q0 # <<f>>
  BY <1>11, Tuples DEF IsPage, IsObj
<1>13. MapsOk'
  <2>1. \A i, f : i > n - 1 => ~ ValAt(t, i, <<f>>)
    BY <1>6, <1>12
  <2>2. n - 1 \in Int
    BY <1>4
  <2>3. UNCHANGED frames
    BY <1>2
  <2> QED BY <1>6, <1>7, <1>8, <1>10, <2>1, <2>2, <2>3, MapsPopped DEF HeapInv
<1>14. TokensOk' /\ \A q : Held(q)' <=> Held(q)
  <2>1. OtherAdded("live", c, 0, q0)
    <3> SUFFICES ASSUME NEW k, NEW a, NEW b, NEW q, k # "val"
                 PROVE  Has(k, a, b, q)' <=> Has(k, a, b, q) \/ (k = "live" /\ a = c /\ b = 0 /\ q = q0)
      BY DEF OtherAdded
    <3>1. CASE k = "live"
      BY <1>2, <3>1, Tuples DEF Has
    <3>2. CASE k # "live"
      BY <1>2, <1>7, <3>2 DEF Has, PtObject, OnChain, IsSeg
    <3> QED BY <3>1, <3>2
  <2>2. MovedTo(q0, "live", c, 0) /\ Held(q0)
    BY <1>1, <1>2, <1>5, <2>1, TopMoved
  <2>3. \A q : PageVal(q)' => PageVal(q)
    BY <1>6 DEF PageVal
  <2> QED BY <1>8, <2>2, <2>3, TokensMoved
<1>15. SameOthers(t)
  BY <1>2, OnlyMine DEF SameOthers, LockInv
<1>16. KnownOk'
  <2>1. \A q \in VA : Used(q)' => Used(q)
    BY <1>10, <1>14, UsedSame
  <2>2. \A q : Pending(q) => Pending(q)'
    <3>1. owner[VM] = t => owner[C16] # t /\ HeadOp(t) \notin {"alloc", "seg"}
      BY <1>2, NotHolding
    <3> QED BY <1>2, <1>15, <3>1, PendingStays
  <2> QED BY <1>2, <2>1, <2>2, KnownStays DEF HeapInv
<1>17. ThreadsOk'
  <2>1. Tail(todo[t]) = <<>>
    BY <1>3 DEF After
  <2>2. Quiet(todo'[t])
    BY <1>2, <2>1, TailNext DEF Quiet
  <2>3. NowOk(t)'
    BY <2>2, QuietHead
  <2> QED BY <1>8, <1>15, <2>3, ThreadsFollow
<1>18. StructsOk'
  BY <1>2, <1>7, StructsSame DEF HeapInv
<1>19. LiveOk'
  <2>1. PICK o : o = <<q0, c>>
    OBVIOUS
  <2>2. o[1] = q0 /\ o[2] = c /\ o = <<o[1], o[2]>>
    BY <2>1
  <2>3. c # WHOLE => Home(q0[1])
    <3>1. DoesNow(t, "give") /\ Arg(t) = c /\ Top(t) = q0
      BY <1>1, <1>2, <1>3 DEF DoesNow, Does
    <3> QED BY <3>1 DEF HeapInv, ThreadsOk, GivesOk
  <2>4. \A x \in live' : x \in live \/ x = o
    BY <1>2, <2>1
  <2>5. \A q : Home(q) => Home(q)'
    BY <1>7 DEF Home, SameSlabs
  <2> QED BY <1>4, <1>11, <2>2, <2>3, <2>4, <2>5 DEF HeapInv, LiveOk
<1> QED BY <1>8, <1>9, <1>10, <1>13, <1>14, <1>16, <1>17, <1>18, <1>19 DEF HeapInv

-----------------------------------------------------------------------------
(* What is given up at the end of a call.                                  *)

\* A thread gives up its only result, an object or a page of no slab.
LEMMA DropHeap ==
    ASSUME LockInv, HeapInv, NEW t \in Thread, NEW op, Does(t, op), op \notin {"alloc", "seg"},
           NEW q0, q0 = Top(t), Len(vals[t]) = 1, Bystander(q0), \A f : q0 # <<f>>,
           Pop(t, 1), Then(t, <<>>), Tail(todo[t]) = <<>>,
           UNCHANGED <<memory, vm_areas, frames, owner, live, ptes>>,
           TablesOk', \A q \in VA : Fr(q)' = Fr(q)
    PROVE  HeapInv'
<1> DEFINE n == Len(vals[t])
<1>1. n = 1 /\ Len(vals[t]) >= 1
  OBVIOUS
<1>2. /\ ValAt(t, n, q0) /\ q0 = vals[t][n]
      /\ \A u, i, q : ValAt(u, i, q)' <=> ValAt(u, i, q) /\ ~ (u = t /\ i > n - 1)
      /\ \A i, q : i > n - 1 /\ ValAt(t, i, q) => i = n /\ q = q0
      /\ \A u, i, q : ValAt(u, i, q) => i \in Nat
  BY <1>1, PopOne
<1>3. UNCHANGED <<slabs, lists, slub_16byte_free, whole, ptes, ram_map>>
  BY DEF memory, frames
<1>4. SlabsOk' /\ ListsOk' /\ SameSlabs /\ \A a, l : Filed(a, l)' = Filed(a, l)
  BY <1>3, SlabsStay
<1>5. LowOk'
  BY <1>3 DEF HeapInv, LowOk
<1>6. FramesOk'
  BY FramesStay DEF HeapInv
<1>7. MapsOk'
  <2>1. \A i, f : i > n - 1 => ~ ValAt(t, i, <<f>>)
    BY <1>2
  <2>2. n - 1 \in Int
    BY <1>1
  <2> HIDE DEF n
  <2> QED BY <1>2, <1>3, <1>4, <2>1, <2>2, MapsPopped DEF HeapInv
<1>8. TokensOk' /\ \A q : Held(q)' <=> Held(q) /\ q # q0
  <2>1. OtherSame
    BY <1>3, RestSame
  <2>2. Dropped(q0)
    BY <1>1, <2>1, TopDropped
  <2> QED BY <1>4, <2>2, TokensDropped
<1>9. SameOthers(t)
  BY OnlyMine DEF SameOthers, LockInv
<1>10. KnownOk'
  <2>1. \A q \in VA : Used(q)' => Used(q)
    BY <1>8, UsedSame
  <2>2. \A q : Pending(q) => Pending(q)'
    <3>1. owner[VM] = t => owner[C16] # t /\ HeadOp(t) \notin {"alloc", "seg"}
      BY NotHolding
    <3> QED BY <1>9, <3>1, PendingStays
  <2> QED BY <2>1, <2>2, KnownStays DEF HeapInv
<1>11. ThreadsOk'
  <2>1. Quiet(todo'[t])
    BY TailNext DEF Quiet
  <2>2. NowOk(t)'
    BY <2>1, QuietHead
  <2> QED BY <1>4, <1>9, <2>2, ThreadsFollow
<1>12. LiveOk' /\ StructsOk'
  <2>1. LiveOk /\ StructsOk /\ live' \subseteq live
    BY DEF HeapInv
  <2> QED BY <1>3, <1>4, <2>1, LiveStays, StructsSame
<1> QED BY <1>4, <1>5, <1>6, <1>7, <1>8, <1>10, <1>11, <1>12 DEF HeapInv

LEMMA MapSectionsHeap == ASSUME LockInv, HeapInv, NEW t \in Thread, MapSections(t) PROVE HeapInv'
<1>1. PICK q0, D : q0 = Top(t) /\ D = Pde(Top(t)[1]) .. Pde(Top(t)[1]) + FbSections - 1
  OBVIOUS
<1>2. Does(t, "sections")
  BY DEF MapSections
<1>3. CASE Fail("section")
  BY <1>3, FailHeap
<1>4. CASE ~ Fail("section")
  <2>1. /\ Pop(t, 1) /\ Then(t, <<>>) /\ ~ \E d \in D : pd[d] # NoPt
        /\ pd' = [d \in DOMAIN pd |-> IF d \in D THEN Section ELSE pd[d]]
        /\ UNCHANGED <<memory, vm_areas, ptes, frames, owner, live>>
    BY <1>1, <1>4 DEF MapSections
  <2>2. /\ After(Head(todo[t]), Tail(todo[t])) /\ Finds(Head(todo[t]), vals[t])
        /\ Head(todo[t])[1] = "sections"
    BY <1>2, StepFacts
  <2>3. Tail(todo[t]) = <<>>
    BY <2>2 DEF After
  <2>4. Len(vals[t]) = 1 /\ IsPage(vals[t][1]) /\ q0 = vals[t][1]
    <3>1. Len(vals[t]) = 1 /\ IsPage(vals[t][1])
      BY <2>2 DEF Finds
    <3> QED BY <1>1, <3>1 DEF Top, Last
  <2>5. PICK pg \in VA : q0 = <<pg, -1>>
    BY <2>4 DEF IsPage
  <2>6. Bystander(q0)
    <3>1. \A k \in Nat : k # -1
      OBVIOUS
    <3> QED BY <2>5, <3>1, Tuples DEF Bystander
  <2>7. \A f : q0 # <<f>>
    BY <2>5, Tuples
  <2>8. TablesOk
    BY DEF HeapInv
  <2>9. /\ ~ IsPt(Section) /\ ~ IsPt(NoPt)
        /\ \A x \in Pdes : pd'[x] = (IF x \in D THEN Section ELSE pd[x]) /\ (x \in D => pd[x] = NoPt)
        /\ pd' = [x \in Pdes |-> pd'[x]]
    <3>1. pd = [x \in Pdes |-> pd[x]]
      BY <2>8 DEF TablesOk
    <3>2. DOMAIN pd = Pdes
      BY <3>1
    <3> QED BY <2>1, <3>2 DEF IsPt
  <2>10. \A x \in Pdes : (IsPt(pd'[x]) <=> IsPt(pd[x])) /\ (Usable(pd'[x]) <=> Usable(pd[x]))
                         /\ (IsPt(pd[x]) => pd'[x] = pd[x])
    BY <2>9 DEF Usable
  <2>11. \A q \in VA : Fr(q)' = Fr(q)
    <3> SUFFICES ASSUME NEW q \in VA PROVE Fr(q)' = Fr(q)
      OBVIOUS
    <3>1. Pde(q) \in Pdes
      BY PdeOf
    <3>2. Usable(pd[Pde(q)])' <=> Usable(pd'[Pde(q)])
      BY DEF Usable, IsPt
    <3> QED BY <2>1, <2>10, <3>1, <3>2, SMTT(40) DEF Fr, Usable
  <2>12. TablesOk'
    <3>1. \A x \in Pdes : IsPt(pd'[x]) => pd'[x] \in DOMAIN ptes
      BY <2>8, <2>10 DEF TablesOk
    <3>2. pd'[Pde(NVa - 1)] = <<1, 0>>
      <4>1. pd[Pde(NVa - 1)] = <<1, 0>> /\ Pde(NVa - 1) \in Pdes
        <5>1. NVa - 1 \in VA
          BY SlubConstants, BootFacts, Numbers DEF VA, HeapInv
        <5> QED BY <2>8, <5>1, PdeOf DEF TablesOk
      <4>2. <<1, 0>> # NoPt
        BY DEF NoPt
      <4> QED BY <2>9, <4>1, <4>2
    <3>3. \A x, y \in Pdes : Usable(pd'[x]) /\ pd'[x] = pd'[y] => x = y
      BY <2>8, <2>10 DEF TablesOk, Usable
    <3>4. \A i \in Size : Fr(BootPage(i))' = i + 2
      <4>1. \A i \in Size : BootPage(i) \in VA
        BY BootFacts DEF HeapInv
      <4> QED BY <2>8, <2>11, <4>1 DEF TablesOk
    <3>5. ptes' = ptes
      BY <2>1
    <3>6. PtesOk'
      BY <2>8, <3>5 DEF TablesOk, PtesOk
    <3>7. \A x \in Pdes : IsPt(pd'[x]) => pd'[x] \in DOMAIN ptes'
      BY <3>1, <3>5
    <3>8. pd' = [x \in Pdes |-> pd'[x]]
      BY <2>9
    <3>9. /\ \A x : IsPt(pd[x])' <=> IsPt(pd'[x])
          /\ \A x : Usable(pd[x])' <=> Usable(pd'[x])
      BY DEF Usable, IsPt
    <3>10. (pd = [x \in Pdes |-> pd[x]])'
      BY <3>8
    <3>11. (\A x \in Pdes : IsPt(pd[x]) => pd[x] \in DOMAIN ptes)'
      BY <3>7
    <3>12. (\A x, y \in Pdes : Usable(pd[x]) /\ pd[x] = pd[y] => x = y)'
      BY <3>3
    <3>13. (\A i \in Size : Fr(BootPage(i)) = i + 2)'
      BY <3>4
    <3>14. (pd[Pde(NVa - 1)] = <<1, 0>>)'
      BY <3>2
    <3> QED BY <3>6, <3>10, <3>11, <3>12, <3>13, <3>14 DEF TablesOk
  <2> QED BY <1>1, <1>2, <2>1, <2>3, <2>4, <2>6, <2>7, <2>11, <2>12, DropHeap
<1> QED BY <1>3, <1>4

-----------------------------------------------------------------------------
(* Objects taken and given back.                                           *)

\* The free objects of a page are no more than the page has, and when they are all,
\* nobody has one.
LEMMA ChainWithin ==
    ASSUME HeapInv, NEW sl \in DOMAIN slabs
    PROVE  LET s == slabs[sl] IN
           /\ s.nfree <= NObj[s.size]
           /\ s.nfree = NObj[s.size] => \A k \in 0 .. NObj[s.size] - 1 : OnChain(sl, <<s.page, k>>)
<1>1. PICK ch, N, m, pg : ch = slabs[sl].chain /\ N = NObj[slabs[sl].size] /\ m = slabs[sl].nfree /\ pg = slabs[sl].page
  OBVIOUS
<1>2. /\ slabs[sl].size \in Size \union {PT} /\ m \in Nat /\ ch \in Seq(Nat) /\ m = Len(ch)
      /\ \A i, j \in DOMAIN ch : ch[i] = ch[j] => i = j
  BY <1>1, SlabFacts DEF HeapInv, IsInjective
<1>3. N \in Nat
  BY <1>1, <1>2, Numbers
<1>4. DOMAIN ch = 1 .. m
  BY <1>2
<1>5. \A i \in 1 .. m : ch[i] \in 0 .. N - 1
  <2> SUFFICES ASSUME NEW i \in 1 .. m PROVE ch[i] \in 0 .. N - 1
    OBVIOUS
  <2>1. ch[i] \in Nat
    BY <1>2
  <2>2. OnChain(sl, <<pg, ch[i]>>)
    BY <1>1, <1>4 DEF OnChain
  <2>3. Held(<<pg, ch[i]>>)
    BY <2>2 DEF Held, Has
  <2>4. ch[i] < N
    BY <1>1, <2>1, <2>3 DEF HeapInv, TokensOk, InPage
  <2> QED BY <1>3, <2>1, <2>4
<1>6. ch \in Injection(1 .. m, 0 .. N - 1)
  <2>1. ch \in [1 .. m -> 0 .. N - 1]
    BY <1>2, <1>4, <1>5
  <2> QED BY <1>2, <1>4, <2>1 DEF Injection, IsInjective
<1>7. /\ IsFiniteSet(0 .. N - 1) /\ Cardinality(0 .. N - 1) = N /\ Cardinality(1 .. m) = m
  <2>1. 0 \in Int /\ N - 1 \in Int /\ 1 \in Int /\ m \in Int
    BY <1>2, <1>3
  <2>2. /\ IsFiniteSet(0 .. N - 1) /\ Cardinality(0 .. N - 1) = IF 0 > N - 1 THEN 0 ELSE N - 1 - 0 + 1
        /\ Cardinality(1 .. m) = IF 1 > m THEN 0 ELSE m - 1 + 1
    BY <2>1, FS_Interval
  <2> QED BY <1>2, <1>3, <2>2
<1>8. m <= N /\ (m = N => ch \in Surjection(1 .. m, 0 .. N - 1))
  BY <1>6, <1>7, FS_Injection
<1>9. m = N => \A k \in 0 .. N - 1 : \E i \in 1 .. m : ch[i] = k
  BY <1>8 DEF Surjection
<1>10. m = N => \A k \in 0 .. N - 1 : OnChain(sl, <<pg, k>>)
  BY <1>1, <1>4, <1>9 DEF OnChain
<1> QED BY <1>1, <1>8, <1>10

\* A page of which somebody has an object is not free.
LEMMA NotAllFree ==
    ASSUME HeapInv, NEW sl \in DOMAIN slabs, NEW k \in Nat, NEW l, NEW a, NEW b,
           Has(l, a, b, <<slabs[sl].page, k>>), l # "free"
    PROVE  slabs[sl].nfree < NObj[slabs[sl].size]
<1>1. PICK q0 : q0 = <<slabs[sl].page, k>>
  OBVIOUS
<1>2. Held(q0)
  BY <1>1 DEF Held
<1>3. k < NObj[slabs[sl].size]
  BY <1>1, <1>2 DEF HeapInv, TokensOk, InPage
<1>4. slabs[sl].nfree <= NObj[slabs[sl].size] /\ slabs[sl].nfree \in Nat /\ NObj[slabs[sl].size] \in Nat
  BY ChainWithin, SlabFacts, Numbers DEF HeapInv
<1>5. slabs[sl].nfree # NObj[slabs[sl].size]
  <2> SUFFICES ASSUME slabs[sl].nfree = NObj[slabs[sl].size] PROVE FALSE
    OBVIOUS
  <2>1. OnChain(sl, q0)
    BY <1>1, <1>3, <1>4, ChainWithin
  <2>2. Has("free", sl, 0, q0)
    BY <2>1 DEF Has
  <2> QED BY <1>1, <2>2 DEF HeapInv, TokensOk, Own
<1> QED BY <1>4, <1>5

\* The chain of slab sl becomes ch.
Rechained(sl, ch) ==
    /\ slabs' = [x \in DOMAIN slabs |-> slabs'[x]]
    /\ slabs'[sl] = [size |-> slabs[sl].size, page |-> slabs[sl].page, nfree |-> Len(ch), chain |-> ch]
    /\ \A x \in DOMAIN slabs : x # sl => slabs'[x] = slabs[x]

LEMMA FreedIs ==
    ASSUME NEW s, NEW k, s = [size |-> s.size, page |-> s.page, nfree |-> s.nfree, chain |-> s.chain]
    PROVE  FreedFirst(s, k) = [size |-> s.size, page |-> s.page, nfree |-> s.nfree + 1, chain |-> <<k>> \o s.chain]
<1>1. PICK e, m : e = <<k>> \o s.chain /\ m = s.nfree + 1
  OBVIOUS
<1>2. PICK r, u : r = [s EXCEPT !.chain = e, !.nfree = m] /\ u = [size |-> s.size, page |-> s.page, nfree |-> m, chain |-> e]
  OBVIOUS
<1>3. DOMAIN s = {"size", "page", "nfree", "chain"} /\ s["size"] = s.size /\ s["page"] = s.page
  OBVIOUS
<1>4. r = [x \in DOMAIN s |-> IF x = "nfree" THEN m ELSE IF x = "chain" THEN e ELSE s[x]]
  BY <1>2
<1>5. u = [x \in DOMAIN s |-> IF x = "nfree" THEN m ELSE IF x = "chain" THEN e ELSE s[x]]
  <2>1. DOMAIN u = {"size", "page", "nfree", "chain"} /\ u["size"] = s.size /\ u["page"] = s.page /\ u["nfree"] = m /\ u["chain"] = e
    BY <1>2
  <2>2. u = [x \in DOMAIN u |-> u[x]]
    BY <1>2
  <2> QED BY <1>3, <2>1, <2>2
<1>6. FreedFirst(s, k) = [s EXCEPT !.chain = e, !.nfree = m]
  BY <1>1 DEF FreedFirst
<1> QED BY <1>1, <1>2, <1>4, <1>5, <1>6

LEMMA SlabRechained ==
    ASSUME SlabsOk, NEW sl \in DOMAIN slabs, NEW ch \in Seq(Nat), IsInjective(ch), Rechained(sl, ch)
    PROVE  /\ SlabsOk' /\ SameSlabs
           /\ \A c, l, x : x \in Filed(c, l)' <=>
                  IF x = sl THEN c = slabs[sl].size /\ l = ListOf(slabs'[sl]) ELSE x \in Filed(c, l)
<1>1. DOMAIN slabs' = DOMAIN slabs
  BY DEF Rechained
<1>2. /\ slabs'[sl].size = slabs[sl].size /\ slabs'[sl].page = slabs[sl].page
      /\ slabs'[sl].nfree = Len(ch) /\ slabs'[sl].chain = ch /\ Len(ch) \in Nat
      /\ slabs'[sl] = [size |-> slabs[sl].size, page |-> slabs[sl].page, nfree |-> Len(ch), chain |-> ch]
  BY DEF Rechained
<1>3. SameSlabs
  BY <1>1, <1>2 DEF SameSlabs, Rechained
<1>4. \A x \in DOMAIN slabs : SlabOk(x)'
  <2> SUFFICES ASSUME NEW x \in DOMAIN slabs PROVE SlabOk(x)'
    OBVIOUS
  <2>1. SlabOk(x)
    BY DEF SlabsOk
  <2>2. CASE x = sl
    <3>1. slabs'[x] \in SlabRec
      <4>1. slabs[x].size \in Size \union {PT} /\ slabs[x].page \in VA \union {Static}
        BY SlabFacts
      <4> QED BY <1>2, <2>2, <4>1 DEF SlabRec
    <3> QED BY <1>2, <2>1, <2>2, <3>1 DEF SlabOk
  <2>3. CASE x # sl
    <3>1. slabs'[x] = slabs[x]
      BY <2>3 DEF Rechained
    <3> QED BY <2>1, <3>1 DEF SlabOk
  <2> QED BY <2>2, <2>3
<1>5. SlabsOk'
  <2>1. slabs' = [x \in DOMAIN slabs' |-> slabs'[x]]
    BY <1>1 DEF Rechained
  <2>2. \A a, b \in DOMAIN slabs' : slabs'[a].page = slabs'[b].page => a = b
    BY <1>1, <1>3 DEF SlabsOk, SameSlabs
  <2>3. /\ \A i \in Size : /\ <<P16, i>> \in DOMAIN slabs'
                           /\ slabs'[<<P16, i>>].size = i /\ slabs'[<<P16, i>>].page = BootPage(i)
        /\ PtSl \in DOMAIN slabs' /\ slabs'[PtSl].size = PT
    BY <1>1, <1>3 DEF SlabsOk, SameSlabs
  <2>4. (\A x \in DOMAIN slabs : SlabOk(x))'
    BY <1>1, <1>4
  <2> QED BY <2>1, <2>2, <2>3, <2>4 DEF SlabsOk
<1>6. \A c, l, x : x \in Filed(c, l)' <=>
          IF x = sl THEN c = slabs[sl].size /\ l = ListOf(slabs'[sl]) ELSE x \in Filed(c, l)
  <2> SUFFICES ASSUME NEW c, NEW l, NEW x
               PROVE  x \in Filed(c, l)' <=>
                        IF x = sl THEN c = slabs[sl].size /\ l = ListOf(slabs'[sl]) ELSE x \in Filed(c, l)
    OBVIOUS
  <2>1. x \in Filed(c, l)' <=> x \in DOMAIN slabs' /\ slabs'[x].size = c /\ ListOf(slabs'[x]) = l
    BY DEF Filed, ListOf
  <2>2. CASE x = sl
    BY <1>1, <1>2, <2>1, <2>2
  <2>3. CASE x # sl
    <3>1. x \in DOMAIN slabs => slabs'[x] = slabs[x]
      BY <2>3 DEF Rechained
    <3> QED BY <1>1, <2>1, <2>3, <3>1 DEF Filed
  <2> QED BY <2>2, <2>3
<1> QED BY <1>3, <1>5, <1>6

\* A slab goes to the list that its number asks for.
LEMMA SlabRelisted ==
    ASSUME LockInv, SlabsOk, ListsOk, NEW sl \in DOMAIN slabs, NEW ch \in Seq(Nat), IsInjective(ch), Rechained(sl, ch),
           NEW to, lists' = IF to = "same" THEN lists ELSE MoveTo(slabs[sl].size, sl, to),
           to = "same" => ListOf(slabs'[sl]) = ListOf(slabs[sl]),
           to # "same" => to = ListOf(slabs'[sl])
    PROVE  ListsOk'
<1>1. \A c, l, x : x \in Filed(c, l)' <=>
          IF x = sl THEN c = slabs[sl].size /\ l = ListOf(slabs'[sl]) ELSE x \in Filed(c, l)
  BY SlabRechained
<1>2. \A c, l : sl \in Filed(c, l) <=> c = slabs[sl].size /\ l = ListOf(slabs[sl])
  BY DEF Filed
<1> SUFFICES ASSUME NEW c \in Size \union {PT}, NEW l \in {"free", "part", "busy"}
             PROVE  Enumerates(lists'[c][l], Filed(c, l)')
  BY DEF ListsOk, Enumerates, Listed
<1>3. Enumerates(lists[c][l], Filed(c, l))
  BY DEF ListsOk
<1>4. CASE to = "same" \/ c # slabs[sl].size
  <2>1. Filed(c, l)' = Filed(c, l)
    <3>1. \A x : x \in Filed(c, l)' <=> x \in Filed(c, l)
      BY <1>1, <1>2, <1>4
    <3> QED BY <3>1
  <2>2. lists'[c][l] = lists[c][l]
    BY <1>4 DEF MoveTo, LockInv, ListsTyped
  <2> QED BY <1>3, <2>1, <2>2
<1>5. CASE to # "same" /\ c = slabs[sl].size
  <2>1. lists'[c][l] = (IF l = to THEN <<sl>> ELSE <<>>) \o Without(lists[c][l], sl)
    BY <1>5 DEF MoveTo, LockInv, ListsTyped
  <2>2. PICK w : w = Without(lists[c][l], sl)
    OBVIOUS
  <2>3. Enumerates(w, Filed(c, l) \ {sl}) /\ IsSeq(w)
    <3>1. Enumerates(Without(lists[c][l], sl), Filed(c, l) \ {sl})
      BY <1>3, WithoutKeeps
    <3> QED BY <2>2, <3>1 DEF Enumerates
  <2>4. CASE l = to
    <3>1. Filed(c, l)' = (Filed(c, l) \ {sl}) \union {sl}
      BY <1>1, <1>5, <2>4
    <3>2. sl \notin Filed(c, l) \ {sl}
      OBVIOUS
    <3> HIDE DEF Filed
    <3>3. Enumerates(<<sl>> \o w, (Filed(c, l) \ {sl}) \union {sl})
      BY <2>3, <3>2, FirstKeeps
    <3> QED BY <2>1, <2>2, <2>4, <3>1, <3>3
  <2>5. CASE l # to
    <3>1. Filed(c, l)' = Filed(c, l) \ {sl}
      BY <1>1, <1>5, <2>5
    <3>2. <<>> \o w = w
      BY <2>3, EmptyConcat
    <3> QED BY <2>1, <2>2, <2>3, <2>5, <3>1, <3>2
  <2> QED BY <2>4, <2>5
<1> QED BY <1>4, <1>5

\* A step that changes but the chain of a slab of its thread's page, and its results.
LEMMA ChainAdded ==
    ASSUME NEW ch \in Seq(Nat), NEW k \in Nat, IsInjective(ch), ~ Listed(k, ch),
           NEW w, w = <<k>> \o ch
    PROVE  /\ w \in Seq(Nat) /\ IsInjective(w) /\ Len(w) = Len(ch) + 1
           /\ \A x : Listed(x, w) <=> x = k \/ Listed(x, ch)
<1>1. ch \in Seq(Nat)
  OBVIOUS
<1>2. IsSeq(ch)
  BY <1>1 DEF IsSeq
<1> DEFINE C == {x \in Nat : Listed(x, ch)}
<1>3. Enumerates(ch, C) /\ k \notin C
  <2>1. \A x : Listed(x, ch) => x \in Nat
    BY DEF Listed
  <2> QED BY <1>2, <2>1 DEF Enumerates
<1>4. Enumerates(<<k>> \o ch, C \union {k})
  <2> HIDE DEF C
  <2> QED BY <1>3, FirstKeeps
<1>5. /\ <<k>> \o ch \in Seq(Nat) /\ Len(<<k>> \o ch) = Len(ch) + 1
  OBVIOUS
<1>6. IsInjective(<<k>> \o ch)
  BY <1>4 DEF Enumerates
<1>7. \A x : Listed(x, <<k>> \o ch) <=> x = k \/ Listed(x, ch)
  BY <1>2, InFront
<1> QED BY <1>5, <1>6, <1>7

LEMMA ChainTaken ==
    ASSUME NEW ch \in Seq(Nat), ch # <<>>, IsInjective(ch)
    PROVE  /\ Tail(ch) \in Seq(Nat) /\ IsInjective(Tail(ch)) /\ Len(Tail(ch)) = Len(ch) - 1
           /\ \A x : Listed(x, Tail(ch)) <=> x # Head(ch) /\ Listed(x, ch)
<1>1. /\ Tail(ch) \in Seq(Nat) /\ Len(Tail(ch)) = Len(ch) - 1 /\ Len(ch) \in Nat \ {0} /\ Head(ch) = ch[1]
      /\ \A i \in 1 .. Len(ch) - 1 : Tail(ch)[i] = ch[i + 1]
  OBVIOUS
<1>2. DOMAIN ch = 1 .. Len(ch) /\ DOMAIN Tail(ch) = 1 .. Len(ch) - 1
  BY <1>1
<1>3. \A i, j \in DOMAIN ch : ch[i] = ch[j] => i = j
  BY DEF IsInjective
<1> DEFINE w == Tail(ch)
<1>4. w \in Seq(Nat) /\ Len(w) = Len(ch) - 1 /\ DOMAIN w = 1 .. Len(ch) - 1 /\ \A i \in 1 .. Len(ch) - 1 : w[i] = ch[i + 1]
  BY <1>1, <1>2
<1> HIDE DEF w
<1>5. IsInjective(w)
  <2> SUFFICES ASSUME NEW i \in DOMAIN w, NEW j \in DOMAIN w, w[i] = w[j] PROVE i = j
    BY DEF IsInjective
  <2>1. i + 1 \in DOMAIN ch /\ j + 1 \in DOMAIN ch /\ i \in Int /\ j \in Int
    BY <1>1, <1>2, <1>4, SMTT(40)
  <2>2. ch[i + 1] = ch[j + 1]
    BY <1>4
  <2> QED BY <1>3, <2>1, <2>2
<1>6. ASSUME NEW x PROVE (\E i \in DOMAIN w : w[i] = x) <=> x # Head(ch) /\ \E i \in DOMAIN ch : ch[i] = x
  <2>1. ASSUME NEW i \in DOMAIN w, w[i] = x PROVE x # Head(ch) /\ \E j \in DOMAIN ch : ch[j] = x
    <3>1. i + 1 \in DOMAIN ch /\ 1 \in DOMAIN ch /\ i + 1 # 1 /\ ch[i + 1] = x
      BY <1>1, <1>2, <1>4, <2>1
    <3> QED BY <1>1, <1>3, <3>1
  <2>2. ASSUME NEW j \in DOMAIN ch, ch[j] = x, x # Head(ch) PROVE \E i \in DOMAIN w : w[i] = x
    <3>1. j \in Int /\ j # 1
      BY <1>1, <1>2, <2>2
    <3>2. j - 1 \in DOMAIN w /\ w[j - 1] = ch[(j - 1) + 1] /\ (j - 1) + 1 = j
      BY <1>1, <1>2, <1>4, <3>1
    <3> QED BY <2>2, <3>2
  <2> QED BY <2>1, <2>2
<1> QED BY <1>4, <1>5, <1>6 DEF w, Listed

-----------------------------------------------------------------------------
(* kfree_subpages().                                                       *)

LEMMA PutHeap == ASSUME LockInv, HeapInv, NEW t \in Thread, Put(t) PROVE HeapInv'
<1>31. CASE \E why : Fail(why)
  BY <1>31, FailHeap
<1> SUFFICES ASSUME ~ \E why : Fail(why) PROVE HeapInv'
  BY <1>31
<1>1. PICK sl, q0, n : sl = Arg(t) /\ q0 = Top(t) /\ n = Len(vals[t])
  OBVIOUS
<1>2. PICK to, s : s = slabs[sl] /\ to = ListAfterPut(s.nfree + 1, s.size)
  OBVIOUS
<1>3. /\ Does(t, "put") /\ slabs' = [slabs EXCEPT ![sl] = FreedFirst(@, q0[2])]
      /\ lists' = (IF to = "same" THEN lists ELSE MoveTo(s.size, sl, to))
      /\ Pop(t, 1) /\ Then(t, <<>>)
      /\ UNCHANGED <<slub_16byte_free, whole, vm_areas, tables, frames, owner, live>>
  BY <1>1, <1>2 DEF Put
<1>4. /\ After(Head(todo[t]), Tail(todo[t])) /\ Finds(Head(todo[t]), vals[t])
      /\ Head(todo[t])[1] = "put" /\ HeadOp(t) = "put" /\ Head(todo[t])[2] = sl
  BY <1>1, <1>3, StepFacts
<1>5. n = 1 /\ PutsTo(sl, vals[t][n])
  BY <1>1, <1>4 DEF Finds
<1>6. Len(vals[t]) >= 1
  BY <1>1, <1>5
<1>7. /\ ValAt(t, n, q0) /\ q0 = vals[t][n]
      /\ \A u, i, q : ValAt(u, i, q)' <=> ValAt(u, i, q) /\ ~ (u = t /\ i > n - 1)
      /\ \A i, q : i > n - 1 /\ ValAt(t, i, q) => i = n /\ q = q0
      /\ \A u, i, q : ValAt(u, i, q) => i \in Nat
  BY <1>1, <1>3, <1>6, PopOne
<1>8. PICK z \in Size, k \in Nat : sl = <<P16, z>> /\ q0 = <<BootPage(z), k>> /\ k < NObj[z]
  BY <1>5, <1>7 DEF PutsTo, BootPage
<1>9. SlabsOk /\ ListsOk /\ TablesOk /\ MapsOk /\ LowOk
  BY DEF HeapInv
<1>10. sl \in DOMAIN slabs /\ s.size = z /\ s.page = BootPage(z)
  BY <1>2, <1>8, <1>9, BootFacts
<1>11. PICK ch : ch = s.chain
  OBVIOUS
<1>12. /\ s.nfree = Len(ch) /\ ch \in Seq(Nat) /\ IsInjective(ch) /\ s.nfree \in Nat
       /\ s = [size |-> s.size, page |-> s.page, nfree |-> s.nfree, chain |-> ch]
  BY <1>2, <1>9, <1>10, <1>11, SlabFacts
<1>13. Has("val", t, n, q0) /\ Held(q0)
  BY <1>7 DEF Held, Has
<1>14. ~ Listed(k, ch)
  <2> SUFFICES ASSUME NEW i \in DOMAIN ch, ch[i] = k PROVE FALSE
    BY DEF Listed
  <2>1. Has("free", sl, 0, q0)
    BY <1>2, <1>8, <1>10, <1>11 DEF Has, OnChain
  <2> QED BY <1>13, <2>1 DEF HeapInv, TokensOk, Own
<1>15. PICK c1 : c1 = <<k>> \o ch
  OBVIOUS
<1>16. /\ c1 \in Seq(Nat) /\ IsInjective(c1) /\ Len(c1) = Len(ch) + 1
       /\ \A x : Listed(x, c1) <=> x = k \/ Listed(x, ch)
  BY <1>8, <1>12, <1>14, <1>15, ChainAdded
<1>17. Rechained(sl, c1)
  <2>1. q0[2] = k
    BY <1>8
  <2>2. slabs = [x \in DOMAIN slabs |-> slabs[x]]
    BY <1>9 DEF SlabsOk
  <2>3. slabs' = [slabs EXCEPT ![sl] = FreedFirst(slabs[sl], k)]
    BY <1>3, <2>1
  <2>4. slabs'[sl] = FreedFirst(s, k)
    BY <1>2, <1>10, <2>2, <2>3
  <2>5. FreedFirst(s, k) = [size |-> s.size, page |-> s.page, nfree |-> s.nfree + 1, chain |-> c1]
    BY <1>11, <1>12, <1>15, FreedIs
  <2> QED BY <1>2, <1>12, <1>16, <2>2, <2>3, <2>4, <2>5 DEF Rechained
<1>18. /\ slabs'[sl].size = z /\ slabs'[sl].page = BootPage(z) /\ slabs'[sl].nfree = s.nfree + 1
       /\ slabs'[sl].chain = c1
  BY <1>2, <1>10, <1>12, <1>16, <1>17 DEF Rechained
<1>19. /\ SlabsOk' /\ SameSlabs
       /\ \A c, l, x : x \in Filed(c, l)' <=>
              IF x = sl THEN c = slabs[sl].size /\ l = ListOf(slabs'[sl]) ELSE x \in Filed(c, l)
  BY <1>9, <1>10, <1>16, <1>17, SlabRechained
<1>20. s.nfree < NObj[s.size]
  <2>1. Has("val", t, n, <<slabs[sl].page, k>>) /\ "val" # "free"
    BY <1>2, <1>8, <1>10, <1>13
  <2> QED BY <1>2, <1>8, <1>10, <2>1, NotAllFree
<1>21. NObj[z] \in Nat /\ 2 <= NObj[z]
  BY Numbers
<1>22. ListsOk'
  <2>1. to = "same" => ListOf(slabs'[sl]) = ListOf(slabs[sl])
    BY <1>2, <1>10, <1>12, <1>18, <1>20, <1>21 DEF ListOf, ListAfterPut
  <2>2. to # "same" => to = ListOf(slabs'[sl])
    BY <1>2, <1>10, <1>12, <1>18, <1>20, <1>21 DEF ListOf, ListAfterPut
  <2>3. lists' = IF to = "same" THEN lists ELSE MoveTo(slabs[sl].size, sl, to)
    BY <1>2, <1>3
  <2> QED BY <1>9, <1>10, <1>16, <1>17, <2>1, <2>2, <2>3, SlabRelisted
<1>23. LowOk'
  <2>1. Sl16 \in DOMAIN slabs
    BY <1>9, BootFacts
  <2>2. slabs[Sl16].nfree \in Nat
    BY <1>9, <2>1, SlabFacts
  <2>3. slabs'[Sl16].nfree = slabs[Sl16].nfree \/ slabs'[Sl16].nfree = slabs[Sl16].nfree + 1
    BY <1>2, <1>17, <1>18, <2>1 DEF Rechained
  <2>4. slabs'[Sl16].nfree >= slabs[Sl16].nfree /\ slabs'[Sl16].nfree \in Nat
    BY <2>2, <2>3
  <2> QED BY <1>3, <1>9, <2>2, <2>4, LowStays
<1>24. FramesOk' /\ TablesOk' /\ \A q : Fr(q)' = Fr(q)
  BY <1>3, FramesStay, TablesStay DEF HeapInv
<1>25. MapsOk'
  <2>1. \A i, q : i > n - 1 /\ ValAt(t, i, q) => Object(q)
    BY <1>7, <1>8 DEF Object
  <2>2. SamePages
    BY <1>7, <2>1, SameByPop
  <2> QED BY <1>3, <1>9, <1>19, <2>2, MapsSame
<1>26. TokensOk' /\ \A q : Held(q)' <=> Held(q)
  <2>1. \A d \in DOMAIN ptes : PtObject(d)' = PtObject(d)
    <3>1. \A d \in DOMAIN ptes : ram_map'[d[1]].va = ram_map[d[1]].va
      BY <1>3 DEF frames
    <3> QED BY <1>19, <3>1, TablesObjects
  <2>2. OtherAdded("free", sl, 0, q0)
    <3> SUFFICES ASSUME NEW j, NEW a, NEW b, NEW q, j # "val"
                 PROVE  Has(j, a, b, q)' <=> Has(j, a, b, q) \/ (j = "free" /\ a = sl /\ b = 0 /\ q = q0)
      BY DEF OtherAdded
    <3>1. CASE j = "free"
      <4>1. Has(j, a, b, q)' <=> b = 0 /\ OnChain(a, q)'
        BY <3>1 DEF Has
      <4>2. OnChain(a, q)' <=> OnChain(a, q) \/ (a = sl /\ q = q0)
        <5>1. OnChain(a, q)' <=> /\ a \in DOMAIN slabs'
                                 /\ \E i \in DOMAIN slabs'[a].chain : q = <<slabs'[a].page, slabs'[a].chain[i]>>
          BY DEF OnChain
        <5>2. DOMAIN slabs' = DOMAIN slabs
          BY <1>19 DEF SameSlabs
        <5>3. CASE a = sl
          <6>1. OnChain(a, q)' <=> \E i \in DOMAIN c1 : q = <<BootPage(z), c1[i]>>
            BY <1>10, <1>18, <5>1, <5>2, <5>3
          <6>2. OnChain(a, q) <=> \E i \in DOMAIN ch : q = <<BootPage(z), ch[i]>>
            BY <1>2, <1>10, <1>11, <5>3 DEF OnChain
          <6>3. OnChain(a, q)' <=> \E x : Listed(x, c1) /\ q = <<BootPage(z), x>>
            BY <6>1 DEF Listed
          <6>4. OnChain(a, q) <=> \E x : Listed(x, ch) /\ q = <<BootPage(z), x>>
            BY <6>2 DEF Listed
          <6> QED BY <1>8, <1>16, <5>3, <6>3, <6>4
        <5>4. CASE a # sl
          <6>1. a \in DOMAIN slabs => slabs'[a] = slabs[a]
            BY <1>17, <5>4 DEF Rechained
          <6> QED BY <5>1, <5>2, <5>4, <6>1 DEF OnChain
        <5> QED BY <5>3, <5>4
      <4> QED BY <3>1, <4>1, <4>2 DEF Has
    <3>2. CASE j # "free"
      <4>1. DOMAIN slabs' = DOMAIN slabs /\ DOMAIN ptes' = DOMAIN ptes
        BY <1>3, <1>19 DEF SameSlabs, tables
      <4> QED BY <1>3, <2>1, <3>2, <4>1 DEF Has, IsSeg
    <3> QED BY <3>1, <3>2
  <2>3. MovedTo(q0, "free", sl, 0)
    <3>1. "free" # "val"
      OBVIOUS
    <3> QED BY <1>1, <1>3, <1>6, <2>2, <3>1, TopMoved
  <2>4. \A q : PageVal(q)' => PageVal(q)
    BY <1>7 DEF PageVal
  <2> QED BY <1>13, <1>19, <2>3, <2>4, TokensMoved
<1>27. SameOthers(t)
  BY <1>3, OnlyMine DEF SameOthers, LockInv
<1>28. KnownOk'
  <2>1. \A q \in VA : Used(q)' => Used(q)
    BY <1>24, <1>26, UsedSame
  <2>2. \A q : Pending(q) => Pending(q)'
    <3>1. owner[VM] = t => owner[C16] # t /\ HeadOp(t) \notin {"alloc", "seg"}
      BY <1>3, NotHolding
    <3> QED BY <1>3, <1>27, <3>1, PendingStays
  <2> QED BY <1>3, <2>1, <2>2, KnownStays DEF HeapInv
<1>29. ThreadsOk'
  <2>1. NowOk(t)'
    <3>1. todo'[t] = Tail(todo[t])
      BY <1>3, TailNext
    <3>2. Tail(todo[t]) = <<>>
      BY <1>4 DEF After
    <3> QED BY <3>1, <3>2, QuietHead DEF Quiet
  <2>2. \A u \in Thread \ {t} : DoesNow(u, "take") /\ Filed(Arg(u), "free") # {} => Filed(Arg(u), "free")' # {}
    <3> SUFFICES ASSUME NEW u \in Thread \ {t}, Filed(Arg(u), "free") # {}
                 PROVE  Filed(Arg(u), "free")' # {}
      OBVIOUS
    <3>1. PICK x : x \in Filed(Arg(u), "free")
      OBVIOUS
    <3>2. x # sl
      BY <1>2, <1>12, <1>20, <3>1 DEF Filed, ListOf
    <3>3. Arg(u)' = Arg(u)
      BY <1>27 DEF SameOthers, Arg
    <3>4. x \in Filed(Arg(u), "free")'
      <4>1. PICK c : c = Arg(u)
        OBVIOUS
      <4>2. x \in Filed(c, "free")'
        BY <1>19, <3>1, <3>2, <4>1
      <4> QED BY <3>3, <4>1, <4>2
    <3> QED BY <3>4
  <2> QED BY <1>19, <1>27, <2>1, <2>2, AllThreads DEF HeapInv
<1>30. LiveOk' /\ StructsOk'
  <2>1. LiveOk /\ StructsOk /\ live' \subseteq live
    BY <1>3 DEF HeapInv
  <2> QED BY <1>3, <1>19, <2>1, LiveStays, StructsSame
<1> QED BY <1>19, <1>22, <1>23, <1>24, <1>25, <1>26, <1>28, <1>29, <1>30 DEF HeapInv

-----------------------------------------------------------------------------
(* kmalloc_subpages().                                                     *)

\* Who takes an object after a refill has the lock of the list.
LEMMA TakeHolds ==
    ASSUME LockInv, NEW u \in Thread, Does(u, "take")
    PROVE  owner[Arg(u)] = u /\ Arg(u) \in (Size \ {C16}) \union {PT}
<1>1. /\ At(Head(todo[u]), Tail(todo[u]), HeldBy(u), vals[u]) /\ Head(todo[u])[1] = "take"
      /\ Arg(u) = Head(todo[u])[2]
  BY Doing
<1>2. AtTake(Arg(u), Tail(todo[u]), HeldBy(u), vals[u])
  BY <1>1 DEF At
<1>3. Arg(u) \in HeldBy(u) /\ Arg(u) \in (Size \ {C16}) \union {PT}
  BY <1>2 DEF AtTake, Grows, GrowsList, GrowsPt
<1> QED BY <1>3 DEF HeldBy

\* The slab of the object has one object less.
LEMMA TakenIs ==
    ASSUME SlabsOk, NEW sl \in DOMAIN slabs, slabs[sl].chain # <<>>,
           slabs' = [slabs EXCEPT ![sl].chain = Tail(@), ![sl].nfree = @ - 1]
    PROVE  Rechained(sl, Tail(slabs[sl].chain))
<1>1. slabs = [x \in DOMAIN slabs |-> slabs[x]]
  BY DEF SlabsOk
<1>2. /\ slabs[sl].nfree = Len(slabs[sl].chain) /\ slabs[sl].chain \in Seq(Nat) /\ IsInjective(slabs[sl].chain)
      /\ slabs[sl] = [size |-> slabs[sl].size, page |-> slabs[sl].page,
                      nfree |-> slabs[sl].nfree, chain |-> slabs[sl].chain]
  BY SlabFacts
<1>3. PICK e, m : e = Tail(slabs[sl].chain) /\ m = slabs[sl].nfree - 1
  OBVIOUS
<1>4. slabs' = [slabs EXCEPT ![sl].chain = e, ![sl].nfree = m]
  BY <1>3
<1>5. /\ slabs' = [x \in DOMAIN slabs |-> slabs'[x]]
      /\ \A x \in DOMAIN slabs : x # sl => slabs'[x] = slabs[x]
  BY <1>1, <1>4
<1>6. /\ DOMAIN slabs'[sl] = {"size", "page", "nfree", "chain"}
      /\ slabs'[sl]["size"] = slabs[sl].size /\ slabs'[sl]["page"] = slabs[sl].page
      /\ slabs'[sl]["nfree"] = m /\ slabs'[sl]["chain"] = e
      /\ slabs'[sl] = [x \in {"size", "page", "nfree", "chain"} |-> slabs'[sl][x]]
  <2>1. DOMAIN slabs[sl] = {"size", "page", "nfree", "chain"}
    BY <1>2
  <2>2. slabs'[sl] = [[slabs[sl] EXCEPT !.chain = e] EXCEPT !.nfree = m]
    BY <1>1, <1>4
  <2>3. slabs'[sl] = [x \in DOMAIN slabs[sl] |-> IF x = "nfree" THEN m ELSE IF x = "chain" THEN e ELSE slabs[sl][x]]
    BY <2>2
  <2> QED BY <2>1, <2>3
<1>7. slabs'[sl] = [size |-> slabs[sl].size, page |-> slabs[sl].page, nfree |-> m, chain |-> e]
  <2>1. PICK u : u = [size |-> slabs[sl].size, page |-> slabs[sl].page, nfree |-> m, chain |-> e]
    OBVIOUS
  <2>2. /\ DOMAIN u = {"size", "page", "nfree", "chain"} /\ u["size"] = slabs[sl].size
        /\ u["page"] = slabs[sl].page /\ u["nfree"] = m /\ u["chain"] = e
        /\ u = [x \in DOMAIN u |-> u[x]]
    BY <2>1
  <2>3. u = slabs'[sl]
    BY <1>6, <2>2
  <2> QED BY <2>1, <2>3
<1>8. Len(e) = m
  BY <1>2, <1>3
<1> QED BY <1>3, <1>5, <1>7, <1>8 DEF Rechained

\* An object is taken.
LEMMA TakeObjectHeap ==
    ASSUME LockInv, HeapInv, NEW t \in Thread, NEW op \in {"alloc", "take"}, Does(t, op),
           NEW c \in Size \union {PT}, c = Arg(t), ~ Empty(c), TakeObject(t, c),
           op = "alloc" => owner[c] = NoThread, op = "take" => owner[c] = t /\ c # C16
    PROVE  HeapInv'
<1>1. PICK sl, s, q0, n, ch : /\ sl = FirstSlab(c) /\ s = slabs[sl] /\ ch = s.chain
                              /\ q0 = <<s.page, Head(s.chain)>> /\ n = Len(vals[t]) + 1
  OBVIOUS
<1>2. PICK to : to = ListOnTake(s, sl)
  OBVIOUS
<1>3. /\ Push(t, q0) /\ slabs' = [slabs EXCEPT ![sl].chain = Tail(@), ![sl].nfree = @ - 1]
      /\ lists' = (IF to = "same" THEN lists ELSE MoveTo(c, sl, to))
      /\ slub_16byte_free' = slub_16byte_free - (IF c = C16 THEN 1 ELSE 0)
      /\ IF IsLow(c) THEN owner' = [owner EXCEPT ![c] = t] /\ Then(t, Refill(c) \o << <<"unlock", c>> >>)
         ELSE owner' = [owner EXCEPT ![c] = NoThread] /\ Then(t, <<>>)
      /\ UNCHANGED <<whole, vm_areas, tables, frames, live>>
  BY <1>1, <1>2 DEF TakeObject
<1>4. /\ After(Head(todo[t]), Tail(todo[t]))
      /\ Head(todo[t])[1] = op /\ HeadOp(t) = op /\ Head(todo[t])[2] = c
  BY StepFacts
<1>5. SlabsOk /\ ListsOk /\ TablesOk /\ MapsOk /\ LowOk
  BY DEF HeapInv
<1>6. /\ sl \in DOMAIN slabs /\ slabs[sl].size = c /\ slabs[sl].nfree # 0
      /\ ch # <<>> /\ Head(ch) \in Nat
      /\ c = C16 => sl = Sl16
  BY <1>1, <1>5, FirstSlabFacts
<1>7. /\ s.nfree = Len(ch) /\ ch \in Seq(Nat) /\ IsInjective(ch) /\ s.nfree \in Nat
      /\ s.page \in VA \union {Static}
  BY <1>1, <1>5, <1>6, SlabFacts
<1>8. PICK k \in Nat : k = Head(ch)
  BY <1>6
<1>9. q0 = <<s.page, k>>
  BY <1>1, <1>8
<1>10. PICK c1 : c1 = Tail(ch)
  OBVIOUS
<1>11. /\ c1 \in Seq(Nat) /\ IsInjective(c1) /\ Len(c1) = Len(ch) - 1
       /\ \A x : Listed(x, c1) <=> x # k /\ Listed(x, ch)
  BY <1>6, <1>7, <1>8, <1>10, ChainTaken
<1>12. Rechained(sl, c1)
  BY <1>1, <1>3, <1>5, <1>6, <1>10, TakenIs
<1>13. /\ slabs'[sl].size = c /\ slabs'[sl].page = s.page /\ slabs'[sl].nfree = s.nfree - 1
       /\ slabs'[sl].chain = c1
  BY <1>1, <1>6, <1>7, <1>11, <1>12 DEF Rechained
<1>14. /\ SlabsOk' /\ SameSlabs
       /\ \A d, l, x : x \in Filed(d, l)' <=>
              IF x = sl THEN d = slabs[sl].size /\ l = ListOf(slabs'[sl]) ELSE x \in Filed(d, l)
  BY <1>5, <1>6, <1>11, <1>12, SlabRechained
<1>15. s.nfree <= NObj[c] /\ NObj[c] \in Nat /\ 2 <= NObj[c] /\ s.nfree # 0 /\ s.size = c
  BY <1>1, <1>6, ChainWithin, Numbers
<1>16. ListsOk'
  <2>1. PICK m, N : m = s.nfree /\ N = NObj[c]
    OBVIOUS
  <2>2. m \in Nat /\ N \in Nat /\ m <= N /\ 2 <= N /\ m # 0
    BY <1>7, <1>15, <2>1
  <2>3. /\ to = IF m = N THEN "part" ELSE IF m = 1 THEN "busy" ELSE "same"
        /\ ListOf(slabs[sl]) = IF m = N THEN "free" ELSE IF m = 0 THEN "busy" ELSE "part"
        /\ ListOf(slabs'[sl]) = IF m - 1 = N THEN "free" ELSE IF m - 1 = 0 THEN "busy" ELSE "part"
    BY <1>1, <1>2, <1>13, <1>15, <2>1 DEF ListOf, ListOnTake
  <2>4. to = "same" => ListOf(slabs'[sl]) = ListOf(slabs[sl])
    BY <2>2, <2>3
  <2>5. to # "same" => to = ListOf(slabs'[sl])
    BY <2>2, <2>3
  <2>6. lists' = IF to = "same" THEN lists ELSE MoveTo(slabs[sl].size, sl, to)
    BY <1>3, <1>6
  <2> QED BY <1>5, <1>6, <1>11, <1>12, <2>4, <2>5, <2>6, SlabRelisted
<1>17. /\ \A m \in Mutexes : m # c => owner'[m] = owner[m]
       /\ owner'[c] = IF IsLow(c) THEN t ELSE NoThread
  <2>1. c \in Mutexes
    BY LockNumbers
  <2> QED BY <1>3, <2>1 DEF LockInv, Kept
<1>18. C16 \in Mutexes /\ VM \in Mutexes /\ c # VM /\ t # NoThread
  BY LockNumbers, SlubConstants
<1>19. LowOk'
  <2>1. Sl16 \in DOMAIN slabs /\ slabs[Sl16].size = C16
    BY <1>5, BootFacts
  <2>2. slabs[Sl16].nfree \in Nat
    BY <1>5, <2>1, SlabFacts
  <2>3. CASE c # C16
    <3>1. slabs'[Sl16] = slabs[Sl16]
      BY <1>6, <1>12, <2>1, <2>3 DEF Rechained
    <3>2. owner'[C16] = owner[C16] /\ slub_16byte_free' = slub_16byte_free
      <4>1. slub_16byte_free \in Nat
        BY <1>5 DEF LowOk
      <4> QED BY <1>3, <1>17, <1>18, <2>3, <4>1
    <3>3. slabs'[Sl16].nfree >= slabs[Sl16].nfree /\ slabs'[Sl16].nfree \in Nat
      BY <2>2, <3>1
    <3> QED BY <1>5, <2>2, <3>2, <3>3, LowStays
  <2>4. CASE c = C16
    <3>1. op = "alloc" /\ owner[C16] = NoThread
      BY <2>4
    <3>2. sl = Sl16 /\ slabs'[Sl16].nfree = slabs[Sl16].nfree - 1
      BY <1>1, <1>6, <1>13, <2>4
    <3>3. slub_16byte_free \in Nat /\ slub_16byte_free <= slabs[Sl16].nfree /\ LowWater < slub_16byte_free
      BY <1>5, <3>1 DEF LowOk
    <3>4. slub_16byte_free' = slub_16byte_free - 1 /\ LowWater \in Nat
      BY <1>3, <2>4, <3>3, SlubConstants
    <3>5. owner'[C16] = NoThread => slub_16byte_free - 1 # LowWater
      BY <1>17, <1>18, <2>4 DEF IsLow
    <3> QED BY <2>2, <3>2, <3>3, <3>4, <3>5 DEF LowOk
  <2> QED BY <2>3, <2>4
<1>20. FramesOk' /\ TablesOk' /\ \A q : Fr(q)' = Fr(q)
  BY <1>3, FramesStay, TablesStay DEF HeapInv
<1>21. \A u, i, q : ValAt(u, i, q)' <=> ValAt(u, i, q) \/ (u = t /\ i = n /\ q = q0)
  <2>1. vals' = [vals EXCEPT ![t] = Append(@, q0)]
    BY <1>3 DEF Push
  <2>2. \A u, i, q : ValAt(u, i, q)' <=> ValAt(u, i, q) \/ (u = t /\ i = Len(vals[t]) + 1 /\ q = q0)
    BY <2>1, Pushed
  <2>3. n = Len(vals[t]) + 1
    BY <1>1
  <2> QED BY <2>2, <2>3
<1>22. Object(q0)
  BY <1>9 DEF Object
<1>23. MapsOk'
  <2>1. SamePages
    BY <1>21, <1>22, SameByPush
  <2> QED BY <1>3, <1>5, <1>14, <2>1, MapsSame
<1>24. OnChain(sl, q0)
  <2>1. Listed(k, ch)
    BY <1>6, <1>7, <1>8 DEF Listed
  <2> QED BY <1>1, <1>6, <1>9, <2>1 DEF OnChain, Listed
<1>25. Has("free", sl, 0, q0) /\ Held(q0)
  BY <1>24 DEF Has, Held
<1>26. \A j, a, b : Has(j, a, b, q0) => j = "free" /\ a = sl /\ b = 0
  BY <1>25 DEF HeapInv, TokensOk, Own
<1>27. TokensOk' /\ \A q : Held(q)' <=> Held(q)
  <2>1. \A d \in DOMAIN ptes : PtObject(d)' = PtObject(d)
    <3>1. \A d \in DOMAIN ptes : ram_map'[d[1]].va = ram_map[d[1]].va
      BY <1>3 DEF frames
    <3> QED BY <1>14, <3>1, TablesObjects
  <2>2. DOMAIN slabs' = DOMAIN slabs /\ DOMAIN ptes' = DOMAIN ptes
    BY <1>3, <1>14 DEF SameSlabs, tables
  <2>3. MovedTo(q0, "val", t, n)
    <3> SUFFICES ASSUME NEW j, NEW a, NEW b, NEW q
                 PROVE  Has(j, a, b, q)' <=>
                          IF q = q0 THEN j = "val" /\ a = t /\ b = n ELSE Has(j, a, b, q)
      BY DEF MovedTo
    <3>1. CASE j = "val"
      <4>1. (Has(j, a, b, q)' <=> ValAt(a, b, q)') /\ (Has(j, a, b, q) <=> ValAt(a, b, q))
        BY <3>1 DEF Has
      <4>2. q = q0 => ~ ValAt(a, b, q)
        BY <1>26, <3>1, <4>1
      <4> QED BY <1>21, <3>1, <4>1, <4>2
    <3>2. CASE j = "free"
      <4>1. OnChain(a, q)' <=> OnChain(a, q) /\ q # q0
        <5>1. OnChain(a, q)' <=> /\ a \in DOMAIN slabs'
                                 /\ \E i \in DOMAIN slabs'[a].chain : q = <<slabs'[a].page, slabs'[a].chain[i]>>
          BY DEF OnChain
        <5>2. CASE a = sl
          <6>1. OnChain(a, q)' <=> \E i \in DOMAIN c1 : q = <<s.page, c1[i]>>
            BY <1>6, <1>13, <2>2, <5>1, <5>2
          <6>2. OnChain(a, q) <=> \E i \in DOMAIN ch : q = <<s.page, ch[i]>>
            BY <1>1, <1>6, <5>2 DEF OnChain
          <6>3. OnChain(a, q)' <=> \E x : Listed(x, c1) /\ q = <<s.page, x>>
            BY <6>1 DEF Listed
          <6>4. OnChain(a, q) <=> \E x : Listed(x, ch) /\ q = <<s.page, x>>
            BY <6>2 DEF Listed
          <6>5. \A x : <<s.page, x>> = q0 <=> x = k
            BY <1>9, Tuples
          <6> QED BY <1>11, <6>3, <6>4, <6>5
        <5>3. CASE a # sl
          <6>1. a \in DOMAIN slabs => slabs'[a] = slabs[a]
            BY <1>12, <5>3 DEF Rechained
          <6>2. OnChain(a, q)' <=> OnChain(a, q)
            BY <2>2, <5>1, <6>1 DEF OnChain
          <6>3. OnChain(a, q) => q # q0
            <7>1. OnChain(a, q) => Has("free", a, 0, q)
              BY DEF Has
            <7> QED BY <1>26, <5>3, <7>1
          <6> QED BY <6>2, <6>3
        <5> QED BY <5>2, <5>3
      <4>2. (Has(j, a, b, q)' <=> b = 0 /\ OnChain(a, q)') /\ (Has(j, a, b, q) <=> b = 0 /\ OnChain(a, q))
        BY <3>2 DEF Has
      <4> QED BY <3>2, <4>1, <4>2
    <3>3. CASE j # "val" /\ j # "free"
      <4>1. Has(j, a, b, q)' <=> Has(j, a, b, q)
        BY <1>3, <2>1, <2>2, <3>3 DEF Has, IsSeg
      <4> QED BY <1>26, <3>3, <4>1
    <3> QED BY <3>1, <3>2, <3>3
  <2>4. \A q : PageVal(q)' => PageVal(q)
    <3>1. \A q : <<q, -1>> # q0
      BY <1>22, ObjectsDiffer
    <3> QED BY <1>21, <3>1 DEF PageVal
  <2> QED BY <1>14, <1>25, <2>3, <2>4, TokensMoved
<1>28. SameOthers(t)
  BY <1>3, OnlyMine DEF SameOthers, LockInv
<1>29. ~ IsLow(c) => todo'[t] = Tail(todo[t])
  BY <1>3, TailNext
<1>30. KnownOk'
  <2>1. \A q \in VA : Used(q)' => Used(q)
    BY <1>20, <1>27, UsedSame
  <2>2. \A u \in Thread \ {t} : owner[VM] = u => owner'[VM] = u
    BY <1>17, <1>18
  <2>3. \A u \in Thread \ {t} : owner[C16] = u => owner'[C16] = u
    BY <1>17, <1>18, SlubConstants
  <2>4. \A q : Pending(q) => Pending(q)'
    <3>1. CASE owner[VM] # t \/ op # "alloc"
      <4>1. owner[VM] = t => owner[C16] # t /\ HeadOp(t) \notin {"alloc", "seg"}
        BY <3>1, NotHolding
      <4> QED BY <1>28, <2>2, <2>3, <4>1, PendingStays
    <3>2. CASE owner[VM] = t /\ op = "alloc"
      <4>1. c = C16 /\ owner[C16] # t /\ Begins(Tail(todo[t]), {"seg"}) /\ n - 1 >= 1 /\ Len(vals[t]) = n - 1
            /\ n - 1 \in Nat
        <5>1. c = C16 /\ owner[C16] # t /\ Begins(Tail(todo[t]), {"seg"}) /\ Len(vals[t]) >= 1
          BY <3>2, AllocHolder
        <5> QED BY <1>1, <5>1, ValsTyped
      <4>2. owner'[VM] = t
        BY <1>17, <1>18, <3>2
      <4> SUFFICES ASSUME NEW q, Pending(q) PROVE Pending(q)'
        OBVIOUS
      <4>3. Top(t) = <<q, -1>>
        <5>1. \A u \in Thread : owner[VM] = u => u = t
          BY <3>2
        <5> QED BY <1>4, <3>2, <4>1, <5>1 DEF Pending
      <4>4. CASE IsLow(c)
        BY <1>17, <4>1, <4>2, <4>4 DEF Pending
      <4>5. CASE ~ IsLow(c)
        <5>1. HeadOp(t)' = "seg"
          BY <1>29, <4>1, <4>5 DEF Begins, HeadOp
        <5>2. Below(t)' = <<q, -1>>
          <6>1. IsSeq(vals[t]) /\ vals'[t] = Append(vals[t], q0)
            BY <1>3, ValsTyped DEF Push
          <6>2. /\ Len(Append(vals[t], q0)) = Len(vals[t]) + 1
                /\ \A i \in 1 .. Len(vals[t]) : Append(vals[t], q0)[i] = vals[t][i]
            BY <6>1, AppendFacts
          <6>3. Below(t)' = vals'[t][Len(vals'[t]) - 1]
            BY DEF Below
          <6>4. Len(vals'[t]) - 1 = Len(vals[t])
            BY <4>1, <6>1, <6>2
          <6>5. Len(vals[t]) \in 1 .. Len(vals[t])
            BY <4>1
          <6>6. Below(t)' = vals[t][Len(vals[t])]
            BY <6>1, <6>2, <6>3, <6>4, <6>5
          <6> QED BY <4>3, <6>6 DEF Top, Last
        <5> QED BY <4>2, <5>1, <5>2 DEF Pending
      <4> QED BY <4>4, <4>5
    <3> QED BY <3>1, <3>2
  <2> QED BY <1>3, <2>1, <2>4, KnownStays DEF HeapInv
<1>31. NowOk(t)'
  <2>1. IsSeq(Tail(todo[t]))
    BY Doing
  <2>2. CASE IsLow(c)
    <3>1. todo'[t] = FromRefill(c, Cons(<<"unlock", c>>, Tail(todo[t])))
      <4>1. todo'[t] = (Refill(c) \o << <<"unlock", c>> >>) \o Tail(todo[t])
        BY <1>3, <2>2 DEF Then, LockInv, Kept
      <4> QED BY <2>1, <4>1, RefillForm
    <3>2. IsSeq(FromFind(1, FromPm(FromInit1(c, Cons(<<"unlock", c>>, Tail(todo[t]))))))
      BY <2>1, ConsFacts, FromAreSeqs
    <3>3. <<"alloc", C16>>[1] \in {"alloc"}
      OBVIOUS
    <3>4. Begins(todo'[t], {"alloc"})
      BY <3>1, <3>2, <3>3, BeginsCons DEF FromRefill
    <3> QED BY <3>4, QuietBegins, QuietHead DEF Acting
  <2>3. CASE ~ IsLow(c)
    <3>1. PICK r : r = Tail(todo[t])
      OBVIOUS
    <3>2. todo'[t] = r
      BY <1>29, <2>3, <3>1
    <3>3. \/ r # <<>> /\ Head(r) = <<"give", c>> /\ c \in Size
          \/ c = C16 /\ Begins(r, {"find", "seg", "track"})
          \/ c = PT /\ Begins(r, {"install"})
      BY <1>4, <3>1 DEF After
    <3>4. Top(t)' = q0
      <4>1. IsSeq(vals[t]) /\ vals'[t] = Append(vals[t], q0)
        BY <1>3, ValsTyped DEF Push
      <4> QED BY <4>1, AppendFacts DEF Top
    <3>5. q0[1] = slabs'[sl].page
      BY <1>9, <1>13
    <3>6. CASE r # <<>> /\ Head(r) = <<"give", c>> /\ c \in Size
      <4>1. HeadOp(t)' = "give"
        BY <3>2, <3>6 DEF HeadOp
      <4>2. Home(q0[1])'
        <5>1. sl \in DOMAIN slabs'
          BY <1>6, <1>14 DEF SameSlabs
        <5> QED BY <1>13, <3>5, <3>6, <5>1, Numbers DEF Home
      <4>3. GivesOk(t)'
        BY <3>4, <4>2 DEF GivesOk
      <4> QED BY <4>1, <4>3 DEF NowOk, InstallsOk, TakesOk, DoesNow
    <3>7. CASE c = C16 /\ Begins(r, {"find", "seg", "track"})
      BY <3>2, <3>7, QuietBegins, QuietHead DEF Acting
    <3>8. CASE c = PT /\ Begins(r, {"install"})
      <4>1. HeadOp(t)' = "install"
        BY <3>2, <3>8 DEF HeadOp, Begins
      <4>2. \E x \in DOMAIN slabs' : slabs'[x].page = q0[1] /\ slabs'[x].size = PT
        BY <1>6, <1>13, <1>14, <3>5, <3>8 DEF SameSlabs
      <4>3. InstallsOk(t)'
        BY <3>4, <4>2 DEF InstallsOk
      <4> QED BY <4>1, <4>3 DEF NowOk, GivesOk, TakesOk, DoesNow
    <3> QED BY <3>3, <3>6, <3>7, <3>8
  <2> QED BY <2>2, <2>3
<1>32. ThreadsOk'
  <2>1. \A u \in Thread \ {t} : DoesNow(u, "take") /\ Filed(Arg(u), "free") # {} => Filed(Arg(u), "free")' # {}
    <3> SUFFICES ASSUME NEW u \in Thread \ {t}, DoesNow(u, "take"), Filed(Arg(u), "free") # {}
                 PROVE  Filed(Arg(u), "free")' # {}
      OBVIOUS
    <3>1. PICK x : x \in Filed(Arg(u), "free")
      OBVIOUS
    <3>2. owner[Arg(u)] = u
      <4>1. Does(u, "take")
        BY DEF Does, DoesNow, HeadOp
      <4> QED BY <4>1, TakeHolds
    <3>3. Arg(u) # c
      BY <3>2, SlubConstants
    <3>4. Arg(u)' = Arg(u)
      BY <1>28 DEF SameOthers, Arg
    <3>5. x # sl
      BY <1>6, <3>1, <3>3 DEF Filed
    <3>6. x \in Filed(Arg(u), "free")'
      <4>1. PICK d : d = Arg(u)
        OBVIOUS
      <4>2. x \in Filed(d, "free")'
        BY <1>14, <3>1, <3>5, <4>1
      <4> QED BY <3>4, <4>1, <4>2
    <3> QED BY <3>6
  <2> QED BY <1>14, <1>28, <1>31, <2>1, AllThreads DEF HeapInv
<1>33. LiveOk' /\ StructsOk'
  <2>1. LiveOk /\ StructsOk /\ live' \subseteq live
    BY <1>3 DEF HeapInv
  <2> QED BY <1>3, <1>14, <2>1, LiveStays, StructsSame
<1> QED BY <1>14, <1>16, <1>19, <1>20, <1>23, <1>27, <1>30, <1>32, <1>33 DEF HeapInv

LEMMA AllocHeap == ASSUME LockInv, HeapInv, NEW t \in Thread, Alloc(t) PROVE HeapInv'
<1>1. PICK c : c = Arg(t)
  OBVIOUS
<1>2. Does(t, "alloc") /\ owner[c] = NoThread
  BY <1>1 DEF Alloc
<1>3. c \in Size \union {PT}
  <2>1. At(Head(todo[t]), Tail(todo[t]), HeldBy(t), vals[t]) /\ Head(todo[t])[1] = "alloc" /\ c = Head(todo[t])[2]
    BY <1>1, <1>2, Doing
  <2>2. AtAlloc(c, Tail(todo[t]), HeldBy(t), vals[t])
    BY <2>1 DEF At
  <2>3. c \notin HeldBy(t)
    BY <1>2, SlubConstants DEF HeldBy
  <2> QED BY <2>2, <2>3, LockNumbers DEF AtAlloc
<1>7. CASE \E why : Fail(why)
  BY <1>7, FailHeap
<1>4. CASE ~ Empty(c) /\ ~ \E why : Fail(why)
  <2>1. TakeObject(t, c) /\ "alloc" \in {"alloc", "take"} /\ "alloc" # "take"
    BY <1>1, <1>4, TakeCases DEF Alloc
  <2> QED BY <1>1, <1>2, <1>3, <1>4, <2>1, TakeObjectHeap
<1>5. CASE Empty(c) /\ c = C16
  BY <1>1, <1>5, FailHeap DEF Alloc
<1>6. CASE Empty(c) /\ c # C16
  BY <1>1, <1>2, <1>6, GrowHeap DEF Alloc
<1> QED BY <1>4, <1>5, <1>6, <1>7

LEMMA TakeHeap == ASSUME LockInv, HeapInv, NEW t \in Thread, TakeAfterGrow(t) PROVE HeapInv'
<1>1. PICK c : c = Arg(t)
  OBVIOUS
<1>6. CASE \E why : Fail(why)
  BY <1>6, FailHeap
<1> SUFFICES ASSUME ~ \E why : Fail(why) PROVE HeapInv'
  BY <1>6
<1>2. Does(t, "take") /\ TakeObject(t, c)
  BY <1>1, TakeCases DEF TakeAfterGrow
<1>3. owner[c] = t /\ c \in (Size \ {C16}) \union {PT} /\ c # C16
  BY <1>1, <1>2, TakeHolds, Numbers
<1>4. ~ Empty(c)
  <2>1. Filed(c, "free") # {}
    <3>1. DoesNow(t, "take")
      BY <1>2 DEF DoesNow, Does, HeadOp
    <3> QED BY <1>1, <3>1 DEF HeapInv, ThreadsOk, TakesOk
  <2>2. Enumerates(lists[c]["free"], Filed(c, "free"))
    BY <1>3 DEF HeapInv, ListsOk
  <2>3. lists[c]["free"] # <<>>
    BY <2>1, <2>2, HeadOfList
  <2> QED BY <2>3 DEF Empty
<1>5. "take" \in {"alloc", "take"} /\ "take" # "alloc" /\ c \in Size \union {PT}
  BY <1>3
<1> QED BY <1>1, <1>2, <1>3, <1>4, <1>5, TakeObjectHeap

-----------------------------------------------------------------------------
(* Frames.                                                                 *)

LEMMA TakeFrameHeap == ASSUME LockInv, HeapInv, NEW t \in Thread, TakeFrame(t) PROVE HeapInv'
<1>1. PICK f, n : f = Min(1 .. NRam \ ram) /\ n = Len(vals[t]) + 1
  OBVIOUS
<1>2. Does(t, "ram")
  BY DEF TakeFrame
<1>3. CASE ram = 1 .. NRam
  BY <1>3, FailHeap DEF TakeFrame
<1>4. CASE ram # 1 .. NRam
  <2>1. /\ ram' = ram \union {f} /\ ram_map' = [ram_map EXCEPT ![f] = [lsize |-> {}, va |-> NoPt]]
        /\ owner' = [owner EXCEPT ![RAM] = NoThread] /\ Push(t, <<f>>) /\ Then(t, <<>>)
        /\ UNCHANGED <<memory, vm_areas, tables, live>>
    BY <1>1, <1>4 DEF TakeFrame
  <2>2. SlabsOk /\ FramesOk /\ TablesOk /\ MapsOk
    BY DEF HeapInv
  <2>3. f \in 1 .. NRam /\ f \notin ram /\ f \notin BootFrames
    <3>1. ram \subseteq 1 .. NRam /\ BootFrames \subseteq ram
      BY <2>2 DEF FramesOk
    <3>2. f \in 1 .. NRam \ ram
      BY <1>1, <1>4, <3>1, FreeFrameThere
    <3> QED BY <3>1, <3>2
  <2>4. \A x \in 1 .. NRam : ram_map'[x] = IF x = f THEN [lsize |-> {}, va |-> NoPt] ELSE ram_map[x]
    BY <2>1, <2>2, <2>3 DEF FramesOk
  <2>5. UNCHANGED <<slabs, lists, slub_16byte_free, whole, ptes, pd>>
    BY <2>1 DEF memory, tables
  <2>6. SlabsOk' /\ ListsOk' /\ SameSlabs /\ \A a, l : Filed(a, l)' = Filed(a, l)
    BY <2>5, SlabsStay
  <2>7. \A m \in Mutexes : m # RAM => owner'[m] = owner[m]
    BY <2>1 DEF LockInv, Kept
  <2>8. owner'[C16] = owner[C16] /\ owner'[VM] = owner[VM]
    BY <2>7, LockNumbers
  <2>9. LowOk'
    BY <2>5, <2>8 DEF HeapInv, LowOk
  <2>10. TablesOk' /\ \A q : Fr(q)' = Fr(q)
    BY <2>1, <2>2, TablesStay
  <2>11. \A u, i, q : ValAt(u, i, q)' <=> ValAt(u, i, q) \/ (u = t /\ i = n /\ q = <<f>>)
    <3>1. vals' = [vals EXCEPT ![t] = Append(@, <<f>>)]
      BY <2>1 DEF Push
    <3> QED BY <1>1, <3>1, Pushed
  <2>12. FramesOk'
    <3>1. BootFrames \subseteq 1 .. NRam /\ 1 \in BootFrames /\ \A i \in Size : i + 2 \in BootFrames
      BY <2>2, Numbers DEF FramesOk, BootFrames
    <3>2. ram' \subseteq 1 .. NRam /\ BootFrames \subseteq ram'
      BY <2>1, <2>2, <2>3 DEF FramesOk
    <3>3. ram_map' = [x \in 1 .. NRam |-> ram_map'[x]]
      BY <2>1, <2>2 DEF FramesOk
    <3>4. \A x \in 1 .. NRam : ram_map'[x] = [lsize |-> ram_map'[x].lsize, va |-> ram_map'[x].va]
      BY <2>2, <2>4 DEF FramesOk
    <3>5. \A x \in BootFrames : ram_map'[x] = ram_map[x]
      BY <2>3, <2>4, <3>1
    <3>6. \A x \in 1 .. NRam : x \notin BootFrames =>
              /\ ram_map'[x].lsize = {} \/ WHOLE \in ram_map'[x].lsize
              /\ ram_map'[x].va # NoPt => WHOLE \in ram_map'[x].lsize
              /\ ram_map'[x].va \notin BootSlabs
      <4> SUFFICES ASSUME NEW x \in 1 .. NRam, x \notin BootFrames
                   PROVE  /\ ram_map'[x].lsize = {} \/ WHOLE \in ram_map'[x].lsize
                          /\ ram_map'[x].va # NoPt => WHOLE \in ram_map'[x].lsize
                          /\ ram_map'[x].va \notin BootSlabs
        OBVIOUS
      <4>1. CASE x = f
        <5>1. ram_map'[x].lsize = {} /\ ram_map'[x].va = NoPt
          BY <2>3, <2>4, <4>1
        <5>2. NoPt \notin BootSlabs
          BY Tuples DEF NoPt, BootSlabs, PtSl
        <5> QED BY <5>1, <5>2
      <4>2. CASE x # f
        BY <2>2, <2>4, <4>2 DEF FramesOk
      <4> QED BY <4>1, <4>2
    <3> QED BY <2>2, <3>1, <3>2, <3>3, <3>4, <3>5, <3>6 DEF FramesOk
  <2>13. (\A q : PageVal(q)' <=> PageVal(q)) /\ (\A x : FrameVal(x)' <=> FrameVal(x) \/ x = f)
         /\ (\A u, i, q : ValAt(u, i, <<q, -1>>)' <=> ValAt(u, i, <<q, -1>>))
         /\ (\A u, i, x : ValAt(u, i, <<x>>)' => ValAt(u, i, <<x>>) \/ x = f)
         /\ (\A u, i, x : ValAt(u, i, <<x>>) => ValAt(u, i, <<x>>)')
    BY <2>11, Tuples DEF PageVal, FrameVal
  <2>14. \A q : Tracked(q)' <=> Tracked(q)
    BY <2>6, <2>13, SlabPageSame DEF Tracked
  <2>15. \A q \in VA : Tracked(q) /\ Fr(q) # 0 => Fr(q) \in ram /\ Fr(q) # f /\ ram_map'[Fr(q)] = ram_map[Fr(q)]
    <3>1. \A q \in VA : Tracked(q) /\ Fr(q) # 0 => Fr(q) \in ram
      BY <2>2 DEF MapsOk, FramesUsed
    <3>2. ram \subseteq 1 .. NRam
      BY <2>2 DEF FramesOk
    <3> QED BY <2>3, <2>4, <3>1, <3>2
  <2>16. \A d \in DOMAIN ptes : ram_map'[d[1]] = ram_map[d[1]] /\ d[1] # f
    <3>1. \A d \in DOMAIN ptes : d[1] \in ram /\ d[1] \in 1 .. NRam
      BY <2>2 DEF MapsOk, TableFrames, TablesOk, PtesOk
    <3> QED BY <2>3, <2>4, <3>1
  <2>17. MapsOk'
    <3>1. OneFrame'
      BY <2>2, <2>10, <2>14 DEF MapsOk, OneFrame
    <3>2. FrameBeside'
      <4> SUFFICES ASSUME NEW q \in VA, Tracked(q)', Fr(q)' # 0, NEW u, NEW i, ValAt(u, i, <<Fr(q)>>)'
                   PROVE  ValAt(u, i - 1, <<q, -1>>)'
        BY DEF FrameBeside
      <4>1. PICK g : g = Fr(q)
        OBVIOUS
      <4>2. Tracked(q) /\ Fr(q) # 0 /\ g # f /\ ValAt(u, i, <<g>>)'
        BY <2>10, <2>14, <2>15, <4>1
      <4>3. ValAt(u, i, <<g>>)
        BY <2>13, <4>2
      <4>4. ValAt(u, i - 1, <<q, -1>>)
        BY <2>2, <4>1, <4>2, <4>3 DEF MapsOk, FrameBeside
      <4> QED BY <2>13, <4>4
    <3>3. FramesUsed'
      <4>1. \A x : FrameVal(x)' => x \in ram' \ BootFrames
        BY <2>1, <2>2, <2>3, <2>13 DEF MapsOk, FramesUsed
      <4>2. \A q \in VA : Tracked(q)' /\ Fr(q)' # 0 =>
               Fr(q)' \in ram' /\ (Fr(q)' \in BootFrames => \E i \in Size : q = BootPage(i))
        BY <2>1, <2>2, <2>10, <2>14 DEF MapsOk, FramesUsed
      <4> QED BY <4>1, <4>2 DEF FramesUsed
    <3>4. WholeFirst'
      <4> SUFFICES ASSUME NEW u, NEW i, NEW q \in VA, ValAt(u, i, <<q, -1>>)', Fr(q)' # 0
                   PROVE  WHOLE \in ram_map'[Fr(q)'].lsize \/ ValAt(u, i + 1, <<Fr(q)>>)'
        BY DEF WholeFirst
      <4>1. PICK g : g = Fr(q)
        OBVIOUS
      <4>2. ValAt(u, i, <<q, -1>>) /\ Fr(q) # 0 /\ Fr(q)' = g
        BY <2>10, <2>13, <4>1
      <4>3. Tracked(q)
        BY <4>2 DEF Tracked, PageVal
      <4>4. WHOLE \in ram_map[g].lsize \/ ValAt(u, i + 1, <<g>>)
        BY <2>2, <4>1, <4>2 DEF MapsOk, WholeFirst
      <4>5. WHOLE \in ram_map'[g].lsize \/ ValAt(u, i + 1, <<g>>)'
        BY <2>13, <2>15, <4>1, <4>2, <4>3, <4>4
      <4> QED BY <4>2, <4>5
    <3>5. Leads'
      <4> SUFFICES ASSUME NEW sl \in DOMAIN slabs, slabs[sl].page \in VA, Fr(slabs[sl].page)' # 0
                   PROVE  ram_map'[Fr(slabs[sl].page)'].va = sl
        BY <2>5 DEF Leads
      <4>1. PICK p : p = slabs'[sl].page
        OBVIOUS
      <4>2. p = slabs[sl].page /\ p \in VA /\ Fr(p)' # 0 /\ Tracked(p)
        BY <2>5, <4>1 DEF Tracked, SlabPage
      <4>3. Fr(p)' = Fr(p) /\ Fr(p) # 0
        BY <2>10, <4>2
      <4>4. ram_map[Fr(p)].va = sl
        BY <2>2, <4>2, <4>3 DEF MapsOk, Leads
      <4>5. ram_map'[Fr(p)] = ram_map[Fr(p)]
        BY <2>15, <4>2, <4>3
      <4> QED BY <4>1, <4>3, <4>4, <4>5
    <3>6. TableFrames'
      <4> SUFFICES ASSUME NEW d \in DOMAIN ptes
                   PROVE  /\ d[1] \in ram' /\ ~ FrameVal(d[1])'
                          /\ ram_map'[d[1]].va \in DOMAIN slabs /\ slabs[ram_map'[d[1]].va].size = PT
                          /\ \A q \in VA : Tracked(q)' /\ Fr(q)' = d[1] => q = slabs[ram_map'[d[1]].va].page
        BY <2>5 DEF TableFrames
      <4>1. /\ d[1] \in ram /\ ~ FrameVal(d[1])
            /\ ram_map[d[1]].va \in DOMAIN slabs /\ slabs[ram_map[d[1]].va].size = PT
            /\ \A q \in VA : Tracked(q) /\ Fr(q) = d[1] => q = slabs[ram_map[d[1]].va].page
        BY <2>2 DEF MapsOk, TableFrames
      <4> QED BY <2>1, <2>10, <2>13, <2>14, <2>16, <4>1
    <3> QED BY <3>1, <3>2, <3>3, <3>4, <3>5, <3>6 DEF MapsOk
  <2>18. TokensOk' /\ \A q : Held(q)' <=> Held(q) \/ q = <<f>>
    <3>1. ~ Held(<<f>>)
      <4> SUFFICES ASSUME NEW k, NEW a, NEW b, Has(k, a, b, <<f>>) PROVE FALSE
        BY DEF Held
      <4>1. k # "val"
        <5>1. k = "val" => FrameVal(f)
          BY DEF Has, FrameVal
        <5> QED BY <2>2, <2>3, <5>1 DEF MapsOk, FramesUsed
      <4>2. k # "live"
        <5> SUFFICES ASSUME <<<<f>>, a>> \in live PROVE FALSE
          BY DEF Has
        <5>1. PICK o : o = <<<<f>>, a>>
          OBVIOUS
        <5>2. o \in live /\ o[1] = <<f>>
          BY <5>1
        <5>3. IsPage(<<f>>) \/ IsObj(<<f>>)
          BY <5>2 DEF HeapInv, LiveOk
        <5> QED BY <5>3, Tuples DEF IsPage, IsObj
      <4>3. k # "slab"
        <5>1. <<f>> \notin DOMAIN slabs
          <6>1. <<f>> \in DOMAIN slabs => <<f>> = PtSl \/ IsStruct(<<f>>)
            BY <2>2, SlabFacts
          <6> QED BY <6>1, Tuples DEF PtSl, IsStruct
        <5> QED BY <5>1 DEF Has
      <4>4. k # "seg" /\ k # "whole"
        BY Tuples DEF Has, HeapInv, StructsOk, IsStruct
      <4>5. k # "pt" /\ k # "free"
        BY Tuples DEF Has, PtObject, OnChain
      <4> QED BY <4>1, <4>2, <4>3, <4>4, <4>5 DEF Has
    <3>2. \A d \in DOMAIN ptes : PtObject(d)' = PtObject(d)
      <4>1. \A d \in DOMAIN ptes : ram_map'[d[1]].va = ram_map[d[1]].va
        BY <2>16
      <4> QED BY <2>6, <4>1, TablesObjects
    <3>3. OtherSame
      <4> SUFFICES ASSUME NEW k, NEW a, NEW b, NEW q, k # "val"
                   PROVE  Has(k, a, b, q)' <=> Has(k, a, b, q)
        BY DEF OtherSame
      <4> QED BY <2>1, <2>5, <3>2 DEF Has, OnChain, IsSeg
    <3>4. MovedTo(<<f>>, "val", t, n)
      BY <1>1, <2>1, <3>1, <3>3, PushAdded
    <3>5. ~ Object(<<f>>)
      BY Tuples DEF Object
    <3>6. \A q \in VA, k \in Nat : PageVal(q)' /\ ~ PageVal(q) => ~ Held(<<q, k>>)
      BY <2>13
    <3> QED BY <2>6, <3>1, <3>4, <3>5, <3>6, TokensAdded
  <2>19. SameOthers(t)
    BY <2>1, OnlyMine DEF SameOthers, LockInv
  <2>20. KnownOk'
    <3>1. \A q \in VA : Used(q)' => Used(q)
      <4>1. \A q, k : <<q, k>> # <<f>>
        BY Tuples
      <4> QED BY <2>10, <2>18, <4>1 DEF Used
    <3>2. \A q : Pending(q) => Pending(q)'
      <4>1. owner[VM] = t => owner[C16] # t /\ HeadOp(t) \notin {"alloc", "seg"}
        BY <1>2, NotHolding
      <4> QED BY <2>8, <2>19, <4>1, PendingStays
    <3> QED BY <2>1, <3>1, <3>2, KnownStays DEF HeapInv
  <2>21. ThreadsOk'
    <3>1. Begins(Tail(todo[t]), {"map"})
      BY <1>2, StepFacts DEF After
    <3>2. {"map"} \intersect Acting = {} /\ "ram" # "alloc"
      BY DEF Acting
    <3>3. NowOk(t)'
      BY <1>2, <2>1, <3>1, <3>2, QuietNext
    <3> QED BY <2>6, <2>19, <3>3, ThreadsFollow
  <2>22. LiveOk' /\ StructsOk'
    <3>1. LiveOk /\ StructsOk /\ live' \subseteq live
      BY <2>1 DEF HeapInv
    <3> QED BY <2>1, <2>5, <2>6, <3>1, LiveStays, StructsSame
  <2> QED BY <2>6, <2>9, <2>10, <2>12, <2>17, <2>18, <2>20, <2>21, <2>22 DEF HeapInv
<1> QED BY <1>3, <1>4
=============================================================================
