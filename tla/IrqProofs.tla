----------------------------- MODULE IrqProofs -----------------------------
(***************************************************************************)
(* Proofs about module IrqLevels, for every set of threads, every number   *)
(* of soft and sched IRQs and any nesting.                                 *)
(*                                                                         *)
(* The inductive invariant IInv speaks of the frames of a thread as its    *)
(* counters see them (View, which is FramesOf): between the two halves of  *)
(* a switch what runs on the new stack still belongs to the old thread.    *)
(* With it a step of the frame that runs is a step at the end of one       *)
(* sequence of frames, wherever a switch stands.                           *)
(***************************************************************************)
EXTENDS IrqLevels, Integers, FiniteSetsExt, SequenceTheorems, FiniteSetTheorems, WellFoundedInduction, TLAPS

-----------------------------------------------------------------------------
(* Induction over the naturals, stated for a set: the induction theorems   *)
(* of the library take an operator, which the provers cannot instantiate,  *)
(* but that < is well founded on Nat is a statement about sets.            *)

\* A set of naturals that is not empty has a least element.
LEMMA LeastOf ==
    ASSUME NEW S \in SUBSET Nat, S # {}
    PROVE  Min(S) \in S /\ \A y \in S : Min(S) <= y
<1>1. \E x \in S : \A y \in S : ~ <<y, x>> \in OpToRel(<, Nat)
  <2> DEFINE R == OpToRel(<, Nat)
  <2>1. IsWellFoundedOn(R, Nat)
    BY NatLessThanWellFounded
  <2> HIDE DEF R
  <2>3. \E x \in S : \A y \in S : ~ <<y, x>> \in R
    BY <2>1, WFMin
  <2> QED BY <2>3 DEF R
<1>2. PICK x \in S : \A y \in S : ~ (y < x)
  BY <1>1 DEF OpToRel
<1>3. \A y \in S : x <= y
  BY <1>2
<1> QED BY <1>3 DEF Min

\* A set that has 0, and n + 1 when it has n, has every natural.
LEMMA NatInduct ==
    ASSUME NEW S \in SUBSET Nat, 0 \in S, \A n \in S : n + 1 \in S
    PROVE  S = Nat
<1> SUFFICES ASSUME Nat \ S # {} PROVE FALSE
  OBVIOUS
<1>1. PICK x \in Nat \ S : \A y \in Nat \ S : x <= y
  <2> DEFINE T == Nat \ S
  <2>1. T \in SUBSET Nat /\ T # {}
    OBVIOUS
  <2> HIDE DEF T
  <2>2. Min(T) \in T /\ \A y \in T : Min(T) <= y
    BY <2>1, LeastOf
  <2> QED BY <2>2 DEF T
<1>2. x - 1 \in Nat /\ x - 1 < x /\ (x - 1) + 1 = x
  BY <1>1
<1>3. x - 1 \in S
  BY <1>1, <1>2
<1> QED BY <1>1, <1>2, <1>3

\* What is true of 0, and of n + 1 when it is of n, up to N.
LEMMA UpTo ==
    ASSUME NEW N \in Nat, NEW S, 0 \in S, \A n \in 0 .. N - 1 : n \in S => n + 1 \in S
    PROVE  0 .. N \subseteq S
<1> DEFINE T == {n \in Nat : n <= N => n \in S}
<1>1. T = Nat
  <2>1. 0 \in T
    OBVIOUS
  <2>2. \A n \in T : n + 1 \in T
    OBVIOUS
  <2>3. T \in SUBSET Nat
    OBVIOUS
  <2> HIDE DEF T
  <2> QED BY <2>1, <2>2, <2>3, NatInduct
<1> QED BY <1>1

-----------------------------------------------------------------------------
(* Totals.                                                                 *)

\* N members of d are naturals, and sum is their partial sums.
Naturals1(d, N) == \A i \in 1 .. N : d[i] \in Nat
SumOf(d, N, sum) == /\ \A i \in 0 .. N : sum[i] \in Nat
                    /\ sum[0] = 0
                    /\ \A i \in 1 .. N : sum[i] = sum[i - 1] + d[i]

\* The partial sums that Total defines by recursion exist.
LEMMA SumExists ==
    ASSUME NEW N \in Nat, NEW d, Naturals1(d, N)
    PROVE  \E sum : SumOf(d, N, sum) /\ Total(d, N) = sum[N]
<1> USE DEF Naturals1
<1> DEFINE Eqn(g, n) == g = [i \in 0 .. n |-> IF i = 0 THEN 0 ELSE g[i - 1] + d[i]]
           Has(n) == \E g : Eqn(g, n)
           S == {n \in Nat : Has(n)}
<1>1. 0 \in S
  <2>1. Eqn([i \in 0 .. 0 |-> 0], 0)
    OBVIOUS
  <2>2. Has(0)
    BY <2>1
  <2> HIDE DEF Has
  <2> QED BY <2>2
<1>2. ASSUME NEW n \in Nat, n \in S PROVE n + 1 \in S
  <2>1. Has(n)
    <3> HIDE DEF Has
    <3> QED BY <1>2
  <2>2. PICK g : Eqn(g, n)
    BY <2>1
  <2> DEFINE h == [i \in 0 .. n + 1 |-> IF i = n + 1 THEN g[n] + d[n + 1] ELSE g[i]]
  <2>3. ASSUME NEW i \in 0 .. n + 1
        PROVE  h[i] = IF i = 0 THEN 0 ELSE h[i - 1] + d[i]
    <3>1. CASE i = n + 1
      BY <3>1
    <3>2. CASE i \in 1 .. n
      <4>1. g[i] = g[i - 1] + d[i]
        BY <2>2, <3>2
      <4> QED BY <3>2, <4>1
    <3>3. CASE i = 0
      <4>1. g[0] = 0
        BY <2>2
      <4> QED BY <3>3, <4>1
    <3> QED BY <3>1, <3>2, <3>3
  <2>4. Eqn(h, n + 1)
    <3>1. h = [i \in 0 .. n + 1 |-> h[i]]
      OBVIOUS
    <3> HIDE DEF h
    <3> QED BY <2>3, <3>1
  <2>5. Has(n + 1)
    <3> HIDE DEF h
    <3> QED BY <2>4
  <2> HIDE DEF Has
  <2> QED BY <2>5
<1>3. S = Nat
  <2>1. S \in SUBSET Nat
    <3> HIDE DEF Has
    <3> QED OBVIOUS
  <2>2. \A n \in S : n + 1 \in S
    <3> HIDE DEF S
    <3> QED BY <1>2, <2>1
  <2> HIDE DEF S
  <2> QED BY <1>1, <2>1, <2>2, NatInduct
<1>4. Has(N)
  <2> HIDE DEF Has
  <2> QED BY <1>3
<1> DEFINE sum == CHOOSE f : Eqn(f, N)
<1>5. Eqn(sum, N)
  BY <1>4
<1>6. Total(d, N) = sum[N]
  BY DEF Total
<1> HIDE DEF sum
<1>7. sum[0] = 0 /\ \A i \in 1 .. N : sum[i] = sum[i - 1] + d[i]
  <2>1. sum[0] = 0
    BY <1>5
  <2>2. ASSUME NEW i \in 1 .. N PROVE sum[i] = sum[i - 1] + d[i]
    <3>1. i \in 0 .. N /\ i # 0
      OBVIOUS
    <3> QED BY <1>5, <3>1
  <2> QED BY <2>1, <2>2
<1>8. \A i \in 0 .. N : sum[i] \in Nat
  <2> DEFINE T == {n \in 0 .. N : sum[n] \in Nat}
  <2>1. 0 \in T
    BY <1>7
  <2>2. ASSUME NEW n \in 0 .. N - 1, n \in T PROVE n + 1 \in T
    <3>1. n + 1 \in 1 .. N /\ (n + 1) - 1 = n
      OBVIOUS
    <3>2. sum[n + 1] = sum[n] + d[n + 1] /\ d[n + 1] \in Nat /\ sum[n] \in Nat
      BY <1>7, <2>2, <3>1
    <3> QED BY <3>1, <3>2
  <2>3. 0 .. N \subseteq T
    <3> HIDE DEF T
    <3> QED BY <2>1, <2>2, UpTo
  <2> QED BY <2>3
<1> QED BY <1>6, <1>7, <1>8 DEF SumOf

\* Partial sums from a place on.
LEMMA SumsAgree ==
    ASSUME NEW N \in Nat, NEW M \in Nat, NEW k \in Nat, NEW d, NEW e, NEW s, NEW u,
           k + M <= N, Naturals1(d, N), Naturals1(e, M), SumOf(d, N, s), SumOf(e, M, u),
           \A i \in 1 .. M : d[k + i] = e[i]
    PROVE  s[k + M] = s[k] + u[M]
<1> USE DEF Naturals1, SumOf
<1> DEFINE S == {n \in 0 .. M : s[k + n] = s[k] + u[n]}
<1>1. 0 \in S
  <2>1. u[0] = 0 /\ s[k] \in Nat
    OBVIOUS
  <2> QED BY <2>1
<1>2. ASSUME NEW n \in 0 .. M - 1, n \in S PROVE n + 1 \in S
  <2>1. /\ (k + (n + 1)) - 1 = k + n /\ (n + 1) - 1 = n /\ n \in 0 .. M /\ n + 1 \in 1 .. M
        /\ k + (n + 1) \in 1 .. N /\ k + n \in 0 .. N /\ k \in 0 .. N
    OBVIOUS
  <2>2. s[k + (n + 1)] = s[k + n] + d[k + (n + 1)] /\ u[n + 1] = u[n] + e[n + 1]
    BY <2>1
  <2>3. /\ d[k + (n + 1)] = e[n + 1] /\ e[n + 1] \in Nat
        /\ s[k + n] \in Nat /\ u[n] \in Nat /\ s[k] \in Nat
    BY <2>1
  <2>4. s[k + n] = s[k] + u[n]
    BY <1>2
  <2>5. s[k + (n + 1)] = s[k] + u[n + 1]
    BY <2>2, <2>3, <2>4
  <2> QED BY <2>1, <2>5
<1>3. 0 .. M \subseteq S
  <2> HIDE DEF S
  <2> QED BY <1>1, <1>2, UpTo
<1> QED BY <1>3

\* A total is that of what comes before a place and that of what comes after.
LEMMA TotalSplit ==
    ASSUME NEW N \in Nat, NEW k \in 0 .. N, NEW d, NEW a, NEW b, Naturals1(d, N),
           \A i \in 1 .. k : a[i] = d[i],
           \A i \in 1 .. N - k : b[i] = d[k + i]
    PROVE  /\ Total(d, N) = Total(a, k) + Total(b, N - k)
           /\ Total(a, k) \in Nat /\ Total(b, N - k) \in Nat
<1>1. N - k \in Nat /\ k \in Nat /\ k + (N - k) = N /\ 0 + k = k
  OBVIOUS
<1>2. Naturals1(a, k) /\ Naturals1(b, N - k)
  BY DEF Naturals1
<1>3. PICK s : SumOf(d, N, s) /\ Total(d, N) = s[N]
  BY SumExists
<1>4. PICK u : SumOf(a, k, u) /\ Total(a, k) = u[k]
  BY <1>1, <1>2, SumExists
<1>5. PICK v : SumOf(b, N - k, v) /\ Total(b, N - k) = v[N - k]
  BY <1>1, <1>2, SumExists
<1>6. s[0 + k] = s[0] + u[k]
  <2>1. 0 + k <= N /\ \A i \in 1 .. k : d[0 + i] = a[i]
    OBVIOUS
  <2> QED BY <1>1, <1>2, <1>3, <1>4, <2>1, SumsAgree
<1>7. s[k + (N - k)] = s[k] + v[N - k]
  <2>1. k + (N - k) <= N /\ \A i \in 1 .. N - k : d[k + i] = b[i]
    OBVIOUS
  <2> QED BY <1>1, <1>2, <1>3, <1>5, <2>1, SumsAgree
<1>8. s[0] = 0 /\ u[k] \in Nat /\ v[N - k] \in Nat
  BY <1>1, <1>3, <1>4, <1>5 DEF SumOf
<1> QED BY <1>1, <1>3, <1>4, <1>5, <1>6, <1>7, <1>8

\* Where only the members p and q are not 0, the total is theirs.
LEMMA TotalOfTwo ==
    ASSUME NEW N \in Nat, NEW d, Naturals1(d, N), NEW p \in 1 .. N, NEW q \in 1 .. N,
           \A i \in 1 .. N : i # p /\ i # q => d[i] = 0
    PROVE  Total(d, N) = IF p = q THEN d[p] ELSE d[p] + d[q]
<1>1. PICK s : SumOf(d, N, s) /\ Total(d, N) = s[N]
  BY SumExists
<1> DEFINE Of(r, n) == IF r <= n THEN d[r] ELSE 0
           S == {n \in 0 .. N : s[n] = IF p = q THEN Of(p, n) ELSE Of(p, n) + Of(q, n)}
<1>2. d[p] \in Nat /\ d[q] \in Nat
  BY DEF Naturals1
<1>3. 0 \in S
  BY <1>1 DEF SumOf
<1>4. ASSUME NEW n \in 0 .. N - 1, n \in S PROVE n + 1 \in S
  <2>1. n + 1 \in 1 .. N /\ (n + 1) - 1 = n
    OBVIOUS
  <2>2. s[n + 1] = s[n] + d[n + 1]
    BY <1>1, <2>1 DEF SumOf
  <2>3. n + 1 # p /\ n + 1 # q => d[n + 1] = 0
    BY <2>1
  <2>4. s[n] = IF p = q THEN Of(p, n) ELSE Of(p, n) + Of(q, n)
    BY <1>4
  <2>5. s[n + 1] = IF p = q THEN Of(p, n + 1) ELSE Of(p, n + 1) + Of(q, n + 1)
    BY <1>2, <2>1, <2>2, <2>3, <2>4
  <2> QED BY <2>1, <2>5
<1>5. 0 .. N \subseteq S
  <2> HIDE DEF S
  <2> QED BY <1>3, <1>4, UpTo
<1>6. s[N] = IF p = q THEN Of(p, N) ELSE Of(p, N) + Of(q, N)
  BY <1>5
<1> QED BY <1>1, <1>6

\* No two members come to more than the total.
LEMMA TotalBounds ==
    ASSUME NEW N \in Nat, NEW d, Naturals1(d, N), NEW p \in 1 .. N, NEW q \in 1 .. N
    PROVE  d[p] <= Total(d, N) /\ (p # q => d[p] + d[q] <= Total(d, N))
<1>1. PICK s : SumOf(d, N, s) /\ Total(d, N) = s[N]
  BY SumExists
<1> DEFINE Of(r, n) == IF r <= n THEN d[r] ELSE 0
           S == {n \in 0 .. N : /\ Of(p, n) <= s[n]
                                /\ p # q => Of(p, n) + Of(q, n) <= s[n]}
<1>2. d[p] \in Nat /\ d[q] \in Nat
  BY DEF Naturals1
<1>3. 0 \in S
  BY <1>1 DEF SumOf
<1>4. ASSUME NEW n \in 0 .. N - 1, n \in S PROVE n + 1 \in S
  <2>1. n + 1 \in 1 .. N /\ (n + 1) - 1 = n /\ n \in 0 .. N
    OBVIOUS
  <2>2. /\ s[n + 1] = s[n] + d[n + 1]
        /\ s[n] \in Nat /\ d[n + 1] \in Nat
    BY <1>1, <2>1 DEF SumOf, Naturals1
  <2>3. Of(p, n) <= s[n] /\ (p # q => Of(p, n) + Of(q, n) <= s[n])
    BY <1>4
  <2>4. Of(p, n + 1) <= s[n + 1] /\ (p # q => Of(p, n + 1) + Of(q, n + 1) <= s[n + 1])
    BY <1>2, <2>1, <2>2, <2>3
  <2> QED BY <2>1, <2>4
<1>5. 0 .. N \subseteq S
  <2> HIDE DEF S
  <2> QED BY <1>3, <1>4, UpTo
<1>6. Of(p, N) <= s[N] /\ (p # q => Of(p, N) + Of(q, N) <= s[N])
  BY <1>5
<1> QED BY <1>1, <1>6

\* Adding one member.
LEMMA TotalAppend ==
    ASSUME NEW N \in Nat, NEW d, NEW a, Naturals1(d, N + 1), \A i \in 1 .. N : a[i] = d[i]
    PROVE  Total(d, N + 1) = Total(a, N) + d[N + 1] /\ Total(a, N) \in Nat
<1> DEFINE b == [i \in 1 .. 1 |-> d[N + 1]]
           M == N + 1
<1>1. /\ Total(d, M) = Total(a, N) + Total(b, M - N)
      /\ Total(a, N) \in Nat /\ Total(b, M - N) \in Nat
  <2>1. M \in Nat /\ N \in 0 .. M /\ Naturals1(d, M)
    OBVIOUS
  <2>2. \A i \in 1 .. M - N : b[i] = d[N + i]
    OBVIOUS
  <2> HIDE DEF b, M
  <2> QED BY <2>1, <2>2, TotalSplit
<1>2. Total(b, 1) = b[1]
  <2>1. Naturals1(b, 1)
    BY DEF Naturals1
  <2>2. 1 \in 1 .. 1 /\ \A i \in 1 .. 1 : i # 1 /\ i # 1 => b[i] = 0
    OBVIOUS
  <2> HIDE DEF b
  <2> QED BY <2>1, <2>2, TotalOfTwo
<1>3. b[1] = d[M] /\ M - N = 1 /\ M = N + 1
  OBVIOUS
<1> HIDE DEF b, M
<1> QED BY <1>1, <1>2, <1>3

-----------------------------------------------------------------------------
(* Stacks.                                                                 *)

\* The last frame of a stack and those below it.
LEMMA FrontLast ==
    ASSUME NEW S, NEW s \in Seq(S), s # <<>>
    PROVE  /\ Len(s) \in Nat \ {0}
           /\ Last(s) = s[Len(s)] /\ Last(s) \in S
           /\ Front(s) \in Seq(S) /\ Len(Front(s)) = Len(s) - 1
           /\ \A i \in 1 .. Len(s) - 1 : Front(s)[i] = s[i]
<1>1. Len(s) \in Nat \ {0} /\ \A i \in 1 .. Len(s) : s[i] \in S
  BY EmptySeq, ElementOfSeq
<1>2. /\ Front(s) \in Seq(S)
      /\ Len(Front(s)) = IF 1 <= Len(s) - 1 THEN (Len(s) - 1) - 1 + 1 ELSE 0
      /\ \A i \in 1 .. (Len(s) - 1) - 1 + 1 : Front(s)[i] = s[1 + i - 1]
  <2>1. \A i \in 1 .. Len(s) - 1 : s[i] \in S
    BY <1>1
  <2> QED BY <1>1, <2>1, SubSeqProperties DEF Front
<1>3. Len(Front(s)) = Len(s) - 1
  <2> DEFINE n == Len(s)
             m == Len(Front(s))
  <2>1. n \in Nat \ {0} /\ m = IF 1 <= n - 1 THEN (n - 1) - 1 + 1 ELSE 0
    BY <1>1, <1>2
  <2> HIDE DEF n, m
  <2>2. m = n - 1
    BY <2>1
  <2> QED BY <2>2 DEF n, m
<1>4. \A i \in 1 .. Len(s) - 1 : Front(s)[i] = s[i]
  <2> SUFFICES ASSUME NEW i \in 1 .. Len(s) - 1 PROVE Front(s)[i] = s[i]
    OBVIOUS
  <2>1. i \in 1 .. (Len(s) - 1) - 1 + 1 /\ 1 + i - 1 = i
    BY <1>1
  <2> QED BY <1>2, <2>1
<1> QED BY <1>1, <1>2, <1>3, <1>4 DEF Last

\* Tuples as concatenations.
LEMMA PairForm == ASSUME NEW f, NEW g PROVE <<f>> \o <<g>> = <<f, g>>
<1> DEFINE S == {f, g}
           t == <<f>> \o <<g>>
<1>1. <<f>> \in Seq(S) /\ <<g>> \in Seq(S) /\ <<f, g>> \in Seq(S)
  OBVIOUS
<1>2. t \in Seq(S) /\ Len(t) = 2 /\ t[1] = f /\ t[2] = g
  <2>1. Len(<<f>>) = 1 /\ Len(<<g>>) = 1 /\ <<f>>[1] = f /\ <<g>>[1] = g
    OBVIOUS
  <2>2. /\ t \in Seq(S) /\ Len(t) = Len(<<f>>) + Len(<<g>>)
        /\ \A i \in 1 .. Len(<<f>>) + Len(<<g>>) :
              t[i] = IF i <= Len(<<f>>) THEN <<f>>[i] ELSE <<g>>[i - Len(<<f>>)]
    BY <1>1, ConcatProperties
  <2> QED BY <2>1, <2>2
<1> HIDE DEF t, S
<1>3. \A i \in 1 .. Len(t) : t[i] = <<f, g>>[i]
  BY <1>2
<1>4. Len(t) = Len(<<f, g>>)
  BY <1>2
<1>5. t = <<f, g>>
  BY <1>1, <1>2, <1>3, <1>4, SeqEqual
<1> QED BY <1>5 DEF t

LEMMA TripleForm == ASSUME NEW f, NEW g, NEW h PROVE <<f, g>> \o <<h>> = <<f, g, h>>
<1> DEFINE S == {f, g, h}
           t == <<f, g>> \o <<h>>
<1>1. <<f, g>> \in Seq(S) /\ <<h>> \in Seq(S) /\ <<f, g, h>> \in Seq(S)
  OBVIOUS
<1>2. t \in Seq(S) /\ Len(t) = 3 /\ t[1] = f /\ t[2] = g /\ t[3] = h
  <2>1. /\ Len(<<f, g>>) = 2 /\ Len(<<h>>) = 1
        /\ <<f, g>>[1] = f /\ <<f, g>>[2] = g /\ <<h>>[1] = h
    OBVIOUS
  <2>2. /\ t \in Seq(S) /\ Len(t) = Len(<<f, g>>) + Len(<<h>>)
        /\ \A i \in 1 .. Len(<<f, g>>) + Len(<<h>>) :
              t[i] = IF i <= Len(<<f, g>>) THEN <<f, g>>[i] ELSE <<h>>[i - Len(<<f, g>>)]
    BY <1>1, ConcatProperties
  <2> QED BY <2>1, <2>2
<1> HIDE DEF t, S
<1>3. \A i \in 1 .. Len(t) : t[i] = <<f, g, h>>[i]
  BY <1>2
<1>4. Len(t) = Len(<<f, g, h>>)
  BY <1>2
<1>5. t = <<f, g, h>>
  BY <1>1, <1>2, <1>3, <1>4, SeqEqual
<1> QED BY <1>5 DEF t

\* What Become(fs) puts in place of the last frame.
LEMMA JoinForms ==
    ASSUME NEW S, NEW s \in Seq(S), NEW f \in S, NEW g \in S, NEW h \in S
    PROVE  /\ s \o <<>> = s
           /\ s \o <<f>> = Append(s, f)
           /\ s \o <<f, g>> = Append(Append(s, f), g)
           /\ s \o <<f, g, h>> = Append(Append(Append(s, f), g), h)
<1>1. s \o <<>> = s
  BY ConcatEmptySeq
<1>2. /\ Append(s, f) \in Seq(S) /\ Append(Append(s, f), g) \in Seq(S)
      /\ <<f>> \in Seq(S) /\ <<g>> \in Seq(S) /\ <<h>> \in Seq(S)
      /\ <<f, g>> \in Seq(S)
  BY AppendProperties
<1>3. s \o <<f>> = Append(s, f)
  BY AppendIsConcat
<1>4. Append(Append(s, f), g) = s \o <<f, g>>
  <2>1. Append(Append(s, f), g) = (s \o <<f>>) \o <<g>>
    BY <1>2, <1>3, AppendIsConcat
  <2>2. (s \o <<f>>) \o <<g>> = s \o (<<f>> \o <<g>>)
    BY <1>2, ConcatAssociative
  <2>3. <<f>> \o <<g>> = <<f, g>>
    BY PairForm
  <2> QED BY <2>1, <2>2, <2>3
<1>5. Append(Append(Append(s, f), g), h) = s \o <<f, g, h>>
  <2>1. Append(Append(Append(s, f), g), h) = (s \o <<f, g>>) \o <<h>>
    BY <1>2, <1>4, AppendIsConcat
  <2>2. (s \o <<f, g>>) \o <<h>> = s \o (<<f, g>> \o <<h>>)
    BY <1>2, ConcatAssociative
  <2>3. <<f, g>> \o <<h>> = <<f, g, h>>
    BY TripleForm
  <2> QED BY <2>1, <2>2, <2>3
<1> QED BY <1>1, <1>3, <1>4, <1>5

LEMMA FrameFields ==
    ASSUME NEW f \in FrameType
    PROVE  f.soft \in Nat /\ f.sched \in Nat /\ f.soft <= MaxNest /\ f.sched <= MaxNest
BY IrqConstants DEF FrameType

\* What a stack holds, with one more frame on it.
LEMMA HeldAppend ==
    ASSUME NEW s \in Seq(FrameType), NEW f \in FrameType
    PROVE  /\ SoftHeld(s) \in Nat /\ SoftHeld(Append(s, f)) = SoftHeld(s) + f.soft
           /\ SchedHeld(s) \in Nat /\ SchedHeld(Append(s, f)) = SchedHeld(s) + f.sched
<1>1. /\ Append(s, f) \in Seq(FrameType)
      /\ Len(Append(s, f)) = Len(s) + 1 /\ Len(s) \in Nat
      /\ \A i \in 1 .. Len(s) : Append(s, f)[i] = s[i]
      /\ Append(s, f)[Len(s) + 1] = f
  BY AppendProperties, LenProperties
<1>2. \A i \in 1 .. Len(s) + 1 :
          Append(s, f)[i].soft \in Nat /\ Append(s, f)[i].sched \in Nat
  <2>1. \A i \in 1 .. Len(s) + 1 : Append(s, f)[i] \in FrameType
    BY <1>1, ElementOfSeq
  <2> QED BY <2>1, FrameFields
<1>3. SoftHeld(s) \in Nat /\ SoftHeld(Append(s, f)) = SoftHeld(s) + f.soft
  <2> DEFINE d == [i \in 1 .. Len(s) + 1 |-> Append(s, f)[i].soft]
             a == [i \in 1 .. Len(s) |-> s[i].soft]
  <2>1. Naturals1(d, Len(s) + 1)
    BY <1>2 DEF Naturals1
  <2>2. \A i \in 1 .. Len(s) : a[i] = d[i]
    BY <1>1
  <2>3. d[Len(s) + 1] = f.soft
    BY <1>1
  <2>4. SoftHeld(s) = Total(a, Len(s)) /\ SoftHeld(Append(s, f)) = Total(d, Len(s) + 1)
    BY <1>1 DEF SoftHeld
  <2> HIDE DEF a, d
  <2> QED BY <1>1, <2>1, <2>2, <2>3, <2>4, TotalAppend
<1>4. SchedHeld(s) \in Nat /\ SchedHeld(Append(s, f)) = SchedHeld(s) + f.sched
  <2> DEFINE d == [i \in 1 .. Len(s) + 1 |-> Append(s, f)[i].sched]
             a == [i \in 1 .. Len(s) |-> s[i].sched]
  <2>1. Naturals1(d, Len(s) + 1)
    BY <1>2 DEF Naturals1
  <2>2. \A i \in 1 .. Len(s) : a[i] = d[i]
    BY <1>1
  <2>3. d[Len(s) + 1] = f.sched
    BY <1>1
  <2>4. SchedHeld(s) = Total(a, Len(s)) /\ SchedHeld(Append(s, f)) = Total(d, Len(s) + 1)
    BY <1>1 DEF SchedHeld
  <2> HIDE DEF a, d
  <2> QED BY <1>1, <2>1, <2>2, <2>3, <2>4, TotalAppend
<1> QED BY <1>3, <1>4

LEMMA HeldNat ==
    ASSUME NEW s \in Seq(FrameType), s # <<>>
    PROVE  SoftHeld(s) \in Nat /\ SchedHeld(s) \in Nat
<1>1. PICK r \in Seq(FrameType), f \in FrameType : s = Append(r, f)
  BY SequenceEmptyOrAppend
<1> QED BY <1>1, HeldAppend, FrameFields

\* What two frames hold, the stack holds.
LEMMA HeldBounds ==
    ASSUME NEW s \in Seq(FrameType), NEW p \in 1 .. Len(s), NEW q \in 1 .. Len(s)
    PROVE  /\ s[p].soft \in Nat /\ s[p].soft <= SoftHeld(s)
           /\ p # q => s[p].soft + s[q].soft <= SoftHeld(s)
           /\ s[p].sched \in Nat /\ s[p].sched <= SchedHeld(s)
           /\ p # q => s[p].sched + s[q].sched <= SchedHeld(s)
<1>1. /\ Len(s) \in Nat
      /\ \A i \in 1 .. Len(s) : s[i].soft \in Nat /\ s[i].sched \in Nat
  BY LenProperties, ElementOfSeq, FrameFields
<1>2. s[p].soft <= SoftHeld(s) /\ (p # q => s[p].soft + s[q].soft <= SoftHeld(s))
  <2> DEFINE d == [i \in 1 .. Len(s) |-> s[i].soft]
  <2>1. Naturals1(d, Len(s)) /\ d[p] = s[p].soft /\ d[q] = s[q].soft
    BY <1>1 DEF Naturals1
  <2>2. SoftHeld(s) = Total(d, Len(s))
    BY DEF SoftHeld
  <2> HIDE DEF d
  <2> QED BY <1>1, <2>1, <2>2, TotalBounds
<1>3. s[p].sched <= SchedHeld(s) /\ (p # q => s[p].sched + s[q].sched <= SchedHeld(s))
  <2> DEFINE d == [i \in 1 .. Len(s) |-> s[i].sched]
  <2>1. Naturals1(d, Len(s)) /\ d[p] = s[p].sched /\ d[q] = s[q].sched
    BY <1>1 DEF Naturals1
  <2>2. SchedHeld(s) = Total(d, Len(s))
    BY DEF SchedHeld
  <2> HIDE DEF d
  <2> QED BY <1>1, <2>1, <2>2, TotalBounds
<1> QED BY <1>1, <1>2, <1>3

-----------------------------------------------------------------------------
(* The inductive invariant.                                                *)

\* The frame of a thread whose registers are saved, or that is yet to run.
Suspended(f) == f.pc \in {"switch", "fresh"}

\* What a frame can be, by its function.
ThreadFrame(f) ==
    /\ f.fn = "thread" /\ f.mask = {}
    /\ \/ f.pc = "fresh" /\ f.soft = 0 /\ f.sched = 0
       \/ f.pc = "code"
       \/ f.pc = "soft_dec" /\ f.soft > 0
       \/ f.pc = "sched_dec" /\ f.sched > 0 /\ f.soft = 0
       \/ f.pc \in {"schedule", "switch", "enable"} /\ f.sched = 1 /\ f.soft = 0

ExcptFrame(f) ==
    /\ f.fn = "excpt_irq" /\ f.mask = {} /\ f.soft = 1
    /\ \/ f.pc \in {"no_sched", "sched_dec"} /\ f.sched = 1
       \/ f.pc \in {"sched", "exit", "soft_dec"} /\ f.sched = 0

SoftIrqFrame(f) ==
    /\ f.fn = "irq_soft" /\ f.soft = 0 /\ f.sched = 0
    /\ f.pc = "fetch" \/ (f.pc = "run" /\ f.mask # {})

\* IRQ_SCHED_SCHEDULE is the last to run, and disables no soft IRQs itself.
SchedIrqFrame(f) ==
    /\ f.fn = "irq_sched" /\ f.sched = 0 /\ f.mask \subseteq SchedIrq
    /\ \/ f.pc \in {"fetch", "clear"} /\ f.soft = 0
       \/ f.pc = "run" /\ f.mask # {} /\ (f.mask = {IRQ_SCHED_SCHEDULE} => f.soft = 0)
       \/ /\ f.pc = "soft_dec" /\ f.soft > 0
          /\ f.mask # {} /\ f.mask # {IRQ_SCHED_SCHEDULE}
       \/ f.pc = "switch" /\ f.soft = 0 /\ f.mask = {IRQ_SCHED_SCHEDULE}

RaiseFrame(f) ==
    /\ f.fn = "irq_sched_raise" /\ f.pc = "store" /\ f.soft = 0 /\ f.sched = 0
    /\ f.mask \subseteq SchedIrq

FrameInv(f) ==
    /\ f \in FrameType
    /\ \/ ThreadFrame(f) \/ ExcptFrame(f) \/ SoftIrqFrame(f)
       \/ SchedIrqFrame(f) \/ RaiseFrame(f)

\* f, right under g, can have called g.
Calls(f, g) ==
    /\ g.fn = "irq_soft" => f.soft = 1
    /\ g.fn = "irq_sched" => /\ f.sched = 1
                             /\ \/ f.fn = "thread" /\ f.pc = "sched_dec"
                                \/ f.fn = "excpt_irq" /\ f.pc = "no_sched"
    /\ g.fn = "irq_sched_raise" =>
          \/ f.fn \in {"irq_sched", "irq_soft"} /\ f.pc = "run"
          \/ f.fn = "thread" /\ f.pc = "code" /\ f.sched > 0

\* f, somewhere under g but not the caller of g, holds nothing that would
\* have kept g from starting.
Under(f, g) ==
    /\ g.fn \in {"irq_soft", "excpt_irq"} => f.soft = 0
    /\ g.fn = "irq_sched" => f.sched = 0

\* How high in a stack of n frames frame i can be.
Placed(fs, i, n) ==
    /\ fs[i].fn = "irq_sched" => i = 2 \/ (i = 3 /\ fs[2].fn = "excpt_irq")
    /\ fs[i].fn = "excpt_irq" => i <= 4 /\ n <= i + 2
    /\ fs[i].fn = "irq_soft" => i <= 5 /\ n <= i + 1
    /\ i <= MaxFrames

StackInv(fs) ==
    /\ fs \in Seq(FrameType) /\ fs # <<>>
    /\ \A i \in 1 .. Len(fs) :
          FrameInv(fs[i]) /\ (fs[i].fn = "thread" <=> i = 1) /\ Placed(fs, i, Len(fs))
    /\ \A i, j \in 1 .. Len(fs) :
          /\ i + 1 = j => Calls(fs[i], fs[j])
          /\ i < j /\ (i + 1 # j \/ fs[j].fn = "excpt_irq") => Under(fs[i], fs[j])

InIrq(fs) == \E i \in 1 .. Len(fs) : fs[i].fn = "excpt_irq" /\ fs[i].pc # "soft_dec"

\* The counters a, b and e of a thread are those of its frames fs.
Match(fs, a, b, e) == /\ StackInv(fs)
                      /\ a = SoftHeld(fs) /\ b = SchedHeld(fs)
                      /\ e \in BOOLEAN /\ (e <=> InIrq(fs))

-----------------------------------------------------------------------------
(* A step at the end of a stack.                                           *)

\* A frame popped or replaced leaves these below it.
LEMMA FrontStack ==
    ASSUME NEW s, StackInv(s), Len(s) > 1
    PROVE  StackInv(Front(s))
<1> DEFINE r == Front(s)
<1>1. /\ Len(s) \in Nat \ {0} /\ r \in Seq(FrameType) /\ Len(r) = Len(s) - 1
      /\ \A i \in 1 .. Len(s) - 1 : r[i] = s[i]
  BY FrontLast DEF StackInv
<1>2. r # <<>>
  BY <1>1, EmptySeq
<1> HIDE DEF r
<1>3. ASSUME NEW i \in 1 .. Len(r)
      PROVE  FrameInv(r[i]) /\ (r[i].fn = "thread" <=> i = 1) /\ Placed(r, i, Len(r))
  <2>1. i \in 1 .. Len(s) /\ r[i] = s[i] /\ (i = 3 => r[2] = s[2])
    BY <1>1
  <2>2. FrameInv(s[i]) /\ (s[i].fn = "thread" <=> i = 1) /\ Placed(s, i, Len(s))
    BY <2>1 DEF StackInv
  <2>3. Placed(r, i, Len(r))
    BY <1>1, <2>1, <2>2 DEF Placed
  <2> QED BY <2>1, <2>2, <2>3
<1>4. ASSUME NEW i \in 1 .. Len(r), NEW j \in 1 .. Len(r)
      PROVE  /\ i + 1 = j => Calls(r[i], r[j])
             /\ i < j /\ (i + 1 # j \/ r[j].fn = "excpt_irq") => Under(r[i], r[j])
  <2>1. i \in 1 .. Len(s) /\ j \in 1 .. Len(s) /\ r[i] = s[i] /\ r[j] = s[j]
    BY <1>1
  <2> QED BY <2>1 DEF StackInv
<1>5. StackInv(r)
  BY <1>1, <1>2, <1>3, <1>4 DEF StackInv
<1> QED BY <1>5 DEF r

\* A frame g on top of the frames of s.
LEMMA TopOfStack ==
    ASSUME NEW s \in Seq(FrameType), NEW g, FrameInv(g), NEW n \in Nat, n = Len(s),
           s # <<>> => StackInv(s),
           g.fn = "thread" <=> n = 0,
           Placed(Append(s, g), n + 1, n + 1),
           \A i \in 1 .. n : /\ i = n => Calls(s[i], g)
                             /\ i < n \/ g.fn = "excpt_irq" => Under(s[i], g)
                             /\ s[i].fn = "excpt_irq" => n <= i + 1
                             /\ s[i].fn = "irq_soft" => n <= i
    PROVE  StackInv(Append(s, g))
<1> DEFINE r == Append(s, g)
<1>1. /\ r \in Seq(FrameType) /\ r # <<>> /\ Len(r) = n + 1
      /\ \A i \in 1 .. n : r[i] = s[i]
      /\ r[n + 1] = g
  BY AppendProperties DEF FrameInv
<1>2. n > 0 => StackInv(s)
  BY EmptySeq
<1>3. Placed(r, n + 1, n + 1)
  OBVIOUS
<1> HIDE DEF r
<1>4. ASSUME NEW i \in 1 .. Len(r)
      PROVE  FrameInv(r[i]) /\ (r[i].fn = "thread" <=> i = 1) /\ Placed(r, i, Len(r))
  <2>1. CASE i = n + 1
    BY <1>1, <1>3, <2>1
  <2>2. CASE i \in 1 .. n
    <3>1. FrameInv(s[i]) /\ (s[i].fn = "thread" <=> i = 1) /\ Placed(s, i, n)
      BY <1>2, <2>2 DEF StackInv
    <3>2. r[i] = s[i] /\ (i = 3 => r[2] = s[2])
      BY <1>1, <2>2
    <3>3. Placed(r, i, n + 1)
      BY <2>2, <3>1, <3>2 DEF Placed
    <3> QED BY <1>1, <3>1, <3>2, <3>3
  <2> QED BY <1>1, <2>1, <2>2
<1>5. ASSUME NEW i \in 1 .. Len(r), NEW j \in 1 .. Len(r)
      PROVE  /\ i + 1 = j => Calls(r[i], r[j])
             /\ i < j /\ (i + 1 # j \/ r[j].fn = "excpt_irq") => Under(r[i], r[j])
  <2>1. CASE j \in 1 .. n /\ i \in 1 .. n
    BY <1>1, <1>2, <2>1 DEF StackInv
  <2>2. CASE j = n + 1 /\ i \in 1 .. n
    BY <1>1, <2>2
  <2>3. CASE i = n + 1
    BY <1>1, <2>3
  <2> QED BY <1>1, <2>1, <2>2, <2>3
<1>6. StackInv(r)
  BY <1>1, <1>4, <1>5 DEF StackInv
<1> QED BY <1>6 DEF r

\* The last frame goes on.
LEMMA ReplaceStack ==
    ASSUME NEW s, StackInv(s), NEW g, FrameInv(g), g.fn = Last(s).fn
    PROVE  StackInv(Append(Front(s), g))
<1> DEFINE n == Len(s) - 1
           r == Front(s)
           q == Append(r, g)
<1>1. /\ n \in Nat /\ Len(s) = n + 1 /\ Last(s) = s[n + 1]
      /\ r \in Seq(FrameType) /\ n = Len(r) /\ \A i \in 1 .. n : r[i] = s[i]
  <2>1. /\ Len(s) \in Nat \ {0} /\ Last(s) = s[Len(s)]
        /\ r \in Seq(FrameType) /\ Len(r) = Len(s) - 1
        /\ \A i \in 1 .. Len(s) - 1 : r[i] = s[i]
    BY FrontLast DEF StackInv
  <2>2. n \in Nat /\ Len(s) = n + 1
    BY <2>1
  <2> HIDE DEF r
  <2> QED BY <2>1, <2>2
<1>2. r # <<>> => StackInv(r)
  <2>1. ASSUME r # <<>> PROVE Len(s) > 1
    BY <1>1, <2>1, EmptySeq
  <2> QED BY <2>1, FrontStack
<1>3. q[n + 1] = g /\ \A i \in 1 .. n : q[i] = r[i]
  BY <1>1, AppendProperties DEF FrameInv
<1> HIDE DEF n, r, q
<1>4. (g.fn = "thread" <=> n = 0) /\ Placed(s, n + 1, n + 1) /\ n + 1 \in 1 .. Len(s)
  BY <1>1 DEF StackInv
<1>5. Placed(q, n + 1, n + 1)
  <2>1. n + 1 = 3 => q[2] = s[2]
    BY <1>1, <1>3
  <2> QED BY <1>1, <1>3, <1>4, <2>1 DEF Placed
<1>6. ASSUME NEW i \in 1 .. n
      PROVE  /\ i = n => Calls(r[i], g)
             /\ i < n \/ g.fn = "excpt_irq" => Under(r[i], g)
             /\ r[i].fn = "excpt_irq" => n <= i + 1
             /\ r[i].fn = "irq_soft" => n <= i
  <2>1. i \in 1 .. Len(s) /\ i < n + 1 /\ r[i] = s[i]
    BY <1>1
  <2>2. /\ i = n => Calls(s[i], s[n + 1])
        /\ i < n \/ s[n + 1].fn = "excpt_irq" => Under(s[i], s[n + 1])
    <3>1. /\ i + 1 = n + 1 => Calls(s[i], s[n + 1])
          /\ (i + 1 # n + 1 \/ s[n + 1].fn = "excpt_irq") => Under(s[i], s[n + 1])
      BY <1>4, <2>1 DEF StackInv
    <3> QED BY <1>1, <3>1
  <2>3. Placed(s, i, n + 1)
    BY <1>1, <2>1 DEF StackInv
  <2> QED BY <1>1, <2>1, <2>2, <2>3 DEF Calls, Under, Placed
<1> HIDE DEF q
<1>7. StackInv(Append(r, g))
  BY <1>1, <1>2, <1>4, <1>5, <1>6, TopOfStack DEF q
<1> QED BY <1>7 DEF r

\* Facts about the frames of a stack that the pushes share.
LEMMA StackFacts ==
    ASSUME NEW s, StackInv(s)
    PROVE  /\ s \in Seq(FrameType) /\ s # <<>> /\ Len(s) \in Nat \ {0} /\ Last(s) = s[Len(s)]
           /\ \A i \in 1 .. Len(s) : FrameInv(s[i]) /\ (s[i].fn = "thread" <=> i = 1)
                                     /\ Placed(s, i, Len(s))
           /\ \A i \in 1 .. Len(s) - 1 : Calls(s[i], s[i + 1])
           /\ \A i, j \in 1 .. Len(s) : i + 1 < j => Under(s[i], s[j])
           /\ \A i, j \in 1 .. Len(s) : i < j /\ s[j].fn = "excpt_irq" => Under(s[i], s[j])
<1>1. s \in Seq(FrameType) /\ s # <<>> /\ Len(s) \in Nat \ {0}
  BY EmptySeq DEF StackInv
<1>2. ASSUME NEW i \in 1 .. Len(s) - 1 PROVE Calls(s[i], s[i + 1])
  BY <1>1 DEF StackInv
<1> QED BY <1>1, <1>2 DEF StackInv, Last

\* What a frame holds and what the others then hold.
LEMMA OthersHold ==
    ASSUME NEW s, StackInv(s), NEW p \in 1 .. Len(s)
    PROVE  /\ SoftHeld(s) = 0 => s[p].soft = 0
           /\ SoftHeld(s) = 1 /\ s[p].soft = 1 =>
                 \A i \in 1 .. Len(s) : i # p => s[i].soft = 0
           /\ SchedHeld(s) = 1 /\ s[p].sched = 1 =>
                 \A i \in 1 .. Len(s) : i # p => s[i].sched = 0
           /\ s[p].soft <= SoftHeld(s) /\ s[p].sched <= SchedHeld(s)
           /\ SoftHeld(s) \in Nat /\ SchedHeld(s) \in Nat
<1>1. s \in Seq(FrameType)
  BY StackFacts
<1>2. SoftHeld(s) \in Nat /\ SchedHeld(s) \in Nat
  BY <1>1, StackFacts, HeldNat
<1>3. ASSUME NEW i \in 1 .. Len(s)
      PROVE  /\ s[i].soft \in Nat /\ s[i].sched \in Nat
             /\ s[i].soft <= SoftHeld(s) /\ s[i].sched <= SchedHeld(s)
             /\ p # i => s[p].soft + s[i].soft <= SoftHeld(s)
             /\ p # i => s[p].sched + s[i].sched <= SchedHeld(s)
  BY <1>1, HeldBounds
<1> QED BY <1>2, <1>3

\* The calls of irq_soft(), of irq_sched() and of irq_sched_raise(), and a
\* hard IRQ.
LEMMA NewFrames ==
    /\ FrameInv(SoftFrame) /\ FrameInv(SchedFrame)
    /\ FrameInv(Frame("excpt_irq", "sched", {}, 1, 0))
    /\ \A m \in SUBSET SchedIrq : FrameInv(Frame("irq_sched_raise", "store", m, 0, 0))
BY IrqConstants DEF FrameInv, FrameType, Frame, SoftFrame, SchedFrame, ExcptFrame,
   SoftIrqFrame, SchedIrqFrame, RaiseFrame

LEMMA PushSoftIrq ==
    ASSUME NEW s, StackInv(s), Last(s).soft = 1, SoftHeld(s) = 1
    PROVE  StackInv(Append(s, SoftFrame))
<1> DEFINE n == Len(s)
           g == SoftFrame
           r == Append(s, g)
<1>1. /\ n \in Nat \ {0} /\ s \in Seq(FrameType) /\ s # <<>> /\ s[n].soft = 1
      /\ \A i \in 1 .. n : FrameInv(s[i]) /\ (s[i].fn = "thread" <=> i = 1) /\ Placed(s, i, n)
      /\ \A i \in 1 .. n - 1 : Calls(s[i], s[i + 1])
  BY StackFacts
<1>2. \A i \in 1 .. n : i # n => s[i].soft = 0
  BY <1>1, OthersHold
<1>3. FrameInv(g) /\ g.fn = "irq_soft"
  BY NewFrames DEF SoftFrame, Frame
<1>4. r[n + 1] = g
  BY <1>1, <1>3, AppendProperties DEF FrameInv
<1> HIDE DEF n, g, r
<1>5. FrameInv(s[n]) /\ Placed(s, n, n) /\ (s[n].fn = "thread" <=> n = 1)
  BY <1>1
<1>6. n <= 4
  BY <1>1, <1>5 DEF FrameInv, Placed, SoftIrqFrame, RaiseFrame, ExcptFrame, ThreadFrame,
     SchedIrqFrame
<1>7. Placed(r, n + 1, n + 1)
  BY <1>1, <1>3, <1>4, <1>6 DEF Placed, MaxFrames
<1>8. ASSUME NEW i \in 1 .. n
      PROVE  /\ i = n => Calls(s[i], g)
             /\ i < n \/ g.fn = "excpt_irq" => Under(s[i], g)
             /\ s[i].fn = "excpt_irq" => n <= i + 1
             /\ s[i].fn = "irq_soft" => n <= i
  <2>1. FrameInv(s[i]) /\ (s[i].fn = "thread" <=> i = 1)
    BY <1>1
  <2>2. s[i].fn = "excpt_irq" => i = n
    BY <1>1, <1>2, <2>1 DEF FrameInv, ThreadFrame, ExcptFrame, SoftIrqFrame, SchedIrqFrame,
       RaiseFrame
  <2>3. s[i].fn # "irq_soft"
    <3> SUFFICES ASSUME s[i].fn = "irq_soft" PROVE FALSE
      OBVIOUS
    <3>1. i - 1 \in 1 .. n - 1 /\ (i - 1) + 1 = i /\ i - 1 \in 1 .. n /\ i - 1 # n
      BY <1>1, <2>1
    <3>2. Calls(s[i - 1], s[i]) /\ s[i - 1].soft = 0
      BY <1>1, <1>2, <3>1
    <3> QED BY <3>2 DEF Calls
  <2>4. (i = n => Calls(s[i], g)) /\ (i < n \/ g.fn = "excpt_irq" => Under(s[i], g))
    BY <1>1, <1>2, <1>3 DEF Calls, Under
  <2> QED BY <1>1, <2>2, <2>3, <2>4
<1>9. StackInv(Append(s, g))
  <2>1. n \in Nat /\ n = Len(s) /\ (g.fn = "thread" <=> n = 0) /\ StackInv(s)
    BY <1>1, <1>3 DEF n
  <2>2. Placed(Append(s, g), n + 1, n + 1)
    BY <1>7 DEF r
  <2> QED BY <1>1, <1>3, <1>8, <2>1, <2>2, TopOfStack
<1> QED BY <1>9 DEF g

LEMMA PushSchedIrq ==
    ASSUME NEW s, StackInv(s), SchedHeld(s) = 1, Calls(Last(s), SchedFrame)
    PROVE  StackInv(Append(s, SchedFrame))
<1> DEFINE n == Len(s)
           g == SchedFrame
           r == Append(s, g)
<1>3. FrameInv(g) /\ g.fn = "irq_sched"
  BY NewFrames DEF SchedFrame, Frame
<1>1. /\ n \in Nat \ {0} /\ s \in Seq(FrameType) /\ s # <<>> /\ Calls(s[n], g)
      /\ \A i \in 1 .. n : FrameInv(s[i]) /\ (s[i].fn = "thread" <=> i = 1) /\ Placed(s, i, n)
      /\ \A i \in 1 .. n - 1 : Calls(s[i], s[i + 1])
      /\ \A i, j \in 1 .. n : i < j /\ s[j].fn = "excpt_irq" => Under(s[i], s[j])
      /\ \A i, j \in 1 .. n : i + 1 < j => Under(s[i], s[j])
  BY StackFacts
<1>4. r[n + 1] = g /\ \A i \in 1 .. n : r[i] = s[i]
  BY <1>1, <1>3, AppendProperties DEF FrameInv
<1>2. s[n].sched = 1 /\ \A i \in 1 .. n : i # n => s[i].sched = 0
  BY <1>1, <1>3, OthersHold DEF Calls
<1> HIDE DEF n, g, r
<1>5. n = 1 \/ (n = 2 /\ s[2].fn = "excpt_irq")
  <2>1. s[n].fn = "thread" \/ s[n].fn = "excpt_irq"
    BY <1>1, <1>3 DEF Calls
  <2>2. CASE s[n].fn = "thread"
    BY <1>1, <2>2
  <2>3. CASE s[n].fn = "excpt_irq" /\ n > 2
    <3>1. 1 \in 1 .. n - 1 /\ 2 \in 1 .. n /\ 1 \in 1 .. n
      BY <1>1, <2>3
    <3>2. FrameInv(s[2]) /\ s[2].fn # "thread" /\ Calls(s[1], s[2]) /\ s[1].sched = 0
      BY <1>1, <1>2, <2>3, <3>1
    <3>3. Under(s[1], s[n]) /\ Under(s[2], s[n])
      BY <1>1, <2>3, <3>1
    <3>4. FrameInv(s[1]) /\ s[1].fn = "thread"
      BY <1>1, <3>1
    <3> QED BY <2>3, <3>2, <3>3, <3>4 DEF FrameInv, Calls, Under, ThreadFrame, ExcptFrame,
              SoftIrqFrame, SchedIrqFrame, RaiseFrame
  <2>4. CASE s[n].fn = "excpt_irq" /\ n <= 2
    BY <1>1, <2>4
  <2> QED BY <1>1, <2>1, <2>2, <2>3, <2>4
<1>7. Placed(r, n + 1, n + 1)
  BY <1>1, <1>3, <1>4, <1>5 DEF Placed, MaxFrames
<1>8. ASSUME NEW i \in 1 .. n
      PROVE  /\ i = n => Calls(s[i], g)
             /\ i < n \/ g.fn = "excpt_irq" => Under(s[i], g)
             /\ s[i].fn = "excpt_irq" => n <= i + 1
             /\ s[i].fn = "irq_soft" => n <= i
  <2>4. (i = n => Calls(s[i], g)) /\ (i < n \/ g.fn = "excpt_irq" => Under(s[i], g))
    BY <1>1, <1>2, <1>3 DEF Calls, Under
  <2>5. s[i].fn = "irq_soft" => n <= i
    BY <1>1, <1>5
  <2> QED BY <1>1, <1>5, <2>4, <2>5
<1>9. StackInv(Append(s, g))
  <2>1. n \in Nat /\ n = Len(s) /\ (g.fn = "thread" <=> n = 0) /\ StackInv(s)
    BY <1>1, <1>3 DEF n
  <2>2. Placed(Append(s, g), n + 1, n + 1)
    BY <1>7 DEF r
  <2> QED BY <1>1, <1>3, <1>8, <2>1, <2>2, TopOfStack
<1> QED BY <1>9 DEF g

LEMMA PushRaise ==
    ASSUME NEW s, StackInv(s), NEW g, FrameInv(g), g.fn = "irq_sched_raise", Calls(Last(s), g)
    PROVE  StackInv(Append(s, g))
<1> DEFINE n == Len(s)
           r == Append(s, g)
<1>1. /\ n \in Nat \ {0} /\ s \in Seq(FrameType) /\ s # <<>> /\ Calls(s[n], g)
      /\ \A i \in 1 .. n : FrameInv(s[i]) /\ (s[i].fn = "thread" <=> i = 1) /\ Placed(s, i, n)
      /\ \A i \in 1 .. n - 1 : Calls(s[i], s[i + 1])
      /\ \A i, j \in 1 .. n : i + 1 < j => Under(s[i], s[j])
  BY StackFacts
<1>2. r[n + 1] = g
  BY <1>1, AppendProperties DEF FrameInv
<1> HIDE DEF n, r
<1>3. /\ s[n].fn \in {"irq_sched", "irq_soft", "thread"}
      /\ FrameInv(s[n]) /\ (s[n].fn = "thread" <=> n = 1) /\ Placed(s, n, n)
  BY <1>1 DEF Calls
<1>4. n <= 5
  BY <1>1, <1>3 DEF Placed
<1>5. Placed(r, n + 1, n + 1)
  BY <1>1, <1>2, <1>4 DEF Placed, MaxFrames
<1>6. ASSUME NEW i \in 1 .. n
      PROVE  /\ i = n => Calls(s[i], g)
             /\ i < n \/ g.fn = "excpt_irq" => Under(s[i], g)
             /\ s[i].fn = "excpt_irq" => n <= i + 1
             /\ s[i].fn = "irq_soft" => n <= i
  <2>1. FrameInv(s[i]) /\ (s[i].fn = "thread" <=> i = 1) /\ Placed(s, i, n)
    BY <1>1
  <2>2. (i = n => Calls(s[i], g)) /\ (i < n \/ g.fn = "excpt_irq" => Under(s[i], g))
    BY <1>1 DEF Under
  <2>3. ASSUME s[i].fn = "excpt_irq", n > i + 1 PROVE FALSE
    <3>1. n = i + 2 /\ i # 1
      BY <1>1, <2>1, <2>3 DEF Placed
    <3>2. s[n].fn = "irq_soft"
      BY <1>1, <1>3, <3>1 DEF Placed
    <3>3. Under(s[i], s[n])
      BY <1>1, <3>1
    <3> QED BY <2>1, <2>3, <3>2, <3>3 DEF Under, FrameInv, ThreadFrame, ExcptFrame,
              SoftIrqFrame, SchedIrqFrame, RaiseFrame
  <2>4. ASSUME s[i].fn = "irq_soft", n > i PROVE FALSE
    <3>1. n = i + 1 /\ i \in 1 .. n - 1
      BY <1>1, <2>1, <2>4 DEF Placed
    <3>2. Calls(s[i], s[n]) /\ s[n].fn # "thread"
      BY <1>1, <1>3, <3>1
    <3> QED BY <1>3, <2>1, <2>4, <3>2 DEF Calls, FrameInv, ThreadFrame, ExcptFrame,
              SoftIrqFrame, SchedIrqFrame, RaiseFrame
  <2> QED BY <1>1, <2>2, <2>3, <2>4
<1>7. StackInv(Append(s, g))
  <2>1. n \in Nat /\ n = Len(s) /\ (g.fn = "thread" <=> n = 0) /\ StackInv(s)
    BY <1>1 DEF n
  <2>2. Placed(Append(s, g), n + 1, n + 1)
    BY <1>5 DEF r
  <2> QED BY <1>1, <1>6, <2>1, <2>2, TopOfStack
<1> QED BY <1>7

LEMMA PushExcpt ==
    ASSUME NEW s, StackInv(s), NEW g, FrameInv(g), g.fn = "excpt_irq", SoftHeld(s) = 0
    PROVE  StackInv(Append(s, g))
<1> DEFINE n == Len(s)
           r == Append(s, g)
<1>1. /\ n \in Nat \ {0} /\ s \in Seq(FrameType) /\ s # <<>>
      /\ \A i \in 1 .. n : FrameInv(s[i]) /\ (s[i].fn = "thread" <=> i = 1) /\ Placed(s, i, n)
      /\ \A i \in 1 .. n - 1 : Calls(s[i], s[i + 1])
  BY StackFacts
<1>2. r[n + 1] = g
  BY <1>1, AppendProperties DEF FrameInv
<1>3. \A i \in 1 .. n : s[i].soft = 0
  BY OthersHold
<1> HIDE DEF n, r
<1>4. ASSUME NEW i \in 1 .. n PROVE s[i].fn # "excpt_irq" /\ s[i].fn # "irq_soft"
  <2>1. s[i].fn # "excpt_irq"
    BY <1>1, <1>3 DEF FrameInv, ThreadFrame, ExcptFrame, SoftIrqFrame, SchedIrqFrame,
       RaiseFrame
  <2>2. ASSUME s[i].fn = "irq_soft" PROVE FALSE
    <3>1. i # 1
      BY <1>1, <2>2
    <3>2. i - 1 \in 1 .. n - 1 /\ (i - 1) + 1 = i /\ i - 1 \in 1 .. n
      BY <1>1, <3>1
    <3>3. Calls(s[i - 1], s[i]) /\ s[i - 1].soft = 0
      BY <1>1, <1>3, <3>2
    <3> QED BY <2>2, <3>3 DEF Calls
  <2> QED BY <2>1, <2>2
<1>5. n <= 3
  <2> SUFFICES ASSUME n >= 4 PROVE FALSE
    BY <1>1
  <2>1. 2 \in 1 .. n /\ 3 \in 1 .. n /\ 4 \in 1 .. n /\ 3 \in 1 .. n - 1 /\ 3 + 1 = 4
    BY <1>1
  <2>2. /\ FrameInv(s[3]) /\ s[3].fn # "thread" /\ Placed(s, 3, n)
        /\ FrameInv(s[4]) /\ s[4].fn # "thread" /\ Placed(s, 4, n)
    BY <1>1, <2>1
  <2>3. Calls(s[3], s[4])
    BY <1>1, <2>1
  <2>4. s[3].fn = "irq_sched_raise" /\ s[4].fn = "irq_sched_raise"
    BY <1>4, <2>1, <2>2 DEF FrameInv, ThreadFrame, ExcptFrame, SoftIrqFrame,
       SchedIrqFrame, RaiseFrame, Placed
  <2> QED BY <2>3, <2>4 DEF Calls
<1>6. Placed(r, n + 1, n + 1)
  BY <1>1, <1>2, <1>5 DEF Placed, MaxFrames
<1>7. ASSUME NEW i \in 1 .. n
      PROVE  /\ i = n => Calls(s[i], g)
             /\ i < n \/ g.fn = "excpt_irq" => Under(s[i], g)
             /\ s[i].fn = "excpt_irq" => n <= i + 1
             /\ s[i].fn = "irq_soft" => n <= i
  BY <1>3, <1>4 DEF Calls, Under
<1>8. StackInv(Append(s, g))
  <2>1. n \in Nat /\ n = Len(s) /\ (g.fn = "thread" <=> n = 0) /\ StackInv(s)
    BY <1>1 DEF n
  <2>2. Placed(Append(s, g), n + 1, n + 1)
    BY <1>6 DEF r
  <2> QED BY <1>1, <1>7, <2>1, <2>2, TopOfStack
<1> QED BY <1>8

-----------------------------------------------------------------------------
(* Counters and frames.                                                    *)

LEMMA FrontAndLast ==
    ASSUME NEW S, NEW s \in Seq(S), s # <<>>
    PROVE  s = Append(Front(s), Last(s))
<1> DEFINE r == Front(s)
           f == Last(s)
<1>1. /\ Len(s) \in Nat \ {0} /\ f = s[Len(s)] /\ f \in S
      /\ r \in Seq(S) /\ Len(r) = Len(s) - 1
      /\ \A i \in 1 .. Len(s) - 1 : r[i] = s[i]
  BY FrontLast
<1> HIDE DEF r, f
<1>2. /\ Append(r, f) \in Seq(S) /\ Len(Append(r, f)) = Len(r) + 1
      /\ \A i \in 1 .. Len(r) : Append(r, f)[i] = r[i]
      /\ Append(r, f)[Len(r) + 1] = f
  BY <1>1, AppendProperties
<1>3. Len(s) = Len(Append(r, f))
  BY <1>1, <1>2
<1>4. ASSUME NEW i \in 1 .. Len(s) PROVE s[i] = Append(r, f)[i]
  <2>1. CASE i = Len(s)
    BY <1>1, <1>2, <2>1
  <2>2. CASE i # Len(s)
    <3>1. i \in 1 .. Len(s) - 1 /\ i \in 1 .. Len(r)
      BY <1>1, <2>2
    <3> QED BY <1>1, <1>2, <3>1
  <2> QED BY <2>1, <2>2
<1>5. s = Append(r, f)
  BY <1>2, <1>3, <1>4, SeqEqual
<1> QED BY <1>5 DEF r, f

IsIrq(f) == f.fn = "excpt_irq" /\ f.pc # "soft_dec"

LEMMA InIrqAppend ==
    ASSUME NEW r \in Seq(FrameType), NEW g \in FrameType
    PROVE  InIrq(Append(r, g)) <=> InIrq(r) \/ IsIrq(g)
<1> DEFINE s == Append(r, g)
<1>1. /\ Len(r) \in Nat /\ Len(s) = Len(r) + 1
      /\ \A i \in 1 .. Len(r) : s[i] = r[i]
      /\ s[Len(r) + 1] = g
  BY AppendProperties, LenProperties
<1> HIDE DEF s
<1>2. ASSUME InIrq(s) PROVE InIrq(r) \/ IsIrq(g)
  <2>1. PICK i \in 1 .. Len(s) : s[i].fn = "excpt_irq" /\ s[i].pc # "soft_dec"
    BY <1>2 DEF InIrq
  <2>2. i \in 1 .. Len(r) \/ i = Len(r) + 1
    BY <1>1
  <2> QED BY <1>1, <2>1, <2>2 DEF InIrq, IsIrq
<1>3. ASSUME InIrq(r) PROVE InIrq(s)
  <2>1. PICK i \in 1 .. Len(r) : r[i].fn = "excpt_irq" /\ r[i].pc # "soft_dec"
    BY <1>3 DEF InIrq
  <2>2. i \in 1 .. Len(s) /\ s[i] = r[i]
    BY <1>1
  <2> QED BY <2>1, <2>2 DEF InIrq
<1>4. ASSUME IsIrq(g) PROVE InIrq(s)
  <2>1. Len(r) + 1 \in 1 .. Len(s)
    BY <1>1
  <2> QED BY <1>1, <1>4, <2>1 DEF InIrq, IsIrq
<1>5. InIrq(s) <=> InIrq(r) \/ IsIrq(g)
  BY <1>2, <1>3, <1>4
<1> QED BY <1>5 DEF s

\* A primary excpt_irq() has no other one under it.
LEMMA OneIrq ==
    ASSUME NEW s, StackInv(s), Last(s).fn = "excpt_irq"
    PROVE  ~ InIrq(Front(s))
<1> SUFFICES ASSUME InIrq(Front(s)) PROVE FALSE
  OBVIOUS
<1>1. PICK i \in 1 .. Len(Front(s)) : Front(s)[i].fn = "excpt_irq"
  BY DEF InIrq
<1>2. /\ Len(s) \in Nat \ {0} /\ Last(s) = s[Len(s)] /\ Len(Front(s)) = Len(s) - 1
      /\ \A j \in 1 .. Len(s) - 1 : Front(s)[j] = s[j]
  <2>1. s \in Seq(FrameType) /\ s # <<>>
    BY DEF StackInv
  <2> QED BY <2>1, FrontLast
<1>3. /\ i \in 1 .. Len(s) /\ Len(s) \in 1 .. Len(s) /\ i < Len(s) /\ s[i].fn = "excpt_irq"
      /\ s[Len(s)].fn = "excpt_irq"
  BY <1>1, <1>2
<1>4. Under(s[i], s[Len(s)]) /\ FrameInv(s[i])
  BY <1>3, StackFacts
<1> QED BY <1>3, <1>4 DEF Under, FrameInv, ThreadFrame, ExcptFrame, SoftIrqFrame,
       SchedIrqFrame, RaiseFrame

\* The parts of a stack that a step at its end works on.
LEMMA MatchParts ==
    ASSUME NEW s, NEW a, NEW b, NEW e, Match(s, a, b, e)
    PROVE  /\ Front(s) \in Seq(FrameType) /\ Last(s) \in FrameType /\ FrameInv(Last(s))
           /\ Last(s).soft \in Nat /\ Last(s).sched \in Nat
           /\ SoftHeld(Front(s)) \in Nat /\ a = SoftHeld(Front(s)) + Last(s).soft
           /\ SchedHeld(Front(s)) \in Nat /\ b = SchedHeld(Front(s)) + Last(s).sched
           /\ e \in BOOLEAN /\ (e <=> InIrq(Front(s)) \/ IsIrq(Last(s)))
           /\ Last(s).fn = "excpt_irq" => ~ InIrq(Front(s))
           /\ Last(s).fn = "thread" <=> Len(s) = 1
           /\ Len(s) \in Nat \ {0} /\ (Last(s).fn # "thread" => Len(s) > 1)
           /\ a \in Nat /\ b \in Nat
<1>1. s \in Seq(FrameType) /\ s # <<>> /\ StackInv(s) /\ Len(s) \in Nat \ {0} /\ Last(s) = s[Len(s)]
  BY StackFacts DEF Match
<1>2. Front(s) \in Seq(FrameType) /\ Last(s) \in FrameType
  BY <1>1, FrontLast
<1>3. FrameInv(Last(s)) /\ (Last(s).fn = "thread" <=> Len(s) = 1)
  <2>1. Len(s) \in 1 .. Len(s)
    BY <1>1
  <2>2. FrameInv(s[Len(s)]) /\ (s[Len(s)].fn = "thread" <=> Len(s) = 1)
    BY <1>1, <2>1, StackFacts
  <2> QED BY <1>1, <2>2
<1>4. s = Append(Front(s), Last(s))
  BY <1>1, FrontAndLast
<1> DEFINE r == Front(s)
           f == Last(s)
<1> HIDE DEF r, f
<1>5. /\ SoftHeld(r) \in Nat /\ SoftHeld(Append(r, f)) = SoftHeld(r) + f.soft
      /\ SchedHeld(r) \in Nat /\ SchedHeld(Append(r, f)) = SchedHeld(r) + f.sched
  BY <1>2, HeldAppend DEF r, f
<1>6. InIrq(Append(r, f)) <=> InIrq(r) \/ IsIrq(f)
  BY <1>2, InIrqAppend DEF r, f
<1>7. f.soft \in Nat /\ f.sched \in Nat
  BY <1>2, FrameFields DEF f
<1>8. s = Append(r, f)
  BY <1>4 DEF r, f
<1>9. a = SoftHeld(s) /\ b = SchedHeld(s) /\ e \in BOOLEAN /\ (e <=> InIrq(s))
  BY DEF Match
<1>10. a = SoftHeld(r) + f.soft /\ b = SchedHeld(r) + f.sched /\ (e <=> InIrq(r) \/ IsIrq(f))
  BY <1>5, <1>6, <1>8, <1>9
<1>11. a \in Nat /\ b \in Nat
  BY <1>5, <1>7, <1>10
<1>12. f.fn = "excpt_irq" => ~ InIrq(r)
  BY <1>1, OneIrq DEF r, f
<1>13. Last(s).fn # "thread" => Len(s) > 1
  <2>1. \A n \in Nat \ {0} : n # 1 => n > 1
    OBVIOUS
  <2>2. Len(s) # 1 => Len(s) > 1
    BY <1>1, <2>1, Zenon
  <2> QED BY <1>3, <2>2, Zenon
<1> QED BY <1>1, <1>2, <1>3, <1>5, <1>7, <1>9, <1>10, <1>11, <1>12, <1>13 DEF r, f

\* The frame that runs goes on as g, with what it has disabled since.
LEMMA MatchReplace ==
    ASSUME NEW s, NEW a, NEW b, NEW e, Match(s, a, b, e),
           NEW g, FrameInv(g), g.fn = Last(s).fn,
           NEW a2, NEW b2, NEW e2 \in BOOLEAN,
           a2 = (a - Last(s).soft) + g.soft,
           b2 = (b - Last(s).sched) + g.sched,
           e2 <=> IF g.fn = "excpt_irq" THEN IsIrq(g) ELSE e
    PROVE  Match(Append(Front(s), g), a2, b2, e2)
<1> DEFINE r == Front(s)
           f == Last(s)
           t == Append(r, g)
<1>1. /\ r \in Seq(FrameType) /\ f.soft \in Nat /\ f.sched \in Nat
      /\ SoftHeld(r) \in Nat /\ a = SoftHeld(r) + f.soft
      /\ SchedHeld(r) \in Nat /\ b = SchedHeld(r) + f.sched
      /\ e <=> InIrq(r) \/ IsIrq(f)
      /\ f.fn = "excpt_irq" => ~ InIrq(r)
  BY MatchParts
<1>2. g \in FrameType /\ g.soft \in Nat /\ g.sched \in Nat
  BY FrameFields DEF FrameInv
<1>3. /\ SoftHeld(t) = SoftHeld(r) + g.soft /\ SchedHeld(t) = SchedHeld(r) + g.sched
      /\ InIrq(t) <=> InIrq(r) \/ IsIrq(g)
  BY <1>1, <1>2, HeldAppend, InIrqAppend
<1>4. StackInv(t)
  BY ReplaceStack DEF Match
<1>5. g.fn = f.fn
  OBVIOUS
<1> HIDE DEF r, t, f
<1>6. a2 = SoftHeld(t) /\ b2 = SchedHeld(t)
  <2>1. a2 = (a - f.soft) + g.soft /\ b2 = (b - f.sched) + g.sched
    BY DEF f
  <2>2. a = SoftHeld(r) + f.soft /\ b = SchedHeld(r) + f.sched
    BY <1>1
  <2>3. SoftHeld(t) = SoftHeld(r) + g.soft /\ SchedHeld(t) = SchedHeld(r) + g.sched
    BY <1>3
  <2>4. /\ f.soft \in Nat /\ f.sched \in Nat /\ g.soft \in Nat /\ g.sched \in Nat
        /\ SoftHeld(r) \in Nat /\ SchedHeld(r) \in Nat
    BY <1>1, <1>2
  <2> QED BY ONLY <2>1, <2>2, <2>3, <2>4
<1>7. e2 <=> InIrq(t)
  <2>1. IsIrq(f) \/ IsIrq(g) => g.fn = "excpt_irq"
    BY <1>5 DEF IsIrq
  <2>2. CASE g.fn = "excpt_irq"
    BY <1>1, <1>3, <1>5, <2>2
  <2>3. CASE g.fn # "excpt_irq"
    BY <1>1, <1>3, <2>1, <2>3
  <2> QED BY <2>2, <2>3
<1>8. Match(t, a2, b2, e2)
  BY <1>4, <1>6, <1>7 DEF Match
<1> QED BY <1>8 DEF r, t

\* The frame that runs returns.
LEMMA MatchPop ==
    ASSUME NEW s, NEW a, NEW b, NEW e, Match(s, a, b, e),
           Last(s).fn # "thread", ~ IsIrq(Last(s)),
           NEW a2, NEW b2, a2 = a - Last(s).soft, b2 = b - Last(s).sched
    PROVE  Match(Front(s), a2, b2, e)
<1> DEFINE r == Front(s)
           f == Last(s)
<1>1. /\ r \in Seq(FrameType) /\ f.soft \in Nat /\ f.sched \in Nat
      /\ SoftHeld(r) \in Nat /\ a = SoftHeld(r) + f.soft
      /\ SchedHeld(r) \in Nat /\ b = SchedHeld(r) + f.sched
      /\ e \in BOOLEAN /\ (e <=> InIrq(r) \/ IsIrq(f))
      /\ (f.fn = "thread" <=> Len(s) = 1) /\ Len(s) \in Nat \ {0}
  BY MatchParts
<1>2. Len(s) > 1
  BY MatchParts, Zenon
<1>3. StackInv(r)
  BY <1>2, FrontStack DEF Match
<1>4. ~ IsIrq(f) /\ a2 = a - f.soft /\ b2 = b - f.sched
  OBVIOUS
<1> HIDE DEF r, f
<1>5. a2 = SoftHeld(r) /\ b2 = SchedHeld(r)
  BY <1>1, <1>4, SMTT(40)
<1>6. Match(r, a2, b2, e)
  BY <1>1, <1>3, <1>4, <1>5 DEF Match
<1> QED BY <1>6 DEF r

\* The frame that runs calls g, or a hard IRQ does.
LEMMA MatchPush ==
    ASSUME NEW s, NEW a, NEW b, NEW e, Match(s, a, b, e),
           NEW g \in FrameType, StackInv(Append(s, g)),
           NEW a2, NEW b2, NEW e2 \in BOOLEAN,
           a2 = a + g.soft, b2 = b + g.sched, e2 <=> e \/ IsIrq(g)
    PROVE  Match(Append(s, g), a2, b2, e2)
<1>1. s \in Seq(FrameType)
  BY DEF Match, StackInv
<1>2. /\ SoftHeld(Append(s, g)) = SoftHeld(s) + g.soft
      /\ SchedHeld(Append(s, g)) = SchedHeld(s) + g.sched
      /\ InIrq(Append(s, g)) <=> InIrq(s) \/ IsIrq(g)
  BY <1>1, HeldAppend, InIrqAppend
<1> QED BY <1>2 DEF Match

-----------------------------------------------------------------------------
(* The frames of each thread, by the stacks.                               *)

LEMMA FrontOfAppend ==
    ASSUME NEW S, NEW r \in Seq(S), NEW f \in S
    PROVE  Front(Append(r, f)) = r /\ Last(Append(r, f)) = f /\ Append(r, f) # <<>>
<1> DEFINE s == Append(r, f)
<1>1. s \in Seq(S) /\ s # <<>>
  BY AppendProperties
<1>2. s = Append(Front(s), Last(s)) /\ Front(s) \in Seq(S) /\ Last(s) \in S
  BY <1>1, FrontAndLast, FrontLast
<1>3. Append(Front(s), Last(s)) = Append(r, f) <=> Front(s) = r /\ Last(s) = f
  BY <1>2, AppendInjective
<1> QED BY <1>1, <1>2, <1>3

\* The first k members, and those after them, once another is appended.
LEMMA CutAppend ==
    ASSUME NEW S, NEW s \in Seq(S), NEW g \in S, NEW k \in 0 .. Len(s)
    PROVE  /\ SubSeq(Append(s, g), 1, k) = SubSeq(s, 1, k)
           /\ SubSeq(Append(s, g), k + 1, Len(Append(s, g)))
                 = Append(SubSeq(s, k + 1, Len(s)), g)
           /\ SubSeq(s, k + 1, Len(s)) \in Seq(S)
<1> DEFINE r == Append(s, g)
           n == Len(s)
           u == SubSeq(s, k + 1, n)
           v == SubSeq(r, k + 1, n + 1)
<1>1. /\ n \in Nat /\ r \in Seq(S) /\ Len(r) = n + 1
      /\ \A i \in 1 .. n : r[i] = s[i] /\ s[i] \in S
      /\ \A i \in 1 .. n + 1 : r[i] \in S
      /\ r[n + 1] = g
  <2>1. /\ n \in Nat /\ r \in Seq(S) /\ Len(r) = n + 1
        /\ \A i \in 1 .. n : r[i] = s[i]
        /\ r[n + 1] = g
    BY AppendProperties, LenProperties
  <2>2. \A i \in 1 .. n : s[i] \in S
    BY ElementOfSeq
  <2>3. \A i \in 1 .. n + 1 : r[i] \in S
    BY <2>1, ElementOfSeq
  <2> QED BY <2>1, <2>2, <2>3
<1>2. k \in 0 .. n
  OBVIOUS
<1> HIDE DEF r, n
<1>3. k \in Nat /\ k <= n /\ k + 1 \in Int /\ n + 1 \in Int
  BY <1>1, <1>2
<1>4. SubSeq(r, 1, k) = SubSeq(s, 1, k)
  <2>1. (\A i \in 1 .. k : s[i] \in S) /\ (\A i \in 1 .. k : r[i] \in S)
    BY <1>1, <1>3
  <2>2. /\ SubSeq(s, 1, k) \in Seq(S) /\ Len(SubSeq(s, 1, k)) = IF 1 <= k THEN k - 1 + 1 ELSE 0
        /\ \A i \in 1 .. k - 1 + 1 : SubSeq(s, 1, k)[i] = s[1 + i - 1]
    BY <1>3, <2>1, SubSeqProperties
  <2>3. /\ SubSeq(r, 1, k) \in Seq(S) /\ Len(SubSeq(r, 1, k)) = IF 1 <= k THEN k - 1 + 1 ELSE 0
        /\ \A i \in 1 .. k - 1 + 1 : SubSeq(r, 1, k)[i] = r[1 + i - 1]
    BY <1>3, <2>1, SubSeqProperties
  <2>4. Len(SubSeq(s, 1, k)) = k
    BY <1>3, <2>2
  <2>5. ASSUME NEW i \in 1 .. k PROVE SubSeq(r, 1, k)[i] = SubSeq(s, 1, k)[i]
    <3>1. i \in 1 .. k - 1 + 1 /\ 1 + i - 1 = i /\ i \in 1 .. n
      BY <1>1, <1>3
    <3> QED BY <1>1, <2>2, <2>3, <3>1
  <2>6. Len(SubSeq(r, 1, k)) = Len(SubSeq(s, 1, k))
    BY <2>2, <2>3
  <2> QED BY <2>2, <2>3, <2>4, <2>5, <2>6, SeqEqual
<1>5. u \in Seq(S) /\ Len(u) = n - k /\ \A i \in 1 .. n - k : u[i] = s[k + i]
  <2>1. \A i \in k + 1 .. n : s[i] \in S
    BY <1>1, <1>3
  <2>2. /\ u \in Seq(S) /\ Len(u) = IF k + 1 <= n THEN n - (k + 1) + 1 ELSE 0
        /\ \A i \in 1 .. n - (k + 1) + 1 : u[i] = s[(k + 1) + i - 1]
    BY <1>1, <1>3, <2>1, SubSeqProperties
  <2> HIDE DEF u
  <2>3. Len(u) = n - k
    BY <1>1, <1>3, <2>2
  <2>4. ASSUME NEW i \in 1 .. n - k PROVE u[i] = s[k + i]
    <3>1. i \in 1 .. n - (k + 1) + 1 /\ (k + 1) + i - 1 = k + i
      BY <1>1, <1>3
    <3> QED BY <2>2, <3>1
  <2> QED BY <2>2, <2>3, <2>4
<1>6. v \in Seq(S) /\ Len(v) = n + 1 - k /\ \A i \in 1 .. n + 1 - k : v[i] = r[k + i]
  <2>1. \A i \in k + 1 .. n + 1 : r[i] \in S
    BY <1>1, <1>3
  <2>2. /\ v \in Seq(S) /\ Len(v) = IF k + 1 <= n + 1 THEN (n + 1) - (k + 1) + 1 ELSE 0
        /\ \A i \in 1 .. (n + 1) - (k + 1) + 1 : v[i] = r[(k + 1) + i - 1]
    BY <1>1, <1>3, <2>1, SubSeqProperties
  <2> HIDE DEF v
  <2>3. Len(v) = n + 1 - k
    BY <1>1, <1>3, <2>2
  <2>4. ASSUME NEW i \in 1 .. n + 1 - k PROVE v[i] = r[k + i]
    <3>1. i \in 1 .. (n + 1) - (k + 1) + 1 /\ (k + 1) + i - 1 = k + i
      BY <1>1, <1>3
    <3> QED BY <2>2, <3>1
  <2> QED BY <2>2, <2>3, <2>4
<1>7. v = Append(u, g)
  <2> HIDE DEF u, v
  <2>1. /\ Append(u, g) \in Seq(S) /\ Len(Append(u, g)) = Len(u) + 1
        /\ \A i \in 1 .. Len(u) : Append(u, g)[i] = u[i]
        /\ Append(u, g)[Len(u) + 1] = g
    BY <1>5, AppendProperties
  <2>2. Len(v) = Len(Append(u, g))
    BY <1>1, <1>3, <1>5, <1>6, <2>1
  <2>3. ASSUME NEW i \in 1 .. Len(v) PROVE v[i] = Append(u, g)[i]
    <3>1. CASE i = n + 1 - k
      <4>1. k + i = n + 1 /\ i = Len(u) + 1
        BY <1>1, <1>3, <1>5, <3>1
      <4>2. v[i] = r[n + 1]
        BY <1>6, <4>1
      <4> QED BY <1>1, <2>1, <4>1, <4>2
    <3>2. CASE i # n + 1 - k
      <4>1. i \in 1 .. n - k /\ i \in 1 .. n + 1 - k /\ k + i \in 1 .. n /\ i \in 1 .. Len(u)
        BY <1>1, <1>3, <1>5, <1>6, <3>2
      <4> QED BY <1>1, <1>5, <1>6, <2>1, <4>1
    <3> QED BY <3>1, <3>2
  <2> QED BY <1>6, <2>1, <2>2, <2>3, SeqEqual
<1>8. SubSeq(r, k + 1, Len(r)) = v
  BY <1>1
<1> QED BY <1>4, <1>5, <1>7, <1>8 DEF r, n

LEMMA ConcatAppend ==
    ASSUME NEW S, NEW s \in Seq(S), NEW t \in Seq(S), NEW g \in S
    PROVE  s \o Append(t, g) = Append(s \o t, g) /\ s \o t \in Seq(S)
<1>1. <<g>> \in Seq(S) /\ s \o t \in Seq(S)
  BY ConcatProperties
<1>2. Append(t, g) = t \o <<g>> /\ Append(s \o t, g) = (s \o t) \o <<g>>
  BY <1>1, AppendIsConcat
<1>3. (s \o t) \o <<g>> = s \o (t \o <<g>>)
  BY <1>1, ConcatAssociative
<1> QED BY <1>1, <1>2, <1>3

\* FramesOf, of the stacks st, `current' c and the stack in use that of s.
View(st, c, s, t) ==
    LET top == st[s]
        sus == CHOOSE i \in 1 .. Len(top) : top[i].pc \in {"switch", "fresh"}
    IN  IF s = c THEN st[t]
        ELSE IF t = s THEN SubSeq(top, 1, sus)
        ELSE IF t = c THEN st[t] \o SubSeq(top, sus + 1, Len(top))
        ELSE st[t]

\* Frame k of fs is suspended, and no other.
OnlyCut(fs, k) == /\ k \in 1 .. Len(fs)
                  /\ \A i \in 1 .. Len(fs) : Suspended(fs[i]) <=> i = k

\* The stacks not in use end in a suspended frame, and have no other; the
\* one in use has one between the two halves of a switch only.
Switched(st, c, s) ==
    /\ \A t \in Thread \ {s} :
          /\ st[t] # <<>> /\ Suspended(st[t][Len(st[t])])
          /\ \A i \in 1 .. Len(st[t]) - 1 : ~ Suspended(st[t][i])
    /\ s = c => \A i \in 1 .. Len(st[s]) : ~ Suspended(st[s][i])
    /\ s # c => /\ st[c][Len(st[c])].pc = "switch"
                /\ \E k \in Nat : OnlyCut(st[s], k)

Stacks == [Thread -> Seq(FrameType)]

\* u is st with one more frame g on the stack of s.
OneMore(st, u, s, g) ==
    /\ st \in Stacks /\ u \in Stacks /\ g \in FrameType
    /\ u[s] = Append(st[s], g) /\ \A t \in Thread \ {s} : u[t] = st[t]

\* FramesOf by the place of the suspended frame.
LEMMA ViewAt ==
    ASSUME NEW st, NEW c, NEW s, s # c, NEW k, OnlyCut(st[s], k)
    PROVE  /\ View(st, c, s, s) = SubSeq(st[s], 1, k)
           /\ View(st, c, s, c) = st[c] \o SubSeq(st[s], k + 1, Len(st[s]))
           /\ \A t : t # s /\ t # c => View(st, c, s, t) = st[t]
<1> DEFINE sus == CHOOSE i \in 1 .. Len(st[s]) : st[s][i].pc \in {"switch", "fresh"}
<1>1. sus = k
  BY DEF Suspended, OnlyCut
<1>2. \A t : View(st, c, s, t) =
          IF s = c THEN st[t]
          ELSE IF t = s THEN SubSeq(st[s], 1, sus)
          ELSE IF t = c THEN st[t] \o SubSeq(st[s], sus + 1, Len(st[s]))
          ELSE st[t]
  BY DEF View
<1> HIDE DEF sus
<1>3. View(st, c, s, s) = SubSeq(st[s], 1, sus)
  BY <1>2
<1>4. View(st, c, s, c) = st[c] \o SubSeq(st[s], sus + 1, Len(st[s]))
  BY <1>2
<1>5. \A t : t # s /\ t # c => View(st, c, s, t) = st[t]
  BY <1>2
<1> QED BY <1>1, <1>3, <1>4, <1>5

\* g is then the last frame of the current thread, and nothing else is new.
OneMoreView(st, u, c, s, g) ==
    /\ View(u, c, s, c) = Append(View(st, c, s, c), g)
    /\ View(st, c, s, c) \in Seq(FrameType)
    /\ \A t \in Thread \ {c} : View(u, c, s, t) = View(st, c, s, t)

\* A frame pushed on the stack in use is one more of the current thread.
LEMMA ViewPush ==
    ASSUME NEW st, NEW c \in Thread, NEW s \in Thread, Switched(st, c, s),
           NEW g, ~ Suspended(g), NEW u, OneMore(st, u, s, g)
    PROVE  Switched(u, c, s) /\ OneMoreView(st, u, c, s, g)
<1> USE DEF OneMoreView
<1> DEFINE n == Len(st[s])
<1>1. /\ st \in Stacks /\ g \in FrameType
      /\ st[s] \in Seq(FrameType) /\ st[c] \in Seq(FrameType) /\ n \in Nat
  BY LenProperties DEF Stacks, OneMore
<1>2. /\ Append(st[s], g) \in Seq(FrameType) /\ Len(Append(st[s], g)) = n + 1
      /\ \A i \in 1 .. n : Append(st[s], g)[i] = st[s][i]
      /\ Append(st[s], g)[n + 1] = g
  BY <1>1, AppendProperties
<1>3. u \in Stacks /\ u[s] = Append(st[s], g) /\ \A t \in Thread \ {s} : u[t] = st[t]
  BY DEF OneMore
<1>4. \A i \in 1 .. Len(u[s]) : IF i = n + 1 THEN ~ Suspended(u[s][i])
                                ELSE i \in 1 .. n /\ u[s][i] = st[s][i]
  BY <1>1, <1>2, <1>3
<1>5. CASE s = c
  <2>1. Switched(u, c, s)
    <3>1. \A i \in 1 .. Len(u[s]) : ~ Suspended(u[s][i])
      BY <1>4, <1>5 DEF Switched
    <3> QED BY <1>3, <1>5, <3>1 DEF Switched
  <2>2. \A t : View(u, c, s, t) = u[t] /\ View(st, c, s, t) = st[t]
    BY <1>5 DEF View
  <2> QED BY <1>1, <1>3, <1>5, <2>1, <2>2
<1>6. CASE s # c
  <2>1. PICK k \in Nat : OnlyCut(st[s], k)
    BY <1>6 DEF Switched
  <2>2. OnlyCut(u[s], k)
    <3>1. k \in 1 .. n /\ \A i \in 1 .. n : Suspended(st[s][i]) <=> i = k
      BY <2>1 DEF OnlyCut
    <3>2. k \in 1 .. Len(u[s]) /\ k # n + 1
      BY <1>1, <1>2, <1>3, <3>1
    <3> QED BY <1>4, <3>1, <3>2 DEF OnlyCut
  <2>3. Switched(u, c, s)
    BY <1>3, <1>6, <2>2 DEF Switched
  <2>4. /\ View(st, c, s, s) = SubSeq(st[s], 1, k)
        /\ View(st, c, s, c) = st[c] \o SubSeq(st[s], k + 1, n)
        /\ \A t : t # s /\ t # c => View(st, c, s, t) = st[t]
    BY <1>6, <2>1, ViewAt
  <2>5. /\ View(u, c, s, s) = SubSeq(u[s], 1, k)
        /\ View(u, c, s, c) = u[c] \o SubSeq(u[s], k + 1, Len(u[s]))
        /\ \A t : t # s /\ t # c => View(u, c, s, t) = u[t]
    BY <1>6, <2>2, ViewAt
  <2>6. /\ SubSeq(u[s], 1, k) = SubSeq(st[s], 1, k)
        /\ SubSeq(u[s], k + 1, Len(u[s])) = Append(SubSeq(st[s], k + 1, n), g)
        /\ SubSeq(st[s], k + 1, n) \in Seq(FrameType)
    <3> DEFINE x == st[s]
    <3>1. k \in 0 .. Len(x) /\ x \in Seq(FrameType) /\ g \in FrameType
      BY <1>1, <2>1 DEF OnlyCut
    <3>2. u[s] = Append(x, g) /\ n = Len(x)
      BY <1>3
    <3> HIDE DEF x, n
    <3>3. /\ SubSeq(Append(x, g), 1, k) = SubSeq(x, 1, k)
          /\ SubSeq(Append(x, g), k + 1, Len(Append(x, g))) = Append(SubSeq(x, k + 1, Len(x)), g)
          /\ SubSeq(x, k + 1, Len(x)) \in Seq(FrameType)
      BY <3>1, CutAppend
    <3> QED BY <3>2, <3>3 DEF x
  <2>7. View(u, c, s, c) = Append(View(st, c, s, c), g) /\ View(st, c, s, c) \in Seq(FrameType)
    <3>1. /\ View(st, c, s, c) = st[c] \o SubSeq(st[s], k + 1, n)
          /\ View(u, c, s, c) = st[c] \o Append(SubSeq(st[s], k + 1, n), g)
      BY <1>3, <1>6, <2>4, <2>5, <2>6
    <3> DEFINE w == SubSeq(st[s], k + 1, n)
    <3>2. w \in Seq(FrameType) /\ View(st, c, s, c) = st[c] \o w
          /\ View(u, c, s, c) = st[c] \o Append(w, g)
      BY <2>6, <3>1
    <3> HIDE DEF w
    <3>3. st[c] \o Append(w, g) = Append(st[c] \o w, g) /\ st[c] \o w \in Seq(FrameType)
      <4> DEFINE x == st[c]
      <4>1. x \in Seq(FrameType)
        BY <1>1
      <4> HIDE DEF x
      <4>2. x \o Append(w, g) = Append(x \o w, g) /\ x \o w \in Seq(FrameType)
        BY <3>2, <4>1, ConcatAppend
      <4> QED BY <4>2 DEF x
    <3> QED BY <3>2, <3>3
  <2>8. \A t \in Thread \ {c} : View(u, c, s, t) = View(st, c, s, t)
    BY <1>3, <2>4, <2>5, <2>6
  <2> QED BY <1>3, <2>3, <2>7, <2>8
<1> QED BY <1>5, <1>6

\* A frame popped from the stack in use was the last of the current thread.
LEMMA ViewPop ==
    ASSUME NEW st, NEW c \in Thread, NEW s \in Thread, Switched(st, c, s),
           NEW g, ~ Suspended(g), NEW u, OneMore(u, st, s, g)
    PROVE  Switched(u, c, s) /\ OneMoreView(u, st, c, s, g)
<1> DEFINE n == Len(u[s])
<1>1. /\ n \in Nat /\ Len(st[s]) = n + 1 /\ st[s][n + 1] = g
      /\ \A i \in 1 .. n : st[s][i] = u[s][i]
      /\ \A t \in Thread \ {s} : st[t] = u[t]
  <2>1. /\ u[s] \in Seq(FrameType) /\ g \in FrameType /\ st[s] = Append(u[s], g)
        /\ \A t \in Thread \ {s} : st[t] = u[t]
    BY DEF OneMore, Stacks
  <2> QED BY <2>1, AppendProperties, LenProperties
<1>2. Switched(u, c, s)
  <2>1. CASE s = c
    <3>1. \A i \in 1 .. Len(u[s]) : ~ Suspended(u[s][i])
      BY <1>1, <2>1 DEF Switched
    <3> QED BY <1>1, <2>1, <3>1 DEF Switched
  <2>2. CASE s # c
    <3>1. PICK k \in Nat : OnlyCut(st[s], k)
      BY <2>2 DEF Switched
    <3>2. k # n + 1
      BY <1>1, <3>1 DEF OnlyCut
    <3>3. OnlyCut(u[s], k)
      BY <1>1, <3>1, <3>2 DEF OnlyCut
    <3> QED BY <1>1, <2>2, <3>3 DEF Switched
  <2> QED BY <2>1, <2>2
<1>3. OneMoreView(u, st, c, s, g)
  BY <1>2, ViewPush, Zenon
<1> QED BY <1>2, <1>3

-----------------------------------------------------------------------------
(* A step of the frame that runs.                                          *)

\* The invariant of the stacks st, where `current' is c and the stack in use
\* that of s, and of the counters a, b and e.
Good(st, c, s, a, b, e) ==
    /\ st \in Stacks /\ c \in Thread /\ s \in Thread /\ Switched(st, c, s)
    /\ a \in [Thread -> Nat] /\ b \in [Thread -> Nat] /\ e \in [Thread -> BOOLEAN]
    /\ \A t \in Thread : Match(View(st, c, s, t), a[t], b[t], e[t])

Becomes(st, u, s, fs) == u = [st EXCEPT ![s] = Front(@) \o fs]

\* With the stacks u the current thread has the frames fs.
Viewed(st, u, c, s, fs) ==
    /\ u \in Stacks /\ Switched(u, c, s) /\ View(u, c, s, c) = fs
    /\ \A t \in Thread \ {c} : View(u, c, s, t) = View(st, c, s, t)

LEMMA ViewOfTop ==
    ASSUME NEW st, NEW c, NEW s, NEW a, NEW b, NEW e, Good(st, c, s, a, b, e)
    PROVE  /\ st[s] \in Seq(FrameType) /\ st[s] # <<>> /\ Last(st[s]) \in FrameType
           /\ Front(st[s]) \in Seq(FrameType)
           /\ Match(View(st, c, s, c), a[c], b[c], e[c])
<1>1. st[s] \in Seq(FrameType) /\ Match(View(st, c, s, c), a[c], b[c], e[c])
  BY DEF Good, Stacks
<1>2. st[s] # <<>>
  <2>1. CASE s = c
    <3>1. View(st, c, s, c) = st[s]
      BY <2>1 DEF View
    <3> QED BY <1>1, <3>1 DEF Match, StackInv
  <2>2. CASE s # c
    <3>1. PICK k \in Nat : OnlyCut(st[s], k)
      BY <2>2 DEF Good, Switched
    <3>2. k \in 1 .. Len(st[s])
      BY <3>1 DEF OnlyCut
    <3>3. Len(<<>>) = 0
      OBVIOUS
    <3> QED BY <3>2, <3>3
  <2> QED BY <2>1, <2>2
<1> QED BY <1>1, <1>2, FrontLast

\* The stacks without the frame that runs.
LEMMA PopView ==
    ASSUME NEW st, NEW c, NEW s, NEW a, NEW b, NEW e, Good(st, c, s, a, b, e),
           ~ Suspended(Last(st[s]))
    PROVE  \E w \in Stacks :
              /\ w[s] = Front(st[s]) /\ \A t \in Thread \ {s} : w[t] = st[t]
              /\ Viewed(st, w, c, s, Front(View(st, c, s, c)))
              /\ Last(View(st, c, s, c)) = Last(st[s])
<1> DEFINE w == [st EXCEPT ![s] = Front(@)]
           g == Last(st[s])
<1>1. /\ st[s] \in Seq(FrameType) /\ st[s] # <<>> /\ g \in FrameType
      /\ Front(st[s]) \in Seq(FrameType)
      /\ st \in Stacks /\ c \in Thread /\ s \in Thread /\ Switched(st, c, s)
  <2>1. /\ st[s] \in Seq(FrameType) /\ st[s] # <<>> /\ Last(st[s]) \in FrameType
        /\ Front(st[s]) \in Seq(FrameType)
    BY ViewOfTop, Zenon
  <2> QED BY <2>1, Zenon DEF Good
<1>2. w \in Stacks /\ w[s] = Front(st[s]) /\ \A t \in Thread \ {s} : w[t] = st[t]
  BY <1>1 DEF Stacks
<1>3. st[s] = Append(Front(st[s]), g)
  BY <1>1, FrontAndLast
<1>4. OneMore(w, st, s, g)
  BY <1>1, <1>2, <1>3 DEF OneMore
<1>5. ~ Suspended(g)
  OBVIOUS
<1> HIDE DEF w, g
<1>6. Switched(w, c, s) /\ OneMoreView(w, st, c, s, g)
  BY <1>1, <1>4, <1>5, ViewPop, Zenon
<1>7. /\ View(st, c, s, c) = Append(View(w, c, s, c), g)
      /\ View(w, c, s, c) \in Seq(FrameType)
      /\ \A t \in Thread \ {c} : View(st, c, s, t) = View(w, c, s, t)
  BY <1>6 DEF OneMoreView
<1>8. Front(View(st, c, s, c)) = View(w, c, s, c) /\ Last(View(st, c, s, c)) = g
  <2> DEFINE v == View(w, c, s, c)
  <2>1. v \in Seq(FrameType) /\ View(st, c, s, c) = Append(v, g)
    BY <1>7
  <2> HIDE DEF v
  <2>2. Front(Append(v, g)) = v /\ Last(Append(v, g)) = g
    BY <1>1, <2>1, FrontOfAppend
  <2> QED BY <2>1, <2>2 DEF v
<1>9. Viewed(st, w, c, s, Front(View(st, c, s, c)))
  BY <1>2, <1>6, <1>7, <1>8 DEF Viewed
<1> QED BY <1>2, <1>8, <1>9 DEF g

\* The stacks with one more frame.
LEMMA PushView ==
    ASSUME NEW st, NEW w \in Stacks, NEW c \in Thread, NEW s \in Thread, NEW v,
           Viewed(st, w, c, s, v), NEW g \in FrameType, ~ Suspended(g)
    PROVE  \E x \in Stacks :
              /\ x[s] = Append(w[s], g) /\ \A t \in Thread \ {s} : x[t] = w[t]
              /\ Viewed(st, x, c, s, Append(v, g))
<1> DEFINE x == [w EXCEPT ![s] = Append(@, g)]
<1>1. Switched(w, c, s) /\ View(w, c, s, c) = v
  BY DEF Viewed
<1>2. x \in Stacks /\ x[s] = Append(w[s], g) /\ \A t \in Thread \ {s} : x[t] = w[t]
  BY AppendProperties DEF Stacks
<1>3. OneMore(w, x, s, g)
  BY <1>2 DEF OneMore
<1> HIDE DEF x
<1>4. Switched(x, c, s) /\ OneMoreView(w, x, c, s, g)
  BY <1>1, <1>3, ViewPush, Zenon
<1>5. Viewed(st, x, c, s, Append(v, g))
  BY <1>1, <1>2, <1>4 DEF Viewed, OneMoreView
<1> QED BY <1>2, <1>5

LEMMA SameStacks ==
    ASSUME NEW st \in Stacks, NEW s \in Thread, NEW w \in Stacks, NEW u, NEW fs,
           Becomes(st, u, s, fs), w[s] = Front(st[s]) \o fs,
           \A t \in Thread \ {s} : w[t] = st[t]
    PROVE  u = w
BY DEF Becomes, Stacks

\* The frame that runs returns, goes on as g, or goes on as g and calls h.
LEMMA ReturnView ==
    ASSUME NEW st, NEW c, NEW s, NEW a, NEW b, NEW e, Good(st, c, s, a, b, e),
           ~ Suspended(Last(st[s])), NEW u, Becomes(st, u, s, <<>>)
    PROVE  Viewed(st, u, c, s, Front(View(st, c, s, c)))
<1>1. PICK w \in Stacks :
              /\ w[s] = Front(st[s]) /\ \A t \in Thread \ {s} : w[t] = st[t]
              /\ Viewed(st, w, c, s, Front(View(st, c, s, c)))
  BY PopView
<1>2. st \in Stacks /\ s \in Thread /\ Front(st[s]) \in Seq(FrameType)
  BY ViewOfTop DEF Good
<1>3. w[s] = Front(st[s]) \o <<>>
  BY <1>1, <1>2, ConcatEmptySeq
<1>4. u = w
  BY <1>1, <1>2, <1>3, SameStacks
<1> QED BY <1>1, <1>4

LEMMA ReplaceView ==
    ASSUME NEW st, NEW c, NEW s, NEW a, NEW b, NEW e, Good(st, c, s, a, b, e),
           ~ Suspended(Last(st[s])), NEW u, NEW g \in FrameType, ~ Suspended(g),
           Becomes(st, u, s, <<g>>)
    PROVE  Viewed(st, u, c, s, Append(Front(View(st, c, s, c)), g))
<1> DEFINE v == Front(View(st, c, s, c))
<1>1. PICK w \in Stacks :
              /\ w[s] = Front(st[s]) /\ \A t \in Thread \ {s} : w[t] = st[t]
              /\ Viewed(st, w, c, s, v)
  BY PopView
<1>2. st \in Stacks /\ s \in Thread /\ c \in Thread /\ Front(st[s]) \in Seq(FrameType)
  BY ViewOfTop DEF Good
<1> HIDE DEF v
<1>3. PICK x \in Stacks :
              /\ x[s] = Append(w[s], g) /\ \A t \in Thread \ {s} : x[t] = w[t]
              /\ Viewed(st, x, c, s, Append(v, g))
  BY <1>1, <1>2, PushView
<1>4. x[s] = Front(st[s]) \o <<g>>
  BY <1>1, <1>2, <1>3, JoinForms
<1>5. \A t \in Thread \ {s} : x[t] = st[t]
  BY <1>1, <1>3
<1>6. u = x
  BY <1>2, <1>4, <1>5, SameStacks
<1> QED BY <1>3, <1>6 DEF v

LEMMA CallView ==
    ASSUME NEW st, NEW c, NEW s, NEW a, NEW b, NEW e, Good(st, c, s, a, b, e),
           ~ Suspended(Last(st[s])), NEW u, NEW g \in FrameType, ~ Suspended(g),
           NEW h \in FrameType, ~ Suspended(h), Becomes(st, u, s, <<g, h>>)
    PROVE  Viewed(st, u, c, s, Append(Append(Front(View(st, c, s, c)), g), h))
<1> DEFINE v == Front(View(st, c, s, c))
<1>1. PICK w \in Stacks :
              /\ w[s] = Front(st[s]) /\ \A t \in Thread \ {s} : w[t] = st[t]
              /\ Viewed(st, w, c, s, v)
  BY PopView
<1>2. st \in Stacks /\ s \in Thread /\ c \in Thread /\ Front(st[s]) \in Seq(FrameType)
  BY ViewOfTop DEF Good
<1> HIDE DEF v
<1>3. PICK x \in Stacks :
              /\ x[s] = Append(w[s], g) /\ \A t \in Thread \ {s} : x[t] = w[t]
              /\ Viewed(st, x, c, s, Append(v, g))
  BY <1>1, <1>2, PushView
<1>4. PICK y \in Stacks :
              /\ y[s] = Append(x[s], h) /\ \A t \in Thread \ {s} : y[t] = x[t]
              /\ Viewed(st, y, c, s, Append(Append(v, g), h))
  BY <1>2, <1>3, PushView
<1>5. y[s] = Front(st[s]) \o <<g, h>>
  BY <1>1, <1>2, <1>3, <1>4, JoinForms
<1>6. \A t \in Thread \ {s} : y[t] = st[t]
  BY <1>1, <1>3, <1>4
<1>7. u = y
  BY <1>2, <1>5, <1>6, SameStacks
<1> QED BY <1>4, <1>7 DEF v

SetAt(a, a2, c, x) == a2 = [a EXCEPT ![c] = x]

LEMMA GoodFrom ==
    ASSUME NEW st, NEW c, NEW s, NEW a, NEW b, NEW e, Good(st, c, s, a, b, e),
           NEW u, NEW fs, Viewed(st, u, c, s, fs), NEW x, NEW y, NEW z, Match(fs, x, y, z),
           NEW a2, NEW b2, NEW e2, SetAt(a, a2, c, x), SetAt(b, b2, c, y), SetAt(e, e2, c, z)
    PROVE  Good(u, c, s, a2, b2, e2)
<1>1. x \in Nat /\ y \in Nat /\ z \in BOOLEAN
  BY MatchParts, Zenon
<1>2. /\ c \in Thread /\ s \in Thread
      /\ a \in [Thread -> Nat] /\ b \in [Thread -> Nat] /\ e \in [Thread -> BOOLEAN]
      /\ \A t \in Thread : Match(View(st, c, s, t), a[t], b[t], e[t])
  BY DEF Good
<1>3. /\ a2 \in [Thread -> Nat] /\ b2 \in [Thread -> Nat] /\ e2 \in [Thread -> BOOLEAN]
      /\ a2[c] = x /\ b2[c] = y /\ e2[c] = z
      /\ \A t \in Thread \ {c} : a2[t] = a[t] /\ b2[t] = b[t] /\ e2[t] = e[t]
  BY <1>1, <1>2 DEF SetAt
<1>4. ASSUME NEW t \in Thread PROVE Match(View(u, c, s, t), a2[t], b2[t], e2[t])
  <2>1. CASE t = c
    BY <1>3, <2>1 DEF Viewed
  <2>2. CASE t # c
    <3>1. View(u, c, s, t) = View(st, c, s, t) /\ a2[t] = a[t] /\ b2[t] = b[t] /\ e2[t] = e[t]
      BY <1>3, <2>2 DEF Viewed
    <3>2. Match(View(st, c, s, t), a[t], b[t], e[t])
      BY <1>2
    <3> QED BY <3>1, <3>2
  <2> QED BY <2>1, <2>2
<1> QED BY <1>2, <1>3, <1>4 DEF Good, Viewed

-----------------------------------------------------------------------------
(* The invariant of the specification.                                     *)

MasksOK == irq_soft_mask \subseteq SoftIrq /\ irq_sched_mask \subseteq SchedIrq

\* The inductive invariant: the frames of every thread are as the calls of
\* the kernel can stack them, its counters are what they hold, and only the
\* stacks that are not in use end in a suspended frame.
IInv == /\ Good(stack, current, sp, irq_soft_count, irq_sched_count, in_irq_ctx)
        /\ MasksOK

Cur == View(stack, current, sp, current)
Soft == irq_soft_count[current]
Sched == irq_sched_count[current]
Ctx == in_irq_ctx[current]

\* The counters of the current thread become x, y and z, and frames fs its.
SetCounts(x, y, z) ==
    /\ SetAt(irq_soft_count, irq_soft_count', current, x)
    /\ SetAt(irq_sched_count, irq_sched_count', current, y)
    /\ SetAt(in_irq_ctx, in_irq_ctx', current, z)

LEMMA TopFacts ==
    ASSUME IInv, ~ Suspended(Top)
    PROVE  /\ Last(Cur) = Top /\ Match(Cur, Soft, Sched, Ctx) /\ StackInv(Cur)
           /\ FrameInv(Top) /\ Top \in FrameType
           /\ Soft = SoftHeld(Cur) /\ Sched = SchedHeld(Cur)
           /\ Top.soft <= Soft /\ Top.sched <= Sched
           /\ Top.soft \in Nat /\ Top.sched \in Nat /\ Soft \in Nat /\ Sched \in Nat
           /\ Ctx \in BOOLEAN
           /\ current \in Thread /\ sp \in Thread
           /\ irq_soft_count \in [Thread -> Nat] /\ irq_sched_count \in [Thread -> Nat]
           /\ in_irq_ctx \in [Thread -> BOOLEAN]
           /\ irq_soft_mask \subseteq SoftIrq /\ irq_sched_mask \subseteq SchedIrq
<1>1. Good(stack, current, sp, irq_soft_count, irq_sched_count, in_irq_ctx)
  BY DEF IInv
<1>2. Match(Cur, Soft, Sched, Ctx)
  BY <1>1, ViewOfTop DEF Cur, Soft, Sched, Ctx
<1>3. Last(Cur) = Top
  BY <1>1, PopView DEF Cur, Top
<1>4. /\ FrameInv(Last(Cur)) /\ Last(Cur) \in FrameType
      /\ Last(Cur).soft \in Nat /\ Last(Cur).sched \in Nat
      /\ SoftHeld(Front(Cur)) \in Nat /\ Soft = SoftHeld(Front(Cur)) + Last(Cur).soft
      /\ SchedHeld(Front(Cur)) \in Nat /\ Sched = SchedHeld(Front(Cur)) + Last(Cur).sched
      /\ Ctx \in BOOLEAN /\ Soft \in Nat /\ Sched \in Nat
  BY <1>2, MatchParts, Zenon
<1>5. Last(Cur).soft <= Soft /\ Last(Cur).sched <= Sched
  <2> DEFINE p == SoftHeld(Front(Cur))
             q == SchedHeld(Front(Cur))
  <2>1. p \in Nat /\ q \in Nat /\ Soft = p + Last(Cur).soft /\ Sched = q + Last(Cur).sched
        /\ Last(Cur).soft \in Nat /\ Last(Cur).sched \in Nat
    BY <1>4
  <2> HIDE DEF p, q
  <2> QED BY <2>1
<1>6. /\ current \in Thread /\ sp \in Thread
      /\ irq_soft_count \in [Thread -> Nat] /\ irq_sched_count \in [Thread -> Nat]
      /\ in_irq_ctx \in [Thread -> BOOLEAN]
      /\ irq_soft_mask \subseteq SoftIrq /\ irq_sched_mask \subseteq SchedIrq
  BY DEF IInv, Good, MasksOK
<1>7. StackInv(Cur) /\ Soft = SoftHeld(Cur) /\ Sched = SchedHeld(Cur)
  BY <1>2 DEF Match
<1> QED BY <1>2, <1>3, <1>4, <1>5, <1>6, <1>7

\* A step that only changes what the current thread has.
LEMMA StepFrom ==
    ASSUME IInv, NEW fs, NEW x, NEW y, NEW z, Match(fs, x, y, z),
           Viewed(stack, stack', current, sp, fs), SetCounts(x, y, z),
           current' = current, sp' = sp, MasksOK'
    PROVE  IInv'
<1>1. Good(stack', current, sp, irq_soft_count', irq_sched_count', in_irq_ctx')
  <2>1. /\ Good(stack, current, sp, irq_soft_count, irq_sched_count, in_irq_ctx)
        /\ SetAt(irq_soft_count, irq_soft_count', current, x)
        /\ SetAt(irq_sched_count, irq_sched_count', current, y)
        /\ SetAt(in_irq_ctx, in_irq_ctx', current, z)
    BY DEF IInv, SetCounts
  <2> QED BY <2>1, GoodFrom, Zenon
<1> QED BY <1>1 DEF IInv

\* The frame that runs returns.
LEMMA ReturnStep ==
    ASSUME IInv, ~ Suspended(Top), Become(<<>>), current' = current, sp' = sp, MasksOK',
           Top.fn # "thread", ~ IsIrq(Top), NEW x, NEW y, SetCounts(x, y, Ctx),
           x = Soft - Top.soft, y = Sched - Top.sched
    PROVE  IInv'
<1>1. Last(Cur) = Top /\ Match(Cur, Soft, Sched, Ctx)
  BY TopFacts
<1>2. Match(Front(Cur), x, y, Ctx)
  BY <1>1, MatchPop
<1>3. Viewed(stack, stack', current, sp, Front(Cur))
  <2>1. /\ Good(stack, current, sp, irq_soft_count, irq_sched_count, in_irq_ctx)
        /\ ~ Suspended(Last(stack[sp])) /\ Becomes(stack, stack', sp, <<>>)
    BY DEF IInv, Top, Become, Becomes
  <2> QED BY <2>1, ReturnView, Zenon DEF Cur
<1> QED BY <1>2, <1>3, StepFrom

\* It goes on as g.
LEMMA ReplaceStep ==
    ASSUME IInv, ~ Suspended(Top), NEW g, Become(<<g>>), current' = current, sp' = sp, MasksOK',
           FrameInv(g), g.fn = Top.fn, ~ Suspended(g),
           NEW x, NEW y, NEW z \in BOOLEAN, SetCounts(x, y, z),
           x = (Soft - Top.soft) + g.soft, y = (Sched - Top.sched) + g.sched,
           z <=> IF g.fn = "excpt_irq" THEN IsIrq(g) ELSE Ctx
    PROVE  IInv'
<1>1. Last(Cur) = Top /\ Match(Cur, Soft, Sched, Ctx)
  BY TopFacts
<1>2. Match(Append(Front(Cur), g), x, y, z)
  BY <1>1, MatchReplace
<1>3. Viewed(stack, stack', current, sp, Append(Front(Cur), g))
  <2>1. /\ Good(stack, current, sp, irq_soft_count, irq_sched_count, in_irq_ctx)
        /\ ~ Suspended(Last(stack[sp])) /\ Becomes(stack, stack', sp, <<g>>)
        /\ g \in FrameType
    BY DEF IInv, Top, Become, Becomes, FrameInv
  <2> QED BY <2>1, ReplaceView, Zenon DEF Cur
<1> QED BY <1>2, <1>3, StepFrom

\* It goes on as g and calls h.
LEMMA CallStep ==
    ASSUME IInv, ~ Suspended(Top), NEW g, NEW h, Become(<<g, h>>),
           current' = current, sp' = sp, MasksOK',
           FrameInv(g), g.fn = Top.fn, ~ Suspended(g), FrameInv(h), ~ Suspended(h),
           ~ IsIrq(h), h.soft = 0, h.sched = 0,
           NEW x, NEW y, NEW z \in BOOLEAN, SetCounts(x, y, z),
           x = (Soft - Top.soft) + g.soft, y = (Sched - Top.sched) + g.sched,
           z <=> IF g.fn = "excpt_irq" THEN IsIrq(g) ELSE Ctx,
           \A s : StackInv(s) /\ Last(s) = g /\ x = SoftHeld(s) /\ y = SchedHeld(s)
                     => StackInv(Append(s, h))
    PROVE  IInv'
<1> DEFINE v == Append(Front(Cur), g)
<1>1. Last(Cur) = Top /\ Match(Cur, Soft, Sched, Ctx)
  BY TopFacts
<1>2. Match(v, x, y, z)
  BY <1>1, MatchReplace
<1>3. Last(v) = g /\ g \in FrameType /\ h \in FrameType
  <2>1. Front(Cur) \in Seq(FrameType) /\ g \in FrameType /\ h \in FrameType
    BY <1>1, MatchParts DEF FrameInv
  <2> QED BY <2>1, FrontOfAppend
<1>4. Viewed(stack, stack', current, sp, Append(v, h))
  <2>1. /\ Good(stack, current, sp, irq_soft_count, irq_sched_count, in_irq_ctx)
        /\ ~ Suspended(Last(stack[sp])) /\ Becomes(stack, stack', sp, <<g, h>>)
    BY DEF IInv, Top, Become, Becomes
  <2> QED BY <1>3, <2>1, CallView, Zenon DEF Cur
<1> HIDE DEF v
<1>5. StackInv(Append(v, h))
  BY <1>2, <1>3 DEF Match
<1>6. x \in Nat /\ y \in Nat
  BY <1>2, MatchParts, Zenon
<1>7. x = x + h.soft /\ y = y + h.sched /\ (z <=> z \/ IsIrq(h))
  <2>1. x = x + 0 /\ y = y + 0
    BY ONLY <1>6
  <2> QED BY <2>1
<1>8. Match(Append(v, h), x, y, z)
  BY <1>2, <1>3, <1>5, <1>7, MatchPush
<1> QED BY <1>4, <1>8, StepFrom

-----------------------------------------------------------------------------
(* The actions keep the invariant.                                         *)

\* The handler of IRQ_SCHED_SCHEDULE runs when nothing else is left to run.
LEMMA ScheduleIsLast ==
    ASSUME NEW m \in SUBSET (SoftIrq \union SchedIrq), m # {}
    PROVE  /\ Lowest(m) \in m
           /\ m \subseteq SchedIrq =>
                 (Lowest(m) = IRQ_SCHED_SCHEDULE <=> m = {IRQ_SCHED_SCHEDULE})
<1>1. m \in SUBSET Nat
  BY IrqConstants DEF SoftIrq, SchedIrq
<1>2. Lowest(m) \in m /\ \A y \in m : Lowest(m) <= y
  BY <1>1, LeastOf DEF Lowest
<1>3. ASSUME m \subseteq SchedIrq, Lowest(m) = IRQ_SCHED_SCHEDULE
      PROVE  m = {IRQ_SCHED_SCHEDULE}
  <2>1. \A y \in m : y \in Nat /\ y <= IRQ_SCHED_SCHEDULE /\ IRQ_SCHED_SCHEDULE <= y
    BY <1>2, <1>3, IrqConstants DEF SchedIrq
  <2>2. \A y \in m : y = IRQ_SCHED_SCHEDULE
    BY <2>1, IrqConstants
  <2> QED BY <2>2
<1> QED BY <1>2, <1>3

LEMMA SameCounts ==
    ASSUME IInv, UNCHANGED counts
    PROVE  SetCounts(Soft, Sched, Ctx)
BY DEF IInv, Good, counts, SetCounts, SetAt, Soft, Sched, Ctx

\* g is f elsewhere, with other counts or another mask.
Edited(g, f, p, m, n, k) == /\ g \in FrameType /\ g.fn = f.fn /\ g.pc = p
                            /\ g.mask = m /\ g.soft = n /\ g.sched = k

Pc == {"code", "schedule", "enable", "exit", "run", "no_sched", "fetch", "clear", "switch",
       "soft_dec", "sched_dec"}

LEMMA EditSoft ==
    ASSUME NEW f \in FrameType, NEW n \in 0 .. MaxNest, NEW p \in Pc
    PROVE  Edited([f EXCEPT !.soft = n, !.pc = p], f, p, f.mask, n, f.sched)
BY DEF FrameType, Edited, Pc

LEMMA EditSched ==
    ASSUME NEW f \in FrameType, NEW n \in 0 .. MaxNest, NEW p \in Pc
    PROVE  Edited([f EXCEPT !.sched = n, !.pc = p], f, p, f.mask, f.soft, n)
BY DEF FrameType, Edited, Pc

LEMMA EditMask ==
    ASSUME NEW f \in FrameType, NEW m \in SUBSET (SoftIrq \union SchedIrq), NEW p \in Pc
    PROVE  Edited([f EXCEPT !.mask = m, !.pc = p], f, p, m, f.soft, f.sched)
BY DEF FrameType, Edited, Pc

LEMMA EditPc ==
    ASSUME NEW f \in FrameType, NEW p \in Pc
    PROVE  Edited([f EXCEPT !.pc = p], f, p, f.mask, f.soft, f.sched)
BY DEF FrameType, Edited, Pc

LEMMA SoftDisableKeeps == ASSUME IInv, SoftDisable PROVE IInv'
<1> DEFINE g == [Top EXCEPT !.soft = @ + 1]
<1>1. ~ Suspended(Top)
  BY DEF SoftDisable, InCode, Suspended
<1>2. /\ FrameInv(Top) /\ Top \in FrameType /\ Top.soft < MaxNest
      /\ Top.soft \in Nat /\ Top.sched \in Nat /\ Soft \in Nat /\ Sched \in Nat
      /\ Ctx \in BOOLEAN /\ current \in Thread /\ InCode
  BY <1>1, TopFacts DEF SoftDisable
<1>3. /\ g.fn = Top.fn /\ g.pc = Top.pc /\ g.mask = Top.mask
      /\ g.soft = Top.soft + 1 /\ g.sched = Top.sched /\ g \in FrameType
  BY <1>2, IrqConstants DEF FrameType
<1> HIDE DEF g
<1>4. FrameInv(g)
  <2>1. CASE Top.fn = "thread" /\ Top.pc = "code"
    BY <1>2, <1>3, <2>1 DEF FrameInv, ThreadFrame, ExcptFrame, SoftIrqFrame, SchedIrqFrame,
       RaiseFrame
  <2>2. CASE /\ Top.fn = "irq_sched" /\ Top.pc = "run"
             /\ Lowest(Top.mask) # IRQ_SCHED_SCHEDULE
    <3>1. SchedIrqFrame(Top)
      BY <1>2, <2>2 DEF FrameInv, ThreadFrame, ExcptFrame, SoftIrqFrame, RaiseFrame
    <3>2. Top.mask # {} /\ Top.mask \subseteq SchedIrq
      BY <2>2, <3>1 DEF SchedIrqFrame
    <3>3. Top.mask # {IRQ_SCHED_SCHEDULE}
      BY <2>2, <3>2, ScheduleIsLast
    <3>4. SchedIrqFrame(g)
      BY <1>3, <2>2, <3>1, <3>2, <3>3 DEF SchedIrqFrame
    <3> QED BY <1>3, <3>4 DEF FrameInv
  <2> QED BY <1>2, <2>1, <2>2 DEF InCode
<1>5. SetCounts(Soft + 1, Sched, Ctx)
  BY TopFacts, <1>1 DEF SoftDisable, SetCounts, SetAt, Soft, Sched, Ctx
<1>6. /\ Soft + 1 = (Soft - Top.soft) + g.soft
      /\ Sched = (Sched - Top.sched) + g.sched
  BY <1>2, <1>3
<1>7. g.fn # "excpt_irq" /\ ~ Suspended(g)
  BY <1>1, <1>2, <1>3 DEF InCode, Suspended
<1>8. Become(<<g>>) /\ current' = current /\ sp' = sp /\ MasksOK'
  BY DEF SoftDisable, g, IInv, MasksOK
<1> QED BY <1>1, <1>2, <1>3, <1>4, <1>5, <1>6, <1>7, <1>8, ReplaceStep

\* A frame that holds as much as before.
LEMMA SameHeld ==
    ASSUME IInv, ~ Suspended(Top), NEW g, g.soft = Top.soft, g.sched = Top.sched
    PROVE  Soft = (Soft - Top.soft) + g.soft /\ Sched = (Sched - Top.sched) + g.sched
<1>1. Top.soft \in Nat /\ Top.sched \in Nat /\ Soft \in Nat /\ Sched \in Nat
  BY TopFacts
<1>2. Soft = (Soft - Top.soft) + Top.soft /\ Sched = (Sched - Top.sched) + Top.sched
  BY ONLY <1>1
<1> QED BY <1>2

\* irq_soft_enable() up to its call of irq_soft().
LEMMA EnableSoft ==
    ASSUME IInv, ~ Suspended(Top), NEW g, FrameInv(g), g.fn = Top.fn, ~ Suspended(g),
           g.soft = Top.soft, g.sched = Top.sched, g.soft > 0,
           current' = current, sp' = sp, MasksOK',
           NEW z \in BOOLEAN, SetCounts(Soft, Sched, z),
           z <=> IF g.fn = "excpt_irq" THEN IsIrq(g) ELSE Ctx,
           Become(<<g>>) \/ (Soft = 1 /\ Become(<<g, SoftFrame>>))
    PROVE  IInv'
<1>1. Soft = (Soft - Top.soft) + g.soft /\ Sched = (Sched - Top.sched) + g.sched
  BY SameHeld
<1>2. CASE Become(<<g>>)
  BY <1>1, <1>2, ReplaceStep
<1>3. CASE Soft = 1 /\ Become(<<g, SoftFrame>>)
  <2>1. Top.soft \in Nat /\ Top.soft <= Soft /\ Top.soft > 0
    BY TopFacts
  <2>2. g.soft = 1
    BY <1>3, <2>1
  <2>3. \A s : StackInv(s) /\ Last(s) = g /\ Soft = SoftHeld(s) /\ Sched = SchedHeld(s)
                  => StackInv(Append(s, SoftFrame))
    BY <1>3, <2>2, PushSoftIrq
  <2>4. /\ FrameInv(SoftFrame) /\ ~ Suspended(SoftFrame) /\ ~ IsIrq(SoftFrame)
        /\ SoftFrame.soft = 0 /\ SoftFrame.sched = 0
    BY NewFrames DEF SoftFrame, Frame, Suspended, IsIrq
  <2> QED BY <1>1, <1>3, <2>3, <2>4, CallStep
<1> QED BY <1>2, <1>3

\* preempt_enable() up to its call of irq_sched().
LEMMA EnableSched ==
    ASSUME IInv, ~ Suspended(Top), NEW g, FrameInv(g), g.fn = Top.fn, ~ Suspended(g),
           g.soft = Top.soft, g.sched = Top.sched, g.sched > 0,
           g.fn = "thread", g.pc = "sched_dec",
           current' = current, sp' = sp, MasksOK', SetCounts(Soft, Sched, Ctx),
           Become(<<g>>) \/ (Sched = 1 /\ Become(<<g, SchedFrame>>))
    PROVE  IInv'
<1>1. Soft = (Soft - Top.soft) + g.soft /\ Sched = (Sched - Top.sched) + g.sched
  BY SameHeld
<1>2. Ctx \in BOOLEAN /\ (Ctx <=> IF g.fn = "excpt_irq" THEN IsIrq(g) ELSE Ctx)
  BY TopFacts
<1>3. CASE Become(<<g>>)
  BY <1>1, <1>2, <1>3, ReplaceStep
<1>4. CASE Sched = 1 /\ Become(<<g, SchedFrame>>)
  <2>1. Top.sched \in Nat /\ Top.sched <= Sched /\ Top.sched > 0
    BY TopFacts
  <2>2. g.sched = 1
    BY <1>4, <2>1
  <2>3. Calls(g, SchedFrame)
    BY <2>2 DEF Calls, SchedFrame, Frame
  <2>4. \A s : StackInv(s) /\ Last(s) = g /\ Soft = SoftHeld(s) /\ Sched = SchedHeld(s)
                  => StackInv(Append(s, SchedFrame))
    BY <1>4, <2>3, PushSchedIrq
  <2>5. /\ FrameInv(SchedFrame) /\ ~ Suspended(SchedFrame) /\ ~ IsIrq(SchedFrame)
        /\ SchedFrame.soft = 0 /\ SchedFrame.sched = 0
    BY NewFrames DEF SchedFrame, Frame, Suspended, IsIrq
  <2> QED BY <1>1, <1>2, <1>4, <2>4, <2>5, CallStep
<1> QED BY <1>3, <1>4

LEMMA SoftEnableKeeps == ASSUME IInv, SoftEnable PROVE IInv'
<1> DEFINE g == Goto("soft_dec")
<1>1. ~ Suspended(Top)
  BY DEF SoftEnable, InCode, Suspended
<1>2. /\ FrameInv(Top) /\ Top \in FrameType /\ Top.soft > 0 /\ Top.soft \in Nat
      /\ Ctx \in BOOLEAN /\ InCode
  BY <1>1, TopFacts DEF SoftEnable
<1>3. /\ g.fn = Top.fn /\ g.pc = "soft_dec" /\ g.mask = Top.mask
      /\ g.soft = Top.soft /\ g.sched = Top.sched /\ g \in FrameType
  BY <1>2 DEF FrameType, Goto
<1> HIDE DEF g
<1>4. FrameInv(g)
  <2>1. CASE Top.fn = "thread" /\ Top.pc = "code"
    BY <1>2, <1>3, <2>1 DEF FrameInv, ThreadFrame, ExcptFrame, SoftIrqFrame, SchedIrqFrame,
       RaiseFrame
  <2>2. CASE /\ Top.fn = "irq_sched" /\ Top.pc = "run"
             /\ Lowest(Top.mask) # IRQ_SCHED_SCHEDULE
    <3>1. SchedIrqFrame(Top)
      BY <1>2, <2>2 DEF FrameInv, ThreadFrame, ExcptFrame, SoftIrqFrame, RaiseFrame
    <3>2. Top.mask # {} /\ Top.mask \subseteq SchedIrq
      BY <2>2, <3>1 DEF SchedIrqFrame
    <3>3. Top.mask # {IRQ_SCHED_SCHEDULE}
      BY <2>2, <3>2, ScheduleIsLast
    <3>4. SchedIrqFrame(g)
      BY <1>2, <1>3, <2>2, <3>1, <3>2, <3>3 DEF SchedIrqFrame
    <3> QED BY <1>3, <3>4 DEF FrameInv
  <2> QED BY <1>2, <2>1, <2>2 DEF InCode
<1>5. SetCounts(Soft, Sched, Ctx)
  BY SameCounts DEF SoftEnable
<1>6. g.fn # "excpt_irq" /\ ~ Suspended(g)
  BY <1>2, <1>3 DEF InCode, Suspended
<1>7. Become(<<g>>) \/ (Soft = 1 /\ Become(<<g, SoftFrame>>))
  BY DEF SoftEnable, CallSoftEnable, g, Soft
<1>8. current' = current /\ sp' = sp /\ MasksOK'
  BY DEF SoftEnable, IInv, MasksOK
<1> QED BY <1>1, <1>2, <1>3, <1>4, <1>5, <1>6, <1>7, <1>8, EnableSoft

LEMMA PreemptEnableKeeps == ASSUME IInv, PreemptEnable PROVE IInv'
<1> DEFINE g == Goto("sched_dec")
<1>1. ~ Suspended(Top)
  BY DEF PreemptEnable, Suspended
<1>2. /\ FrameInv(Top) /\ Top \in FrameType /\ Top.sched > 0 /\ Top.sched \in Nat
      /\ Top.fn = "thread" /\ Top.pc = "code" /\ Top.soft = 0
  BY <1>1, TopFacts DEF PreemptEnable
<1>3. /\ g.fn = Top.fn /\ g.pc = "sched_dec" /\ g.mask = Top.mask
      /\ g.soft = Top.soft /\ g.sched = Top.sched /\ g \in FrameType
  BY <1>2 DEF FrameType, Goto
<1> HIDE DEF g
<1>4. FrameInv(g) /\ ~ Suspended(g)
  BY <1>2, <1>3 DEF FrameInv, ThreadFrame, ExcptFrame, SoftIrqFrame, SchedIrqFrame,
       RaiseFrame, Suspended
<1>5. SetCounts(Soft, Sched, Ctx)
  BY SameCounts DEF PreemptEnable
<1>6. Become(<<g>>) \/ (Sched = 1 /\ Become(<<g, SchedFrame>>))
  BY DEF PreemptEnable, CallSchedEnable, g, Sched
<1>7. current' = current /\ sp' = sp /\ MasksOK'
  BY DEF PreemptEnable, IInv, MasksOK
<1> QED BY <1>1, <1>2, <1>3, <1>4, <1>5, <1>6, <1>7, EnableSched

LEMMA ScheduleEndKeeps == ASSUME IInv, ScheduleEnd PROVE IInv'
<1> DEFINE g == Goto("sched_dec")
<1>1. ~ Suspended(Top)
  BY DEF ScheduleEnd, Suspended
<1>2. /\ FrameInv(Top) /\ Top \in FrameType
      /\ Top.fn = "thread" /\ Top.pc = "enable"
  BY <1>1, TopFacts DEF ScheduleEnd
<1>3. /\ g.fn = Top.fn /\ g.pc = "sched_dec" /\ g.mask = Top.mask
      /\ g.soft = Top.soft /\ g.sched = Top.sched /\ g \in FrameType
  BY <1>2 DEF FrameType, Goto
<1>4. ThreadFrame(Top)
  BY <1>2 DEF FrameInv, ExcptFrame, SoftIrqFrame, SchedIrqFrame, RaiseFrame
<1> HIDE DEF g
<1>5. FrameInv(g) /\ ~ Suspended(g) /\ g.sched > 0
  BY <1>2, <1>3, <1>4 DEF FrameInv, ThreadFrame, Suspended
<1>6. SetCounts(Soft, Sched, Ctx)
  BY SameCounts DEF ScheduleEnd
<1>7. Become(<<g>>) \/ (Sched = 1 /\ Become(<<g, SchedFrame>>))
  BY DEF ScheduleEnd, CallSchedEnable, g, Sched
<1>8. current' = current /\ sp' = sp /\ MasksOK'
  BY DEF ScheduleEnd, IInv, MasksOK
<1> QED BY <1>1, <1>2, <1>3, <1>5, <1>6, <1>7, <1>8, EnableSched

LEMMA FrameKinds ==
    ASSUME NEW f, FrameInv(f)
    PROVE  /\ f \in FrameType
           /\ f.fn = "thread" => ThreadFrame(f)
           /\ f.fn = "excpt_irq" => ExcptFrame(f)
           /\ f.fn = "irq_soft" => SoftIrqFrame(f)
           /\ f.fn = "irq_sched" => SchedIrqFrame(f)
           /\ f.fn = "irq_sched_raise" => RaiseFrame(f)
BY DEF FrameInv, ThreadFrame, ExcptFrame, SoftIrqFrame, SchedIrqFrame, RaiseFrame

LEMMA SoftDecrementKeeps == ASSUME IInv, SoftDecrement PROVE IInv'
<1> DEFINE n == Top.soft - 1
           p == IF Top.fn = "thread" THEN "code" ELSE "run"
           g == [Top EXCEPT !.soft = n, !.pc = p]
<1>1. ~ Suspended(Top) /\ Top.pc = "soft_dec"
  BY DEF SoftDecrement, Suspended
<1>2. /\ FrameInv(Top) /\ Top \in FrameType
      /\ Top.soft \in Nat /\ Top.sched \in Nat /\ Soft \in Nat /\ Sched \in Nat
      /\ Ctx \in BOOLEAN /\ current \in Thread
  BY <1>1, TopFacts
<1>3. SetCounts(Soft - 1, Sched, Ctx)
  BY TopFacts, <1>1 DEF SoftDecrement, SetCounts, SetAt, Soft, Sched, Ctx
<1>4. current' = current /\ sp' = sp /\ MasksOK'
  BY DEF SoftDecrement, IInv, MasksOK
<1>5. CASE Top.fn = "excpt_irq"
  <2>1. Top.soft = 1 /\ Top.sched = 0 /\ ~ IsIrq(Top)
    BY <1>1, <1>2, <1>5, FrameKinds DEF ExcptFrame, IsIrq
  <2>2. Soft - 1 = Soft - Top.soft /\ Sched = Sched - Top.sched
    BY <1>2, <2>1
  <2>3. Become(<<>>)
    BY <1>5 DEF SoftDecrement
  <2> QED BY <1>1, <1>3, <1>4, <1>5, <2>1, <2>2, <2>3, ReturnStep
<1>6. CASE Top.fn # "excpt_irq"
  <2>1. \/ Top.fn = "thread" /\ ThreadFrame(Top)
        \/ Top.fn = "irq_sched" /\ SchedIrqFrame(Top)
    BY <1>1, <1>2, <1>6, FrameKinds DEF FrameInv, ThreadFrame, ExcptFrame, SoftIrqFrame,
       SchedIrqFrame, RaiseFrame
  <2>2. Top.soft > 0
    BY <1>1, <2>1 DEF ThreadFrame, SchedIrqFrame
  <2>3. /\ g.fn = Top.fn /\ g.mask = Top.mask /\ g.pc = p
        /\ g.soft = n /\ g.sched = Top.sched /\ g \in FrameType
    <3>1. n \in 0 .. MaxNest /\ p \in Pc
      BY <1>2, <2>2, FrameFields, IrqConstants DEF Pc
    <3> HIDE DEF n, p
    <3>2. Edited(g, Top, p, Top.mask, n, Top.sched)
      BY <1>2, <3>1, EditSoft, Zenon
    <3> QED BY <3>2 DEF Edited
  <2> HIDE DEF g
  <2>4. FrameInv(g) /\ ~ Suspended(g) /\ g.fn # "excpt_irq"
    BY <1>1, <1>2, <1>6, <2>1, <2>3 DEF FrameInv, ThreadFrame, SchedIrqFrame, Suspended
  <2>5. /\ Soft - 1 = (Soft - Top.soft) + g.soft
        /\ Sched = (Sched - Top.sched) + g.sched
    BY <1>2, <2>3
  <2>6. Become(<<g>>)
    BY <1>6 DEF SoftDecrement, g, n, p
  <2> QED BY <1>1, <1>2, <1>3, <1>4, <2>3, <2>4, <2>5, <2>6, ReplaceStep
<1> QED BY <1>5, <1>6

LEMMA PreemptDisableKeeps == ASSUME IInv, PreemptDisable PROVE IInv'
<1> DEFINE g == [Top EXCEPT !.sched = @ + 1]
<1>1. /\ ~ Suspended(Top) /\ Top.pc = "code" /\ Top.fn = "thread" /\ Top.sched < MaxNest
  BY DEF PreemptDisable, Suspended
<1>2. /\ FrameInv(Top) /\ Top \in FrameType
      /\ Top.soft \in Nat /\ Top.sched \in Nat /\ Soft \in Nat /\ Sched \in Nat
      /\ Ctx \in BOOLEAN /\ current \in Thread
  BY <1>1, TopFacts
<1>3. SetCounts(Soft, Sched + 1, Ctx)
  BY TopFacts, <1>1 DEF PreemptDisable, SetCounts, SetAt, Soft, Sched, Ctx
<1>4. /\ g.fn = Top.fn /\ g.mask = Top.mask /\ g.pc = Top.pc
      /\ g.soft = Top.soft /\ g.sched = Top.sched + 1 /\ g \in FrameType
  BY <1>1, <1>2, IrqConstants DEF FrameType
<1>5. Become(<<g>>) /\ current' = current /\ sp' = sp /\ MasksOK'
  BY DEF PreemptDisable, IInv, MasksOK
<1> HIDE DEF g
<1>6. FrameInv(g) /\ ~ Suspended(g) /\ g.fn # "excpt_irq"
  BY <1>1, <1>2, <1>4, FrameKinds DEF FrameInv, ThreadFrame, Suspended
<1>7. /\ Soft = (Soft - Top.soft) + g.soft
      /\ Sched + 1 = (Sched - Top.sched) + g.sched
  BY <1>2, <1>4
<1> QED BY <1>1, <1>2, <1>3, <1>4, <1>5, <1>6, <1>7, ReplaceStep

LEMMA SchedDecrementKeeps == ASSUME IInv, SchedDecrement PROVE IInv'
<1> DEFINE n == Top.sched - 1
           p == IF Top.fn = "thread" THEN "code" ELSE "exit"
           g == [Top EXCEPT !.sched = n, !.pc = p]
<1>1. ~ Suspended(Top) /\ Top.pc = "sched_dec"
  BY DEF SchedDecrement, Suspended
<1>2. /\ FrameInv(Top) /\ Top \in FrameType
      /\ Top.soft \in Nat /\ Top.sched \in Nat /\ Soft \in Nat /\ Sched \in Nat
      /\ Ctx \in BOOLEAN /\ current \in Thread
      /\ Match(Cur, Soft, Sched, Ctx) /\ Last(Cur) = Top
  BY <1>1, TopFacts
<1>3. SetCounts(Soft, Sched - 1, Ctx)
  BY TopFacts, <1>1 DEF SchedDecrement, SetCounts, SetAt, Soft, Sched, Ctx
<1>4. \/ Top.fn = "thread" /\ ThreadFrame(Top)
      \/ Top.fn = "excpt_irq" /\ ExcptFrame(Top)
  BY <1>1, <1>2, FrameKinds DEF FrameInv, ThreadFrame, ExcptFrame, SoftIrqFrame,
     SchedIrqFrame, RaiseFrame
<1>5. Top.sched > 0
  BY <1>1, <1>4 DEF ThreadFrame, ExcptFrame
<1>6. /\ g.fn = Top.fn /\ g.mask = Top.mask /\ g.pc = p
      /\ g.soft = Top.soft /\ g.sched = n /\ g \in FrameType
  <2>1. n \in 0 .. MaxNest /\ p \in Pc
    BY <1>2, <1>5, FrameFields, IrqConstants DEF Pc
  <2> HIDE DEF n, p
  <2>2. Edited(g, Top, p, Top.mask, Top.soft, n)
    BY <1>2, <2>1, EditSched, Zenon
  <2> QED BY <2>2 DEF Edited
<1>7. Become(<<g>>) /\ current' = current /\ sp' = sp /\ MasksOK'
  BY DEF SchedDecrement, IInv, MasksOK
<1> HIDE DEF g
<1>8. FrameInv(g) /\ ~ Suspended(g)
  BY <1>1, <1>2, <1>4, <1>6 DEF FrameInv, ThreadFrame, ExcptFrame, Suspended
<1>9. /\ Soft = (Soft - Top.soft) + g.soft
      /\ Sched - 1 = (Sched - Top.sched) + g.sched
  BY <1>2, <1>6
<1>10. Ctx <=> IF g.fn = "excpt_irq" THEN IsIrq(g) ELSE Ctx
  <2>1. CASE g.fn = "excpt_irq"
    <3>1. IsIrq(Top) /\ IsIrq(g)
      BY <1>1, <1>6, <2>1 DEF IsIrq
    <3>2. Ctx <=> InIrq(Front(Cur)) \/ IsIrq(Top)
      BY <1>2, MatchParts
    <3> QED BY <2>1, <3>1, <3>2
  <2> QED BY <2>1
<1> QED BY <1>1, <1>2, <1>3, <1>6, <1>7, <1>8, <1>9, <1>10, ReplaceStep

\* schedule() in thread code.
LEMMA ScheduleKeeps == ASSUME IInv, Schedule PROVE IInv'
<1> DEFINE g == [Top EXCEPT !.sched = 1, !.pc = "schedule"]
<1>1. /\ ~ Suspended(Top) /\ Top.pc = "code" /\ Top.fn = "thread"
      /\ Top.sched = 0 /\ Top.soft = 0
  BY DEF Schedule, Suspended
<1>2. /\ FrameInv(Top) /\ Top \in FrameType
      /\ Soft \in Nat /\ Sched \in Nat
      /\ Ctx \in BOOLEAN /\ current \in Thread
  BY <1>1, TopFacts
<1>3. SetCounts(Soft, Sched + 1, Ctx)
  BY TopFacts, <1>1 DEF Schedule, SetCounts, SetAt, Soft, Sched, Ctx
<1>4. /\ g.fn = Top.fn /\ g.mask = Top.mask /\ g.pc = "schedule"
      /\ g.soft = Top.soft /\ g.sched = 1 /\ g \in FrameType
  <2>1. 1 \in 0 .. MaxNest /\ "schedule" \in Pc
    BY IrqConstants DEF Pc
  <2>2. Edited(g, Top, "schedule", Top.mask, Top.soft, 1)
    BY <1>2, <2>1, EditSched, Zenon
  <2> HIDE DEF g
  <2> QED BY <2>2 DEF Edited
<1>5. Become(<<g>>) /\ current' = current /\ sp' = sp /\ MasksOK'
  BY DEF Schedule, IInv, MasksOK
<1> HIDE DEF g
<1>6. FrameInv(g) /\ ~ Suspended(g) /\ g.fn # "excpt_irq"
  BY <1>1, <1>2, <1>4, FrameKinds DEF FrameInv, ThreadFrame, Suspended
<1>7. /\ Soft = (Soft - Top.soft) + g.soft
      /\ Sched + 1 = (Sched - Top.sched) + g.sched
  BY <1>1, <1>2, <1>4
<1> QED BY <1>1, <1>2, <1>3, <1>4, <1>5, <1>6, <1>7, ReplaceStep

\* A hard IRQ, whatever runs: also between the two halves of a switch, where
\* the frame it interrupts is not the current thread's.
LEMMA HardIrqKeeps ==
    ASSUME IInv, NEW S \in SUBSET SoftIrq, NEW D \in SUBSET SchedIrq, HardIrq(S, D)
    PROVE  IInv'
<1>1. current' = current /\ sp' = sp /\ MasksOK'
  BY DEF HardIrq, IInv, MasksOK
<1>2. CASE SoftNested
  <2>1. UNCHANGED <<stack, irq_soft_count, irq_sched_count, in_irq_ctx>>
    BY <1>2 DEF HardIrq
  <2> QED BY <1>1, <2>1 DEF IInv
<1>3. CASE ~ SoftNested
  <2> DEFINE g == Frame("excpt_irq", "sched", {}, 1, 0)
             h == SoftFrame
  <2>1. /\ Good(stack, current, sp, irq_soft_count, irq_sched_count, in_irq_ctx)
        /\ Match(Cur, Soft, Sched, Ctx)
        /\ stack \in Stacks /\ current \in Thread /\ sp \in Thread
        /\ Switched(stack, current, sp)
    <3>1. Good(stack, current, sp, irq_soft_count, irq_sched_count, in_irq_ctx)
      BY DEF IInv
    <3>2. Match(Cur, Soft, Sched, Ctx)
      BY <3>1, ViewOfTop, Zenon DEF Cur, Soft, Sched, Ctx
    <3> QED BY <3>1, <3>2 DEF Good
  <2>2. Soft = 0 /\ Soft + 1 = 1 /\ Sched + 0 = Sched /\ Sched \in Nat
    <3>1. Soft \in Nat /\ Sched \in Nat
      BY <2>1, MatchParts, Zenon
    <3> QED BY <1>3, <3>1 DEF SoftNested, Soft
  <2>3. SetCounts(1, Sched, TRUE)
    BY <1>3, <2>2 DEF HardIrq, SetCounts, SetAt, Soft, Sched, IInv, Good
  <2>4. Becomes(stack, stack', sp, <<Top, g, h>>)
    BY <1>3 DEF HardIrq, Become, Becomes
  <2>5. /\ g \in FrameType /\ FrameInv(g) /\ ~ Suspended(g) /\ IsIrq(g)
        /\ g.fn = "excpt_irq" /\ g.soft = 1 /\ g.sched = 0
        /\ h \in FrameType /\ FrameInv(h) /\ ~ Suspended(h) /\ ~ IsIrq(h)
        /\ h.soft = 0 /\ h.sched = 0
    BY NewFrames DEF SoftFrame, Frame, Suspended, IsIrq, FrameInv
  <2> HIDE DEF g, h
  <2>6. Match(Append(Cur, g), 1, Sched, TRUE)
    <3>1. SoftHeld(Cur) = 0 /\ StackInv(Cur)
      BY <2>1, <2>2 DEF Match
    <3>2. StackInv(Append(Cur, g))
      BY <2>5, <3>1, PushExcpt
    <3>3. 1 = Soft + g.soft /\ Sched = Sched + g.sched /\ (TRUE <=> Ctx \/ IsIrq(g))
      BY <2>2, <2>5
    <3> QED BY <2>1, <2>5, <3>2, <3>3, MatchPush
  <2>7. Match(Append(Append(Cur, g), h), 1, Sched, TRUE)
    <3>1. Cur \in Seq(FrameType)
      BY <2>1 DEF Match, StackInv
    <3>2. Last(Append(Cur, g)) = g
      BY <2>5, <3>1, FrontOfAppend
    <3>3. StackInv(Append(Cur, g)) /\ SoftHeld(Append(Cur, g)) = 1
      BY <2>6 DEF Match
    <3>4. StackInv(Append(Append(Cur, g), h))
      BY <2>5, <3>2, <3>3, PushSoftIrq DEF h
    <3>5. 1 = 1 + h.soft /\ Sched = Sched + h.sched /\ (TRUE <=> TRUE \/ IsIrq(h))
      BY <2>2, <2>5
    <3> QED BY <2>5, <2>6, <3>4, <3>5, MatchPush
  <2>8. Viewed(stack, stack, current, sp, Cur)
    BY <2>1 DEF Viewed, Cur
  <2>9. PICK x \in Stacks :
              /\ x[sp] = Append(stack[sp], g) /\ \A t \in Thread \ {sp} : x[t] = stack[t]
              /\ Viewed(stack, x, current, sp, Append(Cur, g))
    BY <2>1, <2>5, <2>8, PushView
  <2>10. PICK y \in Stacks :
              /\ y[sp] = Append(x[sp], h) /\ \A t \in Thread \ {sp} : y[t] = x[t]
              /\ Viewed(stack, y, current, sp, Append(Append(Cur, g), h))
    BY <2>1, <2>5, <2>9, PushView
  <2>11. stack' = y
    <3>1. /\ stack[sp] \in Seq(FrameType) /\ stack[sp] # <<>> /\ Top \in FrameType
          /\ Front(stack[sp]) \in Seq(FrameType)
      BY <2>1, ViewOfTop, Zenon DEF Top
    <3>2. stack[sp] = Append(Front(stack[sp]), Top)
      BY <3>1, FrontAndLast DEF Top
    <3>3. y[sp] = Append(Append(Append(Front(stack[sp]), Top), g), h)
      BY <2>9, <2>10, <3>2
    <3>4. y[sp] = Front(stack[sp]) \o <<Top, g, h>>
      BY <2>5, <3>1, <3>3, JoinForms
    <3>5. \A t \in Thread \ {sp} : y[t] = stack[t]
      BY <2>9, <2>10
    <3> QED BY <2>1, <2>4, <3>4, <3>5, SameStacks
  <2>12. Viewed(stack, stack', current, sp, Append(Append(Cur, g), h))
    BY <2>10, <2>11
  <2> QED BY <1>1, <2>3, <2>7, <2>12, StepFrom
<1> QED BY <1>2, <1>3

\* While a primary excpt_irq() runs in_irq_ctx is set.
LEMMA CtxSet ==
    ASSUME IInv, ~ Suspended(Top), IsIrq(Top)
    PROVE  Ctx
<1>1. Match(Cur, Soft, Sched, Ctx) /\ Last(Cur) = Top
  BY TopFacts
<1>2. Ctx <=> InIrq(Front(Cur)) \/ IsIrq(Last(Cur))
  BY <1>1, MatchParts
<1> QED BY <1>1, <1>2

LEMMA ExcptSchedKeeps == ASSUME IInv, ExcptSched PROVE IInv'
<1> DEFINE n == Top.sched + 1
           g == [Top EXCEPT !.sched = n, !.pc = "no_sched"]
<1>1. ~ Suspended(Top) /\ Top.fn = "excpt_irq" /\ Top.pc = "sched" /\ IsIrq(Top)
  BY DEF ExcptSched, Suspended, IsIrq
<1>2. /\ FrameInv(Top) /\ Top \in FrameType
      /\ Soft \in Nat /\ Sched \in Nat
      /\ Ctx \in BOOLEAN /\ current \in Thread
  BY <1>1, TopFacts
<1>3. SetCounts(Soft, Sched + 1, Ctx)
  BY TopFacts, <1>1 DEF ExcptSched, SetCounts, SetAt, Soft, Sched, Ctx
<1>4. Top.soft = 1 /\ Top.sched = 0 /\ Top.mask = {}
  BY <1>1, <1>2, FrameKinds DEF ExcptFrame
<1>5. /\ g.fn = Top.fn /\ g.mask = Top.mask /\ g.pc = "no_sched"
      /\ g.soft = Top.soft /\ g.sched = 1 /\ g \in FrameType
  <2>1. n \in 0 .. MaxNest /\ n = 1 /\ "no_sched" \in Pc
    BY <1>4, IrqConstants DEF Pc
  <2> HIDE DEF n
  <2>2. Edited(g, Top, "no_sched", Top.mask, Top.soft, n)
    BY <1>2, <2>1, EditSched, Zenon
  <2> HIDE DEF g
  <2> QED BY <2>1, <2>2 DEF Edited
<1>6. /\ IF SchedNested THEN Become(<<g>>) ELSE Become(<<g, SchedFrame>>)
      /\ current' = current /\ sp' = sp /\ MasksOK'
  BY DEF ExcptSched, IInv, MasksOK
<1> HIDE DEF n, g
<1>7. FrameInv(g) /\ ~ Suspended(g) /\ IsIrq(g)
  BY <1>1, <1>2, <1>4, <1>5 DEF FrameInv, ExcptFrame, Suspended, IsIrq
<1>8. /\ Soft = (Soft - Top.soft) + g.soft
      /\ Sched + 1 = (Sched - Top.sched) + g.sched
  BY <1>2, <1>4, <1>5
<1>9. Ctx <=> IF g.fn = "excpt_irq" THEN IsIrq(g) ELSE Ctx
  BY <1>1, <1>7, CtxSet
<1>10. CASE SchedNested
  <2>1. Become(<<g>>)
    BY <1>6, <1>10
  <2> QED BY <1>1, <1>2, <1>3, <1>5, <1>6, <1>7, <1>8, <1>9, <2>1, ReplaceStep
<1>11. CASE ~ SchedNested
  <2>1. Become(<<g, SchedFrame>>)
    BY <1>6, <1>11
  <2>2. Sched + 1 = 1
    BY <1>2, <1>11 DEF SchedNested, Sched
  <2>3. Calls(g, SchedFrame)
    BY <1>1, <1>5 DEF Calls, SchedFrame, Frame
  <2>4. \A s : StackInv(s) /\ Last(s) = g /\ Soft = SoftHeld(s) /\ Sched + 1 = SchedHeld(s)
                  => StackInv(Append(s, SchedFrame))
    BY <2>2, <2>3, PushSchedIrq
  <2>5. /\ FrameInv(SchedFrame) /\ ~ Suspended(SchedFrame) /\ ~ IsIrq(SchedFrame)
        /\ SchedFrame.soft = 0 /\ SchedFrame.sched = 0
    BY NewFrames DEF SchedFrame, Frame, Suspended, IsIrq
  <2> QED BY <1>1, <1>2, <1>3, <1>5, <1>6, <1>7, <1>8, <1>9, <2>1, <2>4, <2>5, CallStep
<1> QED BY <1>10, <1>11

LEMMA ExcptNoSchedKeeps == ASSUME IInv, ExcptNoSched PROVE IInv'
<1> DEFINE g == Goto("sched_dec")
<1>1. ~ Suspended(Top) /\ Top.fn = "excpt_irq" /\ Top.pc = "no_sched" /\ IsIrq(Top)
  BY DEF ExcptNoSched, Suspended, IsIrq
<1>2. /\ FrameInv(Top) /\ Top \in FrameType /\ Ctx \in BOOLEAN
  BY <1>1, TopFacts
<1>3. SetCounts(Soft, Sched, Ctx)
  BY SameCounts DEF ExcptNoSched
<1>4. /\ g.fn = Top.fn /\ g.mask = Top.mask /\ g.pc = "sched_dec"
      /\ g.soft = Top.soft /\ g.sched = Top.sched /\ g \in FrameType
  <2>1. "sched_dec" \in Pc
    BY DEF Pc
  <2>2. Edited(g, Top, "sched_dec", Top.mask, Top.soft, Top.sched)
    BY <1>2, <2>1, EditPc, Zenon DEF Goto
  <2> HIDE DEF g
  <2> QED BY <2>2 DEF Edited
<1>5. Ctx
  BY <1>1, CtxSet
<1>6. Become(<<g>>) /\ current' = current /\ sp' = sp /\ MasksOK'
  BY <1>5 DEF ExcptNoSched, CallSchedEnable, Ctx, IInv, MasksOK
<1> HIDE DEF g
<1>7. FrameInv(g) /\ ~ Suspended(g) /\ IsIrq(g)
  BY <1>1, <1>2, <1>4, FrameKinds DEF FrameInv, ExcptFrame, Suspended, IsIrq
<1>8. Soft = (Soft - Top.soft) + g.soft /\ Sched = (Sched - Top.sched) + g.sched
  BY <1>1, <1>4, SameHeld
<1> QED BY <1>1, <1>2, <1>3, <1>4, <1>5, <1>6, <1>7, <1>8, ReplaceStep

LEMMA ExcptExitKeeps == ASSUME IInv, ExcptExit PROVE IInv'
<1> DEFINE g == Goto("soft_dec")
<1>1. ~ Suspended(Top) /\ Top.fn = "excpt_irq" /\ Top.pc = "exit"
  BY DEF ExcptExit, Suspended
<1>2. /\ FrameInv(Top) /\ Top \in FrameType /\ Ctx \in BOOLEAN /\ current \in Thread
  BY <1>1, TopFacts
<1>3. SetCounts(Soft, Sched, FALSE)
  BY <1>1, TopFacts DEF ExcptExit, SetCounts, SetAt, Soft, Sched
<1>4. /\ g.fn = Top.fn /\ g.mask = Top.mask /\ g.pc = "soft_dec"
      /\ g.soft = Top.soft /\ g.sched = Top.sched /\ g \in FrameType
  <2>1. "soft_dec" \in Pc
    BY DEF Pc
  <2>2. Edited(g, Top, "soft_dec", Top.mask, Top.soft, Top.sched)
    BY <1>2, <2>1, EditPc, Zenon DEF Goto
  <2> HIDE DEF g
  <2> QED BY <2>2 DEF Edited
<1>5. Become(<<g>>) \/ (Soft = 1 /\ Become(<<g, SoftFrame>>))
  BY DEF ExcptExit, Soft
<1>6. current' = current /\ sp' = sp /\ MasksOK'
  BY DEF ExcptExit, IInv, MasksOK
<1> HIDE DEF g
<1>7. FrameInv(g) /\ ~ Suspended(g) /\ ~ IsIrq(g) /\ g.soft > 0
  BY <1>1, <1>2, <1>4, FrameKinds DEF FrameInv, ExcptFrame, Suspended, IsIrq
<1> QED BY <1>1, <1>2, <1>3, <1>4, <1>5, <1>6, <1>7, EnableSoft

LEMMA SoftFetchKeeps == ASSUME IInv, SoftFetch PROVE IInv'
<1> DEFINE m == irq_soft_mask
           g == [Top EXCEPT !.mask = m, !.pc = "run"]
<1>1. ~ Suspended(Top) /\ Top.fn = "irq_soft" /\ Top.pc = "fetch" /\ ~ IsIrq(Top)
  BY DEF SoftFetch, Suspended, IsIrq
<1>2. /\ FrameInv(Top) /\ Top \in FrameType /\ Ctx \in BOOLEAN
      /\ Soft \in Nat /\ Sched \in Nat /\ m \in SUBSET (SoftIrq \union SchedIrq)
  BY <1>1, TopFacts
<1>3. SetCounts(Soft, Sched, Ctx)
  BY SameCounts DEF SoftFetch
<1>4. Top.soft = 0 /\ Top.sched = 0
  BY <1>1, <1>2, FrameKinds DEF SoftIrqFrame
<1>5. current' = current /\ sp' = sp /\ MasksOK'
  BY DEF SoftFetch, IInv, MasksOK
<1>6. CASE m = {}
  <2>1. Become(<<>>)
    BY <1>6 DEF SoftFetch
  <2>2. Soft = Soft - Top.soft /\ Sched = Sched - Top.sched
    BY <1>2, <1>4
  <2> QED BY <1>1, <1>3, <1>5, <2>1, <2>2, ReturnStep
<1>7. CASE m # {}
  <2>1. Become(<<g>>)
    BY <1>7 DEF SoftFetch
  <2>2. /\ g.fn = Top.fn /\ g.mask = m /\ g.pc = "run"
        /\ g.soft = Top.soft /\ g.sched = Top.sched /\ g \in FrameType
    <3>1. "run" \in Pc
      BY DEF Pc
    <3> HIDE DEF m
    <3>2. Edited(g, Top, "run", m, Top.soft, Top.sched)
      BY <1>2, <3>1, EditMask, Zenon
    <3> HIDE DEF g
    <3> QED BY <3>2 DEF Edited
  <2> HIDE DEF g, m
  <2>3. FrameInv(g) /\ ~ Suspended(g) /\ g.fn # "excpt_irq"
    BY <1>1, <1>4, <1>7, <2>2 DEF FrameInv, SoftIrqFrame, Suspended
  <2>4. Soft = (Soft - Top.soft) + g.soft /\ Sched = (Sched - Top.sched) + g.sched
    BY <1>1, <2>2, SameHeld
  <2> QED BY <1>1, <1>2, <1>3, <1>5, <2>1, <2>2, <2>3, <2>4, ReplaceStep
<1> QED BY <1>6, <1>7

\* What AfterHandler leaves of a frame that runs handlers.
LEMMA AfterFrame ==
    ASSUME FrameInv(Top), Top.pc \in {"run", "switch"}, Top.soft = 0, Top.fn \in {"irq_soft", "irq_sched"}
    PROVE  /\ FrameInv(AfterHandler) /\ ~ Suspended(AfterHandler)
           /\ AfterHandler.fn = Top.fn
           /\ AfterHandler.soft = Top.soft /\ AfterHandler.sched = Top.sched
<1> DEFINE m == Top.mask \ {Lowest(Top.mask)}
           p == IF m = {} THEN "fetch" ELSE "run"
           g == [Top EXCEPT !.mask = m, !.pc = p]
<1>1. AfterHandler = g
  BY DEF AfterHandler
<1>2. Top \in FrameType
  BY DEF FrameInv
<1>3. m \in SUBSET (SoftIrq \union SchedIrq) /\ p \in Pc /\ m \subseteq Top.mask
  BY <1>2 DEF FrameType, Pc
<1>4. p = "fetch" \/ (p = "run" /\ m # {})
  OBVIOUS
<1> HIDE DEF m, p
<1>5. Edited(g, Top, p, m, Top.soft, Top.sched)
  BY <1>2, <1>3, EditMask, Zenon
<1> HIDE DEF g
<1>6. /\ g.fn = Top.fn /\ g.mask = m /\ g.pc = p
      /\ g.soft = Top.soft /\ g.sched = Top.sched /\ g \in FrameType
  BY <1>5 DEF Edited
<1>7. FrameInv(g) /\ ~ Suspended(g)
  <2>1. /\ Top.fn = "irq_soft" => SoftIrqFrame(Top)
        /\ Top.fn = "irq_sched" => SchedIrqFrame(Top)
    BY FrameKinds
  <2> QED BY <1>3, <1>4, <1>6, <2>1 DEF FrameInv, SoftIrqFrame, SchedIrqFrame, Suspended
<1> QED BY <1>1, <1>6, <1>7

LEMMA HandlerDoneKeeps == ASSUME IInv, HandlerDone PROVE IInv'
<1> DEFINE g == AfterHandler
<1>1. /\ ~ Suspended(Top) /\ Top.fn \in {"irq_soft", "irq_sched"} /\ Top.pc = "run"
      /\ Top.soft = 0
  BY DEF HandlerDone, Suspended
<1>2. /\ FrameInv(Top) /\ Ctx \in BOOLEAN
  BY <1>1, TopFacts
<1>3. SetCounts(Soft, Sched, Ctx)
  BY SameCounts DEF HandlerDone
<1>4. /\ FrameInv(g) /\ ~ Suspended(g) /\ g.fn = Top.fn
      /\ g.soft = Top.soft /\ g.sched = Top.sched
  BY <1>1, <1>2, AfterFrame
<1>5. Become(<<g>>) /\ current' = current /\ sp' = sp /\ MasksOK'
  BY DEF HandlerDone, IInv, MasksOK
<1> HIDE DEF g
<1>6. Soft = (Soft - Top.soft) + g.soft /\ Sched = (Sched - Top.sched) + g.sched
  BY <1>1, <1>4, SameHeld
<1>7. g.fn # "excpt_irq"
  BY <1>1, <1>4
<1> QED BY <1>1, <1>2, <1>3, <1>4, <1>5, <1>6, <1>7, ReplaceStep

LEMMA RaiseLoadKeeps == ASSUME IInv, NEW i \in SchedIrq, RaiseLoad(i) PROVE IInv'
<1> DEFINE m == irq_sched_mask \union {i}
           h == Frame("irq_sched_raise", "store", m, 0, 0)
           g == Top
<1>1. ~ Suspended(Top) /\ Top.fn \in {"irq_soft", "irq_sched", "thread"}
  BY DEF RaiseLoad, InCode, Suspended
<1>2. /\ FrameInv(Top) /\ Top \in FrameType /\ Ctx \in BOOLEAN
      /\ m \in SUBSET SchedIrq
  BY <1>1, TopFacts
<1>3. SetCounts(Soft, Sched, Ctx)
  BY SameCounts DEF RaiseLoad
<1>4. Become(<<g, h>>) /\ current' = current /\ sp' = sp /\ MasksOK'
  BY DEF RaiseLoad, IInv, MasksOK
<1>5. /\ FrameInv(h) /\ ~ Suspended(h) /\ ~ IsIrq(h)
      /\ h.soft = 0 /\ h.sched = 0 /\ h.fn = "irq_sched_raise"
  BY <1>2, NewFrames DEF Frame, Suspended, IsIrq
<1>6. Calls(g, h)
  BY <1>2, FrameFields DEF RaiseLoad, InCode, Calls, Frame
<1> HIDE DEF m, h
<1>7. Soft = (Soft - Top.soft) + g.soft /\ Sched = (Sched - Top.sched) + g.sched
  BY <1>1, SameHeld
<1>8. \A s : StackInv(s) /\ Last(s) = g /\ Soft = SoftHeld(s) /\ Sched = SchedHeld(s)
                  => StackInv(Append(s, h))
  BY <1>5, <1>6, PushRaise
<1>9. FrameInv(g) /\ ~ Suspended(g) /\ g.fn # "excpt_irq" /\ g.fn = Top.fn
  BY <1>1, <1>2
<1> HIDE DEF g
<1> QED BY <1>1, <1>2, <1>3, <1>4, <1>5, <1>7, <1>8, <1>9, CallStep

\* Where the last frame of the stack in use is the suspended one, FramesOf is
\* the stacks.
LEMMA UncutViews ==
    ASSUME NEW st \in Stacks, NEW c \in Thread, NEW s \in Thread, s # c,
           OnlyCut(st[s], Len(st[s]))
    PROVE  \A t \in Thread : View(st, c, s, t) = st[t]
<1> DEFINE x == st[s]
           n == Len(x)
<1>1. st[s] = x /\ x \in Seq(FrameType) /\ n \in Nat /\ st[c] \in Seq(FrameType)
  BY LenProperties DEF Stacks
<1>2. /\ View(st, c, s, s) = SubSeq(st[s], 1, n)
      /\ View(st, c, s, c) = st[c] \o SubSeq(st[s], n + 1, Len(st[s]))
      /\ \A t : t # s /\ t # c => View(st, c, s, t) = st[t]
  BY ViewAt
<1> HIDE DEF n, x
<1>3. SubSeq(x, 1, n) = x
  BY <1>1 DEF n
<1>4. SubSeq(x, n + 1, n) = <<>>
  BY <1>1, SubSeqEmpty
<1>5. st[c] \o <<>> = st[c]
  BY <1>1, ConcatEmptySeq
<1>6. View(st, c, s, s) = st[s] /\ View(st, c, s, c) = st[c]
  BY <1>1, <1>2, <1>3, <1>4, <1>5 DEF n
<1> QED BY <1>2, <1>6

LEMMA SuspendedTop ==
    ASSUME IInv, Suspended(Top)
    PROVE  /\ sp # current
           /\ OnlyCut(stack[sp], Len(stack[sp]))
           /\ \A t \in Thread : View(stack, current, sp, t) = stack[t]
<1>1. /\ Good(stack, current, sp, irq_soft_count, irq_sched_count, in_irq_ctx)
      /\ stack \in Stacks /\ current \in Thread /\ sp \in Thread
      /\ Switched(stack, current, sp)
  BY DEF IInv, Good
<1>2. stack[sp] \in Seq(FrameType) /\ stack[sp] # <<>>
  BY <1>1, ViewOfTop
<1>3. Len(stack[sp]) \in 1 .. Len(stack[sp]) /\ Top = stack[sp][Len(stack[sp])]
  <2>1. Len(stack[sp]) \in Nat \ {0} /\ Last(stack[sp]) = stack[sp][Len(stack[sp])]
    BY <1>2, FrontLast
  <2> QED BY <2>1 DEF Top
<1>4. sp # current
  BY <1>1, <1>3 DEF Switched
<1>5. PICK k \in Nat : OnlyCut(stack[sp], k)
  BY <1>1, <1>4 DEF Switched
<1>6. k = Len(stack[sp])
  BY <1>3, <1>5 DEF OnlyCut
<1>7. OnlyCut(stack[sp], Len(stack[sp]))
  BY <1>5, <1>6
<1>8. \A t \in Thread : View(stack, current, sp, t) = stack[t]
  BY <1>1, <1>4, <1>7, UncutViews
<1> QED BY <1>4, <1>7, <1>8

\* The frame that runs, or is about to resume, is a frame of some thread.
LEMMA TopInv == ASSUME IInv PROVE FrameInv(Top)
<1>1. CASE ~ Suspended(Top)
  BY <1>1, TopFacts
<1>2. CASE Suspended(Top)
  <2>1. View(stack, current, sp, sp) = stack[sp] /\ sp \in Thread
    BY <1>2, SuspendedTop DEF IInv, Good
  <2>2. Match(stack[sp], irq_soft_count[sp], irq_sched_count[sp], in_irq_ctx[sp])
    BY <2>1 DEF IInv, Good
  <2>3. FrameInv(Last(stack[sp]))
    BY <2>2, MatchParts, Zenon
  <2> QED BY <2>3 DEF Top
<1> QED BY <1>1, <1>2

LEMMA RaiseStoreKeeps == ASSUME IInv, RaiseStore PROVE IInv'
<1>1. Top.fn = "irq_sched_raise"
  BY DEF RaiseStore
<1>2. FrameInv(Top)
  BY TopInv
<1>3. /\ ~ Suspended(Top) /\ ~ IsIrq(Top) /\ Top.soft = 0 /\ Top.sched = 0
      /\ Top.mask \subseteq SchedIrq
  BY <1>1, <1>2, FrameKinds DEF RaiseFrame, Suspended, IsIrq
<1>4. Soft \in Nat /\ Sched \in Nat
  BY <1>3, TopFacts
<1>5. Soft = Soft - Top.soft /\ Sched = Sched - Top.sched
  BY <1>3, <1>4
<1>6. SetCounts(Soft, Sched, Ctx)
  BY SameCounts DEF RaiseStore
<1>7. Become(<<>>) /\ current' = current /\ sp' = sp /\ MasksOK'
  BY <1>3 DEF RaiseStore, IInv, MasksOK
<1> QED BY <1>1, <1>3, <1>5, <1>6, <1>7, ReturnStep

LEMMA SchedFetchKeeps == ASSUME IInv, SchedFetch PROVE IInv'
<1> DEFINE m == irq_sched_mask
           g == [Top EXCEPT !.mask = m, !.pc = "clear"]
<1>1. ~ Suspended(Top) /\ Top.fn = "irq_sched" /\ Top.pc = "fetch"
  BY DEF SchedFetch, Suspended
<1>2. /\ FrameInv(Top) /\ Top \in FrameType /\ Ctx \in BOOLEAN
      /\ m \in SUBSET (SoftIrq \union SchedIrq) /\ m \subseteq SchedIrq
  BY <1>1, TopFacts
<1>3. SetCounts(Soft, Sched, Ctx)
  BY SameCounts DEF SchedFetch
<1>4. Become(<<g>>) /\ current' = current /\ sp' = sp /\ MasksOK'
  BY DEF SchedFetch, IInv, MasksOK
<1>5. /\ g.fn = Top.fn /\ g.mask = m /\ g.pc = "clear"
      /\ g.soft = Top.soft /\ g.sched = Top.sched /\ g \in FrameType
  <2>1. "clear" \in Pc
    BY DEF Pc
  <2> HIDE DEF m
  <2>2. Edited(g, Top, "clear", m, Top.soft, Top.sched)
    BY <1>2, <2>1, EditMask, Zenon
  <2> HIDE DEF g
  <2> QED BY <2>2 DEF Edited
<1> HIDE DEF g, m
<1>6. FrameInv(g) /\ ~ Suspended(g) /\ g.fn # "excpt_irq"
  <2>1. SchedIrqFrame(Top)
    BY <1>1, <1>2, FrameKinds
  <2> QED BY <1>1, <1>2, <1>5, <2>1 DEF FrameInv, SchedIrqFrame, Suspended
<1>7. Soft = (Soft - Top.soft) + g.soft /\ Sched = (Sched - Top.sched) + g.sched
  BY <1>1, <1>5, SameHeld
<1> QED BY <1>1, <1>2, <1>3, <1>4, <1>5, <1>6, <1>7, ReplaceStep

LEMMA SchedClearKeeps == ASSUME IInv, SchedClear PROVE IInv'
<1> DEFINE g == Goto("run")
<1>1. ~ Suspended(Top) /\ Top.fn = "irq_sched" /\ Top.pc = "clear" /\ ~ IsIrq(Top)
  BY DEF SchedClear, Suspended, IsIrq
<1>2. /\ FrameInv(Top) /\ Top \in FrameType /\ Ctx \in BOOLEAN
      /\ Soft \in Nat /\ Sched \in Nat
  BY <1>1, TopFacts
<1>3. SetCounts(Soft, Sched, Ctx)
  BY SameCounts DEF SchedClear
<1>4. Top.soft = 0 /\ Top.sched = 0 /\ SchedIrqFrame(Top)
  BY <1>1, <1>2, FrameKinds DEF SchedIrqFrame
<1>5. current' = current /\ sp' = sp /\ MasksOK'
  BY DEF SchedClear, IInv, MasksOK
<1>6. CASE Top.mask = {}
  <2>1. Become(<<>>)
    BY <1>6 DEF SchedClear
  <2>2. Soft = Soft - Top.soft /\ Sched = Sched - Top.sched
    BY <1>2, <1>4
  <2> QED BY <1>1, <1>3, <1>5, <2>1, <2>2, ReturnStep
<1>7. CASE Top.mask # {}
  <2>1. Become(<<g>>)
    BY <1>7 DEF SchedClear
  <2>2. /\ g.fn = Top.fn /\ g.mask = Top.mask /\ g.pc = "run"
        /\ g.soft = Top.soft /\ g.sched = Top.sched /\ g \in FrameType
    <3>1. "run" \in Pc
      BY DEF Pc
    <3>2. Edited(g, Top, "run", Top.mask, Top.soft, Top.sched)
      BY <1>2, <3>1, EditPc, Zenon DEF Goto
    <3> HIDE DEF g
    <3> QED BY <3>2 DEF Edited
  <2> HIDE DEF g
  <2>3. FrameInv(g) /\ ~ Suspended(g) /\ g.fn # "excpt_irq"
    BY <1>1, <1>4, <1>7, <2>2 DEF FrameInv, SchedIrqFrame, Suspended
  <2>4. Soft = (Soft - Top.soft) + g.soft /\ Sched = (Sched - Top.sched) + g.sched
    BY <1>1, <2>2, SameHeld
  <2> QED BY <1>1, <1>2, <1>3, <1>5, <2>1, <2>2, <2>3, <2>4, ReplaceStep
<1> QED BY <1>6, <1>7

\* What the frame that runs schedule_preempt_disabled() can be.
LEMMA InScheduleTop ==
    ASSUME FrameInv(Top), InSchedule
    PROVE  /\ Top \in FrameType /\ Top.soft = 0 /\ ~ Suspended(Top)
           /\ \/ /\ Top.fn = "thread" /\ Top.pc = "schedule" /\ Top.mask = {}
                 /\ Top.sched = 1
              \/ /\ Top.fn = "irq_sched" /\ Top.pc = "run" /\ Top.sched = 0
                 /\ Top.mask = {IRQ_SCHED_SCHEDULE} /\ Top.mask \subseteq SchedIrq
<1>1. Top \in FrameType
  BY DEF FrameInv
<1>2. CASE Top.fn = "thread" /\ Top.pc = "schedule"
  <2>1. ThreadFrame(Top)
    BY <1>2, FrameKinds
  <2> QED BY <1>1, <1>2, <2>1 DEF ThreadFrame, Suspended
<1>3. CASE /\ Top.fn = "irq_sched" /\ Top.pc = "run"
           /\ Lowest(Top.mask) = IRQ_SCHED_SCHEDULE
  <2>1. SchedIrqFrame(Top)
    BY <1>3, FrameKinds
  <2>2. Top.mask # {} /\ Top.mask \subseteq SchedIrq
    BY <1>3, <2>1 DEF SchedIrqFrame
  <2>3. Top.mask = {IRQ_SCHED_SCHEDULE}
    BY <1>3, <2>2, ScheduleIsLast
  <2> QED BY <1>1, <1>3, <2>1, <2>2, <2>3 DEF SchedIrqFrame, Suspended
<1> QED BY <1>2, <1>3 DEF InSchedule

\* What runs when schedule_preempt_disabled() has returned, whether it has
\* switched or not.
LEMMA ReturnFrame ==
    ASSUME FrameInv(Top), InSchedule \/ Suspended(Top)
    PROVE  /\ FrameInv(Return) /\ ~ Suspended(Return) /\ Return.fn = Top.fn
           /\ Return.soft = Top.soft /\ Return.sched = Top.sched
           /\ Top.fn # "excpt_irq"
<1>1. CASE Top.fn = "irq_sched"
  <2>1. SchedIrqFrame(Top)
    BY <1>1, FrameKinds
  <2>2. Top.pc \in {"run", "switch"} /\ Top.soft = 0
    <3>1. CASE InSchedule
      BY <1>1, <3>1, InScheduleTop
    <3>2. CASE Suspended(Top)
      BY <2>1, <3>2 DEF SchedIrqFrame, Suspended
    <3> QED BY <3>1, <3>2
  <2>3. Return = AfterHandler
    BY <1>1, <2>2 DEF Return
  <2> QED BY <1>1, <2>2, <2>3, AfterFrame
<1>2. CASE Top.fn # "irq_sched"
  <2>1. Top.fn = "thread" /\ ThreadFrame(Top) /\ Top \in FrameType
    BY <1>2, FrameKinds DEF FrameInv, ThreadFrame, ExcptFrame, SoftIrqFrame, SchedIrqFrame,
       RaiseFrame, Suspended, InSchedule
  <2> DEFINE p == IF Top.pc = "fresh" THEN "code" ELSE "enable"
             g == Goto(p)
  <2>2. Return = g
    BY <1>2 DEF Return
  <2>3. p \in Pc /\ Top.soft = 0
        /\ (p = "enable" => Top.sched = 1)
        /\ (p = "code" \/ p = "enable")
    <3>1. Top.pc \in {"schedule", "switch", "fresh"}
      BY <1>2 DEF InSchedule, Suspended
    <3> QED BY <2>1, <3>1 DEF Pc, ThreadFrame
  <2> HIDE DEF p
  <2>4. Edited(g, Top, p, Top.mask, Top.soft, Top.sched)
    BY <2>1, <2>3, EditPc, Zenon DEF Goto
  <2> HIDE DEF g
  <2>5. /\ g.fn = Top.fn /\ g.mask = Top.mask /\ g.pc = p
        /\ g.soft = Top.soft /\ g.sched = Top.sched /\ g \in FrameType
    BY <2>4 DEF Edited
  <2>6. FrameInv(g) /\ ~ Suspended(g)
    BY <2>1, <2>3, <2>5 DEF FrameInv, ThreadFrame, Suspended
  <2> QED BY <2>1, <2>2, <2>5, <2>6
<1> QED BY <1>1, <1>2

LEMMA KeepRunningKeeps == ASSUME IInv, KeepRunning PROVE IInv'
<1> DEFINE g == Return
<1>1. FrameInv(Top) /\ ~ Suspended(Top) /\ InSchedule
  BY TopInv, InScheduleTop DEF KeepRunning
<1>2. Ctx \in BOOLEAN
  BY <1>1, TopFacts
<1>3. SetCounts(Soft, Sched, Ctx)
  BY SameCounts DEF KeepRunning
<1>4. /\ FrameInv(g) /\ ~ Suspended(g) /\ g.fn = Top.fn
      /\ g.soft = Top.soft /\ g.sched = Top.sched /\ g.fn # "excpt_irq"
  BY <1>1, ReturnFrame
<1>5. Become(<<g>>) /\ current' = current /\ sp' = sp /\ MasksOK'
  BY DEF KeepRunning, IInv, MasksOK
<1> HIDE DEF g
<1>6. Soft = (Soft - Top.soft) + g.soft /\ Sched = (Sched - Top.sched) + g.sched
  BY <1>1, <1>4, SameHeld
<1> QED BY <1>1, <1>2, <1>3, <1>4, <1>5, <1>6, ReplaceStep

-----------------------------------------------------------------------------
(* Between the two halves of a switch.                                     *)

\* Frame k of the stack in use is the suspended one of its thread; what is
\* above it lies, for the counters, on the p frames of the current thread.
Cuts(k, p) ==
    /\ OnlyCut(stack[sp], k) /\ p \in Nat \ {0} /\ p = Len(stack[current])
    /\ Len(Cur) = p + (Len(stack[sp]) - k)
    /\ \A i \in 1 .. p : Cur[i] = stack[current][i]
    /\ \A i \in 1 .. Len(stack[sp]) - k : Cur[p + i] = stack[sp][k + i]
    /\ Cur[p].pc = "switch"
    /\ Len(View(stack, current, sp, sp)) = k
    /\ \A i \in 1 .. k : View(stack, current, sp, sp)[i] = stack[sp][i]

LEMMA Between ==
    ASSUME IInv, sp # current
    PROVE  \E k \in Nat, p \in Nat : Cuts(k, p)
<1>1. /\ Good(stack, current, sp, irq_soft_count, irq_sched_count, in_irq_ctx)
      /\ stack \in Stacks /\ current \in Thread /\ sp \in Thread
      /\ Switched(stack, current, sp)
  BY DEF IInv, Good
<1>2. PICK k \in Nat : OnlyCut(stack[sp], k)
  BY <1>1 DEF Switched
<1> DEFINE x == stack[current]
           y == stack[sp]
           p == Len(x)
           n == Len(y)
           z == SubSeq(y, k + 1, n)
           w == SubSeq(y, 1, k)
<1>3. /\ x \in Seq(FrameType) /\ y \in Seq(FrameType) /\ p \in Nat \ {0}
      /\ k \in 1 .. n /\ n \in Nat /\ x[p].pc = "switch"
  <2>1. x # <<>> /\ x[p].pc = "switch"
    BY <1>1 DEF Switched
  <2>2. x \in Seq(FrameType) /\ y \in Seq(FrameType)
    BY <1>1 DEF Stacks
  <2>3. p \in Nat \ {0}
    BY <2>1, <2>2, EmptySeq
  <2>4. n \in Nat
    BY <2>2, LenProperties
  <2>5. k \in 1 .. n
    BY <1>2 DEF OnlyCut
  <2> HIDE DEF x, y, n, p
  <2> QED BY <2>1, <2>2, <2>3, <2>4, <2>5
<1>4. View(stack, current, sp, sp) = w /\ Cur = x \o z
  <2>1. /\ View(stack, current, sp, sp) = SubSeq(stack[sp], 1, k)
        /\ View(stack, current, sp, current)
              = stack[current] \o SubSeq(stack[sp], k + 1, Len(stack[sp]))
    <3> HIDE DEF x, y, p, n, z, w
    <3>1. /\ View(stack, current, sp, sp) = SubSeq(stack[sp], 1, k)
          /\ View(stack, current, sp, current)
                = stack[current] \o SubSeq(stack[sp], k + 1, Len(stack[sp]))
          /\ \A t : t # sp /\ t # current => View(stack, current, sp, t) = stack[t]
      BY <1>2, ViewAt
    <3> QED BY <3>1, Zenon
  <2> QED BY <2>1 DEF Cur
<1> HIDE DEF x, n
<1>5. Len(w) = k /\ \A i \in 1 .. k : w[i] = y[i]
  <2>1. \A i \in 1 .. k : y[i] \in FrameType
    BY <1>3, ElementOfSeq DEF n
  <2>2. /\ w \in Seq(FrameType) /\ Len(w) = IF 1 <= k THEN k - 1 + 1 ELSE 0
        /\ \A i \in 1 .. k - 1 + 1 : w[i] = y[1 + i - 1]
    BY <1>3, <2>1, SubSeqProperties
  <2> HIDE DEF w
  <2>3. Len(w) = k
    BY <1>3, <2>2
  <2>4. ASSUME NEW i \in 1 .. k PROVE w[i] = y[i]
    <3>1. i \in 1 .. k - 1 + 1 /\ 1 + i - 1 = i
      BY <1>3
    <3> QED BY <2>2, <3>1
  <2> QED BY <2>3, <2>4
<1>6. z \in Seq(FrameType) /\ Len(z) = n - k /\ \A i \in 1 .. n - k : z[i] = y[k + i]
  <2>1. \A i \in k + 1 .. n : y[i] \in FrameType
    BY <1>3, ElementOfSeq DEF n
  <2>2. /\ z \in Seq(FrameType) /\ Len(z) = IF k + 1 <= n THEN n - (k + 1) + 1 ELSE 0
        /\ \A i \in 1 .. n - (k + 1) + 1 : z[i] = y[(k + 1) + i - 1]
    <3>1. k + 1 \in 1 .. n + 1 /\ n \in Nat
      BY <1>3
    <3>2. \A i \in k + 1 .. n : y[i] \in FrameType
      BY <2>1
    <3> QED BY <3>1, <3>2, SubSeqProperties
  <2> HIDE DEF z
  <2>3. Len(z) = n - k
    BY <1>3, <2>2
  <2>4. ASSUME NEW i \in 1 .. n - k PROVE z[i] = y[k + i]
    <3>1. i \in 1 .. n - (k + 1) + 1 /\ (k + 1) + i - 1 = k + i
      BY <1>3
    <3> QED BY <2>2, <3>1
  <2> QED BY <2>2, <2>3, <2>4
<1> HIDE DEF y, z, w
<1>7. /\ Len(x \o z) = p + Len(z)
      /\ \A i \in 1 .. p + Len(z) : (x \o z)[i] = IF i <= p THEN x[i] ELSE z[i - p]
  BY <1>3, <1>6, ConcatProperties
<1> HIDE DEF p
<1>8. \A i \in 1 .. p : Cur[i] = x[i]
  BY <1>3, <1>4, <1>6, <1>7
<1>9. ASSUME NEW i \in 1 .. n - k PROVE Cur[p + i] = y[k + i]
  <2>1. p + i \in 1 .. p + Len(z) /\ ~ (p + i <= p) /\ (p + i) - p = i
    BY <1>3, <1>6
  <2> QED BY <1>4, <1>6, <1>7, <2>1
<1>10. Len(Cur) = p + (n - k) /\ Cur[p].pc = "switch"
  BY <1>3, <1>4, <1>6, <1>7, <1>8
<1>11. Cuts(k, p)
  BY <1>2, <1>3, <1>4, <1>5, <1>8, <1>9, <1>10 DEF Cuts, x, y, n, p
<1> QED BY <1>3, <1>11

\* Only a hard IRQ can have come on top of a switch, and no irq_sched() runs
\* there: the one disable that is left keeps it out.
LEMMA AboveSwitch ==
    ASSUME NEW s, StackInv(s), NEW p \in 1 .. Len(s), s[p].pc = "switch",
           NEW i \in 1 .. Len(s), i > p
    PROVE  /\ s[i].fn \notin {"thread", "irq_sched"}
           /\ i = p + 1 => s[i].fn = "excpt_irq"
           /\ Len(s) <= p + 3
<1>1. /\ \A j \in 1 .. Len(s) : FrameInv(s[j]) /\ (s[j].fn = "thread" <=> j = 1)
                                     /\ Placed(s, j, Len(s))
      /\ \A j \in 1 .. Len(s) - 1 : Calls(s[j], s[j + 1])
      /\ \A j, k \in 1 .. Len(s) : j + 1 < k => Under(s[j], s[k])
      /\ Len(s) \in Nat \ {0}
  BY StackFacts
<1>2. /\ s[p].soft = 0 /\ (s[p].fn = "thread" \/ s[p].fn = "irq_sched")
      /\ (s[p].fn = "thread" => s[p].sched = 1) /\ FrameInv(s[p])
  <2>1. FrameInv(s[p])
    BY <1>1
  <2> QED BY <2>1 DEF FrameInv, ThreadFrame, ExcptFrame, SoftIrqFrame, SchedIrqFrame,
         RaiseFrame
<1>3. p + 1 \in 1 .. Len(s) /\ p \in 1 .. Len(s) - 1
  BY <1>1
<1>4. s[p + 1].fn = "excpt_irq"
  <2>1. Calls(s[p], s[p + 1]) /\ FrameInv(s[p + 1]) /\ s[p + 1].fn # "thread"
    BY <1>1, <1>3
  <2> QED BY <1>2, <2>1 DEF Calls, FrameInv, ThreadFrame, ExcptFrame, SoftIrqFrame,
         SchedIrqFrame, RaiseFrame
<1>5. Len(s) <= p + 3
  <2>1. Placed(s, p + 1, Len(s))
    BY <1>1, <1>3
  <2> QED BY <1>1, <1>3, <1>4, <2>1 DEF Placed
<1>6. s[i].fn # "thread"
  BY <1>1
<1>7. ASSUME s[i].fn = "irq_sched" PROVE FALSE
  <2>1. i # p + 1
    BY <1>4, <1>7
  <2>2. Placed(s, i, Len(s))
    BY <1>1
  <2>3. i = 3 /\ p = 1
    BY <1>7, <2>1, <2>2 DEF Placed
  <2>4. Under(s[p], s[i]) /\ s[p].fn = "thread"
    BY <1>1, <2>3
  <2> QED BY <1>2, <1>7, <2>4 DEF Under
<1> QED BY <1>4, <1>5, <1>6, <1>7

\* _schedule() is not called again before sched_switch() has run.
LEMMA SwitchedBefore == ASSUME IInv, InSchedule PROVE sp = current
<1> SUFFICES ASSUME sp # current PROVE FALSE
  OBVIOUS
<1>1. FrameInv(Top) /\ ~ Suspended(Top)
  BY TopInv, InScheduleTop
<1>2. PICK k \in Nat, p \in Nat : Cuts(k, p)
  BY Between
<1>3. StackInv(Cur) /\ Last(Cur) = Top
  BY <1>1, TopFacts
<1>4. Len(Cur) \in Nat \ {0} /\ Last(Cur) = Cur[Len(Cur)]
  BY <1>3, StackFacts
<1>5. Len(stack[sp]) \in Nat \ {0} /\ Top = stack[sp][Len(stack[sp])]
  <2>1. stack[sp] \in Seq(FrameType) /\ stack[sp] # <<>>
    BY ViewOfTop DEF IInv
  <2> QED BY <2>1, FrontLast DEF Top
<1>6. /\ OnlyCut(stack[sp], k) /\ p \in Nat \ {0} /\ Cur[p].pc = "switch"
      /\ Len(Cur) = p + (Len(stack[sp]) - k)
  BY <1>2, Zenon DEF Cuts
<1>7. k # Len(stack[sp]) /\ k \in 1 .. Len(stack[sp])
  BY <1>1, <1>5, <1>6 DEF OnlyCut
<1>8. Len(Cur) > p /\ p \in 1 .. Len(Cur)
  <2> DEFINE n == Len(stack[sp])
             m == Len(Cur)
  <2>1. p \in Nat \ {0} /\ n \in Nat /\ k \in 1 .. n /\ k # n /\ m = p + (n - k)
    BY <1>5, <1>6, <1>7
  <2> HIDE DEF n, m
  <2>2. m > p /\ p \in 1 .. m
    BY <2>1
  <2> QED BY <2>2 DEF m
<1>9. Top.fn \notin {"thread", "irq_sched"}
  <2>1. Len(Cur) \in 1 .. Len(Cur)
    BY <1>4
  <2>2. Cur[Len(Cur)].fn \notin {"thread", "irq_sched"}
    BY <1>3, <1>6, <1>8, <2>1, AboveSwitch
  <2> QED BY <1>3, <1>4, <2>2
<1> QED BY <1>9 DEF InSchedule

\* _schedule() leaves the stack of the thread that runs.
LEMMA SwitchStackKeeps == ASSUME IInv, NEW t \in Thread, SwitchStack(t) PROVE IInv'
<1> DEFINE g == Goto("switch")
           c == current
<1>1. /\ FrameInv(Top) /\ InSchedule /\ t # sp /\ sp = c /\ ~ Suspended(Top)
  BY TopInv, SwitchedBefore, InScheduleTop DEF SwitchStack
<1>2. /\ Good(stack, c, c, irq_soft_count, irq_sched_count, in_irq_ctx)
      /\ stack \in Stacks /\ c \in Thread /\ Switched(stack, c, c)
      /\ Match(stack[c], Soft, Sched, Ctx) /\ Ctx \in BOOLEAN
  <2>1. Good(stack, c, c, irq_soft_count, irq_sched_count, in_irq_ctx)
    BY <1>1 DEF IInv
  <2>2. View(stack, c, c, c) = stack[c]
    BY DEF View
  <2>3. Match(stack[c], Soft, Sched, Ctx)
    BY <2>1, <2>2 DEF Good, Soft, Sched, Ctx
  <2> QED BY <2>1, <2>3 DEF Good, Match
<1>3. /\ g.fn = Top.fn /\ g.mask = Top.mask /\ g.pc = "switch"
      /\ g.soft = Top.soft /\ g.sched = Top.sched /\ g \in FrameType
  <2>1. "switch" \in Pc /\ Top \in FrameType
    BY <1>1 DEF Pc, FrameInv
  <2>2. Edited(g, Top, "switch", Top.mask, Top.soft, Top.sched)
    BY <2>1, EditPc, Zenon DEF Goto
  <2> HIDE DEF g
  <2> QED BY <2>2 DEF Edited
<1>4. /\ stack' = [stack EXCEPT ![c] = Front(@) \o <<g>>]
      /\ current' = c /\ sp' = t /\ MasksOK' /\ UNCHANGED counts
  BY <1>1 DEF SwitchStack, Become, IInv, MasksOK
<1> HIDE DEF g, c
<1>5. FrameInv(g) /\ Suspended(g) /\ g.fn # "excpt_irq"
  BY <1>1, <1>3, InScheduleTop DEF FrameInv, ThreadFrame, SchedIrqFrame, Suspended
<1> DEFINE r == Front(stack[c])
           v == Append(r, g)
<1>6. /\ r \in Seq(FrameType) /\ v \in Seq(FrameType) /\ Len(v) = Len(stack[c])
      /\ Len(v) \in Nat \ {0} /\ v[Len(v)] = g
      /\ \A i \in 1 .. Len(v) - 1 : v[i] = stack[c][i]
      /\ r \o <<g>> = v
  <2>1. stack[c] \in Seq(FrameType) /\ stack[c] # <<>>
    BY <1>2 DEF Match, StackInv
  <2>2. /\ Len(stack[c]) \in Nat \ {0} /\ r \in Seq(FrameType) /\ Len(r) = Len(stack[c]) - 1
        /\ \A i \in 1 .. Len(stack[c]) - 1 : r[i] = stack[c][i]
    BY <2>1, FrontLast
  <2> HIDE DEF r
  <2>3. /\ v \in Seq(FrameType) /\ Len(v) = Len(r) + 1 /\ v[Len(r) + 1] = g
        /\ \A i \in 1 .. Len(r) : v[i] = r[i]
    BY <1>3, <2>2, AppendProperties
  <2>4. r \o <<g>> = v
    BY <1>3, <2>2, JoinForms
  <2> HIDE DEF v
  <2>5. Len(v) = Len(stack[c]) /\ Len(r) + 1 = Len(v) /\ Len(r) = Len(stack[c]) - 1
    BY <2>2, <2>3
  <2> QED BY <2>2, <2>3, <2>4, <2>5
<1>7. /\ stack' \in Stacks /\ stack'[c] = v
      /\ \A u \in Thread \ {c} : stack'[u] = stack[u]
  <2> HIDE DEF v
  <2> QED BY <1>2, <1>4, <1>6 DEF Stacks
<1>8. Match(v, Soft, Sched, Ctx)
  <2>1. Last(stack[c]) = Top
    BY <1>1 DEF Top
  <2>2. Soft = (Soft - Top.soft) + g.soft /\ Sched = (Sched - Top.sched) + g.sched
    BY <1>1, <1>3, SameHeld
  <2> QED BY <1>2, <1>3, <1>5, <2>1, <2>2, MatchReplace
<1> HIDE DEF r, v
<1>9. t # c
  BY <1>1
<1>10. OnlyCut(stack'[t], Len(stack'[t]))
  <2>1. /\ stack[t] # <<>> /\ Suspended(stack[t][Len(stack[t])])
        /\ \A i \in 1 .. Len(stack[t]) - 1 : ~ Suspended(stack[t][i])
        /\ stack[t] \in Seq(FrameType) /\ stack'[t] = stack[t]
    BY <1>2, <1>7, <1>9 DEF Switched, Stacks
  <2>2. Len(stack[t]) \in Nat \ {0}
    BY <2>1, EmptySeq
  <2> QED BY <2>1, <2>2 DEF OnlyCut
<1>11. Switched(stack', c, t)
  <2>1. ASSUME NEW u \in Thread \ {t}
        PROVE  /\ stack'[u] # <<>> /\ Suspended(stack'[u][Len(stack'[u])])
               /\ \A i \in 1 .. Len(stack'[u]) - 1 : ~ Suspended(stack'[u][i])
    <3>1. CASE u = c
      <4>1. v # <<>>
        BY <1>6, EmptySeq
      <4>2. \A i \in 1 .. Len(v) - 1 : ~ Suspended(v[i])
        <5>1. \A i \in 1 .. Len(v) - 1 : i \in 1 .. Len(stack[c])
          BY <1>6
        <5> QED BY <1>2, <1>6, <5>1 DEF Switched
      <4> QED BY <1>5, <1>6, <1>7, <3>1, <4>1, <4>2
    <3>2. CASE u # c
      BY <1>2, <1>7, <3>2 DEF Switched
    <3> QED BY <3>1, <3>2
  <2>2. stack'[c][Len(stack'[c])].pc = "switch"
    BY <1>3, <1>6, <1>7
  <2>3. \E k \in Nat : OnlyCut(stack'[t], k)
    <3>1. Len(stack'[t]) \in Nat
      BY <1>7, LenProperties DEF Stacks
    <3> QED BY <1>10, <3>1
  <2> QED BY <1>9, <2>1, <2>2, <2>3 DEF Switched
<1>12. \A u \in Thread : View(stack', c, t, u) = stack'[u]
  BY <1>2, <1>7, <1>9, <1>10, UncutViews
<1>13. ASSUME NEW u \in Thread
       PROVE  Match(stack'[u], irq_soft_count[u], irq_sched_count[u], in_irq_ctx[u])
  <2>1. CASE u = c
    BY <1>7, <1>8, <2>1 DEF Soft, Sched, Ctx, c
  <2>2. CASE u # c
    <3>1. View(stack, c, c, u) = stack[u]
      BY DEF View
    <3> QED BY <1>2, <1>7, <2>2, <3>1 DEF Good
  <2> QED BY <2>1, <2>2
<1>14. Good(stack', c, t, irq_soft_count, irq_sched_count, in_irq_ctx)
  BY <1>2, <1>7, <1>11, <1>12, <1>13 DEF Good
<1> QED BY <1>4, <1>14 DEF IInv, counts

\* sched_switch(): the counters are those of the thread that resumes.
LEMMA SchedSwitchKeeps == ASSUME IInv, SchedSwitch PROVE IInv'
<1> DEFINE g == Return
           c == sp
<1>1. Suspended(Top) /\ FrameInv(Top)
  BY TopInv DEF SchedSwitch, Suspended
<1>2. /\ sp # current /\ OnlyCut(stack[c], Len(stack[c]))
      /\ \A t \in Thread : View(stack, current, c, t) = stack[t]
      /\ stack \in Stacks /\ c \in Thread /\ current \in Thread
      /\ Switched(stack, current, c)
      /\ irq_soft_count \in [Thread -> Nat] /\ irq_sched_count \in [Thread -> Nat]
      /\ in_irq_ctx \in [Thread -> BOOLEAN]
      /\ \A t \in Thread : Match(stack[t], irq_soft_count[t], irq_sched_count[t], in_irq_ctx[t])
  <2>1. /\ sp # current /\ OnlyCut(stack[c], Len(stack[c]))
        /\ \A t \in Thread : View(stack, current, c, t) = stack[t]
    BY <1>1, SuspendedTop
  <2>2. Good(stack, current, c, irq_soft_count, irq_sched_count, in_irq_ctx)
    BY DEF IInv
  <2> QED BY <2>1, <2>2 DEF Good
<1>3. /\ FrameInv(g) /\ ~ Suspended(g) /\ g.fn = Top.fn
      /\ g.soft = Top.soft /\ g.sched = Top.sched /\ g.fn # "excpt_irq"
  BY <1>1, ReturnFrame
<1>4. /\ stack' = [stack EXCEPT ![c] = Front(@) \o <<g>>]
      /\ current' = c /\ sp' = c /\ MasksOK' /\ UNCHANGED counts
  BY DEF SchedSwitch, Become, IInv, MasksOK
<1>5. Last(stack[c]) = Top
  BY DEF Top
<1> HIDE DEF g, c
<1> DEFINE r == Front(stack[c])
           v == Append(r, g)
<1>6. /\ r \in Seq(FrameType) /\ v \in Seq(FrameType) /\ Len(v) = Len(stack[c])
      /\ Len(v) \in Nat \ {0} /\ v[Len(v)] = g
      /\ \A i \in 1 .. Len(v) - 1 : v[i] = stack[c][i]
      /\ r \o <<g>> = v
  <2>1. stack[c] \in Seq(FrameType) /\ stack[c] # <<>> /\ g \in FrameType
    BY <1>2, <1>3 DEF Match, StackInv, FrameInv
  <2>2. /\ Len(stack[c]) \in Nat \ {0} /\ r \in Seq(FrameType) /\ Len(r) = Len(stack[c]) - 1
        /\ \A i \in 1 .. Len(stack[c]) - 1 : r[i] = stack[c][i]
    BY <2>1, FrontLast
  <2> HIDE DEF r
  <2>3. /\ v \in Seq(FrameType) /\ Len(v) = Len(r) + 1 /\ v[Len(r) + 1] = g
        /\ \A i \in 1 .. Len(r) : v[i] = r[i]
    BY <2>1, <2>2, AppendProperties
  <2>4. r \o <<g>> = v
    BY <2>1, <2>2, JoinForms
  <2> HIDE DEF v
  <2>5. Len(v) = Len(stack[c]) /\ Len(r) + 1 = Len(v) /\ Len(r) = Len(stack[c]) - 1
    BY <2>2, <2>3
  <2> QED BY <2>2, <2>3, <2>4, <2>5
<1>7. /\ stack' \in Stacks /\ stack'[c] = v
      /\ \A u \in Thread \ {c} : stack'[u] = stack[u]
  <2> HIDE DEF v
  <2> QED BY <1>2, <1>4, <1>6 DEF Stacks
<1>8. Match(v, irq_soft_count[c], irq_sched_count[c], in_irq_ctx[c])
  <2> DEFINE a == irq_soft_count[c]
             b == irq_sched_count[c]
             e == in_irq_ctx[c]
             w == stack[c]
  <2>1. Match(w, a, b, e) /\ Last(w) = Top
    BY <1>2, <1>5
  <2>2. a \in Nat /\ b \in Nat /\ e \in BOOLEAN
    BY <1>2
  <2> HIDE DEF a, b, e, w
  <2>3. Top.soft \in Nat /\ Top.sched \in Nat
    BY <2>1, MatchParts
  <2>4. a = (a - Top.soft) + g.soft /\ b = (b - Top.sched) + g.sched
    BY <1>3, <2>2, <2>3
  <2>5. Match(Append(Front(w), g), a, b, e)
    BY <1>3, <2>1, <2>2, <2>4, MatchReplace
  <2> QED BY <2>5 DEF a, b, e, w
<1> HIDE DEF r, v
<1>9. Switched(stack', c, c)
  <2>1. ASSUME NEW u \in Thread \ {c}
        PROVE  /\ stack'[u] # <<>> /\ Suspended(stack'[u][Len(stack'[u])])
               /\ \A i \in 1 .. Len(stack'[u]) - 1 : ~ Suspended(stack'[u][i])
    BY <1>2, <1>7 DEF Switched
  <2>2. ASSUME NEW i \in 1 .. Len(v) PROVE ~ Suspended(v[i])
    <3>1. CASE i = Len(v)
      BY <1>3, <1>6, <3>1
    <3>2. CASE i # Len(v)
      <4>1. i \in 1 .. Len(v) - 1 /\ i \in 1 .. Len(stack[c]) /\ i # Len(stack[c])
        BY <1>6, <3>2
      <4> QED BY <1>2, <1>6, <4>1 DEF OnlyCut
    <3> QED BY <3>1, <3>2
  <2> QED BY <1>7, <2>1, <2>2 DEF Switched
<1>10. ASSUME NEW u \in Thread
       PROVE  /\ View(stack', c, c, u) = stack'[u]
              /\ Match(stack'[u], irq_soft_count[u], irq_sched_count[u], in_irq_ctx[u])
  <2>1. View(stack', c, c, u) = stack'[u]
    BY DEF View
  <2>2. CASE u = c
    BY <1>7, <1>8, <2>1, <2>2
  <2>3. CASE u # c
    BY <1>2, <1>7, <2>1, <2>3
  <2> QED BY <2>2, <2>3
<1>11. Good(stack', c, c, irq_soft_count, irq_sched_count, in_irq_ctx)
  BY <1>2, <1>7, <1>9, <1>10 DEF Good
<1> QED BY <1>4, <1>11 DEF IInv, counts

-----------------------------------------------------------------------------
(* The theorems.                                                           *)

LEMMA InitHolds == ASSUME Init PROVE IInv
<1> DEFINE f(t) == Frame("thread", IF t = Boot THEN "code" ELSE "fresh", {}, 0, 0)
<1>1. /\ current = Boot /\ sp = Boot /\ Boot \in Thread
      /\ stack = [t \in Thread |-> <<f(t)>>]
      /\ irq_soft_count = [t \in Thread |-> 0] /\ irq_sched_count = [t \in Thread |-> 0]
      /\ in_irq_ctx = [t \in Thread |-> FALSE]
      /\ irq_soft_mask = {} /\ irq_sched_mask = {}
  BY IrqConstants DEF Init
<1>2. ASSUME NEW t \in Thread
      PROVE  /\ FrameInv(f(t)) /\ f(t).fn = "thread" /\ f(t).soft = 0 /\ f(t).sched = 0
             /\ f(t) \in FrameType
             /\ f(t).pc = IF t = Boot THEN "code" ELSE "fresh"
  BY IrqConstants DEF FrameInv, FrameType, Frame, ThreadFrame
<1> HIDE DEF f
<1>3. ASSUME NEW t \in Thread
      PROVE  /\ <<f(t)>> \in Seq(FrameType) /\ <<f(t)>> # <<>>
             /\ Len(<<f(t)>>) = 1 /\ <<f(t)>>[1] = f(t)
  BY <1>2
<1>4. stack \in Stacks /\ \A t \in Thread : stack[t] = <<f(t)>>
  BY <1>1, <1>3 DEF Stacks
<1>5. Switched(stack, current, sp)
  <2>1. ASSUME NEW t \in Thread \ {Boot}
        PROVE  /\ stack[t] # <<>> /\ Suspended(stack[t][Len(stack[t])])
               /\ \A i \in 1 .. Len(stack[t]) - 1 : ~ Suspended(stack[t][i])
    <3> DEFINE s == stack[t]
    <3>1. s # <<>> /\ Len(s) = 1 /\ s[1] = f(t)
      BY <1>3, <1>4
    <3>2. Suspended(f(t))
      BY <1>2 DEF Suspended
    <3> HIDE DEF s
    <3>3. s # <<>> /\ Suspended(s[Len(s)]) /\ \A i \in 1 .. Len(s) - 1 : ~ Suspended(s[i])
      BY <3>1, <3>2
    <3> QED BY <3>3 DEF s
  <2>2. \A i \in 1 .. Len(stack[Boot]) : ~ Suspended(stack[Boot][i])
    BY <1>1, <1>2, <1>3, <1>4 DEF Suspended
  <2> QED BY <1>1, <2>1, <2>2 DEF Switched
<1>6. ASSUME NEW t \in Thread
      PROVE  Match(stack[t], irq_soft_count[t], irq_sched_count[t], in_irq_ctx[t])
  <2> DEFINE s == <<f(t)>>
  <2>1. s \in Seq(FrameType) /\ s # <<>> /\ Len(s) = 1 /\ s[1] = f(t)
    BY <1>3
  <2>2. FrameInv(f(t)) /\ f(t).fn = "thread" /\ f(t).soft = 0 /\ f(t).sched = 0
    BY <1>2
  <2> HIDE DEF s
  <2>3. StackInv(s)
    <3>1. Placed(s, 1, 1)
      BY <2>1, <2>2 DEF Placed, MaxFrames
    <3>2. \A i \in 1 .. Len(s) : i = 1
      BY <2>1
    <3>3. \A i \in 1 .. Len(s) :
             FrameInv(s[i]) /\ (s[i].fn = "thread" <=> i = 1) /\ Placed(s, i, Len(s))
      BY <2>1, <2>2, <3>1, <3>2
    <3> QED BY <2>1, <3>2, <3>3 DEF StackInv
  <2>4. \A i \in 1 .. Len(s) : s[i].soft = 0 /\ s[i].sched = 0
    BY <2>1, <2>2
  <2>5. SoftHeld(s) = 0 /\ SchedHeld(s) = 0
    <3> DEFINE d == [i \in 1 .. Len(s) |-> s[i].soft]
               e == [i \in 1 .. Len(s) |-> s[i].sched]
    <3>1. /\ 1 \in 1 .. 1 /\ d[1] = 0 /\ e[1] = 0
          /\ Naturals1(d, 1) /\ Naturals1(e, 1)
      BY <2>1, <2>4 DEF Naturals1
    <3>2. SoftHeld(s) = Total(d, 1) /\ SchedHeld(s) = Total(e, 1)
      BY <2>1 DEF SoftHeld, SchedHeld
    <3>3. \A i \in 1 .. 1 : i # 1 /\ i # 1 => d[i] = 0
      OBVIOUS
    <3>4. \A i \in 1 .. 1 : i # 1 /\ i # 1 => e[i] = 0
      OBVIOUS
    <3> HIDE DEF d, e
    <3>5. Total(d, 1) = IF 1 = 1 THEN d[1] ELSE d[1] + d[1]
      BY <3>1, <3>3, TotalOfTwo
    <3>6. Total(e, 1) = IF 1 = 1 THEN e[1] ELSE e[1] + e[1]
      BY <3>1, <3>4, TotalOfTwo
    <3> QED BY <3>1, <3>2, <3>5, <3>6
  <2>6. ~ InIrq(s)
    BY <2>1, <2>2 DEF InIrq
  <2>7. /\ irq_soft_count[t] = 0 /\ irq_sched_count[t] = 0 /\ in_irq_ctx[t] = FALSE
        /\ stack[t] = s
    BY <1>1, <1>4 DEF s
  <2> QED BY <2>3, <2>5, <2>6, <2>7 DEF Match
<1>7. \A t \in Thread : View(stack, current, sp, t) = stack[t]
  BY <1>1 DEF View
<1>8. /\ irq_soft_count \in [Thread -> Nat] /\ irq_sched_count \in [Thread -> Nat]
      /\ in_irq_ctx \in [Thread -> BOOLEAN]
  BY <1>1
<1> QED BY <1>1, <1>4, <1>5, <1>6, <1>7, <1>8 DEF IInv, Good, MasksOK

LEMMA NextKeeps == ASSUME IInv, [Next]_vars PROVE IInv'
<1>1. CASE UNCHANGED vars
  BY <1>1 DEF vars, IInv, MasksOK
<1>2. CASE Next
  <2>1. CASE \E S \in SUBSET SoftIrq, D \in SUBSET (SchedIrq \ {IRQ_SCHED_SCHEDULE}) :
                HardIrq(S, D)
    <3>1. PICK S \in SUBSET SoftIrq, D \in SUBSET (SchedIrq \ {IRQ_SCHED_SCHEDULE}) :
             HardIrq(S, D)
      BY <2>1
    <3>2. D \in SUBSET SchedIrq
      OBVIOUS
    <3> QED BY <3>1, <3>2, HardIrqKeeps
  <2>2. CASE \E i \in SchedIrq : RaiseLoad(i)
    BY <2>2, RaiseLoadKeeps
  <2>3. CASE \E t \in Thread : SwitchStack(t)
    BY <2>3, SwitchStackKeeps
  <2>4. CASE SoftDisable \/ SoftEnable \/ SoftDecrement \/ PreemptDisable \/ PreemptEnable
             \/ SchedDecrement \/ ExcptSched \/ ExcptNoSched \/ ExcptExit
    BY <2>4, SoftDisableKeeps, SoftEnableKeeps, SoftDecrementKeeps, PreemptDisableKeeps,
       PreemptEnableKeeps, SchedDecrementKeeps, ExcptSchedKeeps, ExcptNoSchedKeeps,
       ExcptExitKeeps, Zenon
  <2>5. CASE SoftFetch \/ HandlerDone \/ RaiseStore \/ SchedFetch \/ SchedClear \/ Schedule
             \/ KeepRunning \/ SchedSwitch \/ ScheduleEnd
    BY <2>5, SoftFetchKeeps, HandlerDoneKeeps, RaiseStoreKeeps, SchedFetchKeeps,
       SchedClearKeeps, ScheduleKeeps, KeepRunningKeeps, SchedSwitchKeeps,
       ScheduleEndKeeps, Zenon
  <2> QED BY <1>2, <2>1, <2>2, <2>3, <2>4, <2>5, Zenon DEF Next
<1> QED BY <1>1, <1>2

\* The frames of every thread are stacked as the calls of the kernel allow,
\* and its counters are what they hold, whatever interrupts what and wherever
\* a switch falls.
THEOREM Invariance == Spec => []IInv
<1>1. Init => IInv
  BY InitHolds
<1>2. IInv /\ [Next]_vars => IInv'
  BY NextKeeps
<1> QED BY <1>1, <1>2, PTL DEF Spec

\* Each thread's frames.
LEMMA ThreadFrames ==
    ASSUME IInv, NEW t \in Thread
    PROVE  /\ Match(View(stack, current, sp, t), irq_soft_count[t], irq_sched_count[t],
                    in_irq_ctx[t])
           /\ StackInv(View(stack, current, sp, t))
           /\ FramesOf(t) = View(stack, current, sp, t)
           /\ stack[t] \in Seq(FrameType) /\ Len(stack[t]) \in Nat
<1>1. Match(View(stack, current, sp, t), irq_soft_count[t], irq_sched_count[t], in_irq_ctx[t])
  BY DEF IInv, Good
<1>2. StackInv(View(stack, current, sp, t))
  BY <1>1 DEF Match
<1>3. stack[t] \in Seq(FrameType)
  BY DEF IInv, Good, Stacks
<1> QED BY <1>1, <1>2, <1>3, LenProperties DEF FramesOf, View

\* The counters of every thread are the disables its own frames have not yet
\* undone, and in_irq_ctx is set exactly while one of them is a primary
\* excpt_irq().
THEOREM CountersAreFrames == Spec => []CountersMatch
<1>1. IInv => CountersMatch
  <2> SUFFICES ASSUME IInv PROVE CountersMatch
    OBVIOUS
  <2>1. ASSUME NEW t \in Thread
        PROVE  /\ irq_soft_count[t] = SoftHeld(FramesOf(t))
               /\ irq_sched_count[t] = SchedHeld(FramesOf(t))
               /\ in_irq_ctx[t] <=> \E i \in 1 .. Len(FramesOf(t)) :
                                       /\ FramesOf(t)[i].fn = "excpt_irq"
                                       /\ FramesOf(t)[i].pc # "soft_dec"
    <3>1. Match(FramesOf(t), irq_soft_count[t], irq_sched_count[t], in_irq_ctx[t])
      BY ThreadFrames
    <3> HIDE DEF FramesOf
    <3> QED BY <3>1 DEF Match, InIrq
  <2> QED BY <2>1 DEF CountersMatch
<1> QED BY <1>1, Invariance, PTL

\* A stack has one primary excpt_irq() at most.
LEMMA OneExcpt ==
    ASSUME NEW s, StackInv(s), NEW i \in 1 .. Len(s), NEW j \in 1 .. Len(s),
           s[i].fn = "excpt_irq", s[j].fn = "excpt_irq"
    PROVE  i = j
<1>1. ASSUME NEW p \in 1 .. Len(s), NEW q \in 1 .. Len(s), p < q,
             s[p].fn = "excpt_irq", s[q].fn = "excpt_irq"
      PROVE  FALSE
  <2>1. Under(s[p], s[q]) /\ FrameInv(s[p])
    BY <1>1, StackFacts
  <2>2. ExcptFrame(s[p])
    BY <1>1, <2>1, FrameKinds
  <2> QED BY <1>1, <2>1, <2>2 DEF Under, ExcptFrame
<1>2. Len(s) \in Nat
  BY StackFacts
<1>3. ~ (i < j) /\ ~ (j < i)
  BY <1>1
<1> QED BY <1>2, <1>3

\* How much the frames of a thread can hold.
LEMMA HeldMost ==
    ASSUME NEW s, StackInv(s)
    PROVE  SoftHeld(s) \in 0 .. MaxNest + 1 /\ SchedHeld(s) \in 0 .. MaxNest + 1
<1> DEFINE n == Len(s)
           d == [i \in 1 .. n |-> s[i].soft]
           e == [i \in 1 .. n |-> s[i].sched]
<1>1. /\ \A j \in 1 .. n : FrameInv(s[j]) /\ (s[j].fn = "thread" <=> j = 1)
                                     /\ Placed(s, j, n)
      /\ \A j \in 1 .. n - 1 : Calls(s[j], s[j + 1])
      /\ \A j, k \in 1 .. n : j < k /\ s[k].fn = "excpt_irq" => Under(s[j], s[k])
      /\ n \in Nat \ {0}
  BY StackFacts
<1>2. \A i \in 1 .. n : /\ s[i].soft \in Nat /\ s[i].sched \in Nat
                        /\ s[i].soft <= MaxNest /\ s[i].sched <= MaxNest
  BY <1>1, FrameFields DEF FrameInv
<1>3. /\ Naturals1(d, n) /\ Naturals1(e, n)
      /\ \A i \in 1 .. n : d[i] = s[i].soft /\ e[i] = s[i].sched
  BY <1>2 DEF Naturals1
<1>4. SoftHeld(s) = Total(d, n) /\ SchedHeld(s) = Total(e, n)
  BY DEF SoftHeld, SchedHeld
<1> HIDE DEF n, d, e
<1>5. ASSUME NEW i \in 1 .. n
      PROVE  /\ s[i].soft # 0 => \/ i = 1
                                 \/ s[i].fn = "excpt_irq" /\ s[i].soft = 1
                                 \/ s[i].fn = "irq_sched"
             /\ s[i].sched # 0 => \/ i = 1
                                  \/ s[i].fn = "excpt_irq" /\ s[i].sched = 1
  BY <1>1 DEF FrameInv, ThreadFrame, ExcptFrame, SoftIrqFrame, SchedIrqFrame, RaiseFrame
<1>6. MaxNest \in Nat
  BY IrqConstants
<1>7. CASE \E p \in 1 .. n : s[p].fn = "excpt_irq"
  <2>1. PICK p \in 1 .. n : s[p].fn = "excpt_irq"
    BY <1>7
  <2>2. \A i \in 1 .. n : s[i].fn = "excpt_irq" => i = p
    BY <1>1, <2>1, OneExcpt DEF n
  <2>3. s[p].soft = 1 /\ p # 1
    BY <1>1, <2>1, FrameKinds DEF ExcptFrame
  <2>4. \A i \in 1 .. n : i < p => s[i].soft = 0
    BY <1>1, <2>1 DEF Under
  <2> DEFINE q == IF 3 \in 1 .. n THEN 3 ELSE p
  <2>5. q \in 1 .. n
    OBVIOUS
  <2>6. ASSUME NEW i \in 1 .. n, i # p, i # q PROVE s[i].soft = 0
    <3> SUFFICES ASSUME s[i].soft # 0 PROVE FALSE
      OBVIOUS
    <3>1. i > p /\ i # 1 /\ p > 1
      BY <1>1, <2>3, <2>4, <2>6
    <3>2. s[i].fn = "irq_sched"
      BY <1>5, <2>2, <2>6, <3>1
    <3>3. i = 3
      BY <1>1, <3>1, <3>2 DEF Placed
    <3> QED BY <2>6, <3>3
  <2>7. \A i \in 1 .. n : i # p /\ i # q => d[i] = 0
    BY <1>3, <2>6
  <2> HIDE DEF q
  <2>8. Total(d, n) = IF p = q THEN d[p] ELSE d[p] + d[q]
    BY <1>1, <1>3, <2>5, <2>7, TotalOfTwo
  <2>9. Total(d, n) \in 0 .. MaxNest + 1
    BY <1>2, <1>3, <1>6, <2>3, <2>5, <2>8
  <2>10. 1 \in 1 .. n
    BY <1>1
  <2>11. \A i \in 1 .. n : i # 1 /\ i # p => e[i] = 0
    BY <1>3, <1>5, <2>2
  <2>12. Total(e, n) = IF 1 = p THEN e[1] ELSE e[1] + e[p]
    BY <1>1, <1>3, <2>10, <2>11, TotalOfTwo
  <2>13. s[p].sched = 0 \/ s[p].sched = 1
    BY <1>1, <2>1, FrameKinds DEF ExcptFrame
  <2>14. Total(e, n) \in 0 .. MaxNest + 1
    BY <1>2, <1>3, <1>6, <2>3, <2>10, <2>12, <2>13
  <2> QED BY <1>4, <2>9, <2>14
<1>8. CASE \A p \in 1 .. n : s[p].fn # "excpt_irq"
  <2> DEFINE q == IF 2 \in 1 .. n /\ s[2].fn = "irq_sched" THEN 2 ELSE 1
  <2>1. q \in 1 .. n /\ 1 \in 1 .. n
    BY <1>1
  <2>2. ASSUME NEW i \in 1 .. n, i # q PROVE s[i].soft = 0
    <3> SUFFICES ASSUME s[i].soft # 0 PROVE FALSE
      OBVIOUS
    <3>1. CASE i = 1
      <4>1. 2 \in 1 .. n /\ s[2].fn = "irq_sched" /\ 1 \in 1 .. n - 1 /\ 1 + 1 = 2
        BY <1>1, <2>2, <3>1
      <4>2. Calls(s[1], s[2]) /\ ThreadFrame(s[1])
        BY <1>1, <2>1, <4>1, FrameKinds
      <4> QED BY <3>1, <4>1, <4>2 DEF Calls, ThreadFrame
    <3>2. CASE i # 1
      <4>1. s[i].fn = "irq_sched"
        BY <1>5, <1>8, <3>2
      <4>2. i = 2 \/ i = 3
        BY <1>1, <4>1 DEF Placed
      <4>3. i = 3 /\ 2 \in 1 .. n
        BY <1>1, <2>2, <4>1, <4>2
      <4> QED BY <1>1, <1>8, <4>1, <4>3 DEF Placed
    <3> QED BY <3>1, <3>2
  <2>3. \A i \in 1 .. n : i # q /\ i # q => d[i] = 0
    BY <1>3, <2>2
  <2>4. \A i \in 1 .. n : i # 1 /\ i # 1 => e[i] = 0
    BY <1>3, <1>5, <1>8
  <2> HIDE DEF q
  <2>5. Total(d, n) = IF q = q THEN d[q] ELSE d[q] + d[q]
    BY <1>1, <1>3, <2>1, <2>3, TotalOfTwo
  <2>6. Total(e, n) = IF 1 = 1 THEN e[1] ELSE e[1] + e[1]
    BY <1>1, <1>3, <2>1, <2>4, TotalOfTwo
  <2> QED BY <1>2, <1>3, <1>4, <1>6, <2>1, <2>5, <2>6
<1> QED BY <1>7, <1>8

\* The stacks not in use, or all of them outside of a switch: what lies on
\* one is what the counters of its thread count, from the bottom.
LEMMA OwnFrames ==
    ASSUME IInv, NEW t \in Thread, t # sp \/ sp = current
    PROVE  /\ Len(stack[t]) <= Len(View(stack, current, sp, t))
           /\ \A i \in 1 .. Len(stack[t]) : View(stack, current, sp, t)[i] = stack[t][i]
<1>1. stack[t] \in Seq(FrameType) /\ Len(stack[t]) \in Nat
  BY ThreadFrames
<1>2. CASE sp # current /\ t = current
  <2>1. PICK k \in Nat, p \in Nat : Cuts(k, p)
    BY <1>2, Between
  <2>2. /\ p = Len(stack[t]) /\ \A i \in 1 .. p : Cur[i] = stack[t][i]
        /\ Len(Cur) = p + (Len(stack[sp]) - k)
        /\ k \in 1 .. Len(stack[sp])
    BY <1>2, <2>1 DEF Cuts, OnlyCut
  <2>3. Len(stack[sp]) \in Nat
    BY ThreadFrames DEF IInv, Good
  <2>4. p <= Len(Cur)
    BY <2>2, <2>3
  <2> QED BY <1>2, <2>2, <2>4 DEF Cur
<1>3. CASE sp = current \/ (t # current /\ t # sp)
  <2>1. View(stack, current, sp, t) = stack[t]
    BY <1>3 DEF View
  <2> QED BY <1>1, <2>1
<1> QED BY <1>2, <1>3

\* Between the two halves of a switch, the frames of the stack in use: those
\* up to frame k are the frames of its thread, the last of them suspended;
\* those above are a hard IRQ and what it calls, on the current thread.
Divided(k, p) ==
    /\ k \in 1 .. Len(stack[sp]) /\ k <= 3 /\ Len(stack[sp]) <= k + 3
    /\ Len(View(stack, current, sp, sp)) = k /\ Suspended(stack[sp][k])
    /\ \A i \in 1 .. k : View(stack, current, sp, sp)[i] = stack[sp][i]
    /\ p \in 1 .. Len(Cur) /\ Len(Cur) - Len(stack[sp]) = p - k
    /\ \A i \in k + 1 .. Len(stack[sp]) :
          /\ p + (i - k) \in 1 .. Len(Cur) /\ Cur[p + (i - k)] = stack[sp][i]
          /\ stack[sp][i].fn \notin {"thread", "irq_sched"}
          /\ i = k + 1 => stack[sp][i].fn = "excpt_irq"

\* A suspended frame is low in its stack.
LEMMA SuspendedLow ==
    ASSUME NEW s, StackInv(s), NEW i \in 1 .. Len(s), Suspended(s[i])
    PROVE  /\ \/ i = 1
              \/ /\ s[i].fn = "irq_sched" /\ s[i].mask = {IRQ_SCHED_SCHEDULE}
                 /\ i = 2 \/ (i = 3 /\ s[2].fn = "excpt_irq")
           /\ s[i].fn = "thread" \/ s[i].fn = "irq_sched"
<1>1. FrameInv(s[i]) /\ (s[i].fn = "thread" <=> i = 1) /\ Placed(s, i, Len(s))
  BY StackFacts
<1>2. s[i].fn = "thread" \/ (s[i].fn = "irq_sched" /\ s[i].mask = {IRQ_SCHED_SCHEDULE})
  BY <1>1 DEF Suspended, FrameInv, ThreadFrame, ExcptFrame, SoftIrqFrame, SchedIrqFrame,
     RaiseFrame
<1> QED BY <1>1, <1>2 DEF Placed

LEMMA SwitchedStack ==
    ASSUME IInv, sp # current
    PROVE  \E k \in Nat, p \in Nat : Divided(k, p)
<1>1. PICK k \in Nat, p \in Nat : Cuts(k, p)
  BY Between
<1> DEFINE x == stack[sp]
           v == View(stack, current, sp, sp)
           n == Len(x)
           m == Len(Cur)
<1>2. /\ OnlyCut(x, k) /\ p \in Nat \ {0} /\ m = p + (n - k) /\ Cur[p].pc = "switch"
      /\ \A i \in 1 .. n - k : Cur[p + i] = x[k + i]
      /\ Len(v) = k /\ \A i \in 1 .. k : v[i] = x[i]
  BY <1>1 DEF Cuts
<1>3. StackInv(Cur) /\ StackInv(v) /\ n \in Nat
  BY ThreadFrames DEF IInv, Good, Cur
<1> HIDE DEF x, v, n, m
<1>4. k \in 1 .. n /\ Suspended(x[k])
  BY <1>2 DEF OnlyCut, n
<1>5. k <= 3
  <2>1. k \in 1 .. Len(v) /\ Suspended(v[k])
    BY <1>2, <1>4
  <2>2. k = 1 \/ k = 2 \/ k = 3
    BY <1>3, <2>1, SuspendedLow
  <2> QED BY <2>2
<1>6. p \in 1 .. m /\ m - n = p - k
  BY <1>2, <1>3, <1>4
<1>7. ASSUME NEW i \in k + 1 .. n
      PROVE  /\ p + (i - k) \in 1 .. m /\ Cur[p + (i - k)] = x[i]
             /\ x[i].fn \notin {"thread", "irq_sched"}
             /\ i = k + 1 => x[i].fn = "excpt_irq"
             /\ m <= p + 3
  <2>1. i - k \in 1 .. n - k /\ k + (i - k) = i
    BY <1>3, <1>4
  <2>2. Cur[p + (i - k)] = x[i]
    BY <1>2, <2>1
  <2> DEFINE j == p + (i - k)
  <2>3. j \in 1 .. m /\ j > p /\ (i = k + 1 => j = p + 1)
    BY <1>2, <1>3, <1>4
  <2> HIDE DEF j
  <2>4. /\ Cur[j].fn \notin {"thread", "irq_sched"}
        /\ j = p + 1 => Cur[j].fn = "excpt_irq"
        /\ m <= p + 3
    BY <1>2, <1>3, <1>6, <2>3, AboveSwitch DEF m
  <2>5. j \in 1 .. m /\ Cur[j] = x[i]
    BY <2>2, <2>3 DEF j
  <2>6. p + (i - k) \in 1 .. m
    BY <2>5 DEF j
  <2> QED BY <2>2, <2>3, <2>4, <2>5, <2>6
<1>8. n <= k + 3
  <2>1. CASE n = k
    BY <1>4, <2>1
  <2>2. CASE n # k
    <3>1. k + 1 \in k + 1 .. n
      BY <1>3, <1>4, <2>2
    <3>2. m <= p + 3
      BY <1>7, <3>1
    <3> QED BY <1>2, <1>3, <1>4, <3>2
  <2> QED BY <2>1, <2>2
<1>9. Divided(k, p)
  BY <1>2, <1>4, <1>5, <1>6, <1>7, <1>8 DEF Divided, x, v, n, m
<1> QED BY <1>1, <1>9

\* Every variable has its type; in particular no thread accumulates counts
\* or interrupt frames, however interrupts nest and switches fall.
THEOREM TypeCorrect == Spec => []TypeOK
<1>1. IInv => TypeOK
  <2> SUFFICES ASSUME IInv PROVE TypeOK
    OBVIOUS
  <2>1. /\ current \in Thread /\ sp \in Thread
        /\ irq_soft_count \in [Thread -> Nat] /\ irq_sched_count \in [Thread -> Nat]
        /\ in_irq_ctx \in [Thread -> BOOLEAN]
        /\ irq_soft_mask \subseteq SoftIrq /\ irq_sched_mask \subseteq SchedIrq
    BY DEF IInv, Good, MasksOK
  <2>2. ASSUME NEW t \in Thread
        PROVE  /\ irq_soft_count[t] \in 0 .. MaxNest + 1
               /\ irq_sched_count[t] \in 0 .. MaxNest + 1
    <3> DEFINE v == View(stack, current, sp, t)
    <3>1. Match(v, irq_soft_count[t], irq_sched_count[t], in_irq_ctx[t])
      BY ThreadFrames
    <3> HIDE DEF v
    <3>2. SoftHeld(v) \in 0 .. MaxNest + 1 /\ SchedHeld(v) \in 0 .. MaxNest + 1
      BY <3>1, HeldMost DEF Match
    <3> QED BY <3>1, <3>2 DEF Match
  <2>3. ASSUME NEW t \in Thread
        PROVE  /\ Len(stack[t]) \in 1 .. MaxFrames
               /\ \A i \in 1 .. Len(stack[t]) : stack[t][i] \in FrameType
    <3>1. stack[t] \in Seq(FrameType) /\ Len(stack[t]) \in Nat
      BY ThreadFrames
    <3>2. stack[t] # <<>>
      <4>1. CASE t = sp
        BY <4>1, ViewOfTop DEF IInv
      <4>2. CASE t # sp
        BY <4>2 DEF IInv, Good, Switched
      <4> QED BY <4>1, <4>2
    <3>3. Len(stack[t]) # 0
      BY <3>1, <3>2, EmptySeq
    <3>4. Len(stack[t]) <= MaxFrames
      <4>1. CASE t = sp /\ sp # current
        <5>1. PICK k \in Nat, p \in Nat : Divided(k, p)
          BY <4>1, SwitchedStack
        <5>2. k <= 3 /\ Len(stack[sp]) <= k + 3
          BY <5>1, Zenon DEF Divided
        <5> QED BY <3>1, <4>1, <5>2 DEF MaxFrames
      <4>2. CASE t # sp \/ sp = current
        <5> DEFINE v == View(stack, current, sp, t)
        <5>1. StackInv(v) /\ Len(stack[t]) <= Len(v)
          BY <4>2, ThreadFrames, OwnFrames
        <5> HIDE DEF v
        <5>2. Len(v) \in Nat /\ Len(v) \in 1 .. Len(v) /\ Placed(v, Len(v), Len(v))
          <6>1. Len(v) \in Nat \ {0}
            BY <5>1, StackFacts
          <6>2. Len(v) \in 1 .. Len(v)
            BY <6>1
          <6> QED BY <5>1, <6>1, <6>2, StackFacts
        <5>3. Len(v) <= MaxFrames
          BY <5>2 DEF Placed
        <5> QED BY <3>1, <5>1, <5>2, <5>3 DEF MaxFrames
      <4> QED BY <4>1, <4>2
    <3> DEFINE s == stack[t]
               n == Len(s)
    <3>5. s \in Seq(FrameType) /\ n \in Nat /\ n # 0 /\ n <= MaxFrames
      BY <3>1, <3>3, <3>4
    <3>6. \A i \in 1 .. n : s[i] \in FrameType
      <4> HIDE DEF s
      <4> QED BY <3>5, ElementOfSeq
    <3> HIDE DEF s, n
    <3>7. n \in 1 .. MaxFrames
      BY <3>5 DEF MaxFrames
    <3> QED BY <3>6, <3>7 DEF s, n
  <2>4. /\ irq_soft_count \in [Thread -> 0 .. MaxNest + 1]
        /\ irq_sched_count \in [Thread -> 0 .. MaxNest + 1]
    BY <2>1, <2>2
  <2> QED BY <2>1, <2>3, <2>4 DEF TypeOK
<1> QED BY <1>1, Invariance, PTL

\* What an irq_soft() finds below it and above it.
LEMMA SoftAlone ==
    ASSUME NEW s, StackInv(s), NEW i \in 1 .. Len(s), s[i].fn = "irq_soft"
    PROVE  /\ i > 1 /\ i - 1 \in 1 .. Len(s) /\ s[i - 1].soft = 1 /\ SoftHeld(s) = 1
           /\ \A j \in 1 .. Len(s) : s[j].fn = "irq_soft" => j = i
           /\ Len(s) <= i + 1 /\ \A j \in 1 .. Len(s) : j > i => s[j].fn = "irq_sched_raise"
<1> DEFINE n == Len(s)
<1>1. /\ \A j \in 1 .. n : FrameInv(s[j]) /\ (s[j].fn = "thread" <=> j = 1)
                                     /\ Placed(s, j, n)
      /\ \A j \in 1 .. n - 1 : Calls(s[j], s[j + 1])
      /\ \A j, k \in 1 .. n : j + 1 < k => Under(s[j], s[k])
      /\ \A j, k \in 1 .. n : j < k /\ s[k].fn = "excpt_irq" => Under(s[j], s[k])
      /\ n \in Nat \ {0}
  BY StackFacts
<1>2. SoftHeld(s) = Total([j \in 1 .. n |-> s[j].soft], n)
  BY DEF SoftHeld
<1> HIDE DEF n
<1>3. i \in 1 .. n
  BY DEF n
<1>4. i # 1 /\ n <= i + 1 /\ s[i].soft = 0 /\ s[i].sched = 0
  BY <1>1, <1>3 DEF Placed, FrameInv, ThreadFrame, ExcptFrame, SoftIrqFrame, SchedIrqFrame,
     RaiseFrame
<1>5. i - 1 \in 1 .. n - 1 /\ i - 1 \in 1 .. n /\ (i - 1) + 1 = i
  BY <1>1, <1>3, <1>4
<1>6. s[i - 1].soft = 1
  <2>1. Calls(s[i - 1], s[i])
    BY <1>1, <1>5
  <2> QED BY <2>1 DEF Calls
<1>7. ASSUME NEW j \in 1 .. n, j > i PROVE s[j].fn = "irq_sched_raise" /\ s[j].soft = 0
  <2>1. j = i + 1 /\ i \in 1 .. n - 1
    BY <1>1, <1>3, <1>4, <1>7
  <2>2. Calls(s[i], s[j]) /\ FrameInv(s[j]) /\ s[j].fn # "thread"
    BY <1>1, <1>3, <1>4, <2>1
  <2>3. s[j].fn # "excpt_irq"
    <3>1. ASSUME s[j].fn = "excpt_irq" PROVE FALSE
      <4>1. i - 1 < j
        BY <1>3, <1>7
      <4>2. Under(s[i - 1], s[j])
        BY <1>1, <1>5, <3>1, <4>1
      <4> QED BY <1>6, <3>1, <4>2 DEF Under
    <3> QED BY <3>1
  <2> QED BY <1>4, <2>2, <2>3 DEF Calls, FrameInv, ThreadFrame, ExcptFrame, SoftIrqFrame,
         SchedIrqFrame, RaiseFrame
<1>8. ASSUME NEW j \in 1 .. n, j < i, j # i - 1 PROVE s[j].soft = 0
  <2>1. j + 1 < i
    BY <1>3, <1>8
  <2>2. Under(s[j], s[i])
    BY <1>1, <1>3, <2>1
  <2> QED BY <2>2 DEF Under
<1>9. \A j \in 1 .. n : j # i - 1 => s[j].soft = 0
  <2>1. ASSUME NEW j \in 1 .. n, j # i - 1 PROVE s[j].soft = 0
    <3>1. j < i \/ j = i \/ j > i
      BY <1>3
    <3> QED BY <1>4, <1>7, <1>8, <2>1, <3>1
  <2> QED BY <2>1
<1>10. SoftHeld(s) = 1
  <2> DEFINE d == [j \in 1 .. n |-> s[j].soft]
             q == i - 1
  <2>1. \A j \in 1 .. n : s[j].soft \in Nat
    BY <1>1, FrameFields DEF FrameInv
  <2>2. Naturals1(d, n) /\ q \in 1 .. n /\ d[q] = 1
    BY <1>5, <1>6, <2>1 DEF Naturals1
  <2>3. \A j \in 1 .. n : j # q /\ j # q => d[j] = 0
    BY <1>9
  <2> HIDE DEF d, q
  <2>4. Total(d, n) = IF q = q THEN d[q] ELSE d[q] + d[q]
    BY <1>1, <2>2, <2>3, TotalOfTwo
  <2> QED BY <1>2, <2>2, <2>4 DEF d
<1>11. ASSUME NEW j \in 1 .. n, s[j].fn = "irq_soft" PROVE j = i
  <2>1. ~ (j > i)
    BY <1>7, <1>11
  <2>2. ~ (j < i)
    <3> SUFFICES ASSUME j < i PROVE FALSE
      OBVIOUS
    <3>1. j = i - 1 \/ j + 1 < i
      BY <1>3
    <3>2. s[j].soft = 0 /\ FrameInv(s[j])
      BY <1>1, <1>11, FrameKinds DEF SoftIrqFrame
    <3>3. j # i - 1
      BY <1>6, <3>2
    <3>4. n <= j + 1
      BY <1>1, <1>11 DEF Placed
    <3> QED BY <1>1, <1>3, <3>1, <3>3, <3>4
  <2> QED BY <1>3, <2>1, <2>2
<1>12. i > 1
  BY <1>3, <1>4
<1> QED BY <1>4, <1>5, <1>6, <1>7, <1>10, <1>11, <1>12 DEF n

\* How much higher the frames of the running code are counted than they lie.
Off == Len(Cur) - Len(stack[sp])

\* Where an irq_soft() can be.
LEMMA SoftPlace ==
    ASSUME IInv, NEW t \in Thread, NEW i \in 1 .. Len(stack[t]), stack[t][i].fn = "irq_soft"
    PROVE  /\ t = sp /\ i > 1 /\ stack[t][i - 1].soft = 1
           /\ i + Off \in 1 .. Len(Cur) /\ Cur[i + Off] = stack[t][i]
           /\ SoftHeld(Cur) = 1
<1>1. /\ Len(stack[t]) \in Nat /\ StackInv(View(stack, current, sp, t))
      /\ StackInv(Cur) /\ Len(stack[sp]) \in Nat
  BY ThreadFrames DEF IInv, Good, Cur
<1>2. Len(Cur) \in Nat \ {0}
  BY <1>1, StackFacts
<1>3. ASSUME NEW v, StackInv(v), NEW j \in 1 .. Len(v), v[j].fn = "irq_soft",
             NEW k \in 1 .. Len(v), Suspended(v[k])
      PROVE  k < j
  <2>1. v[k].fn = "thread" \/ v[k].fn = "irq_sched"
    BY <1>3, SuspendedLow
  <2>2. \A l \in 1 .. Len(v) : l > j => v[l].fn = "irq_sched_raise"
    BY <1>3, SoftAlone
  <2>3. ~ (k > j) /\ k # j
    BY <1>3, <2>1, <2>2
  <2> QED BY <2>3
<1>4. CASE t # sp
  <2> DEFINE v == View(stack, current, sp, t)
             n == Len(stack[t])
  <2>1. /\ Len(stack[t]) <= Len(v)
        /\ \A j \in 1 .. Len(stack[t]) : v[j] = stack[t][j]
    BY <1>4, OwnFrames
  <2>2. Suspended(stack[t][n])
    BY <1>4 DEF IInv, Good, Switched
  <2>3. StackInv(v) /\ Len(v) \in Nat
    BY <1>1, StackFacts
  <2>4. n \in 1 .. Len(v) /\ i \in 1 .. Len(v) /\ i <= n
    BY <1>1, <2>1, <2>3
  <2>5. v[n] = stack[t][n] /\ v[i] = stack[t][i]
    BY <1>1, <2>1
  <2> HIDE DEF v, n
  <2>6. n < i
    BY <1>3, <2>2, <2>3, <2>4, <2>5
  <2> QED BY <2>4, <2>6
<1>5. CASE t = sp /\ sp = current
  <2>1. Cur = stack[t]
    BY <1>5 DEF Cur, View
  <2>2. Off = 0
    BY <1>2, <1>5, <2>1 DEF Off
  <2>3. i > 1 /\ Cur[i - 1].soft = 1 /\ SoftHeld(Cur) = 1
    BY <1>1, <2>1, SoftAlone
  <2> QED BY <1>5, <2>1, <2>2, <2>3
<1>6. CASE t = sp /\ sp # current
  <2> DEFINE x == stack[sp]
             v == View(stack, current, sp, sp)
  <2>1. PICK k \in Nat, p \in Nat : Divided(k, p)
    BY <1>6, SwitchedStack
  <2>2. /\ k \in 1 .. Len(x)
        /\ Len(v) = k /\ Suspended(x[k])
        /\ \A j \in 1 .. k : v[j] = x[j]
        /\ p \in 1 .. Len(Cur) /\ Off = p - k
        /\ \A j \in k + 1 .. Len(x) :
              /\ p + (j - k) \in 1 .. Len(Cur) /\ Cur[p + (j - k)] = x[j]
              /\ j = k + 1 => x[j].fn = "excpt_irq"
    BY <2>1 DEF Divided, Off
  <2>3. i \in 1 .. Len(x) /\ x[i].fn = "irq_soft" /\ StackInv(v)
    BY <1>1, <1>6
  <2>4. x = stack[t] /\ Len(x) \in Nat
    BY <1>1, <1>6
  <2> HIDE DEF x, v
  <2>5. i > k
    <3>1. ASSUME i <= k PROVE FALSE
      <4>1. i \in 1 .. Len(v) /\ k \in 1 .. Len(v) /\ v[i].fn = "irq_soft" /\ Suspended(v[k])
        BY <2>2, <2>3, <3>1
      <4>2. k < i
        BY <1>3, <2>3, <4>1
      <4> QED BY <3>1, <4>2
    <3> QED BY <3>1
  <2>6. i \in k + 1 .. Len(x) /\ i # k + 1
    BY <2>2, <2>3, <2>4, <2>5
  <2>7. i - 1 \in k + 1 .. Len(x)
    BY <2>4, <2>6
  <2> DEFINE j == p + (i - k)
             l == p + ((i - 1) - k)
  <2>8. j \in 1 .. Len(Cur) /\ Cur[j] = x[i] /\ Cur[l] = x[i - 1]
    BY <2>2, <2>6, <2>7
  <2>9. j = i + Off /\ l = j - 1 /\ i > 1
    BY <2>2, <2>5
  <2> HIDE DEF j, l
  <2>10. Cur[j - 1].soft = 1 /\ SoftHeld(Cur) = 1
    BY <1>1, <2>3, <2>8, SoftAlone
  <2> QED BY <1>6, <2>4, <2>8, <2>9, <2>10
<1> QED BY <1>4, <1>5, <1>6

\* Soft handlers are never entered recursively, never on two stacks at once,
\* and never inside a region that disabled soft IRQs.
THEOREM SoftHandlersExclusive == Spec => []SoftExclusive
<1>1. IInv => SoftExclusive
  <2> SUFFICES ASSUME IInv PROVE SoftExclusive
    OBVIOUS
  <2> DEFINE S == {f \in Thread \X (1 .. MaxFrames) :
            f[2] <= Len(stack[f[1]]) /\ stack[f[1]][f[2]].fn = "irq_soft"}
  <2>1. StackInv(Cur) /\ Off \in Int /\ FramesOf(current) = Cur
    <3>1. /\ StackInv(Cur) /\ Len(stack[sp]) \in Nat /\ FramesOf(current) = Cur
      BY ThreadFrames DEF IInv, Good, Cur
    <3>2. Len(Cur) \in Nat
      BY <3>1, StackFacts
    <3> QED BY <3>1, <3>2 DEF Off
  <2>2. ASSUME NEW f \in S, NEW g \in S PROVE f = g
    <3>1. /\ f[1] \in Thread /\ f[2] \in 1 .. Len(stack[f[1]])
          /\ stack[f[1]][f[2]].fn = "irq_soft" /\ f = <<f[1], f[2]>> /\ f[2] \in Nat
      <4>1. f[1] \in Thread /\ f[2] \in 1 .. MaxFrames /\ f = <<f[1], f[2]>>
        OBVIOUS
      <4>2. f[2] <= Len(stack[f[1]]) /\ stack[f[1]][f[2]].fn = "irq_soft"
        OBVIOUS
      <4>3. Len(stack[f[1]]) \in Nat
        BY <4>1, ThreadFrames
      <4> QED BY <4>1, <4>2, <4>3 DEF MaxFrames
    <3>2. /\ g[1] \in Thread /\ g[2] \in 1 .. Len(stack[g[1]])
          /\ stack[g[1]][g[2]].fn = "irq_soft" /\ g = <<g[1], g[2]>> /\ g[2] \in Nat
      <4>1. g[1] \in Thread /\ g[2] \in 1 .. MaxFrames /\ g = <<g[1], g[2]>>
        OBVIOUS
      <4>2. g[2] <= Len(stack[g[1]]) /\ stack[g[1]][g[2]].fn = "irq_soft"
        OBVIOUS
      <4>3. Len(stack[g[1]]) \in Nat
        BY <4>1, ThreadFrames
      <4> QED BY <4>1, <4>2, <4>3 DEF MaxFrames
    <3> HIDE DEF S
    <3>3. f[1] = sp /\ f[2] + Off \in 1 .. Len(Cur) /\ Cur[f[2] + Off].fn = "irq_soft"
      BY <3>1, SoftPlace
    <3>4. g[1] = sp /\ g[2] + Off \in 1 .. Len(Cur) /\ Cur[g[2] + Off].fn = "irq_soft"
      BY <3>2, SoftPlace
    <3>5. f[2] + Off = g[2] + Off
      BY <2>1, <3>3, <3>4, SoftAlone
    <3>6. f[2] = g[2]
      BY <2>1, <3>1, <3>2, <3>5
    <3> QED BY <3>1, <3>2, <3>3, <3>4, <3>6
  <2>3. Cardinality(S) <= 1
    <3> HIDE DEF S
    <3>1. CASE S = {}
      BY <3>1, FS_EmptySet
    <3>2. CASE S # {}
      <4>1. PICK f \in S : TRUE
        BY <3>2
      <4>2. S = {f}
        BY <2>2, <4>1
      <4> QED BY <4>2, FS_Singleton
    <3> QED BY <3>1, <3>2
  <2>4. ASSUME NEW t \in Thread, NEW i \in 1 .. Len(stack[t]), stack[t][i].fn = "irq_soft"
        PROVE  /\ t = sp
               /\ i > 1 /\ stack[t][i - 1].soft = 1
               /\ SoftHeld(FramesOf(current)) = 1
    BY <2>1, <2>4, SoftPlace
  <2> QED BY <2>3, <2>4 DEF SoftExclusive
<1> QED BY <1>1, Invariance, PTL

\* What an irq_sched() finds below it.
LEMMA SchedAlone ==
    ASSUME NEW s, StackInv(s), NEW i \in 1 .. Len(s), s[i].fn = "irq_sched"
    PROVE  /\ i > 1 /\ i - 1 \in 1 .. Len(s) /\ s[i - 1].sched = 1
           /\ \A j \in 1 .. i : j # i - 1 => s[j].sched = 0
           /\ \A j \in 1 .. i - 1 : s[j].fn # "excpt_irq" => s[j].soft = 0
           /\ \A j \in 1 .. i : s[j].sched \in Nat
<1> DEFINE n == Len(s)
<1>1. /\ \A j \in 1 .. n : FrameInv(s[j]) /\ (s[j].fn = "thread" <=> j = 1)
                                     /\ Placed(s, j, n)
      /\ \A j \in 1 .. n - 1 : Calls(s[j], s[j + 1])
      /\ \A j, k \in 1 .. n : j + 1 < k => Under(s[j], s[k])
      /\ \A j, k \in 1 .. n : j < k /\ s[k].fn = "excpt_irq" => Under(s[j], s[k])
      /\ n \in Nat \ {0}
  BY StackFacts
<1> HIDE DEF n
<1>2. i \in 1 .. n
  BY DEF n
<1>3. i # 1 /\ s[i].sched = 0
  BY <1>1, <1>2, FrameKinds DEF SchedIrqFrame
<1>4. i > 1 /\ i - 1 \in 1 .. n - 1 /\ i - 1 \in 1 .. n /\ (i - 1) + 1 = i
  BY <1>1, <1>2, <1>3
<1>5. Calls(s[i - 1], s[i])
  BY <1>1, <1>4
<1>6. s[i - 1].sched = 1
  BY <1>5 DEF Calls
<1>7. ASSUME NEW j \in 1 .. i, j # i - 1 PROVE s[j].sched = 0
  <2>1. j = i \/ j + 1 < i
    BY <1>2, <1>7
  <2>2. ASSUME j + 1 < i PROVE s[j].sched = 0
    <3>1. j \in 1 .. n
      BY <1>1, <1>2
    <3>2. Under(s[j], s[i])
      BY <1>1, <1>2, <2>2, <3>1
    <3> QED BY <3>2 DEF Under
  <2> QED BY <1>3, <2>1, <2>2
<1>8. ASSUME NEW j \in 1 .. i - 1, s[j].fn # "excpt_irq" PROVE s[j].soft = 0
  <2>1. j \in 1 .. n /\ FrameInv(s[j])
    BY <1>1, <1>2
  <2>2. CASE j = i - 1
    <3>1. s[j].fn = "thread" /\ s[j].pc = "sched_dec"
      BY <1>5, <1>8, <2>2 DEF Calls
    <3> QED BY <2>1, <3>1, FrameKinds DEF ThreadFrame
  <2>3. CASE j # i - 1
    <3>1. Placed(s, i, n)
      BY <1>1, <1>2
    <3>2. i = 3 /\ s[2].fn = "excpt_irq" /\ j = 1 /\ 2 \in 1 .. n
      BY <1>1, <1>2, <2>3, <3>1 DEF Placed
    <3>3. Under(s[j], s[2])
      BY <1>1, <2>1, <3>2
    <3> QED BY <3>2, <3>3 DEF Under
  <2> QED BY <2>2, <2>3
<1>9. ASSUME NEW j \in 1 .. i PROVE s[j].sched \in Nat
  <2>1. j \in 1 .. n
    BY <1>1, <1>2
  <2> QED BY <1>1, <2>1, FrameFields DEF FrameInv
<1> QED BY <1>2, <1>4, <1>6, <1>7, <1>8, <1>9 DEF n

\* Where an irq_sched() can be, and what is under it on its stack.
LEMMA SchedPlace ==
    ASSUME IInv, NEW t \in Thread, NEW i \in 1 .. Len(stack[t]), stack[t][i].fn = "irq_sched"
    PROVE  /\ i > 1 /\ stack[t][i - 1].sched = 1
           /\ \A j \in 1 .. i : j # i - 1 => stack[t][j].sched = 0
           /\ t # sp => stack[t][i].mask = {IRQ_SCHED_SCHEDULE}
<1> DEFINE x == stack[t]
           v == View(stack, current, sp, t)
<1>1. Len(x) \in Nat /\ StackInv(v) /\ i \in 1 .. Len(x) /\ x[i].fn = "irq_sched"
  BY ThreadFrames
<1>2. ASSUME NEW k \in Nat, k <= Len(v), i <= k, \A j \in 1 .. k : v[j] = x[j]
      PROVE  /\ i > 1 /\ x[i - 1].sched = 1
             /\ \A j \in 1 .. i : j # i - 1 => x[j].sched = 0
  <2> HIDE DEF x, v
  <2>1. i \in 1 .. Len(v) /\ v[i].fn = "irq_sched" /\ Len(v) \in Nat
    <3>1. Len(v) \in Nat
      BY <1>1, StackFacts
    <3>2. i \in 1 .. k
      BY <1>1, <1>2
    <3> QED BY <1>1, <1>2, <3>1, <3>2
  <2>2. /\ i > 1 /\ v[i - 1].sched = 1
        /\ \A j \in 1 .. i : j # i - 1 => v[j].sched = 0
    BY <1>1, <2>1, SchedAlone
  <2>3. i - 1 \in 1 .. k /\ \A j \in 1 .. i : j \in 1 .. k
    BY <1>1, <1>2, <2>2
  <2> QED BY <1>2, <2>2, <2>3
<1>3. CASE t # sp
  <2> DEFINE n == Len(x)
  <2>1. n <= Len(v) /\ \A j \in 1 .. n : v[j] = x[j]
    BY <1>3, OwnFrames
  <2>2. Suspended(x[n])
    BY <1>3 DEF IInv, Good, Switched
  <2>3. /\ i > 1 /\ x[i - 1].sched = 1
        /\ \A j \in 1 .. i : j # i - 1 => x[j].sched = 0
    <3> HIDE DEF x, v
    <3> QED BY <1>1, <1>2, <2>1
  <2>4. n \in Nat /\ n \in 1 .. n /\ i \in 1 .. n /\ Len(v) \in Nat
    <3> HIDE DEF x, v
    <3>1. Len(v) \in Nat
      BY <1>1, StackFacts
    <3> QED BY <1>1, <3>1
  <2> HIDE DEF x, v, n
  <2>5. n \in 1 .. Len(v) /\ i \in 1 .. Len(v) /\ Suspended(v[n]) /\ v[i].fn = "irq_sched"
    BY <1>1, <2>1, <2>2, <2>4
  <2>6. /\ n = 1 \/ (v[n].fn = "irq_sched" /\ v[n].mask = {IRQ_SCHED_SCHEDULE})
        /\ n = 1 \/ n = 2 \/ (n = 3 /\ v[2].fn = "excpt_irq")
    BY <1>1, <2>5, SuspendedLow
  <2>7. i = n
    <3>1. i # 1
      BY <2>3
    <3>2. i # 2 \/ n # 3
      BY <2>5, <2>6
    <3> QED BY <2>4, <2>6, <3>1, <3>2
  <2>8. x[i].mask = {IRQ_SCHED_SCHEDULE}
    BY <2>1, <2>3, <2>4, <2>6, <2>7
  <2> QED BY <2>3, <2>8 DEF x
<1>4. CASE t = sp /\ sp = current
  <2>1. v = x
    BY <1>4 DEF View
  <2>2. Len(x) \in Nat /\ Len(x) <= Len(v) /\ \A j \in 1 .. Len(x) : v[j] = x[j]
    BY <1>1, <2>1
  <2>3. i <= Len(x)
    BY <1>1
  <2>4. /\ i > 1 /\ x[i - 1].sched = 1
        /\ \A j \in 1 .. i : j # i - 1 => x[j].sched = 0
    <3> HIDE DEF x, v
    <3> QED BY <1>2, <2>2, <2>3
  <2> QED BY <1>4, <2>4
<1>5. CASE t = sp /\ sp # current
  <2>1. PICK k \in Nat, p \in Nat : Divided(k, p)
    BY <1>5, SwitchedStack
  <2>2. /\ Len(v) = k /\ \A j \in 1 .. k : v[j] = x[j]
        /\ \A j \in k + 1 .. Len(x) : x[j].fn \notin {"thread", "irq_sched"}
    BY <1>5, <2>1 DEF Divided
  <2> HIDE DEF x, v
  <2>3. i <= k
    <3>1. i \notin k + 1 .. Len(x)
      BY <1>1, <2>2
    <3> QED BY <1>1, <3>1
  <2>4. /\ i > 1 /\ x[i - 1].sched = 1
        /\ \A j \in 1 .. i : j # i - 1 => x[j].sched = 0
    BY <1>2, <2>2, <2>3
  <2> QED BY <1>5, <2>4 DEF x
<1> QED BY <1>3, <1>4, <1>5

\* Sched handlers never run inside a region that disabled preemption, and
\* those fetched by an irq_sched() that is suspended have all run.
THEOREM SchedHandlersExclusive == Spec => []SchedExclusive
<1>1. IInv => SchedExclusive
  <2> SUFFICES ASSUME IInv, NEW t \in Thread, NEW i \in 1 .. Len(stack[t]),
                      stack[t][i].fn = "irq_sched"
               PROVE  /\ stack[t][i - 1].sched = 1
                      /\ SchedHeld(stack[t]) =
                            1 + SchedHeld(SubSeq(stack[t], i + 1, Len(stack[t])))
                      /\ t # sp => stack[t][i].mask = {IRQ_SCHED_SCHEDULE}
    BY DEF SchedExclusive
  <2> DEFINE x == stack[t]
             n == Len(x)
             w == SubSeq(x, i + 1, n)
             q == i - 1
  <2>1. /\ i > 1 /\ x[q].sched = 1 /\ \A j \in 1 .. i : j # q => x[j].sched = 0
        /\ t # sp => stack[t][i].mask = {IRQ_SCHED_SCHEDULE}
    BY SchedPlace
  <2>2. x \in Seq(FrameType) /\ n \in Nat /\ i \in 1 .. n
    BY ThreadFrames
  <2> HIDE DEF x
  <2>3. \A j \in 1 .. n : x[j].sched \in Nat /\ x[j] \in FrameType
    BY <2>2, ElementOfSeq, FrameFields
  <2>4. Len(w) = n - i /\ \A j \in 1 .. n - i : w[j] = x[i + j]
    <3>1. \A j \in i + 1 .. n : x[j] \in FrameType
      BY <2>2, <2>3
    <3>2. /\ Len(w) = IF i + 1 <= n THEN n - (i + 1) + 1 ELSE 0
          /\ \A j \in 1 .. n - (i + 1) + 1 : w[j] = x[(i + 1) + j - 1]
      BY <2>2, <3>1, SubSeqProperties
    <3> HIDE DEF w, n
    <3>3. Len(w) = n - i
      BY <2>2, <3>2
    <3>4. ASSUME NEW j \in 1 .. n - i PROVE w[j] = x[i + j]
      <4>1. j \in 1 .. n - (i + 1) + 1 /\ (i + 1) + j - 1 = i + j
        BY <2>2
      <4> QED BY <3>2, <4>1
    <3> QED BY <3>3, <3>4
  <2> DEFINE d == [j \in 1 .. n |-> x[j].sched]
             a == [j \in 1 .. i |-> x[j].sched]
             b == [j \in 1 .. Len(w) |-> w[j].sched]
  <2>5. SchedHeld(x) = Total(d, n) /\ SchedHeld(w) = Total(b, n - i)
    BY <2>4 DEF SchedHeld
  <2> HIDE DEF w, n
  <2>6. Naturals1(d, n) /\ Naturals1(a, i) /\ i \in 0 .. n /\ i \in Nat /\ q \in 1 .. i
    BY <2>1, <2>2, <2>3 DEF Naturals1
  <2>7. \A j \in 1 .. i : a[j] = d[j]
    BY <2>2
  <2>8. \A j \in 1 .. n - i : b[j] = d[i + j]
    BY <2>2, <2>4
  <2>9. a[q] = 1 /\ \A j \in 1 .. i : j # q /\ j # q => a[j] = 0
    BY <2>1, <2>6
  <2> HIDE DEF d, a, b, q
  <2>10. /\ Total(d, n) = Total(a, i) + Total(b, n - i)
         /\ Total(a, i) \in Nat /\ Total(b, n - i) \in Nat
    BY <2>2, <2>6, <2>7, <2>8, TotalSplit
  <2>11. Total(a, i) = IF q = q THEN a[q] ELSE a[q] + a[q]
    BY <2>6, <2>9, TotalOfTwo
  <2>12. SchedHeld(x) = 1 + SchedHeld(w)
    BY <2>5, <2>9, <2>10, <2>11
  <2> QED BY <2>1, <2>12 DEF x, w, n, q
<1> QED BY <1>1, Invariance, PTL

\* A thread is switched out only where its code has undone every disable but
\* the one of the schedule(), preempt_enable() or excpt_irq() that switches;
\* and interrupt code only resumes what it interrupted.
THEOREM SwitchedAtDepthOne == Spec => SwitchAtDepthOne
<1>1. ASSUME IInv, [Next]_vars, sp' # sp
      PROVE  /\ SchedHeld(stack[sp]) = 1
             /\ \A i \in 1 .. Len(stack[sp]) :
                   stack[sp][i].fn # "excpt_irq" => stack[sp][i].soft = 0
             /\ Last(stack[sp']).pc \in {"switch", "fresh"}
  <2>1. PICK t \in Thread : SwitchStack(t)
    BY <1>1 DEF Next, vars, SoftDisable, SoftEnable, SoftDecrement, PreemptDisable,
       PreemptEnable, SchedDecrement, HardIrq, ExcptSched, ExcptNoSched, ExcptExit, SoftFetch,
       HandlerDone, RaiseLoad, RaiseStore, SchedFetch, SchedClear, Schedule, KeepRunning,
       SchedSwitch, ScheduleEnd
  <2>2. InSchedule /\ t # sp /\ sp' = t
    BY <2>1 DEF SwitchStack
  <2>3. sp = current /\ ~ Suspended(Top) /\ FrameInv(Top)
    BY <1>1, <2>2, SwitchedBefore, TopInv, InScheduleTop
  <2> DEFINE s == stack[sp]
             n == Len(s)
  <2>4. StackInv(s) /\ Top = s[n]
    <3>1. View(stack, current, sp, sp) = s /\ sp \in Thread
      BY <1>1, <2>3 DEF View, IInv, Good
    <3>2. StackInv(s)
      BY <1>1, <3>1, ThreadFrames
    <3>3. Last(s) = s[n]
      BY <3>2, StackFacts
    <3> QED BY <3>2, <3>3 DEF Top
  <2> HIDE DEF s
  <2>5. /\ n \in Nat \ {0} /\ n \in 1 .. n
        /\ \A j \in 1 .. n : FrameInv(s[j]) /\ (s[j].fn = "thread" <=> j = 1)
    <3>1. /\ n \in Nat \ {0}
          /\ \A j \in 1 .. n : FrameInv(s[j]) /\ (s[j].fn = "thread" <=> j = 1)
      BY <2>4, StackFacts
    <3> QED BY <3>1
  <2> HIDE DEF n
  <2>6. /\ s[n].soft = 0
        /\ \/ s[n].fn = "thread" /\ s[n].sched = 1
           \/ s[n].fn = "irq_sched" /\ s[n].sched = 0
    BY <2>2, <2>3, <2>4, InScheduleTop
  <2>7. \E q \in 1 .. n : s[q].sched = 1 /\ \A j \in 1 .. n : j # q => s[j].sched = 0
    <3>1. CASE s[n].fn = "thread"
      <4>1. n = 1
        BY <2>5, <3>1
      <4>2. s[1].sched = 1 /\ 1 \in 1 .. n /\ \A j \in 1 .. n : j = 1
        BY <2>5, <2>6, <3>1, <4>1
      <4> QED BY <4>2
    <3>2. CASE s[n].fn = "irq_sched"
      <4>1. /\ n - 1 \in 1 .. n /\ s[n - 1].sched = 1
            /\ \A j \in 1 .. n : j # n - 1 => s[j].sched = 0
        BY <2>4, <2>5, <3>2, SchedAlone DEF n
      <4> QED BY <4>1
    <3> QED BY <2>6, <3>1, <3>2
  <2>8. SchedHeld(s) = 1
    <3> DEFINE d == [j \in 1 .. n |-> s[j].sched]
    <3>1. SchedHeld(s) = Total(d, n)
      BY DEF SchedHeld, n
    <3>2. PICK q \in 1 .. n : s[q].sched = 1 /\ \A j \in 1 .. n : j # q => s[j].sched = 0
      BY <2>7
    <3>3. \A j \in 1 .. n : s[j].sched \in Nat
      BY <2>5, FrameFields DEF FrameInv
    <3>4. Naturals1(d, n) /\ d[q] = 1 /\ \A j \in 1 .. n : j # q /\ j # q => d[j] = 0
      BY <3>2, <3>3 DEF Naturals1
    <3> HIDE DEF d
    <3>5. Total(d, n) = IF q = q THEN d[q] ELSE d[q] + d[q]
      BY <2>5, <3>4, TotalOfTwo
    <3> QED BY <3>1, <3>4, <3>5
  <2>9. ASSUME NEW i \in 1 .. n, s[i].fn # "excpt_irq" PROVE s[i].soft = 0
    <3>1. CASE s[n].fn = "thread"
      BY <2>5, <2>6, <3>1
    <3>2. CASE s[n].fn = "irq_sched"
      <4>1. \A j \in 1 .. n - 1 : s[j].fn # "excpt_irq" => s[j].soft = 0
        BY <2>4, <2>5, <3>2, SchedAlone DEF n
      <4>2. i = n \/ i \in 1 .. n - 1
        BY <2>5
      <4> QED BY <2>6, <2>9, <4>1, <4>2
    <3> QED BY <2>6, <3>1, <3>2
  <2>10. Last(stack[sp']).pc \in {"switch", "fresh"}
    <3>1. t \in Thread \ {sp} /\ stack[t] \in Seq(FrameType)
      BY <1>1, <2>2, ThreadFrames
    <3>2. stack[t] # <<>> /\ Suspended(stack[t][Len(stack[t])])
      BY <1>1, <3>1 DEF IInv, Good, Switched
    <3>3. Last(stack[t]) = stack[t][Len(stack[t])]
      BY <3>1, <3>2, FrontLast
    <3>4. Suspended(Last(stack[t]))
      BY <3>2, <3>3
    <3> QED BY <2>2, <3>4 DEF Suspended
  <2> QED BY <2>8, <2>9, <2>10 DEF s, n
<1>2. IInv /\ [Next]_vars =>
         [sp' # sp => /\ SchedHeld(stack[sp]) = 1
                      /\ \A i \in 1 .. Len(stack[sp]) :
                            stack[sp][i].fn # "excpt_irq" => stack[sp][i].soft = 0
                      /\ Last(stack[sp']).pc \in {"switch", "fresh"}]_vars
  BY <1>1
<1> QED BY <1>2, Invariance, PTL DEF Spec, SwitchAtDepthOne
=============================================================================
