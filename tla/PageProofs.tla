----------------------------- MODULE PageProofs -----------------------------
(***************************************************************************)
(* Proofs about module PageAlloc, for every number of pages and of levels. *)
(*                                                                         *)
(* A page belongs to one bit of each level, that of its number divided by  *)
(* Span[level].  With it what the bitmap says of any bit is what it says   *)
(* of the pages, and the invariant is that the set bits are those with a   *)
(* page of a block in use (Bits).                                          *)
(***************************************************************************)
EXTENDS PageAlloc, WellFoundedInduction, TLAPS, FiniteSetTheorems

-----------------------------------------------------------------------------
(* Induction over the naturals, stated for a set: the induction theorems   *)
(* of the library take an operator, which the provers cannot instantiate,  *)
(* but that < is well founded on Nat is a statement about sets.            *)

\* A set of naturals that is not empty has a least element.
LEMMA LeastOf ==
    ASSUME NEW S \in SUBSET Nat, S # {}
    PROVE  Min(S) \in S /\ \A y \in S : Min(S) <= y
<1>1. \E x \in S : \A y \in S : ~ <<y, x>> \in OpToRel(<, Nat)
  <2> DEFINE R == OpToRel(<, Nat)
  <2>1. IsWellFoundedOn(R, Nat)
    BY NatLessThanWellFounded
  <2> HIDE DEF R
  <2>3. \E x \in S : \A y \in S : ~ <<y, x>> \in R
    BY <2>1, WFMin
  <2> QED BY <2>3 DEF R
<1>2. PICK x \in S : \A y \in S : ~ (y < x)
  BY <1>1 DEF OpToRel
<1>3. \A y \in S : x <= y
  BY <1>2
<1> QED BY <1>3 DEF Min

\* A set that has 0, and n + 1 when it has n, has every natural.
LEMMA NatInduct ==
    ASSUME NEW S \in SUBSET Nat, 0 \in S, \A n \in S : n + 1 \in S
    PROVE  S = Nat
<1> SUFFICES ASSUME Nat \ S # {} PROVE FALSE
  OBVIOUS
<1>1. PICK x \in Nat \ S : \A y \in Nat \ S : x <= y
  <2> DEFINE T == Nat \ S
  <2>1. T \in SUBSET Nat /\ T # {}
    OBVIOUS
  <2> HIDE DEF T
  <2>2. Min(T) \in T /\ \A y \in T : Min(T) <= y
    BY <2>1, LeastOf
  <2> QED BY <2>2 DEF T
<1>2. x - 1 \in Nat /\ x - 1 < x /\ (x - 1) + 1 = x
  BY <1>1
<1>3. x - 1 \in S
  BY <1>1, <1>2
<1> QED BY <1>1, <1>2, <1>3

\* What is true of 0, and of n + 1 when it is of n, up to N.
LEMMA UpTo ==
    ASSUME NEW N \in Nat, NEW S, 0 \in S, \A n \in 0 .. N - 1 : n \in S => n + 1 \in S
    PROVE  0 .. N \subseteq S
<1> DEFINE T == {n \in Nat : n <= N => n \in S}
<1>1. T = Nat
  <2>1. 0 \in T
    OBVIOUS
  <2>2. \A n \in T : n + 1 \in T
    OBVIOUS
  <2>3. T \in SUBSET Nat
    OBVIOUS
  <2> HIDE DEF T
  <2> QED BY <2>1, <2>2, <2>3, NatInduct
<1> QED BY <1>1

\* F makes values of V of naturals and values of V; and f is what it makes
\* of the naturals up to N, one after the other, from b on.
Makes(F, N, V)         == \A n \in 1 .. N : \A x \in V : F[n][x] \in V
IsMade(f, F, N, V, b)  == /\ f \in [0 .. N -> V]
                          /\ f[0] = b /\ \A i \in 1 .. N : f[i] = F[i][f[i - 1]]

\* What is defined by recursion up to N exists.
LEMMA Recursion ==
    ASSUME NEW N \in Nat, NEW V, NEW b \in V, NEW F, Makes(F, N, V)
    PROVE  \E f : IsMade(f, F, N, V, b)
<1> USE DEF Makes
<1> DEFINE Eqn(f, n) == f = [i \in 0 .. n |-> IF i = 0 THEN b ELSE F[i][f[i - 1]]]
           Has(n) == \E f \in [0 .. n -> V] : Eqn(f, n)
           S == {n \in 0 .. N : Has(n)}
<1>1. 0 \in S
  <2> DEFINE f == [i \in 0 .. 0 |-> b]
  <2>1. f \in [0 .. 0 -> V] /\ Eqn(f, 0)
    OBVIOUS
  <2>2. Has(0)
    <3> HIDE DEF f, Eqn
    <3> QED BY <2>1
  <2> HIDE DEF Has
  <2> QED BY <2>2
<1>2. ASSUME NEW n \in 0 .. N - 1, n \in S PROVE n + 1 \in S
  <2>1. Has(n)
    <3> HIDE DEF Has
    <3> QED BY <1>2
  <2>2. PICK f \in [0 .. n -> V] : Eqn(f, n)
    BY <2>1
  <2> DEFINE h == [i \in 0 .. n + 1 |-> IF i = n + 1 THEN F[n + 1][f[n]] ELSE f[i]]
  <2>3. h \in [0 .. n + 1 -> V]
    <3>1. n + 1 \in 1 .. N /\ f[n] \in V
      OBVIOUS
    <3>2. F[n + 1][f[n]] \in V
      BY <3>1
    <3>3. \A i \in 0 .. n + 1 : i # n + 1 => f[i] \in V
      OBVIOUS
    <3> QED BY <3>2, <3>3
  <2>4. ASSUME NEW i \in 0 .. n + 1
        PROVE  h[i] = IF i = 0 THEN b ELSE F[i][h[i - 1]]
    <3>1. CASE i = n + 1
      BY <3>1
    <3>2. CASE i \in 1 .. n
      <4>1. f[i] = F[i][f[i - 1]]
        BY <2>2, <3>2
      <4> QED BY <3>2, <4>1
    <3>3. CASE i = 0
      <4>1. f[0] = b
        BY <2>2
      <4> QED BY <3>3, <4>1
    <3> QED BY <3>1, <3>2, <3>3
  <2>5. Eqn(h, n + 1)
    <3>1. h = [i \in 0 .. n + 1 |-> h[i]]
      OBVIOUS
    <3> HIDE DEF h
    <3> QED BY <2>4, <3>1
  <2>6. Has(n + 1)
    <3> HIDE DEF h, Eqn
    <3> QED BY <2>3, <2>5
  <2> HIDE DEF Has
  <2> QED BY <2>6
<1>3. 0 .. N \subseteq S
  <2> HIDE DEF S
  <2> QED BY <1>1, <1>2, UpTo
<1>4. Has(N)
  <2> HIDE DEF Has
  <2> QED BY <1>3
<1>5. PICK f \in [0 .. N -> V] : Eqn(f, N)
  BY <1>4
<1>6. f[0] = b
  BY <1>5
<1>7. ASSUME NEW i \in 1 .. N PROVE f[i] = F[i][f[i - 1]]
  <2>1. i \in 0 .. N /\ i # 0
    OBVIOUS
  <2> QED BY <1>5, <2>1
<1>8. IsMade(f, F, N, V, b)
  BY <1>6, <1>7 DEF IsMade
<1> QED BY <1>8

-----------------------------------------------------------------------------
(* The sizes of blocks.                                                    *)

LEMMA SpanFacts ==
    /\ Span \in [Level -> Nat]
    /\ Span[0] = 1
    /\ \A l \in Level : l # 0 => l - 1 \in Level /\ Span[l] = 2 * Span[l - 1]
<1> DEFINE N == BDY_NLEVELS - 1
           Eqn(f) == f = [l \in Level |-> IF l = 0 THEN 1 ELSE 2 * f[l - 1]]
           F == [n \in 1 .. N |-> [x \in Nat |-> 2 * x]]
<1>1. N \in Nat /\ Level = 0 .. N
  BY BdyConstants DEF Level
<1>2. \E f : IsMade(f, F, N, Nat, 1)
  <2>1. Makes(F, N, Nat)
    BY DEF Makes
  <2>2. N \in Nat /\ 1 \in Nat
    BY <1>1
  <2> HIDE DEF F, N
  <2> QED BY <2>1, <2>2, Recursion
<1>3. PICK f : IsMade(f, F, N, Nat, 1)
  BY <1>2
<1> USE DEF IsMade
<1>4. Eqn(f)
  <2>1. ASSUME NEW i \in 0 .. N
        PROVE  f[i] = IF i = 0 THEN 1 ELSE 2 * f[i - 1]
    <3>1. CASE i = 0
      BY <1>3, <3>1
    <3>2. CASE i # 0
      <4>1. i \in 1 .. N /\ i - 1 \in 0 .. N
        BY <1>1, <3>2
      <4>2. f[i - 1] \in Nat /\ f[i] = F[i][f[i - 1]]
        BY <1>3, <3>2, <4>1
      <4> QED BY <3>2, <4>1, <4>2
    <3> QED BY <3>1, <3>2
  <2>2. f = [i \in 0 .. N |-> f[i]]
    BY <1>3
  <2> QED BY <1>1, <2>1, <2>2
<1>5. Eqn(Span)
  BY <1>4 DEF Span
<1>6. Span[0] = 1 /\ \A l \in Level : l # 0 => l - 1 \in Level /\ Span[l] = 2 * Span[l - 1]
  <2> HIDE DEF N
  <2>1. 0 \in Level /\ \A l \in Level : l # 0 => l - 1 \in Level
    BY <1>1
  <2> QED BY <1>5, <2>1
<1>7. \A l \in 0 .. N : Span[l] \in Nat
  <2> DEFINE T == {l \in 0 .. N : Span[l] \in Nat}
  <2>1. 0 \in T
    BY <1>1, <1>6
  <2>2. ASSUME NEW n \in 0 .. N - 1, n \in T PROVE n + 1 \in T
    <3>1. n + 1 \in Level /\ n + 1 # 0 /\ (n + 1) - 1 = n /\ n + 1 \in 0 .. N
      BY <1>1
    <3>2. Span[n + 1] = 2 * Span[n]
      BY <1>6, <3>1
    <3> QED BY <2>2, <3>1, <3>2
  <2>3. 0 .. N \subseteq T
    <3> HIDE DEF T, N
    <3> QED BY <1>1, <2>1, <2>2, UpTo
  <2> QED BY <2>3
<1>8. Span \in [Level -> Nat]
  <2>1. DOMAIN Span = Level /\ Span = [l \in Level |-> Span[l]]
    BY <1>5
  <2> QED BY <1>1, <1>7, <2>1
<1> QED BY <1>6, <1>8

LEMMA SpanPositive ==
    \A l \in Level : Span[l] \in Nat /\ Span[l] > 0
<1> DEFINE N == BDY_NLEVELS - 1
           T == {l \in Level : Span[l] > 0}
<1>1. N \in Nat /\ Level = 0 .. N
  BY BdyConstants DEF Level
<1>2. 0 \in T
  BY <1>1, SpanFacts
<1>3. ASSUME NEW n \in 0 .. N - 1, n \in T PROVE n + 1 \in T
  <2>1. n + 1 \in Level /\ n + 1 # 0 /\ (n + 1) - 1 = n /\ n \in Level
    BY <1>1
  <2>2. Span[n + 1] = 2 * Span[n] /\ Span[n] \in Nat
    BY <2>1, SpanFacts
  <2> QED BY <1>3, <2>1, <2>2
<1>4. 0 .. N \subseteq T
  <2> HIDE DEF T, N
  <2> QED BY <1>1, <1>2, <1>3, UpTo
<1> QED BY <1>1, <1>4, SpanFacts

LEMMA SpanAdd ==
    ASSUME NEW i \in Level, NEW j \in Level, i + j \in Level
    PROVE  Span[i + j] = Span[i] * Span[j]
<1> DEFINE T == {n \in Nat : i + n \in Level => n \in Level /\ Span[i + n] = Span[i] * Span[n]}
<1>1. Span[i] \in Nat /\ i \in Nat /\ BDY_NLEVELS \in Nat
  BY SpanPositive, BdyConstants DEF Level
<1>2. 0 \in T
  BY <1>1, SpanFacts DEF Level
<1>3. ASSUME NEW n \in T PROVE n + 1 \in T
  <2> SUFFICES ASSUME i + (n + 1) \in Level
               PROVE  n + 1 \in Level /\ Span[i + (n + 1)] = Span[i] * Span[n + 1]
    OBVIOUS
  <2>1. /\ i + n \in Level /\ n + 1 \in Level /\ n + 1 # 0 /\ i + (n + 1) # 0
        /\ (i + (n + 1)) - 1 = i + n /\ (n + 1) - 1 = n
    BY <1>1 DEF Level
  <2>2. n \in Level /\ Span[i + n] = Span[i] * Span[n]
    BY <1>3, <2>1
  <2>3. Span[i + (n + 1)] = 2 * Span[i + n] /\ Span[n + 1] = 2 * Span[n]
    BY <2>1, SpanFacts
  <2>4. Span[n] \in Nat
    BY <2>2, SpanPositive
  <2>5. 2 * (Span[i] * Span[n]) = Span[i] * (2 * Span[n])
    BY ONLY <1>1, <2>4
  <2> QED BY <2>1, <2>2, <2>3, <2>5
<1>4. T = Nat
  <2>1. T \in SUBSET Nat
    OBVIOUS
  <2> HIDE DEF T
  <2> QED BY <1>2, <1>3, <2>1, NatInduct
<1> HIDE DEF T
<1>5. j \in T
  BY <1>4 DEF Level
<1> QED BY <1>5 DEF T

LEMMA NbitsFacts ==
    /\ nbits \in [Level -> Nat]
    /\ nbits[0] = NPages
    /\ \A l \in Level : l # 0 => nbits[l] = (nbits[l - 1] + 1) \div 2
<1> DEFINE N == BDY_NLEVELS - 1
           Eqn(f) == f = [l \in Level |-> IF l = 0 THEN NPages ELSE (f[l - 1] + 1) \div 2]
           F == [n \in 1 .. N |-> [x \in Nat |-> (x + 1) \div 2]]
<1>1. N \in Nat /\ Level = 0 .. N /\ NPages \in Nat
  BY BdyConstants DEF Level
<1>2. \E f : IsMade(f, F, N, Nat, NPages)
  <2>1. Makes(F, N, Nat)
    BY DEF Makes
  <2> HIDE DEF F, N
  <2> QED BY <1>1, <2>1, Recursion
<1>3. PICK f : IsMade(f, F, N, Nat, NPages)
  BY <1>2
<1> USE DEF IsMade
<1>4. Eqn(f)
  <2>1. ASSUME NEW i \in 0 .. N
        PROVE  f[i] = IF i = 0 THEN NPages ELSE (f[i - 1] + 1) \div 2
    <3>1. CASE i = 0
      BY <1>3, <3>1
    <3>2. CASE i # 0
      <4>1. i \in 1 .. N /\ i - 1 \in 0 .. N
        BY <1>1, <3>2
      <4>2. f[i - 1] \in Nat /\ f[i] = F[i][f[i - 1]]
        BY <1>3, <3>2, <4>1
      <4> QED BY <3>2, <4>1, <4>2
    <3> QED BY <3>1, <3>2
  <2>2. f = [i \in 0 .. N |-> f[i]]
    BY <1>3
  <2> QED BY <1>1, <2>1, <2>2
<1>5. Eqn(nbits)
  BY <1>4 DEF nbits
<1>6. nbits[0] = NPages /\ \A l \in Level : l # 0 => nbits[l] = (nbits[l - 1] + 1) \div 2
  <2> HIDE DEF N
  <2>1. 0 \in Level
    BY <1>1
  <2> QED BY <1>5, <2>1
<1>7. \A l \in 0 .. N : nbits[l] \in Nat
  <2> DEFINE T == {l \in 0 .. N : nbits[l] \in Nat}
  <2>1. 0 \in T
    BY <1>1, <1>6
  <2>2. ASSUME NEW n \in 0 .. N - 1, n \in T PROVE n + 1 \in T
    <3>1. n + 1 \in Level /\ n + 1 # 0 /\ (n + 1) - 1 = n /\ n + 1 \in 0 .. N
      BY <1>1
    <3>2. nbits[n + 1] = (nbits[n] + 1) \div 2
      BY <1>6, <3>1
    <3> QED BY <2>2, <3>1, <3>2
  <2>3. 0 .. N \subseteq T
    <3> HIDE DEF T, N
    <3> QED BY <1>1, <2>1, <2>2, UpTo
  <2> QED BY <2>3
<1>8. nbits \in [Level -> Nat]
  <2>1. DOMAIN nbits = Level /\ nbits = [l \in Level |-> nbits[l]]
    BY <1>5
  <2> QED BY <1>1, <1>7, <2>1
<1> QED BY <1>6, <1>8

\* The bits of a level stand for all of the pages: no bit is without a page,
\* as RAM is a multiple of the largest block.
LEMMA NbitsExact ==
    \A l \in Level : nbits[l] * Span[l] = NPages
<1> DEFINE N == BDY_NLEVELS - 1
           K == NPages \div Span[N]
           T == {l \in Level : nbits[l] = K * Span[N - l]}
<1>1. N \in Level /\ N \in Nat /\ Level = 0 .. N /\ NPages \in Nat
  BY BdyConstants DEF Level
<1>2. K \in Nat /\ NPages = K * Span[N]
  <2>1. Span[N] \in Nat /\ Span[N] > 0 /\ NPages % Span[N] = 0
    BY <1>1, SpanPositive, RamConstants
  <2> HIDE DEF N
  <2> QED BY <1>1, <2>1
<1>3. 0 \in T
  <2>1. 0 \in Level /\ N - 0 = N
    BY <1>1
  <2> QED BY <1>2, <2>1, NbitsFacts
<1>4. ASSUME NEW n \in 0 .. N - 1, n \in T PROVE n + 1 \in T
  <2>1. n + 1 \in Level /\ n + 1 # 0 /\ (n + 1) - 1 = n
    BY <1>1
  <2>2. N - n \in Level /\ N - n # 0 /\ (N - n) - 1 = N - (n + 1) /\ N - (n + 1) \in Level
    BY <1>1
  <2>3. nbits[n] = K * Span[N - n] /\ nbits[n + 1] = (nbits[n] + 1) \div 2
    BY <1>4, <2>1, NbitsFacts
  <2>4. Span[N - n] = 2 * Span[N - (n + 1)] /\ Span[N - (n + 1)] \in Nat
    BY <2>2, SpanFacts
  <2> HIDE DEF K, N
  <2>5. K * (2 * Span[N - (n + 1)]) = 2 * (K * Span[N - (n + 1)]) /\ K * Span[N - (n + 1)] \in Nat
    BY ONLY <1>2, <2>4
  <2>6. \A x \in Nat : (2 * x + 1) \div 2 = x
    OBVIOUS
  <2>7. nbits[n + 1] = K * Span[N - (n + 1)]
    BY <2>3, <2>4, <2>5, <2>6
  <2> QED BY <2>1, <2>7
<1>5. 0 .. N \subseteq T
  <2> HIDE DEF T, N
  <2> QED BY <1>1, <1>3, <1>4, UpTo
<1>6. ASSUME NEW l \in Level PROVE nbits[l] * Span[l] = NPages
  <2>1. l \in 0 .. N /\ N - l \in Level /\ l + (N - l) = N
    BY <1>1
  <2>2. nbits[l] = K * Span[N - l]
    BY <1>5, <2>1
  <2>3. Span[l] \in Nat /\ Span[N - l] \in Nat
    BY <2>1, SpanPositive
  <2>4. Span[N] = Span[l] * Span[N - l]
    <3> HIDE DEF N
    <3> QED BY <1>1, <2>1, SpanAdd
  <2> HIDE DEF K, N
  <2>5. (K * Span[N - l]) * Span[l] = K * (Span[l] * Span[N - l])
    BY ONLY <1>2, <2>3
  <2> QED BY <1>2, <2>2, <2>4, <2>5
<1> QED BY <1>6

-----------------------------------------------------------------------------
(* Pages and bits.                                                         *)

\* The bit of a level that page p belongs to.
At(p, l) == <<l, p \div Span[l]>>
Bit == {b \in Level \X (0 .. NPages - 1) : b[2] < nbits[b[1]]}
\* The bits that stand for a page of U.
Bits(U) == {b \in Bit : Pages(b) \cap U # {}}

LEMMA DivDiv ==
    ASSUME NEW p \in Nat, NEW r \in Nat, NEW q \in Nat, r > 0, q > 0
    PROVE  (p \div r) \div q = p \div (r * q)
<1> DEFINE x == p \div r
           y == x \div q
<1>1. x \in Nat /\ r * x <= p /\ p < r * (x + 1)
  OBVIOUS
<1> HIDE DEF x
<1>2. y \in Nat /\ q * y <= x /\ x < q * (y + 1)
  BY <1>1
<1> HIDE DEF y
<1>3. (r * q) * y <= p
  <2>1. r * (q * y) <= r * x
    BY ONLY <1>1, <1>2, r \in Nat, q \in Nat
  <2>2. (r * q) * y = r * (q * y)
    BY ONLY <1>2, r \in Nat, q \in Nat
  <2> QED BY <1>1, <1>2, <2>1, <2>2
<1>4. p < (r * q) * (y + 1)
  <2>1. x + 1 <= q * (y + 1)
    BY <1>1, <1>2
  <2>2. r * (x + 1) <= r * (q * (y + 1))
    BY ONLY <1>1, <1>2, <2>1, r \in Nat, q \in Nat
  <2>3. (r * q) * (y + 1) = r * (q * (y + 1))
    BY ONLY <1>2, r \in Nat, q \in Nat
  <2> QED BY <1>1, <1>2, <2>2, <2>3
<1>5. r * q \in Nat /\ r * q > 0
  BY ONLY r \in Nat, q \in Nat, r > 0, q > 0
<1> DEFINE w == r * q
<1>6. p \div w = y
  <2> HIDE DEF w
  <2>1. \A a \in Nat, d \in Nat, c \in Nat : d > 0 /\ d * c <= a /\ a < d * (c + 1) => a \div d = c
    OBVIOUS
  <2> QED BY <1>2, <1>3, <1>4, <1>5, <2>1 DEF w
<1> QED BY <1>6 DEF x, y

LEMMA PageOf ==
    ASSUME NEW l \in Level, NEW pos \in Nat, NEW p \in Nat
    PROVE  p \in Pages(<<l, pos>>) <=> p \div Span[l] = pos
<1> DEFINE c == Span[l]
<1>1. c \in Nat /\ c > 0
  BY SpanPositive
<1>2. Pages(<<l, pos>>) = pos * c .. (pos + 1) * c - 1
  BY DEF Pages
<1> HIDE DEF c
<1>3. pos * c \in Nat /\ (pos + 1) * c \in Nat
  BY <1>1
<1>4. ASSUME p \div c = pos PROVE pos * c <= p /\ p < (pos + 1) * c
  BY <1>1, <1>4
<1>5. ASSUME pos * c <= p, p < (pos + 1) * c PROVE p \div c = pos
  BY <1>1, <1>5
<1>6. p \in pos * c .. (pos + 1) * c - 1 <=> pos * c <= p /\ p < (pos + 1) * c
  BY <1>3
<1> QED BY <1>2, <1>4, <1>5, <1>6 DEF c

LEMMA PagesAre ==
    ASSUME NEW l \in Level, NEW pos \in Nat
    PROVE  /\ Pages(<<l, pos>>) = {p \in Nat : p \div Span[l] = pos}
           /\ pos * Span[l] \in Pages(<<l, pos>>)
<1> DEFINE c == Span[l]
<1>1. c \in Nat /\ c > 0
  BY SpanPositive
<1>2. Pages(<<l, pos>>) = pos * c .. (pos + 1) * c - 1
  BY DEF Pages
<1> HIDE DEF c
<1>3. pos * c \in Nat /\ (pos + 1) * c \in Nat /\ (pos + 1) * c = pos * c + c
  BY <1>1
<1>4. Pages(<<l, pos>>) \subseteq Nat
  BY <1>2, <1>3
<1>5. pos * c \in Pages(<<l, pos>>)
  BY <1>1, <1>2, <1>3
<1> QED BY <1>4, <1>5, PageOf DEF c

LEMMA LevelFacts ==
    /\ BDY_NLEVELS - 1 \in Level /\ 0 \in Level
    /\ \A l \in Level : l \in Nat /\ l <= BDY_NLEVELS - 1
    /\ \A i, j \in Level : i <= j => j - i \in Level /\ i + (j - i) = j
    /\ \A i \in Int, j \in Level : 0 <= i /\ i <= j => i \in Level
  BY BdyConstants DEF Level

LEMMA NbitsBound ==
    \A l \in Level : nbits[l] \in Nat /\ nbits[l] <= NPages
<1> SUFFICES ASSUME NEW l \in Level PROVE nbits[l] \in Nat /\ nbits[l] <= NPages
  OBVIOUS
<1>1. nbits[l] \in Nat /\ nbits[l] * Span[l] = NPages
  BY NbitsFacts, NbitsExact
<1>2. Span[l] \in Nat /\ Span[l] > 0
  BY SpanPositive
<1>3. \A x \in Nat, y \in Nat : y > 0 => x <= x * y
  OBVIOUS
<1> QED BY <1>1, <1>2, <1>3

LEMMA BitParts ==
    ASSUME NEW l, NEW pos
    PROVE  <<l, pos>> \in Bit <=> l \in Level /\ pos \in Nat /\ pos < nbits[l]
<1>1. NPages \in Nat
  BY BdyConstants
<1> QED BY <1>1, NbitsBound DEF Bit

LEMMA BitIs ==
    ASSUME NEW b \in Bit
    PROVE  /\ b = <<b[1], b[2]>> /\ b[1] \in Level /\ b[2] \in Nat /\ b[2] < nbits[b[1]]
           /\ Pages(b) = {p \in 0 .. NPages - 1 : p \div Span[b[1]] = b[2]}
           /\ Pages(b) # {}
<1>1. b = <<b[1], b[2]>> /\ b[1] \in Level /\ b[2] \in Nat /\ b[2] < nbits[b[1]]
  BY DEF Bit
<1>2. /\ Pages(b) = {p \in Nat : p \div Span[b[1]] = b[2]}
      /\ Pages(b) # {}
  BY <1>1, PagesAre
<1>3. Span[b[1]] \in Nat /\ Span[b[1]] > 0 /\ nbits[b[1]] \in Nat /\ nbits[b[1]] * Span[b[1]] = NPages
  BY <1>1, SpanPositive, NbitsFacts, NbitsExact
<1>4. ASSUME NEW p \in Nat, p \div Span[b[1]] = b[2] PROVE p \in 0 .. NPages - 1
  <2> DEFINE c == Span[b[1]]
             n == nbits[b[1]]
             x == b[2]
  <2> HIDE DEF c, n, x
  <2>1. p < c * (x + 1)
    <3>1. p \div c = x /\ c \in Nat /\ c > 0
      BY <1>3, <1>4 DEF c, x
    <3> QED BY ONLY <3>1, p \in Nat
  <2>2. n * c = NPages /\ x + 1 <= n /\ x \in Nat /\ n \in Nat /\ c \in Nat
    BY <1>1, <1>3 DEF c, n, x
  <2>3. c * (x + 1) <= n * c
    BY ONLY <2>2
  <2>4. c * (x + 1) \in Nat /\ NPages \in Nat
    BY <2>2, BdyConstants
  <2> QED BY <2>1, <2>2, <2>3, <2>4
<1>5. 0 .. NPages - 1 \subseteq Nat
  OBVIOUS
<1> QED BY <1>1, <1>2, <1>4, <1>5

\* Every page has its bit in each level.
LEMMA AtBit ==
    ASSUME NEW p \in 0 .. NPages - 1, NEW l \in Level
    PROVE  At(p, l) \in Bit /\ p \in Pages(At(p, l)) /\ p \div Span[l] \in Nat
<1> DEFINE c == Span[l]
           n == nbits[l]
           x == p \div c
<1>1. c \in Nat /\ c > 0 /\ n \in Nat /\ n * c = NPages /\ p \in Nat /\ p < NPages
  BY SpanPositive, NbitsFacts, NbitsExact, BdyConstants
<1> HIDE DEF c, n
<1>2. x \in Nat /\ c * x <= p
  BY ONLY <1>1
<1> HIDE DEF x
<1>3. x < n
  <2> SUFFICES ASSUME n <= x PROVE FALSE
    BY <1>1, <1>2
  <2>1. n * c <= c * x
    BY ONLY <1>1, <1>2, n <= x
  <2>2. c * x \in Nat
    BY <1>1, <1>2
  <2> QED BY <1>1, <1>2, <2>1, <2>2
<1>4. <<l, x>> \in Bit
  BY <1>2, <1>3, BitParts DEF n
<1>5. p \in Pages(<<l, x>>)
  BY <1>1, <1>2, PageOf DEF x, c
<1> QED BY <1>2, <1>4, <1>5 DEF At, x, c

LEMMA Up ==
    ASSUME NEW p \in Nat, NEW i \in Level, NEW j \in Level, i <= j
    PROVE  p \div Span[j] = (p \div Span[i]) \div Span[j - i]
<1>1. j - i \in Level /\ i + (j - i) = j
  BY LevelFacts
<1>2. Span[j] = Span[i] * Span[j - i]
  BY <1>1, SpanAdd
<1>3. /\ Span[i] \in Nat /\ Span[i] > 0
      /\ Span[j - i] \in Nat /\ Span[j - i] > 0
  BY <1>1, SpanPositive
<1> QED BY <1>2, <1>3, DivDiv

\* A bit lies in the bit of a level above that its position leads to, and
\* meets no other.
LEMMA Below ==
    ASSUME NEW b \in Bit, NEW c \in Bit, b[1] <= c[1]
    PROVE  IF b[2] \div Span[c[1] - b[1]] = c[2]
           THEN Pages(b) \subseteq Pages(c) ELSE Pages(b) \cap Pages(c) = {}
<1>1. /\ b[1] \in Level /\ c[1] \in Level
      /\ Pages(b) = {p \in 0 .. NPages - 1 : p \div Span[b[1]] = b[2]}
      /\ Pages(c) = {p \in 0 .. NPages - 1 : p \div Span[c[1]] = c[2]}
  BY BitIs
<1>2. ASSUME NEW p \in Pages(b) PROVE p \in Pages(c) <=> b[2] \div Span[c[1] - b[1]] = c[2]
  <2>1. p \in Nat /\ p \in 0 .. NPages - 1 /\ p \div Span[b[1]] = b[2]
    BY <1>1
  <2>2. p \div Span[c[1]] = (p \div Span[b[1]]) \div Span[c[1] - b[1]]
    BY <1>1, <2>1, Up
  <2> QED BY <1>1, <2>1, <2>2
<1> QED BY <1>2

LEMMA AncestorBit ==
    ASSUME NEW b \in Bit, NEW i \in Level, b[1] <= i
    PROVE  /\ Ancestor(b[1], b[2], i) \in Bit
           /\ Ancestor(b[1], b[2], i)[1] = i
           /\ Ancestor(b[1], b[2], i)[2] = b[2] \div Span[i - b[1]]
           /\ Pages(b) \subseteq Pages(Ancestor(b[1], b[2], i))
<1> DEFINE a == Ancestor(b[1], b[2], i)
<1>1. a = <<i, b[2] \div Span[i - b[1]]>>
  BY DEF Ancestor
<1>2. PICK p \in Pages(b) : p \in 0 .. NPages - 1 /\ p \div Span[b[1]] = b[2]
  BY BitIs
<1>3. a = At(p, i)
  <2>1. p \in Nat /\ b[1] \in Level
    BY <1>2, BitIs
  <2>2. p \div Span[i] = (p \div Span[b[1]]) \div Span[i - b[1]]
    BY <2>1, Up
  <2> QED BY <1>1, <1>2, <2>2 DEF At
<1>4. a \in Bit
  BY <1>2, <1>3, AtBit
<1>5. a[1] = i /\ a[2] = b[2] \div Span[i - b[1]]
  BY <1>1
<1> HIDE DEF a
<1>6. Pages(b) \subseteq Pages(a)
  BY <1>4, <1>5, Below
<1> QED BY <1>4, <1>5, <1>6 DEF a

LEMMA DescendantIff ==
    ASSUME NEW b \in Bit, NEW d
    PROVE  d \in Descendants(b[1], b[2]) <=>
               d \in Bit /\ d[1] < b[1] /\ d[2] \div Span[b[1] - d[1]] = b[2]
<1> DEFINE l == b[1]
           pos == b[2]
<1>1. l \in Level /\ l \in Nat /\ pos \in Nat
  BY BitIs, LevelFacts
<1>2. ASSUME NEW i \in 0 .. l - 1 PROVE i \in Level /\ i < l /\ l - i \in Level
  <2> HIDE DEF l
  <2>1. i \in Int /\ 0 <= i /\ i <= l /\ i < l
    BY <1>1
  <2>2. i \in Level
    BY <1>1, <2>1, LevelFacts
  <2> QED BY <1>1, <2>1, <2>2, LevelFacts
<1>3. ASSUME NEW i \in 0 .. l - 1, NEW k \in Nat
      PROVE  k \in pos * Span[l - i] .. (pos + 1) * Span[l - i] - 1 <=> k \div Span[l - i] = pos
  <2>1. l - i \in Level
    BY <1>2
  <2>2. Pages(<<l - i, pos>>) = pos * Span[l - i] .. (pos + 1) * Span[l - i] - 1
    BY DEF Pages
  <2> QED BY <1>1, <2>1, <2>2, PageOf
<1>4. ASSUME NEW i \in 0 .. l - 1
      PROVE  pos * Span[l - i] .. (pos + 1) * Span[l - i] - 1 \subseteq Nat
  <2>1. Span[l - i] \in Nat
    BY <1>2, SpanPositive
  <2>2. pos * Span[l - i] \in Nat
    BY <1>1, <2>1
  <2> QED BY <2>2
<1>5. Descendants(l, pos) =
          UNION {{<<i, j>> : j \in {k \in pos * Span[l - i] .. (pos + 1) * Span[l - i] - 1 :
                                       k < nbits[i]}} : i \in 0 .. l - 1}
  BY DEF Descendants
<1>6. ASSUME d \in Descendants(l, pos)
      PROVE  d \in Bit /\ d[1] < l /\ d[2] \div Span[l - d[1]] = pos
  <2>1. PICK i \in 0 .. l - 1 :
            d \in {<<i, j>> : j \in {k \in pos * Span[l - i] .. (pos + 1) * Span[l - i] - 1 :
                                        k < nbits[i]}}
    BY <1>5, <1>6
  <2>2. PICK k \in pos * Span[l - i] .. (pos + 1) * Span[l - i] - 1 : k < nbits[i] /\ d = <<i, k>>
    BY <2>1
  <2>3. k \in Nat
    BY <1>4, <2>2
  <2>4. k \div Span[l - i] = pos
    BY <1>3, <2>2, <2>3
  <2> HIDE DEF l, pos
  <2>5. i \in Level /\ i < l
    BY <1>2
  <2>6. d \in Bit
    BY <2>2, <2>3, <2>5, BitParts
  <2> QED BY <2>2, <2>4, <2>5, <2>6
<1>7. ASSUME d \in Bit, d[1] < l, d[2] \div Span[l - d[1]] = pos
      PROVE  d \in Descendants(l, pos)
  <2> DEFINE i == d[1]
             k == d[2]
  <2>1. d = <<i, k>> /\ i \in Level /\ i \in Nat /\ k \in Nat /\ k < nbits[i]
    BY <1>7, BitIs, LevelFacts
  <2>2. i \in 0 .. l - 1
    BY <1>1, <1>7, <2>1
  <2>3. k \in pos * Span[l - i] .. (pos + 1) * Span[l - i] - 1
    BY <1>3, <1>7, <2>1, <2>2
  <2> HIDE DEF i, k, l, pos
  <2> QED BY <1>5, <2>1, <2>2, <2>3
<1> QED BY <1>6, <1>7

\* The bits that bdy_alloc() sets, and those among which bdy_free() clears:
\* all that share a page with the block.
LEMMA Relatives ==
    ASSUME NEW b \in Bit, NEW d
    PROVE  d \in {Ancestor(b[1], b[2], i) : i \in b[1] .. BDY_NLEVELS - 1}
                 \union Descendants(b[1], b[2])
           <=> d \in Bit /\ Pages(d) \cap Pages(b) # {}
<1>1. b[1] \in Level /\ b[1] \in Nat /\ Pages(b) # {} /\ b[2] \in Nat
  BY BitIs, LevelFacts
<1>2. ASSUME NEW i \in b[1] .. BDY_NLEVELS - 1, d = Ancestor(b[1], b[2], i)
      PROVE  d \in Bit /\ Pages(d) \cap Pages(b) # {}
  <2>1. i \in Level /\ b[1] <= i
    BY <1>1, BdyConstants DEF Level
  <2>2. d \in Bit /\ Pages(b) \subseteq Pages(d)
    BY <1>2, <2>1, AncestorBit
  <2> QED BY <1>1, <2>2
<1>3. ASSUME d \in Descendants(b[1], b[2])
      PROVE  d \in Bit /\ Pages(d) \cap Pages(b) # {}
  <2>1. d \in Bit /\ d[1] < b[1] /\ d[2] \div Span[b[1] - d[1]] = b[2]
    BY <1>3, DescendantIff
  <2>2. d[1] <= b[1]
    BY <1>1, <2>1, BitIs, LevelFacts
  <2>3. Pages(d) \subseteq Pages(b)
    BY <2>1, <2>2, Below
  <2>4. Pages(d) # {}
    BY <2>1, BitIs
  <2> QED BY <2>1, <2>3, <2>4
<1>4. ASSUME d \in Bit, Pages(d) \cap Pages(b) # {}, d[1] < b[1]
      PROVE  d \in Descendants(b[1], b[2])
  <2>1. d[1] <= b[1]
    BY <1>1, <1>4, BitIs, LevelFacts
  <2>2. d[2] \div Span[b[1] - d[1]] = b[2]
    BY <1>4, <2>1, Below
  <2> QED BY <1>4, <2>2, DescendantIff
<1>5. ASSUME d \in Bit, Pages(d) \cap Pages(b) # {}, ~ (d[1] < b[1])
      PROVE  \E i \in b[1] .. BDY_NLEVELS - 1 : d = Ancestor(b[1], b[2], i)
  <2>1. /\ d[1] \in Level /\ d[1] \in Nat /\ b[1] <= d[1] /\ d[1] \in b[1] .. BDY_NLEVELS - 1
        /\ d = <<d[1], d[2]>>
    BY <1>1, <1>5, BitIs, LevelFacts
  <2>2. b[2] \div Span[d[1] - b[1]] = d[2]
    <3>1. Pages(b) \cap Pages(d) # {}
      BY <1>5
    <3> QED BY <1>5, <2>1, <3>1, Below
  <2>3. d = Ancestor(b[1], b[2], d[1])
    BY <2>1, <2>2 DEF Ancestor
  <2> QED BY <2>1, <2>3
<1> QED BY <1>2, <1>3, <1>4, <1>5

LEMMA ClearIff ==
    ASSUME NEW U, NEW l \in Level, NEW pos
    PROVE  pos \in bdy_clear(Bits(U), l) <=>
               <<l, pos>> \in Bit /\ Pages(<<l, pos>>) \cap U = {}
<1>1. pos \in 0 .. nbits[l] - 1 <=> <<l, pos>> \in Bit
  <2>1. nbits[l] \in Nat
    BY NbitsBound
  <2> QED BY <2>1, BitParts
<1> QED BY <1>1 DEF bdy_clear, Bits

LEMMA AllocBits ==
    ASSUME NEW U, NEW l \in Level, bdy_clear(Bits(U), l) # {}
    PROVE  /\ bdy_pos(Bits(U), l) \in bdy_clear(Bits(U), l)
           /\ bdy_alloc(Bits(U), l) = Bits(U \union Pages(<<l, bdy_pos(Bits(U), l)>>))
<1> DEFINE pos == bdy_pos(Bits(U), l)
           b == <<l, pos>>
           A == {Ancestor(l, pos, i) : i \in l .. BDY_NLEVELS - 1}
           D == Descendants(l, pos)
<1>1. pos \in bdy_clear(Bits(U), l)
  <2>1. bdy_clear(Bits(U), l) \in SUBSET Nat
    BY NbitsBound DEF bdy_clear
  <2> QED BY <2>1, LeastOf DEF bdy_pos
<1>2. bdy_alloc(Bits(U), l) = Bits(U) \union A \union D
  BY DEF bdy_alloc
<1> HIDE DEF pos
<1>3. b \in Bit /\ b[1] = l /\ b[2] = pos
  BY <1>1, ClearIff
<1> HIDE DEF b
<1>4. ASSUME NEW d PROVE d \in A \union D <=> d \in Bit /\ Pages(d) \cap Pages(b) # {}
  <2>1. d \in {Ancestor(b[1], b[2], i) : i \in b[1] .. BDY_NLEVELS - 1}
                 \union Descendants(b[1], b[2])
           <=> d \in Bit /\ Pages(d) \cap Pages(b) # {}
    BY <1>3, Relatives
  <2> QED BY <1>3, <2>1
<1> HIDE DEF A, D
<1>5. Bits(U) \union A \union D = Bits(U \union Pages(b))
  BY <1>4 DEF Bits
<1> QED BY <1>1, <1>2, <1>5 DEF b, pos

\* The two halves of a bit of the level above.
LEMMA Halves ==
    ASSUME NEW a \in Bit, a[1] + 1 \in Level,
           NEW s, s = IF a[2] % 2 = 1 THEN a[2] - 1 ELSE a[2] + 1
    PROVE  /\ <<a[1], s>> \in Bit
           /\ Pages(Ancestor(a[1], a[2], a[1] + 1)) = Pages(a) \union Pages(<<a[1], s>>)
           /\ Pages(a) \cap Pages(<<a[1], s>>) = {}
<1> DEFINE j == a[1]
           x == a[2]
           c == Ancestor(a[1], a[2], a[1] + 1)
           h == <<j, s>>
<1>1. j \in Level /\ j \in Nat /\ x \in Nat /\ x < nbits[j]
  BY BitIs, LevelFacts
<1>2. 1 \in Level /\ Span[1] = 2 /\ (j + 1) - j = 1
  <2>1. 1 \in Level /\ 1 # 0 /\ 1 - 1 = 0
    BY <1>1, BdyConstants DEF Level
  <2>2. Span[0] = 1 /\ Span[1] = 2 * Span[1 - 1]
    BY <2>1, SpanFacts, Zenon
  <2> QED BY <1>1, <2>1, <2>2
<1>3. nbits[j] = 2 * nbits[j + 1]
  <2> DEFINE m == nbits[j]
             n == nbits[j + 1]
             r == Span[j]
  <2>1. m \in Nat /\ n \in Nat /\ r \in Nat /\ r > 0
    BY <1>1, NbitsFacts, SpanPositive
  <2>2. Span[j + 1] = 2 * r
    <3>1. j + 1 # 0 /\ (j + 1) - 1 = j
      BY <1>1
    <3> QED BY <3>1, SpanFacts
  <2>3. m * r = n * (2 * r)
    BY <1>1, <2>2, NbitsExact
  <2> HIDE DEF m, n, r
  <2>4. (m - 2 * n) * r = 0
    BY ONLY <2>1, <2>3
  <2>5. \A u \in Int, v \in Nat : v > 0 /\ u * v = 0 => u = 0
    OBVIOUS
  <2>6. m - 2 * n = 0
    BY <2>1, <2>4, <2>5
  <2>7. m = 2 * n
    BY ONLY <2>1, <2>6
  <2> QED BY <2>7 DEF m, n
<1>4. s \in Nat /\ s < nbits[j] /\ s # x /\ (\A y \in Nat : y \div 2 = x \div 2 <=> y = x \/ y = s)
  <2>1. nbits[j + 1] \in Nat
    BY NbitsFacts
  <2> HIDE DEF j, x
  <2>2. s = IF x % 2 = 1 THEN x - 1 ELSE x + 1
    BY DEF x
  <2> QED BY <1>1, <1>3, <2>1, <2>2
<1>5. h \in Bit /\ h[1] = j /\ h[2] = s
  BY <1>1, <1>4, BitParts
<1>6. c \in Bit /\ c[1] = j + 1 /\ c[2] = x \div 2
  <2>1. j <= j + 1
    BY <1>1
  <2> QED BY <1>2, <2>1, AncestorBit
<1> HIDE DEF c, h
<1>7. /\ Pages(a) = {p \in 0 .. NPages - 1 : p \div Span[j] = x}
      /\ Pages(h) = {p \in 0 .. NPages - 1 : p \div Span[j] = s}
      /\ Pages(c) = {p \in 0 .. NPages - 1 : p \div Span[j + 1] = x \div 2}
  BY <1>5, <1>6, BitIs
<1>8. ASSUME NEW p \in 0 .. NPages - 1
      PROVE  p \div Span[j] \in Nat /\ p \div Span[j + 1] = (p \div Span[j]) \div 2
  <2>1. p \in Nat /\ j <= j + 1 /\ p \div Span[j] \in Nat
    BY <1>1, AtBit
  <2> QED BY <1>1, <1>2, <2>1, Up
<1> QED BY <1>4, <1>5, <1>7, <1>8 DEF c, h

\* bdy_free() climbs as far as the block's part of the bit is all that is in use.
LEMMA Climb ==
    ASSUME NEW V, NEW b \in Bit, Pages(b) \cap V = {}, NEW k \in b[1] .. BDY_NLEVELS - 1
    PROVE  (\A h \in b[1] .. k - 1 :
                ~ SiblingSet(Bits(V \union Pages(b)), Ancestor(b[1], b[2], h)))
           <=> Pages(Ancestor(b[1], b[2], k)) \cap V = {}
<1> DEFINE l == b[1]
           pos == b[2]
           N == BDY_NLEVELS - 1
           M == Bits(V \union Pages(b))
           Anc(i) == Ancestor(l, pos, i)
           Is(i) == (\A h \in l .. i - 1 : ~ SiblingSet(M, Anc(h))) <=> Pages(Anc(i)) \cap V = {}
           T == {n \in Nat : l + n <= N => Is(l + n)}
<1>1. l \in Level /\ l \in Nat /\ pos \in Nat /\ N \in Level /\ N \in Nat /\ l <= N
  BY BitIs, LevelFacts
<1>2. 0 \in T
  <2>1. l .. (l + 0) - 1 = {} /\ l + 0 = l
    BY <1>1
  <2>2. Anc(l) = b
    <3>1. l - l = 0 /\ Span[0] = 1 /\ pos \div 1 = pos
      BY <1>1, SpanFacts
    <3>2. b = <<l, pos>>
      BY BitIs
    <3> QED BY <3>1, <3>2 DEF Ancestor
  <2>3. Is(l + 0)
    <3> HIDE DEF Anc, M
    <3> QED BY <2>1, <2>2
  <2> HIDE DEF Is
  <2> QED BY <2>3
<1>3. ASSUME NEW n \in T PROVE n + 1 \in T
  <2> SUFFICES ASSUME l + (n + 1) <= N PROVE Is(l + (n + 1))
    <3> HIDE DEF Is
    <3> QED OBVIOUS
  <2> DEFINE i == l + n
             a == Anc(i)
             s == IF a[2] % 2 = 1 THEN a[2] - 1 ELSE a[2] + 1
             sib == <<a[1], s>>
  <2>1. /\ i \in Nat /\ i <= N /\ i \in Level /\ l <= i /\ l + (n + 1) = i + 1
        /\ i + 1 \in Level /\ l <= i + 1
    <3>1. n \in Nat /\ l + (n + 1) <= N
      BY <1>3
    <3> HIDE DEF l
    <3> QED BY <1>1, <3>1 DEF Level
  <2>2. Is(i)
    <3> HIDE DEF Is
    <3> QED BY <1>3, <2>1
  <2>3. a \in Bit /\ a[1] = i /\ a[2] = pos \div Span[i - l] /\ Pages(b) \subseteq Pages(a)
    BY <2>1, AncestorBit
  <2>4. Ancestor(a[1], a[2], a[1] + 1) = Anc(i + 1)
    <3>1. i - l \in Level /\ (i + 1) - l \in Level /\ i - l <= (i + 1) - l
          /\ ((i + 1) - l) - (i - l) = 1 /\ (i + 1) - i = 1
      <4> HIDE DEF i, l
      <4> QED BY <1>1, <2>1 DEF Level
    <3>2. pos \div Span[(i + 1) - l] = (pos \div Span[i - l]) \div Span[1]
      BY <1>1, <3>1, Up
    <3> HIDE DEF a, i, l, pos
    <3> QED BY <2>3, <3>1, <3>2 DEF Ancestor
  <2> HIDE DEF a
  <2>5. /\ sib \in Bit
        /\ Pages(Ancestor(a[1], a[2], a[1] + 1)) = Pages(a) \union Pages(sib)
        /\ Pages(a) \cap Pages(sib) = {}
    <3>1. a[1] + 1 \in Level
      BY <2>1, <2>3
    <3> QED BY <2>3, <3>1, Halves
  <2>6. SiblingSet(M, a) <=> sib \in M
    <3>1. SiblingSet(M, a) <=> s < nbits[a[1]] /\ sib \in M
      BY DEF SiblingSet
    <3>2. s < nbits[a[1]]
      <4> HIDE DEF s
      <4> QED BY <2>5, BitParts
    <3> QED BY <3>1, <3>2
  <2> HIDE DEF sib
  <2>7. SiblingSet(M, a) <=> Pages(sib) \cap V # {}
    BY <2>3, <2>5, <2>6 DEF Bits
  <2>8. \A h : h \in l .. (i + 1) - 1 <=> h \in l .. i - 1 \/ h = i
    BY <1>1, <2>1
  <2>9. (\A h \in l .. (i + 1) - 1 : ~ SiblingSet(M, Anc(h)))
        <=> (\A h \in l .. i - 1 : ~ SiblingSet(M, Anc(h))) /\ ~ SiblingSet(M, a)
    <3> HIDE DEF Anc, M, i, l
    <3> QED BY <2>8 DEF a
  <2>10. Pages(Anc(i + 1)) \cap V = {} <=> Pages(a) \cap V = {} /\ Pages(sib) \cap V = {}
    BY <2>4, <2>5
  <2>11. (\A h \in l .. i - 1 : ~ SiblingSet(M, Anc(h))) <=> Pages(a) \cap V = {}
    BY <2>2 DEF a
  <2>12. Is(i + 1)
    BY <2>7, <2>9, <2>10, <2>11
  <2> HIDE DEF Is
  <2> QED BY <2>1, <2>12
<1>4. T = Nat
  <2>1. T \in SUBSET Nat
    <3> HIDE DEF Is
    <3> QED OBVIOUS
  <2> HIDE DEF T
  <2> QED BY <1>2, <1>3, <2>1, NatInduct
<1>5. k - l \in T /\ l + (k - l) = k /\ k <= N
  <2> HIDE DEF T
  <2> QED BY <1>1, <1>4
<1>6. Is(k)
  <2> HIDE DEF Is
  <2> QED BY <1>5
<1> QED BY <1>6

LEMMA FreeBits ==
    ASSUME NEW V, NEW b \in Bit, Pages(b) \cap V = {}
    PROVE  bdy_free(Bits(V \union Pages(b)), b[1], b[2]) = Bits(V)
<1> DEFINE l == b[1]
           pos == b[2]
           M == Bits(V \union Pages(b))
           A == {Ancestor(l, pos, i) : i \in l .. BDY_NLEVELS - 1}
           D == Descendants(l, pos)
           C == {Ancestor(l, pos, i) : i \in
                    {k \in l .. BDY_NLEVELS - 1 :
                        \A h \in l .. k - 1 : ~SiblingSet(M, Ancestor(l, pos, h))}}
<1>1. bdy_free(M, l, pos) = M \ (D \union C)
  BY DEF bdy_free
<1>2. C = {d \in A : Pages(d) \cap V = {}}
  <2>1. \A k \in l .. BDY_NLEVELS - 1 :
            (\A h \in l .. k - 1 : ~SiblingSet(M, Ancestor(l, pos, h)))
            <=> Pages(Ancestor(l, pos, k)) \cap V = {}
    BY Climb
  <2> HIDE DEF M, l, pos
  <2> QED BY <2>1
<1>3. ASSUME NEW d PROVE d \in A \union D <=> d \in Bit /\ Pages(d) \cap Pages(b) # {}
  BY Relatives
<1>4. ASSUME NEW d \in D PROVE Pages(d) \cap V = {}
  <2>1. d \in Bit /\ d[1] < l /\ d[2] \div Span[l - d[1]] = pos
    BY DescendantIff
  <2>2. d[1] <= l
    BY <2>1, BitIs, LevelFacts
  <2>3. Pages(d) \subseteq Pages(b)
    BY <2>1, <2>2, Below
  <2> QED BY <2>3
<1> HIDE DEF A, D, C
<1>5. M \ (D \union C) = Bits(V)
  BY <1>2, <1>3, <1>4 DEF Bits
<1> QED BY <1>1, <1>5

-----------------------------------------------------------------------------
(* Several blocks in a call.                                               *)

\* Blocks apart from each other and from V, and their pages.
Spread(l, V, pa) ==
    /\ pa \in Seq(Nat)
    /\ \A i \in 1 .. Len(pa) : <<l, pa[i]>> \in Bit /\ Pages(<<l, pa[i]>>) \cap V = {}
    /\ \A i, j \in 1 .. Len(pa) : i # j => Pages(<<l, pa[i]>>) \cap Pages(<<l, pa[j]>>) = {}
Covered(l, pa) == UNION {Pages(<<l, pa[i]>>) : i \in 1 .. Len(pa)}

\* What a loop of bdy_alloc() has got when the pages of U were in use before it,
\* and one more turn of it.
Gets(U, l, g) ==
    /\ g = [map |-> Bits(U \union Covered(l, g.pa)), pa |-> g.pa]
    /\ Spread(l, U, g.pa)
Turn(l, g) == IF bdy_clear(g.map, l) = {} THEN g
              ELSE [map |-> bdy_alloc(g.map, l), pa |-> Append(g.pa, bdy_pos(g.map, l))]

LEMMA TurnGets ==
    ASSUME NEW U, NEW l \in Level, NEW g, Gets(U, l, g)
    PROVE  /\ Gets(U, l, Turn(l, g))
           /\ bdy_clear(g.map, l) = {} => Turn(l, g) = g
           /\ bdy_clear(g.map, l) # {} => Len(Turn(l, g).pa) = Len(g.pa) + 1
<1>1. CASE bdy_clear(g.map, l) = {}
  BY <1>1 DEF Turn
<1>2. CASE bdy_clear(g.map, l) # {}
  <2> DEFINE pos == bdy_pos(g.map, l)
             pa == g.pa
             q == Append(pa, pos)
             W == U \union Covered(l, pa)
             h == Turn(l, g)
  <2>1. g.map = Bits(W) /\ Spread(l, U, pa) /\ pa \in Seq(Nat)
    BY DEF Gets, Spread
  <2>2. h = [map |-> bdy_alloc(g.map, l), pa |-> q]
    BY <1>2 DEF Turn
  <2>3. pos \in bdy_clear(Bits(W), l) /\ bdy_alloc(g.map, l) = Bits(W \union Pages(<<l, pos>>))
    <3> HIDE DEF W
    <3> QED BY <1>2, <2>1, AllocBits
  <2>4. <<l, pos>> \in Bit /\ Pages(<<l, pos>>) \cap W = {}
    <3> HIDE DEF W, pos
    <3> QED BY <2>3, ClearIff
  <2>5. pos \in Nat
    <3> HIDE DEF pos
    <3> QED BY <2>4, BitParts
  <2> HIDE DEF pos, W, h
  <2>6. /\ q \in Seq(Nat) /\ Len(q) = Len(pa) + 1 /\ Len(pa) \in Nat
        /\ q[Len(pa) + 1] = pos /\ \A i \in 1 .. Len(pa) : q[i] = pa[i]
        /\ 1 .. Len(pa) + 1 = 1 .. Len(pa) \union {Len(pa) + 1}
    BY <2>1, <2>5
  <2> HIDE DEF q
  <2>7. Covered(l, q) = Covered(l, pa) \union Pages(<<l, pos>>)
    <3> DEFINE n == Len(pa)
    <3>1. /\ Covered(l, q) = UNION {Pages(<<l, q[i]>>) : i \in 1 .. n + 1}
          /\ Covered(l, pa) = UNION {Pages(<<l, pa[i]>>) : i \in 1 .. n}
      BY <2>6 DEF Covered
    <3>2. 1 .. n + 1 = 1 .. n \union {n + 1} /\ q[n + 1] = pos /\ \A i \in 1 .. n : q[i] = pa[i]
      BY <2>6
    <3> HIDE DEF n, pa
    <3> QED BY <3>1, <3>2
  <2>8. ASSUME NEW i \in 1 .. Len(pa) PROVE Pages(<<l, pa[i]>>) \subseteq W
    BY DEF Covered, W
  <2>9. Spread(l, U, q)
    <3> HIDE DEF pa
    <3>0. \A i \in 1 .. Len(q) : i \in 1 .. Len(pa) \/ i = Len(pa) + 1
      BY <2>6
    <3>1. ASSUME NEW i \in 1 .. Len(q)
          PROVE  <<l, q[i]>> \in Bit /\ Pages(<<l, q[i]>>) \cap U = {}
      <4>1. CASE i \in 1 .. Len(pa)
        BY <2>1, <2>6, <4>1 DEF Spread
      <4>2. CASE i = Len(pa) + 1
        BY <2>4, <2>6, <4>2 DEF W
      <4> QED BY <3>0, <4>1, <4>2
    <3>2. ASSUME NEW i \in 1 .. Len(q), NEW j \in 1 .. Len(q), i # j
          PROVE  Pages(<<l, q[i]>>) \cap Pages(<<l, q[j]>>) = {}
      <4>1. CASE i \in 1 .. Len(pa) /\ j \in 1 .. Len(pa)
        BY <2>1, <2>6, <3>2, <4>1 DEF Spread
      <4>2. CASE i \in 1 .. Len(pa) /\ j = Len(pa) + 1
        BY <2>4, <2>6, <2>8, <4>2
      <4>3. CASE i = Len(pa) + 1 /\ j \in 1 .. Len(pa)
        BY <2>4, <2>6, <2>8, <4>3
      <4> QED BY <3>0, <3>2, <4>1, <4>2, <4>3
    <3> QED BY <2>6, <3>1, <3>2 DEF Spread
  <2>10. W \union Pages(<<l, pos>>) = U \union Covered(l, q)
    BY <2>7 DEF W
  <2>11. h = [map |-> Bits(U \union Covered(l, q)), pa |-> q]
    BY <2>2, <2>3, <2>10
  <2>12. Gets(U, l, h)
    BY <2>9, <2>11 DEF Gets
  <2>13. Len(h.pa) = Len(pa) + 1
    BY <2>6, <2>11
  <2> QED BY <1>2, <2>12, <2>13 DEF h
<1> QED BY <1>1, <1>2

\* The blocks of a call are free and apart, and there are as many as asked for
\* or no other is free.
LEMMA AllocUpToGets ==
    ASSUME NEW U, NEW l \in Level, NEW n \in Nat
    PROVE  LET g == AllocUpTo(Bits(U), l, n)
           IN  /\ Gets(U, l, g)
               /\ Len(g.pa) <= n
               /\ Len(g.pa) # n => bdy_clear(g.map, l) = {}
<1> DEFINE start == [map |-> Bits(U), pa |-> <<>>]
           V == {g \in [map : SUBSET Bit, pa : Seq(Nat)] : Gets(U, l, g)}
           F == [i \in 1 .. n |-> [g \in V |-> Turn(l, g)]]
           Eqn(f) == f = [i \in 0 .. n |-> IF i = 0 THEN start ELSE Turn(l, f[i - 1])]
<1>1. ASSUME NEW g, Gets(U, l, g) PROVE g \in V
  <2>1. g = [map |-> Bits(U \union Covered(l, g.pa)), pa |-> g.pa] /\ g.pa \in Seq(Nat)
    BY <1>1 DEF Gets, Spread
  <2>2. Bits(U \union Covered(l, g.pa)) \in SUBSET Bit
    BY DEF Bits
  <2>3. g \in [map : SUBSET Bit, pa : Seq(Nat)]
    <3> DEFINE m == Bits(U \union Covered(l, g.pa))
               p == g.pa
    <3>1. g = [map |-> m, pa |-> p] /\ m \in SUBSET Bit /\ p \in Seq(Nat)
      BY <2>1, <2>2
    <3> HIDE DEF m, p
    <3> QED BY <3>1
  <2> QED BY <1>1, <2>3
<1>2. start \in V
  <2>1. Covered(l, <<>>) = {} /\ Spread(l, U, <<>>)
    BY DEF Covered, Spread
  <2>2. U \union {} = U
    OBVIOUS
  <2>3. Gets(U, l, start)
    BY <2>1, <2>2 DEF Gets
  <2> HIDE DEF V, start
  <2> QED BY <1>1, <2>3
<1>3. \E f : IsMade(f, F, n, V, start)
  <2>1. ASSUME NEW g \in V PROVE Turn(l, g) \in V
    <3>1. Gets(U, l, g)
      OBVIOUS
    <3>2. Gets(U, l, Turn(l, g))
      BY <3>1, TurnGets
    <3> HIDE DEF V
    <3> QED BY <1>1, <3>2
  <2>2. Makes(F, n, V)
    <3> HIDE DEF V
    <3> QED BY <2>1 DEF Makes
  <2> HIDE DEF F, V, start
  <2> QED BY <1>2, <2>2, Recursion
<1>4. PICK f : IsMade(f, F, n, V, start)
  BY <1>3
<1> HIDE DEF V, start
<1>5. \A i \in 0 .. n : f[i] = IF i = 0 THEN start ELSE Turn(l, f[i - 1])
  <2> SUFFICES ASSUME NEW i \in 0 .. n PROVE f[i] = IF i = 0 THEN start ELSE Turn(l, f[i - 1])
    OBVIOUS
  <2>1. CASE i = 0
    BY <1>4, <2>1 DEF IsMade
  <2>2. CASE i # 0
    <3>1. i \in 1 .. n /\ i - 1 \in 0 .. n
      BY <2>2
    <3>2. f[i - 1] \in V /\ f[i] = F[i][f[i - 1]]
      BY <1>4, <3>1 DEF IsMade
    <3> QED BY <2>2, <3>1, <3>2
  <2> QED BY <2>1, <2>2
<1>6. Eqn(f)
  <2>1. f = [i \in 0 .. n |-> f[i]]
    BY <1>4 DEF IsMade
  <2> HIDE DEF F
  <2> QED BY <1>5, <2>1
<1> DEFINE got == CHOOSE h : Eqn(h)
<1>7. Eqn(got)
  BY <1>6
<1>8. AllocUpTo(Bits(U), l, n) = got[n]
  BY DEF AllocUpTo, Turn, start
<1> HIDE DEF got
<1> DEFINE Ok(i) == /\ Gets(U, l, got[i]) /\ Len(got[i].pa) <= i
                    /\ Len(got[i].pa) # i => bdy_clear(got[i].map, l) = {}
           T == {i \in 0 .. n : Ok(i)}
<1>9. 0 \in T
  <2>1. got[0] = start
    BY <1>7
  <2>2. Gets(U, l, start) /\ start.pa = <<>>
    BY <1>2 DEF V, start
  <2> QED BY <2>1, <2>2
<1>10. ASSUME NEW i \in 0 .. n - 1, i \in T PROVE i + 1 \in T
  <2>1. i + 1 \in 0 .. n /\ i + 1 # 0 /\ (i + 1) - 1 = i
    OBVIOUS
  <2>2. got[i + 1] = Turn(l, got[i])
    BY <1>7, <2>1
  <2>3. /\ Gets(U, l, got[i]) /\ Len(got[i].pa) <= i
        /\ Len(got[i].pa) # i => bdy_clear(got[i].map, l) = {}
    BY <1>10
  <2>4. Len(got[i].pa) \in Nat
    BY <2>3 DEF Gets, Spread
  <2>5. /\ Gets(U, l, got[i + 1])
        /\ bdy_clear(got[i].map, l) = {} => got[i + 1] = got[i]
        /\ bdy_clear(got[i].map, l) # {} => Len(got[i + 1].pa) = Len(got[i].pa) + 1
    <3> DEFINE g == got[i]
    <3>1. Gets(U, l, g)
      BY <2>3
    <3> HIDE DEF g
    <3>2. /\ Gets(U, l, Turn(l, g))
          /\ bdy_clear(g.map, l) = {} => Turn(l, g) = g
          /\ bdy_clear(g.map, l) # {} => Len(Turn(l, g).pa) = Len(g.pa) + 1
      BY <3>1, TurnGets
    <3> QED BY <2>2, <3>2 DEF g
  <2>6. Ok(i + 1)
    <3>1. CASE bdy_clear(got[i].map, l) = {}
      BY <2>3, <2>4, <2>5, <3>1
    <3>2. CASE bdy_clear(got[i].map, l) # {}
      BY <2>3, <2>4, <2>5, <3>2
    <3> QED BY <3>1, <3>2
  <2> HIDE DEF Ok
  <2> QED BY <2>1, <2>6
<1>11. 0 .. n \subseteq T
  <2> HIDE DEF T
  <2> QED BY <1>9, <1>10, UpTo
<1>12. Ok(n)
  <2> HIDE DEF Ok
  <2> QED BY <1>11
<1> QED BY <1>8, <1>12

\* The blocks of pa from the i-th on.
From(l, pa, i) == UNION {Pages(<<l, pa[j]>>) : j \in i + 1 .. Len(pa)}

\* Blocks that are in use are free again, in whatever order they are freed,
\* and nothing else is.
LEMMA FreeAllBits ==
    ASSUME NEW V, NEW l \in Level, NEW pa, Spread(l, V, pa)
    PROVE  FreeAll(Bits(V \union Covered(l, pa)), l, pa) = Bits(V)
<1> DEFINE n == Len(pa)
           m == Bits(V \union Covered(l, pa))
           F == [i \in 1 .. n |-> [x \in SUBSET Bit |-> bdy_free(x, l, pa[i])]]
           Eqn(f) == f = [i \in 0 .. n |-> IF i = 0 THEN m ELSE bdy_free(f[i - 1], l, pa[i])]
<1>1. n \in Nat /\ m \in SUBSET Bit
  BY DEF Spread, Bits
<1>2. \E f : IsMade(f, F, n, SUBSET Bit, m)
  <2>1. Makes(F, n, SUBSET Bit)
    <3>1. \A x \in SUBSET Bit : \A pos : bdy_free(x, l, pos) \in SUBSET Bit
      BY DEF bdy_free
    <3> HIDE DEF n
    <3> QED BY <3>1 DEF Makes
  <2> HIDE DEF F, m, n
  <2> QED BY <1>1, <2>1, Recursion
<1>3. PICK f : IsMade(f, F, n, SUBSET Bit, m)
  BY <1>2
<1> HIDE DEF m
<1>4. \A i \in 0 .. n : f[i] = IF i = 0 THEN m ELSE bdy_free(f[i - 1], l, pa[i])
  <2> SUFFICES ASSUME NEW i \in 0 .. n
               PROVE  f[i] = IF i = 0 THEN m ELSE bdy_free(f[i - 1], l, pa[i])
    OBVIOUS
  <2>1. CASE i = 0
    BY <1>3, <2>1 DEF IsMade
  <2>2. CASE i # 0
    <3>1. i \in 1 .. n /\ i - 1 \in 0 .. n
      BY <1>1, <2>2
    <3>2. f[i - 1] \in SUBSET Bit /\ f[i] = F[i][f[i - 1]]
      BY <1>3, <3>1 DEF IsMade
    <3> QED BY <2>2, <3>1, <3>2
  <2> QED BY <2>1, <2>2
<1>5. Eqn(f)
  <2>1. f = [i \in 0 .. n |-> f[i]]
    BY <1>3 DEF IsMade
  <2> HIDE DEF F
  <2> QED BY <1>4, <2>1
<1> DEFINE bits == CHOOSE h : Eqn(h)
<1>6. Eqn(bits)
  BY <1>5
<1>7. FreeAll(m, l, pa) = bits[n]
  BY DEF FreeAll
<1> HIDE DEF bits
<1> DEFINE T == {i \in 0 .. n : bits[i] = Bits(V \union From(l, pa, i))}
<1>8. 0 \in T
  <2>1. bits[0] = m
    BY <1>1, <1>6
  <2>2. From(l, pa, 0) = Covered(l, pa)
    BY DEF From, Covered
  <2>3. bits[0] = Bits(V \union From(l, pa, 0))
    BY <2>1, <2>2 DEF m
  <2>4. 0 \in 0 .. n
    BY <1>1
  <2> QED BY <2>3, <2>4
<1>9. ASSUME NEW i \in 0 .. n - 1, i \in T PROVE i + 1 \in T
  <2> DEFINE b == <<l, pa[i + 1]>>
             W == V \union From(l, pa, i + 1)
  <2>1. i + 1 \in 0 .. n /\ i + 1 \in 1 .. n /\ i + 1 # 0 /\ (i + 1) - 1 = i
    BY <1>1
  <2>2. bits[i + 1] = bdy_free(Bits(V \union From(l, pa, i)), l, pa[i + 1])
    BY <1>6, <1>9, <2>1
  <2>3. b \in Bit /\ b[1] = l /\ b[2] = pa[i + 1] /\ Pages(b) \cap V = {}
    BY <2>1 DEF Spread
  <2>4. \A j \in i + 2 .. n : j \in 1 .. n /\ j # i + 1
    BY <1>1
  <2>5. \A j \in i + 2 .. n : Pages(b) \cap Pages(<<l, pa[j]>>) = {}
    BY <2>1, <2>4 DEF Spread
  <2> HIDE DEF n
  <2>6. From(l, pa, i + 1) = UNION {Pages(<<l, pa[j]>>) : j \in i + 2 .. n}
    <3>1. (i + 1) + 1 = i + 2
      OBVIOUS
    <3> QED BY <3>1 DEF From, n
  <2>7. From(l, pa, i) = Pages(b) \union From(l, pa, i + 1)
    <3>1. i + 1 .. n = {i + 1} \union (i + 2 .. n)
      BY <1>1, <2>1
    <3>2. From(l, pa, i) = UNION {Pages(<<l, pa[j]>>) : j \in i + 1 .. n}
      BY DEF From, n
    <3> DEFINE P(j) == Pages(<<l, pa[j]>>)
               I == i + 2 .. n
               k == i + 1
    <3>3. From(l, pa, i) = UNION {P(j) : j \in {k} \union I} /\ Pages(b) = P(k)
      BY <3>1, <3>2
    <3>4. From(l, pa, i + 1) = UNION {P(j) : j \in I}
      BY <2>6
    <3> HIDE DEF P, I, k, b
    <3> QED BY <3>3, <3>4
  <2>8. Pages(b) \cap W = {}
    <3> DEFINE P(j) == Pages(<<l, pa[j]>>)
               I == i + 2 .. n
               R == From(l, pa, i + 1)
    <3>1. \A j \in I : Pages(b) \cap P(j) = {}
      BY <2>5
    <3>2. R = UNION {P(j) : j \in I}
      BY <2>6
    <3> HIDE DEF P, I, R, b
    <3>3. Pages(b) \cap R = {}
      BY <3>1, <3>2
    <3> QED BY <2>3, <3>3 DEF R
  <2> HIDE DEF W
  <2>9. bdy_free(Bits(W \union Pages(b)), b[1], b[2]) = Bits(W)
    BY <2>3, <2>8, FreeBits
  <2>10. W \union Pages(b) = V \union From(l, pa, i)
    BY <2>7 DEF W
  <2>11. bits[i + 1] = Bits(W)
    BY <2>2, <2>3, <2>9, <2>10
  <2> QED BY <2>1, <2>11 DEF W
<1>10. 0 .. n \subseteq T
  <2> HIDE DEF T, n
  <2> QED BY <1>1, <1>8, <1>9, UpTo
<1>11. bits[n] = Bits(V \union From(l, pa, n))
  <2> HIDE DEF n
  <2> QED BY <1>1, <1>10
<1>12. From(l, pa, n) = {}
  <2>1. n + 1 .. Len(pa) = {}
    BY <1>1
  <2> QED BY <2>1 DEF From
<1>13. FreeAll(m, l, pa) = Bits(V)
  BY <1>7, <1>11, <1>12
<1> QED BY <1>13 DEF m

LEMMA ReverseSpread ==
    ASSUME NEW V, NEW l \in Level, NEW pa, Spread(l, V, pa)
    PROVE  Spread(l, V, Reverse(pa)) /\ Covered(l, Reverse(pa)) = Covered(l, pa)
<1> DEFINE n == Len(pa)
           q == Reverse(pa)
<1>1. n \in Nat /\ pa \in [1 .. n -> Nat]
  BY DEF Spread
<1>2. q = [i \in 1 .. n |-> pa[(n - i) + 1]]
  BY DEF Reverse
<1>3. ASSUME NEW i \in 1 .. n PROVE (n - i) + 1 \in 1 .. n /\ (n - ((n - i) + 1)) + 1 = i
  BY <1>1
<1>4. \A i, j \in 1 .. n : i # j => (n - i) + 1 # (n - j) + 1
  BY <1>1
<1> HIDE DEF n, q
<1>5. q \in [1 .. n -> Nat]
  BY <1>1, <1>2, <1>3
<1>6. q \in Seq(Nat) /\ Len(q) = n
  BY <1>1, <1>5
<1>7. \A i \in 1 .. n : q[i] = pa[(n - i) + 1]
  BY <1>2
<1> DEFINE P(i) == Pages(<<l, pa[i]>>)
           Q(i) == Pages(<<l, q[i]>>)
<1>8. \A i \in 1 .. n : Q(i) = P((n - i) + 1) /\ P(i) = Q((n - i) + 1)
  <2> SUFFICES ASSUME NEW i \in 1 .. n PROVE Q(i) = P((n - i) + 1) /\ P(i) = Q((n - i) + 1)
    OBVIOUS
  <2>1. q[i] = pa[(n - i) + 1]
    BY <1>7
  <2>2. q[(n - i) + 1] = pa[i]
    BY <1>3, <1>7
  <2> QED BY <2>1, <2>2
<1>9. Spread(l, V, q)
  <2>1. /\ \A i \in 1 .. n : <<l, pa[i]>> \in Bit /\ P(i) \cap V = {}
        /\ \A i, j \in 1 .. n : i # j => P(i) \cap P(j) = {}
    BY DEF Spread, n
  <2> HIDE DEF P, Q
  <2>2. ASSUME NEW i \in 1 .. n PROVE <<l, q[i]>> \in Bit /\ Q(i) \cap V = {}
    BY <1>3, <1>7, <1>8, <2>1
  <2>3. ASSUME NEW i \in 1 .. n, NEW j \in 1 .. n, i # j PROVE Q(i) \cap Q(j) = {}
    BY <1>3, <1>4, <1>8, <2>1, <2>3
  <2>4. 1 .. Len(q) = 1 .. n
    BY <1>6
  <2> QED BY <1>6, <2>2, <2>3, <2>4 DEF Spread, P, Q
<1>10. Covered(l, q) = Covered(l, pa)
  <2>1. Covered(l, q) = UNION {Q(i) : i \in 1 .. n} /\ Covered(l, pa) = UNION {P(i) : i \in 1 .. n}
    BY <1>6 DEF Covered, n
  <2> HIDE DEF P, Q
  <2>2. ASSUME NEW x, NEW i \in 1 .. n, x \in Q(i) PROVE \E j \in 1 .. n : x \in P(j)
    BY <1>3, <1>8, <2>2
  <2>3. ASSUME NEW x, NEW i \in 1 .. n, x \in P(i) PROVE \E j \in 1 .. n : x \in Q(j)
    BY <1>3, <1>8, <2>3
  <2> QED BY <2>1, <2>2, <2>3
<1> QED BY <1>9, <1>10 DEF q

\* A call that fails leaves the bitmap as it was.
LEMMA RollbackBits ==
    ASSUME NEW U, NEW l \in Level, NEW g, Gets(U, l, g)
    PROVE  Rollback(g.map, l, g.pa) = Bits(U)
<1>1. g.map = Bits(U \union Covered(l, g.pa)) /\ Spread(l, U, g.pa)
  BY DEF Gets
<1>2. Spread(l, U, Reverse(g.pa)) /\ Covered(l, Reverse(g.pa)) = Covered(l, g.pa)
  BY <1>1, ReverseSpread
<1>3. FreeAll(Bits(U \union Covered(l, Reverse(g.pa))), l, Reverse(g.pa)) = Bits(U)
  BY <1>2, FreeAllBits
<1> QED BY <1>1, <1>2, <1>3 DEF Rollback

-----------------------------------------------------------------------------
(* The invariant.                                                          *)

\* Blocks that callers hold are bits, apart from each other and from those
\* that the kernel keeps.
Apart ==
    /\ out \subseteq Bit \X Use
    /\ \A o, q \in out : o # q => Pages(o[1]) \cap Pages(q[1]) = {}
    /\ \A o \in out, r \in Reserved : Pages(o[1]) \cap Pages(r) = {}

Entry == [unit : Unit, use : Use, u0 : {"0", "1", "va"}]

IInv ==
    /\ map = Bits(InUse)
    /\ Apart
    /\ ram_map \in [0 .. NPages - 1 -> Entry]
    /\ EntriesMatch

LEMMA CoveredIs ==
    ASSUME NEW l, NEW pa \in Seq(Nat)
    PROVE  /\ UNION {Pages(b) : b \in {l} \X ToSet(pa)} = Covered(l, pa)
           /\ ToSet(pa) = {pa[i] : i \in 1 .. Len(pa)}
<1>1. DOMAIN pa = 1 .. Len(pa)
  OBVIOUS
<1>2. ToSet(pa) = {pa[i] : i \in 1 .. Len(pa)}
  BY <1>1 DEF ToSet
<1>3. {l} \X ToSet(pa) = {<<l, pa[i]>> : i \in 1 .. Len(pa)}
  BY <1>2
<1> DEFINE I == 1 .. Len(pa)
           B1(i) == <<l, pa[i]>>
           P(b) == Pages(b)
<1>4. {P(b) : b \in {B1(i) : i \in I}} = {P(B1(i)) : i \in I}
  <2> HIDE DEF I, B1, P
  <2> QED OBVIOUS
<1> QED BY <1>2, <1>3, <1>4 DEF Covered

\* The pages in use when callers hold the blocks of held.
PagesOf(held) == UNION {Pages(b) : b \in {o[1] : o \in held} \union Reserved}

LEMMA InUseIs ==
    InUse = PagesOf(out) /\ InUse' = PagesOf(out')
BY DEF InUse, PagesOf

LEMMA PagesOfParts ==
    ASSUME NEW held, NEW x
    PROVE  x \in PagesOf(held) <=> \/ \E o \in held : x \in Pages(o[1])
                                   \/ \E r \in Reserved : x \in Pages(r)
<1> DEFINE P(b) == Pages(b)
           B1 == {o[1] : o \in held} \union Reserved
<1>1. PagesOf(held) = UNION {P(b) : b \in B1}
  BY DEF PagesOf
<1> HIDE DEF P
<1>2. x \in UNION {P(b) : b \in B1} <=> \E b \in B1 : x \in P(b)
  <2> HIDE DEF B1
  <2> QED OBVIOUS
<1>3. (\E b \in B1 : x \in P(b)) <=> (\E o \in held : x \in P(o[1])) \/ (\E r \in Reserved : x \in P(r))
  OBVIOUS
<1> HIDE DEF B1
<1>4. x \in PagesOf(held) <=> (\E o \in held : x \in P(o[1])) \/ (\E r \in Reserved : x \in P(r))
  BY <1>1, <1>2, <1>3
<1> QED BY <1>4 DEF P

\* What pm_init() reserves.
LEMMA ReservedIs ==
    Reserved2.map = Bits(UNION {Pages(r) : r \in Reserved})
<1> DEFINE U1 == Covered(ReservedUnit, Reserved1.pa)
           U2 == Covered(MapUnit, Reserved2.pa)
<1>1. ReservedUnit \in Level /\ MapUnit \in Level /\ ReservedN \in Nat
  BY RamConstants DEF Unit
<1>2. Gets({}, ReservedUnit, Reserved1)
  <2>1. Bits({}) = {}
    BY DEF Bits
  <2> QED BY <1>1, <2>1, AllocUpToGets DEF Reserved1
<1>3. Reserved1.map = Bits(U1) /\ Reserved1.pa \in Seq(Nat)
  <2>1. {} \union U1 = U1
    OBVIOUS
  <2> HIDE DEF U1
  <2>2. Reserved1 = [map |-> Bits({} \union U1), pa |-> Reserved1.pa] /\ Reserved1.pa \in Seq(Nat)
    BY <1>2 DEF Gets, Spread, U1
  <2> QED BY <2>1, <2>2
<1>4. Gets(U1, MapUnit, Reserved2)
  <2> HIDE DEF U1
  <2>1. Gets(U1, MapUnit, AllocUpTo(Bits(U1), MapUnit, 1))
    BY <1>1, AllocUpToGets
  <2> QED BY <1>3, <2>1 DEF Reserved2
<1>5. Reserved2.map = Bits(U1 \union U2) /\ Reserved2.pa \in Seq(Nat)
  <2> HIDE DEF U1, U2
  <2>2. Reserved2 = [map |-> Bits(U1 \union U2), pa |-> Reserved2.pa] /\ Reserved2.pa \in Seq(Nat)
    BY <1>4 DEF Gets, Spread, U2
  <2> QED BY <2>2
<1>6. UNION {Pages(r) : r \in Reserved} = U1 \union U2
  <2> DEFINE P(b) == Pages(b)
             R1 == {ReservedUnit} \X ToSet(Reserved1.pa)
             R2 == {MapUnit} \X ToSet(Reserved2.pa)
  <2>1. UNION {P(r) : r \in R1} = U1 /\ UNION {P(r) : r \in R2} = U2
    BY <1>3, <1>5, CoveredIs
  <2>2. Reserved = R1 \union R2
    BY DEF Reserved
  <2> HIDE DEF P, R1, R2, U1, U2
  <2>3. UNION {P(r) : r \in Reserved} = U1 \union U2
    BY <2>1, <2>2
  <2> QED BY <2>3 DEF P
<1> QED BY <1>5, <1>6

LEMMA InitInv == Init => IInv
<1> SUFFICES ASSUME Init PROVE IInv
  OBVIOUS
<1>1. out = {}
  BY DEF Init
<1>2. map = Bits(InUse)
  <2>1. InUse = UNION {Pages(r) : r \in Reserved}
    BY <1>1 DEF InUse
  <2> QED BY <2>1, ReservedIs DEF Init
<1>3. Apart /\ EntriesMatch
  BY <1>1 DEF Apart, EntriesMatch
<1>4. ram_map \in [0 .. NPages - 1 -> Entry]
  <2> DEFINE u0(p) == IF p \in KernelPages THEN "1" ELSE "0"
             InMap(p) == p \in Pages(<<MapUnit, Reserved2.pa[1]>>)
             E(p) == IF InMap(p) THEN [unit |-> MapUnit, use |-> "NORMAL", u0 |-> "1"]
                     ELSE [unit |-> 0, use |-> "NORMAL", u0 |-> u0(p)]
  <2>1. ram_map = [p \in 0 .. NPages - 1 |-> E(p)]
    BY DEF Init
  <2>2. MapUnit \in Unit /\ 0 \in Unit /\ "NORMAL" \in Use
    BY RamConstants, LevelFacts DEF Unit, Use
  <2>3. ASSUME NEW p PROVE E(p) \in Entry
    <3>1. u0(p) \in {"0", "1", "va"}
      OBVIOUS
    <3> HIDE DEF u0, InMap
    <3> QED BY <2>2, <3>1 DEF Entry
  <2> HIDE DEF E
  <2> QED BY <2>1, <2>3
<1> QED BY <1>2, <1>3, <1>4 DEF IInv

BlocksOf(l, pa) == {l} \X ToSet(pa)

LEMMA SpreadBlocks ==
    ASSUME NEW l \in Level, NEW V, NEW pa, Spread(l, V, pa)
    PROVE  /\ \A b : b \in BlocksOf(l, pa) <=> \E i \in 1 .. Len(pa) : b = <<l, pa[i]>>
           /\ \A b \in BlocksOf(l, pa) : b \in Bit /\ b[1] = l /\ Pages(b) \cap V = {} /\ Pages(b) # {}
           /\ \A b, c \in BlocksOf(l, pa) : b # c => Pages(b) \cap Pages(c) = {}
           /\ \A x : x \in Covered(l, pa) <=> \E b \in BlocksOf(l, pa) : x \in Pages(b)
<1> DEFINE new == BlocksOf(l, pa)
<1>1. pa \in Seq(Nat)
  BY DEF Spread
<1>2. ToSet(pa) = {pa[i] : i \in 1 .. Len(pa)}
  BY <1>1, CoveredIs
<1>3. \A b : b \in new <=> \E i \in 1 .. Len(pa) : b = <<l, pa[i]>>
  BY <1>2 DEF BlocksOf
<1> HIDE DEF new
<1>4. ASSUME NEW b \in new
      PROVE  b \in Bit /\ b[1] = l /\ Pages(b) \cap V = {} /\ Pages(b) # {}
  <2>1. PICK i \in 1 .. Len(pa) : b = <<l, pa[i]>>
    BY <1>3
  <2>2. b \in Bit /\ Pages(b) \cap V = {}
    BY <2>1 DEF Spread
  <2> QED BY <2>1, <2>2, BitIs
<1>5. ASSUME NEW b \in new, NEW c \in new, b # c
      PROVE  Pages(b) \cap Pages(c) = {}
  <2>1. PICK i \in 1 .. Len(pa) : b = <<l, pa[i]>>
    BY <1>3
  <2>2. PICK j \in 1 .. Len(pa) : c = <<l, pa[j]>>
    BY <1>3
  <2>3. i # j
    BY <1>5, <2>1, <2>2
  <2> QED BY <2>1, <2>2, <2>3 DEF Spread
<1>6. ASSUME NEW x PROVE x \in Covered(l, pa) <=> \E b \in new : x \in Pages(b)
  <2> DEFINE B1(i) == <<l, pa[i]>>
             P(b) == Pages(b)
             I == 1 .. Len(pa)
  <2>1. Covered(l, pa) = UNION {P(B1(i)) : i \in I} /\ (\A b : b \in new <=> \E i \in I : b = B1(i))
    BY <1>3 DEF Covered
  <2> HIDE DEF B1, P, I
  <2>2. x \in Covered(l, pa) <=> \E b \in new : x \in P(b)
    BY <2>1
  <2> QED BY <2>2 DEF P
<1> QED BY <1>3, <1>4, <1>5, <1>6 DEF new

\* A call that got all of its blocks.
LEMMA TakeStep ==
    ASSUME IInv, NEW unit \in Unit, NEW use \in Use, NEW g, Gets(InUse, unit, g),
           NEW new, new = BlocksOf(unit, g.pa),
           map' = g.map,
           ram_map' = [p \in DOMAIN ram_map |->
                          IF \E b \in new : p \in Pages(b)
                          THEN NewEntry(ram_map[p], unit, use) ELSE ram_map[p]],
           out' = out \union (new \X {use})
    PROVE  IInv'
<1>1. /\ unit \in Level /\ Spread(unit, InUse, g.pa)
      /\ g.map = Bits(InUse \union Covered(unit, g.pa))
  BY DEF Gets, Unit
<1>2. /\ \A b \in new : b \in Bit /\ b[1] = unit /\ Pages(b) \cap InUse = {} /\ Pages(b) # {}
      /\ \A b, c \in new : b # c => Pages(b) \cap Pages(c) = {}
      /\ \A x : x \in Covered(unit, g.pa) <=> \E b \in new : x \in Pages(b)
  BY <1>1, SpreadBlocks
<1>3. ASSUME NEW o \in out' PROVE o \in out \/ (o[1] \in new /\ o[2] = use /\ o = <<o[1], use>>)
  OBVIOUS
<1>4. /\ \A o \in out : Pages(o[1]) \subseteq InUse
      /\ \A r \in Reserved : Pages(r) \subseteq InUse
  BY InUseIs, PagesOfParts
<1>5. InUse' = InUse \union Covered(unit, g.pa)
  <2>1. ASSUME NEW x PROVE x \in PagesOf(out') <=> x \in PagesOf(out) \/ x \in Covered(unit, g.pa)
    <3>1. (\E o \in out' : x \in Pages(o[1])) <=>
              (\E o \in out : x \in Pages(o[1])) \/ (\E b \in new : x \in Pages(b))
      <4>1. ASSUME NEW b \in new, x \in Pages(b) PROVE \E o \in out' : x \in Pages(o[1])
        <5>1. <<b, use>> \in out' /\ <<b, use>>[1] = b
          OBVIOUS
        <5> QED BY <4>1, <5>1
      <4>2. \A o \in out : o \in out'
        OBVIOUS
      <4> QED BY <1>3, <4>1, <4>2
    <3> QED BY <1>2, <3>1, PagesOfParts
  <2> QED BY <2>1, InUseIs
<1>6. map' = Bits(InUse')
  BY <1>1, <1>5
<1>7. Apart'
  <2>1. out' \subseteq Bit \X Use
    BY <1>2 DEF IInv, Apart
  <2>2. ASSUME NEW o \in out', NEW q \in out', o # q PROVE Pages(o[1]) \cap Pages(q[1]) = {}
    <3>1. CASE o \in out /\ q \in out
      BY <2>2, <3>1 DEF IInv, Apart
    <3>2. CASE o \in out /\ q[1] \in new
      BY <1>2, <1>4, <3>2
    <3>3. CASE o[1] \in new /\ q \in out
      BY <1>2, <1>4, <3>3
    <3>4. CASE o[1] \in new /\ q[1] \in new /\ o[1] # q[1]
      BY <1>2, <3>4
    <3> QED BY <1>3, <2>2, <3>1, <3>2, <3>3, <3>4
  <2>3. ASSUME NEW o \in out', NEW r \in Reserved PROVE Pages(o[1]) \cap Pages(r) = {}
    <3>1. CASE o \in out
      BY <3>1 DEF IInv, Apart
    <3>2. CASE o[1] \in new
      BY <1>2, <1>4, <3>2
    <3> QED BY <1>3, <3>1, <3>2
  <2> QED BY <2>1, <2>2, <2>3 DEF Apart
<1>8. /\ DOMAIN ram_map = 0 .. NPages - 1
      /\ \A p \in 0 .. NPages - 1 :
             ram_map'[p] = IF \E b \in new : p \in Pages(b)
                           THEN NewEntry(ram_map[p], unit, use) ELSE ram_map[p]
  BY DEF IInv
<1>9. NewEntry(ram_map, unit, use) \in Entry /\ \A e, f : NewEntry(e, unit, use) = NewEntry(f, unit, use)
  <2> DEFINE u0 == IF use = "NORMAL" THEN "1" ELSE "0"
  <2>1. u0 \in {"0", "1", "va"}
    OBVIOUS
  <2> HIDE DEF u0
  <2>2. \A e : NewEntry(e, unit, use) = [unit |-> unit, use |-> use, u0 |-> u0]
    BY DEF NewEntry, u0
  <2> QED BY <2>1, <2>2 DEF Entry
<1>10. (ram_map \in [0 .. NPages - 1 -> Entry])'
  <2>1. \A p \in 0 .. NPages - 1 : ram_map'[p] \in Entry
    <3> SUFFICES ASSUME NEW p \in 0 .. NPages - 1 PROVE ram_map'[p] \in Entry
      OBVIOUS
    <3>1. ram_map[p] \in Entry
      BY DEF IInv
    <3>2. NewEntry(ram_map[p], unit, use) \in Entry
      BY <1>9
    <3> QED BY <1>8, <3>1, <3>2
  <2>2. ram_map' = [p \in 0 .. NPages - 1 |-> ram_map'[p]]
    BY <1>8
  <2> QED BY <2>1, <2>2
<1>11. EntriesMatch'
  <2> SUFFICES ASSUME NEW o \in out', NEW p \in Pages(o[1])
               PROVE  /\ ram_map'[p].unit = o[1][1] /\ ram_map'[p].use = o[2]
                      /\ o[2] = "NORMAL" => ram_map'[p].u0 = "1"
    BY DEF EntriesMatch
  <2>1. o[1] \in Bit /\ p \in 0 .. NPages - 1
    <3>1. o[1] \in Bit
      BY <1>7 DEF Apart
    <3> QED BY <3>1, BitIs
  <2>2. CASE o \in out
    <3>1. ~ \E b \in new : p \in Pages(b)
      BY <1>2, <1>4, <2>2
    <3>2. ram_map'[p] = ram_map[p]
      BY <1>8, <2>1, <3>1
    <3> QED BY <2>2, <3>2 DEF IInv, EntriesMatch
  <2>3. CASE o[1] \in new /\ o[2] = use
    <3>1. ram_map'[p] = NewEntry(ram_map[p], unit, use)
      BY <1>8, <2>1, <2>3
    <3> QED BY <1>2, <2>3, <3>1 DEF NewEntry
  <2> QED BY <1>3, <2>2, <2>3
<1> QED BY <1>6, <1>7, <1>10, <1>11 DEF IInv

LEMMA AllocStep ==
    ASSUME IInv, NEW unit \in Unit, NEW use \in Use, NEW n \in 1 .. MaxN,
           pm_ram_alloc(unit, use, n)
    PROVE  IInv'
<1> DEFINE g == AllocUpTo(map, unit, n)
           new == BlocksOf(unit, g.pa)
<1>1. Gets(InUse, unit, g)
  <2>1. n \in Nat /\ unit \in Level /\ map = Bits(InUse)
    BY DEF IInv, Unit
  <2> QED BY <2>1, AllocUpToGets
<1>2. CASE Len(g.pa) = n
  <2>1. /\ map' = g.map
        /\ ram_map' = [p \in DOMAIN ram_map |->
                          IF \E b \in new : p \in Pages(b)
                          THEN NewEntry(ram_map[p], unit, use) ELSE ram_map[p]]
        /\ out' = out \union (new \X {use})
    BY <1>2 DEF pm_ram_alloc, BlocksOf
  <2> HIDE DEF g
  <2> QED BY <1>1, <2>1, TakeStep
<1>3. CASE Len(g.pa) # n
  <2>1. map' = Rollback(g.map, unit, g.pa) /\ UNCHANGED <<ram_map, out>>
    BY <1>3 DEF pm_ram_alloc
  <2> HIDE DEF g
  <2>2. map' = map
    BY <1>1, <2>1, RollbackBits DEF IInv, Unit
  <2> QED BY <2>1, <2>2 DEF IInv, Apart, EntriesMatch, InUse
<1> QED BY <1>2, <1>3

\* The blocks that a caller gives back, and all that stays in use.
LEMMA GivenBack ==
    ASSUME IInv, NEW unit \in Unit, NEW use \in Use, NEW n \in Nat,
           NEW pa \in TupleOf(Held(unit, use), n), IsInjective(pa),
           NEW left, left = out \ (({unit} \X ToSet(pa)) \X {use})
    PROVE  /\ Spread(unit, PagesOf(left), pa)
           /\ InUse = PagesOf(left) \union Covered(unit, pa)
<1>1. /\ pa \in [1 .. n -> Held(unit, use)] /\ Held(unit, use) \subseteq Nat
      /\ \A pos \in Held(unit, use) : <<<<unit, pos>>, use>> \in out
  BY DEF TupleOf, Held
<1>2. pa \in Seq(Nat) /\ Len(pa) = n
  BY <1>1
<1>3. ToSet(pa) = {pa[i] : i \in 1 .. n}
  BY <1>2, CoveredIs
<1> DEFINE old == {unit} \X ToSet(pa)
           B1(i) == <<unit, pa[i]>>
           O1(i) == <<<<unit, pa[i]>>, use>>
<1>4. \A i \in 1 .. n : O1(i) \in out /\ O1(i)[1] = B1(i) /\ B1(i) \in Bit /\ O1(i) \notin left
  <2> SUFFICES ASSUME NEW i \in 1 .. n
               PROVE  O1(i) \in out /\ O1(i)[1] = B1(i) /\ B1(i) \in Bit /\ O1(i) \notin left
    OBVIOUS
  <2>1. O1(i) \in out
    BY <1>1
  <2>2. O1(i)[1] = B1(i)
    OBVIOUS
  <2>3. O1(i) \in old \X {use}
    BY <1>3
  <2>4. B1(i) \in Bit
    BY <2>1 DEF IInv, Apart
  <2> QED BY <2>1, <2>2, <2>3, <2>4
<1>5. \A i, j \in 1 .. n : i # j => O1(i) # O1(j)
  BY <1>1 DEF IsInjective
<1>6. left \subseteq out /\ \A o \in out \ left : \E i \in 1 .. n : o = O1(i)
  BY <1>3
<1> HIDE DEF O1, B1
<1>7. ASSUME NEW i \in 1 .. n PROVE Pages(B1(i)) \cap PagesOf(left) = {}
  <2> SUFFICES ASSUME NEW x, x \in Pages(B1(i)), x \in PagesOf(left) PROVE FALSE
    OBVIOUS
  <2>1. CASE \E o \in left : x \in Pages(o[1])
    <3>1. PICK o \in left : x \in Pages(o[1])
      BY <2>1
    <3>2. o \in out /\ o # O1(i)
      BY <1>4, <1>6
    <3> QED BY <1>4, <3>1, <3>2 DEF IInv, Apart
  <2>2. CASE \E r \in Reserved : x \in Pages(r)
    BY <1>4, <2>2 DEF IInv, Apart
  <2> QED BY <2>1, <2>2, PagesOfParts
<1>8. ASSUME NEW i \in 1 .. n, NEW j \in 1 .. n, i # j
      PROVE  Pages(B1(i)) \cap Pages(B1(j)) = {}
  BY <1>4, <1>5, <1>8 DEF IInv, Apart
<1>9. Spread(unit, PagesOf(left), pa)
  BY <1>2, <1>4, <1>7, <1>8 DEF Spread, B1
<1>10. ASSUME NEW x PROVE x \in Covered(unit, pa) <=> \E i \in 1 .. n : x \in Pages(B1(i))
  <2> DEFINE P(i) == Pages(B1(i))
             I == 1 .. n
  <2>1. Covered(unit, pa) = UNION {P(i) : i \in I}
    BY <1>2 DEF Covered, B1
  <2> HIDE DEF P, I
  <2>2. x \in Covered(unit, pa) <=> \E i \in I : x \in P(i)
    BY <2>1
  <2> QED BY <2>2 DEF P, I
<1>11. ASSUME NEW x PROVE x \in PagesOf(out) <=> x \in PagesOf(left) \/ x \in Covered(unit, pa)
  <2>1. (\E o \in out : x \in Pages(o[1])) <=>
            (\E o \in left : x \in Pages(o[1])) \/ (\E i \in 1 .. n : x \in Pages(B1(i)))
    BY <1>4, <1>6
  <2> QED BY <1>10, <2>1, PagesOfParts
<1> QED BY <1>9, <1>11, InUseIs

LEMMA FreeStep ==
    ASSUME IInv, NEW unit \in Unit, NEW use \in Use, NEW n \in 1 .. MaxN,
           NEW pa \in TupleOf(Held(unit, use), n), IsInjective(pa), pm_ram_free(unit, use, pa)
    PROVE  IInv'
<1> DEFINE old == BlocksOf(unit, pa)
<1>1. /\ map' = FreeAll(map, unit, pa)
      /\ ram_map' = [p \in DOMAIN ram_map |->
                        IF \E b \in old : p \in Pages(b)
                        THEN [ram_map[p] EXCEPT !.u0 = "0"] ELSE ram_map[p]]
      /\ out' = out \ (old \X {use})
  BY DEF pm_ram_free, BlocksOf
<1>2. unit \in Level /\ n \in Nat
  BY DEF Unit
<1>3. /\ Spread(unit, PagesOf(out'), pa)
      /\ InUse = PagesOf(out') \union Covered(unit, pa)
  BY <1>1, <1>2, GivenBack DEF BlocksOf
<1>4. InUse' = PagesOf(out')
  BY InUseIs
<1>5. map' = Bits(InUse')
  <2>1. FreeAll(Bits(PagesOf(out') \union Covered(unit, pa)), unit, pa) = Bits(PagesOf(out'))
    BY <1>2, <1>3, FreeAllBits
  <2> QED BY <1>1, <1>3, <1>4, <2>1 DEF IInv
<1>6. out' \subseteq out
  BY <1>1
<1>7. Apart'
  BY <1>6 DEF IInv, Apart
<1>8. /\ DOMAIN ram_map = 0 .. NPages - 1
      /\ \A p \in 0 .. NPages - 1 :
             ram_map'[p] = IF \E b \in old : p \in Pages(b)
                           THEN [ram_map[p] EXCEPT !.u0 = "0"] ELSE ram_map[p]
  BY <1>1 DEF IInv
<1>9. (ram_map \in [0 .. NPages - 1 -> Entry])'
  <2>1. \A e \in Entry : [e EXCEPT !.u0 = "0"] \in Entry
    BY DEF Entry
  <2>2. \A p \in 0 .. NPages - 1 : ram_map'[p] \in Entry
    BY <1>8, <2>1 DEF IInv
  <2>3. ram_map' = [p \in 0 .. NPages - 1 |-> ram_map'[p]]
    BY <1>1, <1>8
  <2> QED BY <2>2, <2>3
<1>10. /\ \A b : b \in old <=> \E i \in 1 .. Len(pa) : b = <<unit, pa[i]>>
       /\ \A b \in old : /\ b \in Bit /\ b[1] = unit
                          /\ Pages(b) \cap PagesOf(out') = {} /\ Pages(b) # {}
       /\ \A b, c \in old : b # c => Pages(b) \cap Pages(c) = {}
       /\ \A x : x \in Covered(unit, pa) <=> \E b \in old : x \in Pages(b)
  BY <1>2, <1>3, SpreadBlocks
<1>11. EntriesMatch'
  <2> SUFFICES ASSUME NEW o \in out', NEW p \in Pages(o[1])
               PROVE  /\ ram_map'[p].unit = o[1][1] /\ ram_map'[p].use = o[2]
                      /\ o[2] = "NORMAL" => ram_map'[p].u0 = "1"
    BY DEF EntriesMatch
  <2>1. p \in 0 .. NPages - 1
    <3>1. o[1] \in Bit
      BY <1>7 DEF Apart
    <3> QED BY <3>1, BitIs
  <2>2. p \in PagesOf(out')
    BY PagesOfParts
  <2>3. ~ \E b \in old : p \in Pages(b)
    BY <1>10, <2>2
  <2>4. ram_map'[p] = ram_map[p]
    BY <1>8, <2>1, <2>3
  <2> QED BY <1>6, <2>4 DEF IInv, EntriesMatch
<1> QED BY <1>5, <1>7, <1>9, <1>11 DEF IInv

LEMMA SetVaStep ==
    ASSUME IInv, NEW q \in DOMAIN ram_map, SetVa(q)
    PROVE  IInv'
<1>1. /\ <<<<0, q>>, "SLUB">> \in out
      /\ ram_map' = [ram_map EXCEPT ![q].u0 = "va"]
      /\ map' = map /\ out' = out
  BY DEF SetVa
<1>2. InUse' = InUse /\ Apart'
  BY <1>1 DEF InUse, IInv, Apart
<1>3. /\ \A p \in 0 .. NPages - 1 : ram_map[p] \in Entry
      /\ \A p \in 0 .. NPages - 1 : ram_map'[p] = IF p = q THEN [ram_map[p] EXCEPT !.u0 = "va"] ELSE ram_map[p]
  BY <1>1 DEF IInv
<1>4. \A e \in Entry : /\ [e EXCEPT !.u0 = "va"] \in Entry
                       /\ [e EXCEPT !.u0 = "va"].unit = e.unit
                       /\ [e EXCEPT !.u0 = "va"].use = e.use
  BY DEF Entry
<1>5. (ram_map \in [0 .. NPages - 1 -> Entry])'
  <2>1. ram_map' = [p \in 0 .. NPages - 1 |-> ram_map'[p]]
    BY <1>1 DEF IInv
  <2> QED BY <1>3, <1>4, <2>1
<1>6. EntriesMatch'
  <2> SUFFICES ASSUME NEW o \in out, NEW p \in Pages(o[1])
               PROVE  /\ ram_map'[p].unit = o[1][1] /\ ram_map'[p].use = o[2]
                      /\ o[2] = "NORMAL" => ram_map'[p].u0 = "1"
    BY <1>1 DEF EntriesMatch
  <2>1. p \in 0 .. NPages - 1 /\ o[1] \in Bit
    <3>1. o[1] \in Bit
      BY DEF IInv, Apart
    <3> QED BY <3>1, BitIs
  <2>2. /\ ram_map[p].unit = o[1][1] /\ ram_map[p].use = o[2]
        /\ o[2] = "NORMAL" => ram_map[p].u0 = "1"
    BY DEF IInv, EntriesMatch
  <2>3. /\ ram_map'[p].unit = ram_map[p].unit
        /\ ram_map'[p].use = ram_map[p].use
    BY <1>3, <1>4, <2>1
  <2>4. CASE p # q
    BY <1>3, <2>1, <2>2, <2>4
  <2>5. CASE p = q
    <3>1. q \in Pages(<<0, q>>)
      <4>1. q \in Nat /\ 0 \in Level /\ Span[0] = 1
        BY <2>1, <2>5, LevelFacts, SpanFacts
      <4>2. q * Span[0] \in Pages(<<0, q>>)
        BY <4>1, PagesAre
      <4> QED BY <4>1, <4>2
    <3>2. o = <<<<0, q>>, "SLUB">>
      <4> DEFINE w == <<<<0, q>>, "SLUB">>
      <4>1. w \in out /\ w[1] = <<0, q>>
        BY <1>1
      <4>2. Pages(o[1]) \cap Pages(w[1]) # {}
        BY <2>5, <3>1, <4>1
      <4> HIDE DEF w
      <4>3. o = w
        BY <4>1, <4>2 DEF IInv, Apart
      <4> QED BY <4>3 DEF w
    <3>3. o[2] # "NORMAL"
      BY <3>2
    <3> QED BY <2>2, <2>3, <3>3
  <2> QED BY <2>4, <2>5
<1> QED BY <1>1, <1>2, <1>5, <1>6 DEF IInv

\* IInv is inductive.
THEOREM Invariance == Spec => []IInv
<1>1. Init => IInv
  BY InitInv
<1>2. IInv /\ [Next]_vars => IInv'
  <2> SUFFICES ASSUME IInv, [Next]_vars PROVE IInv'
    OBVIOUS
  <2>1. ASSUME NEW unit \in Unit, NEW use \in Use, NEW n \in 1 .. MaxN, pm_ram_alloc(unit, use, n)
        PROVE  IInv'
    BY <2>1, AllocStep
  <2>2. ASSUME NEW unit \in Unit, NEW use \in Use,
               NEW pa \in UNION {TupleOf(Held(unit, use), n) : n \in 1 .. MaxN},
               IsInjective(pa), pm_ram_free(unit, use, pa)
        PROVE  IInv'
    <3>1. PICK n \in 1 .. MaxN : pa \in TupleOf(Held(unit, use), n)
      OBVIOUS
    <3> QED BY <2>2, <3>1, FreeStep
  <2>3. ASSUME NEW p \in DOMAIN ram_map, SetVa(p) PROVE IInv'
    BY <2>3, SetVaStep
  <2>4. CASE UNCHANGED vars
    BY <2>4 DEF vars, IInv, Apart, EntriesMatch, InUse
  <2> QED BY <2>1, <2>2, <2>3, <2>4 DEF Next
<1> QED BY <1>1, <1>2, PTL DEF Spec

\* The bitmap is exact after every sequence of calls, whatever the size of RAM
\* and the number of levels: bdy_alloc(), bdy_free() and the way out of
\* _pm_ram_alloc().
THEOREM BitmapExact == Spec => []BitsExact
<1>1. IInv => BitsExact
  BY DEF IInv, BitsExact, Bits, Bit
<1> QED BY <1>1, Invariance, PTL

\* The assertions of pm_ram_free() on the entries of ram_map hold.
THEOREM EntriesKept == Spec => []EntriesMatch
<1>1. IInv => EntriesMatch
  BY DEF IInv
<1> QED BY <1>1, Invariance, PTL

-----------------------------------------------------------------------------
(* The promise of module Blocks.                                           *)

LEMMA BlockIsBit ==
    B!Block = Bit /\ B!Unit = Level /\ \A b : B!Pages(b) = Pages(b)
<1>1. DOMAIN Span = Level
  BY SpanFacts
<1>2. B!Unit = Level /\ \A b : B!Pages(b) = Pages(b)
  BY <1>1 DEF B!Unit, B!Pages, Pages
<1>3. ASSUME NEW b \in Level \X (0 .. NPages - 1)
      PROVE  (b[2] + 1) * Span[b[1]] <= NPages <=> b[2] < nbits[b[1]]
  <2> DEFINE x == b[2]
             c == Span[b[1]]
             n == nbits[b[1]]
  <2>1. x \in Nat /\ b[1] \in Level
    OBVIOUS
  <2>2. c \in Nat /\ c > 0 /\ n \in Nat /\ n * c = NPages /\ NPages \in Nat
    BY <2>1, SpanPositive, NbitsFacts, NbitsExact, BdyConstants
  <2> HIDE DEF x, c, n
  <2>3. x + 1 <= n => (x + 1) * c <= n * c
    BY ONLY <2>1, <2>2
  <2>4. n <= x => n * c < (x + 1) * c
    <3> SUFFICES ASSUME n <= x PROVE n * c < (x + 1) * c
      OBVIOUS
    <3>1. n * c <= x * c
      BY ONLY <2>1, <2>2, n <= x
    <3>2. (x + 1) * c = x * c + c /\ x * c \in Nat /\ n * c \in Nat
      BY ONLY <2>1, <2>2
    <3> QED BY <2>2, <3>1, <3>2
  <2>5. (x + 1) * c \in Nat
    BY ONLY <2>1, <2>2
  <2>6. (x + 1) * c <= NPages <=> x < n
    BY <2>1, <2>2, <2>3, <2>4, <2>5
  <2> QED BY <2>6 DEF x, c, n
<1>4. B!Block = Bit
  BY <1>2, <1>3 DEF B!Block, Bit
<1> QED BY <1>2, <1>4

\* A block is free for module Blocks just when its pages are not in use.
LEMMA FreeIs ==
    ASSUME IInv, NEW unit \in Unit, NEW b
    PROVE  b \in B!Free(unit) <=> b \in Bit /\ b[1] = unit /\ Pages(b) \cap InUse = {}
<1>1. B!Free(unit) = {c \in Bit : c[1] = unit /\ \A d \in B!Taken : Pages(c) \cap Pages(d) = {}}
  BY BlockIsBit DEF B!Free
<1>2. B!Taken = {o[1] : o \in out} \union Reserved
  BY DEF B!Taken
<1>3. ASSUME NEW x PROVE x \in InUse <=> \E d \in B!Taken : x \in Pages(d)
  <2>1. x \in InUse <=> (\E o \in out : x \in Pages(o[1])) \/ (\E r \in Reserved : x \in Pages(r))
    BY InUseIs, PagesOfParts
  <2> QED BY <1>2, <2>1
<1> QED BY <1>1, <1>3

\* A call that fails has had all of the free blocks in its hands, and they were fewer.
LEMMA FewFree ==
    ASSUME IInv, NEW unit \in Unit, NEW n \in Nat, NEW g, Gets(InUse, unit, g),
           Len(g.pa) < n, bdy_clear(g.map, unit) = {}
    PROVE  Cardinality(B!Free(unit)) < n
<1> DEFINE pa == g.pa
           k == Len(pa)
           f == [i \in 1 .. k |-> <<unit, pa[i]>>]
           F == B!Free(unit)
           U == InUse \union Covered(unit, pa)
<1>1. unit \in Level /\ Spread(unit, InUse, pa) /\ g.map = Bits(U) /\ k \in Nat
  BY DEF Gets, Unit, Spread
<1>2. ASSUME NEW b \in F PROVE \E i \in 1 .. k : f[i] = b
  <2>1. b \in Bit /\ b[1] = unit /\ Pages(b) \cap InUse = {}
    BY FreeIs
  <2>2. b = <<unit, b[2]>>
    BY <2>1, BitIs
  <2>3. Pages(b) \cap U # {}
    <3> HIDE DEF U
    <3>1. b[2] \notin bdy_clear(Bits(U), unit)
      BY <1>1
    <3> QED BY <1>1, <2>1, <2>2, <3>1, ClearIff
  <2>4. PICK x \in Pages(b) : x \in Covered(unit, pa)
    BY <2>1, <2>3
  <2>5. PICK c \in BlocksOf(unit, pa) : x \in Pages(c)
    BY <1>1, <2>4, SpreadBlocks
  <2>6. c \in Bit /\ c[1] = unit
    BY <1>1, SpreadBlocks
  <2>7. c = b
    BY <2>1, <2>4, <2>5, <2>6, BitIs
  <2>8. PICK i \in 1 .. k : c = <<unit, pa[i]>>
    BY <1>1, SpreadBlocks
  <2> QED BY <2>7, <2>8
<1>3. ASSUME NEW i \in 1 .. k PROVE f[i] \in F
  <2>1. <<unit, pa[i]>> \in Bit /\ Pages(<<unit, pa[i]>>) \cap InUse = {}
    BY <1>1 DEF Spread
  <2>2. f[i] = <<unit, pa[i]>> /\ <<unit, pa[i]>>[1] = unit
    OBVIOUS
  <2> HIDE DEF f
  <2>3. <<unit, pa[i]>> \in F
    BY <2>1, <2>2, FreeIs
  <2> QED BY <2>2, <2>3
<1>4. f \in Surjection(1 .. k, F)
  <2>1. f = [i \in 1 .. k |-> f[i]] /\ DOMAIN f = 1 .. k
    OBVIOUS
  <2> HIDE DEF f, F, k
  <2>2. f \in [1 .. k -> F]
    BY <1>3, <2>1
  <2> QED BY <1>2, <2>2 DEF Surjection
<1>5. IsFiniteSet(1 .. k) /\ Cardinality(1 .. k) = k
  <2> HIDE DEF k
  <2>1. 1 \in Int /\ k \in Int
    BY <1>1
  <2>2. IsFiniteSet(1 .. k) /\ Cardinality(1 .. k) = IF 1 > k THEN 0 ELSE k - 1 + 1
    BY <2>1, FS_Interval, Zenon
  <2> QED BY <1>1, <2>2
<1> HIDE DEF f, F, k
<1>6. IsFiniteSet(F) /\ Cardinality(F) <= Cardinality(1 .. k)
  BY <1>4, <1>5, FS_Surjection
<1>7. Cardinality(F) \in Nat
  BY <1>6, FS_CardinalityType
<1> QED BY <1>1, <1>5, <1>6, <1>7 DEF k, F

\* The blocks that a call has got are as many as the turns of its loop.
LEMMA BlocksCounted ==
    ASSUME NEW l \in Level, NEW V, NEW pa, Spread(l, V, pa), Len(pa) \in Nat
    PROVE  Cardinality(BlocksOf(l, pa)) = Len(pa)
<1> DEFINE k == Len(pa)
           f == [i \in 1 .. k |-> <<l, pa[i]>>]
           F == BlocksOf(l, pa)
<1>1. /\ \A b : b \in F <=> \E i \in 1 .. k : b = <<l, pa[i]>>
      /\ \A b \in F : Pages(b) # {}
  BY SpreadBlocks
<1>2. f = [i \in 1 .. k |-> f[i]] /\ DOMAIN f = 1 .. k /\ \A i \in 1 .. k : f[i] = <<l, pa[i]>>
  OBVIOUS
<1> HIDE DEF f, F
<1>3. f \in [1 .. k -> F] /\ \A b \in F : \E i \in 1 .. k : f[i] = b
  BY <1>1, <1>2
<1>4. ASSUME NEW i \in 1 .. k, NEW j \in 1 .. k, f[i] = f[j] PROVE i = j
  <2>1. <<l, pa[i]>> = <<l, pa[j]>> /\ Pages(<<l, pa[i]>>) # {}
    BY <1>1, <1>2, <1>4
  <2>2. i # j => Pages(<<l, pa[i]>>) \cap Pages(<<l, pa[j]>>) = {}
    BY DEF Spread
  <2> QED BY <2>1, <2>2
<1>5. f \in Surjection(1 .. k, F) /\ f \in Injection(1 .. k, F)
  <2> HIDE DEF k
  <2>1. DOMAIN f = 1 .. k
    BY <1>2 DEF k
  <2>2. IsInjective(f)
    BY <1>4, <2>1 DEF IsInjective
  <2> QED BY <1>3, <2>2 DEF Surjection, Injection
<1>6. IsFiniteSet(1 .. k) /\ Cardinality(1 .. k) = k
  <2> HIDE DEF k
  <2>1. 1 \in Int /\ k \in Int
    BY DEF k
  <2>2. IsFiniteSet(1 .. k) /\ Cardinality(1 .. k) = IF 1 > k THEN 0 ELSE k - 1 + 1
    BY <2>1, FS_Interval, Zenon
  <2> QED BY <2>2 DEF k
<1> HIDE DEF k
<1>7. Cardinality(F) = Cardinality(1 .. k)
  BY <1>5, <1>6, FS_Surjection
<1> QED BY <1>6, <1>7 DEF k, F

LEMMA AllocKeepsPromise ==
    ASSUME IInv, NEW unit \in Unit, NEW use \in Use, NEW n \in 1 .. MaxN,
           pm_ram_alloc(unit, use, n)
    PROVE  B!Next
<1> DEFINE g == AllocUpTo(map, unit, n)
           new == BlocksOf(unit, g.pa)
<1>1. n \in Nat /\ n \in 1 .. NPages /\ unit \in Level /\ unit \in B!Unit
  BY RamConstants, BdyConstants, BlockIsBit DEF Unit
<1>2. /\ Gets(InUse, unit, g)
      /\ Len(g.pa) <= n
      /\ Len(g.pa) # n => bdy_clear(g.map, unit) = {}
  BY <1>1, AllocUpToGets DEF IInv
<1>3. Spread(unit, InUse, g.pa) /\ Len(g.pa) \in Nat
  BY <1>2 DEF Gets, Spread
<1>4. CASE Len(g.pa) = n
  <2>1. out' = out \union (new \X {use}) /\ asked' = <<unit, n>>
    BY <1>4 DEF pm_ram_alloc, BlocksOf
  <2> HIDE DEF g
  <2>2. /\ \A b : b \in new <=> \E i \in 1 .. Len(g.pa) : b = <<unit, g.pa[i]>>
        /\ \A b \in new : b \in Bit /\ b[1] = unit /\ Pages(b) \cap InUse = {} /\ Pages(b) # {}
    BY <1>1, <1>3, SpreadBlocks
  <2> HIDE DEF new
  <2>3. \A b \in new : b \in B!Free(unit)
    BY <2>2, FreeIs
  <2>4. \A o \in out : Pages(o[1]) \subseteq InUse
    BY InUseIs, PagesOfParts
  <2>5. \A b \in new : <<b, use>> \notin out
    BY <2>2, <2>4
  <2>6. {o[1] : o \in out' \ out} = new
    <3>1. out' \ out = new \X {use}
      BY <2>1, <2>5
    <3>2. \A b \in new : <<b, use>> \in new \X {use} /\ <<b, use>>[1] = b
      OBVIOUS
    <3> QED BY <3>1, <3>2, ZenonT(60)
  <2>7. Cardinality(new) = n
    BY <1>1, <1>3, <1>4, BlocksCounted DEF new
  <2>8. B!Alloc(unit, use, n)
    <3>1. B!Cardinality(new) = Cardinality(new)
      BY DEF B!Cardinality, Cardinality
    <3> QED BY <2>1, <2>3, <2>6, <2>7, <3>1 DEF B!Alloc
  <2> QED BY <1>1, <2>8 DEF B!Next
<1>5. CASE Len(g.pa) # n
  <2>1. asked' = <<unit, n>> /\ UNCHANGED out
    BY <1>5 DEF pm_ram_alloc
  <2>2. Len(g.pa) < n /\ bdy_clear(g.map, unit) = {}
    BY <1>1, <1>2, <1>3, <1>5
  <2> HIDE DEF g
  <2>3. Cardinality(B!Free(unit)) < n
    BY <1>1, <1>2, <2>2, FewFree
  <2>4. B!Fail(unit, n)
    <3> DEFINE F == B!Free(unit)
    <3>1. B!Cardinality(F) = Cardinality(F)
      <4> HIDE DEF F
      <4> QED BY DEF B!Cardinality, Cardinality
    <3> QED BY <2>1, <2>3, <3>1 DEF B!Fail
  <2> QED BY <1>1, <2>4 DEF B!Next
<1> QED BY <1>4, <1>5

\* pm_ram_alloc() and pm_ram_free() keep the promise of module Blocks, for
\* RAM of any size: blocks that are free, aligned and apart, all that were asked
\* for or none, and a failure only when there are not as many.
THEOREM KeepsPromise == Spec => ImplementsBlocks
<1>1. Init => B!Init
  BY DEF Init, B!Init
<1>2. IInv /\ [Next]_vars => [B!Next]_<<out, asked>>
  <2> SUFFICES ASSUME IInv, [Next]_vars PROVE [B!Next]_<<out, asked>>
    OBVIOUS
  <2>1. ASSUME NEW unit \in Unit, NEW use \in Use, NEW n \in 1 .. MaxN, pm_ram_alloc(unit, use, n)
        PROVE  B!Next
    BY <2>1, AllocKeepsPromise
  <2>2. ASSUME NEW unit \in Unit, NEW use \in Use, NEW pa, pm_ram_free(unit, use, pa)
        PROVE  B!Next
    <3>1. asked' = <<>> /\ out' \subseteq out
      BY <2>2 DEF pm_ram_free
    <3> QED BY <3>1 DEF B!Next, B!Return
  <2>3. ASSUME NEW p \in DOMAIN ram_map, SetVa(p) PROVE UNCHANGED <<out, asked>>
    BY <2>3 DEF SetVa
  <2>4. CASE UNCHANGED vars
    BY <2>4 DEF vars
  <2> QED BY <2>1, <2>2, <2>3, <2>4 DEF Next
<1> QED BY <1>1, <1>2, Invariance, PTL DEF Spec, ImplementsBlocks, B!Spec
=============================================================================
