---------------------------- MODULE SchedProofs ----------------------------
(***************************************************************************)
(* Proofs about module Sched, for every set of threads and wait queues and *)
(* every value of the other constants.  The inductive invariant has three  *)
(* parts: QueueInv on where the threads are, ControlInv on where each of   *)
(* them is in irq_sched(), IdleInv on the request that idle owes.          *)
(***************************************************************************)
EXTENDS Sched, SequenceTheorems, TLAPS

-----------------------------------------------------------------------------
(* Sequences without repetitions.                                          *)

\* Appending adds one element, and no repetition if it is new.
LEMMA AppendElems ==
    ASSUME NEW S, NEW s \in Seq(S), NEW e \in S
    PROVE  /\ Append(s, e) \in Seq(S) /\ Append(s, e) # <<>>
           /\ \A t : IsElem(t, Append(s, e)) <=> IsElem(t, s) \/ t = e
           /\ Distinct(s) /\ ~IsElem(e, s) => Distinct(Append(s, e))
<1>1. /\ Append(s, e) \in Seq(S) /\ Append(s, e) # <<>>
      /\ Len(Append(s, e)) = Len(s) + 1 /\ Len(s) \in Nat
      /\ \A i \in 1 .. Len(s) : Append(s, e)[i] = s[i]
      /\ Append(s, e)[Len(s) + 1] = e
  BY AppendProperties, LenProperties
<1>2. \A t : IsElem(t, Append(s, e)) <=> IsElem(t, s) \/ t = e
  <2>1. ASSUME NEW t, IsElem(t, Append(s, e)) PROVE IsElem(t, s) \/ t = e
    <3>1. PICK i \in 1 .. Len(s) + 1 : Append(s, e)[i] = t
      BY <1>1, <2>1 DEF IsElem
    <3>2. i = Len(s) + 1 \/ i \in 1 .. Len(s)
      BY <1>1
    <3> QED BY <1>1, <3>1, <3>2 DEF IsElem
  <2>2. ASSUME NEW t, IsElem(t, s) PROVE IsElem(t, Append(s, e))
    <3>1. PICK i \in 1 .. Len(s) : s[i] = t
      BY <2>2 DEF IsElem
    <3>2. i \in 1 .. Len(Append(s, e)) /\ Append(s, e)[i] = t
      BY <1>1, <3>1
    <3> QED BY <3>2 DEF IsElem
  <2>3. IsElem(e, Append(s, e))
    <3>1. Len(s) + 1 \in 1 .. Len(Append(s, e))
      BY <1>1
    <3> QED BY <1>1, <3>1 DEF IsElem
  <2> QED BY <2>1, <2>2, <2>3
<1>3. ASSUME Distinct(s), ~IsElem(e, s) PROVE Distinct(Append(s, e))
  <2> SUFFICES ASSUME NEW i \in 1 .. Len(s) + 1, NEW j \in 1 .. Len(s) + 1,
                      Append(s, e)[i] = Append(s, e)[j]
               PROVE  i = j
    BY <1>1 DEF Distinct
  <2>1. CASE i \in 1 .. Len(s) /\ j \in 1 .. Len(s)
    BY <1>1, <1>3, <2>1 DEF Distinct
  <2>2. CASE i = Len(s) + 1 /\ j \in 1 .. Len(s)
    BY <1>1, <1>3, <2>2 DEF IsElem
  <2>3. CASE i \in 1 .. Len(s) /\ j = Len(s) + 1
    BY <1>1, <1>3, <2>3 DEF IsElem
  <2> QED BY <1>1, <2>1, <2>2, <2>3
<1> QED BY <1>1, <1>2, <1>3

\* Taking the head off removes one element.
LEMMA TailElems ==
    ASSUME NEW S, NEW s \in Seq(S), s # <<>>
    PROVE  /\ Head(s) \in S /\ Tail(s) \in Seq(S) /\ Len(Tail(s)) = Len(s) - 1
           /\ \A t : IsElem(t, s) <=> t = Head(s) \/ IsElem(t, Tail(s))
           /\ Distinct(s) => Distinct(Tail(s)) /\ ~IsElem(Head(s), Tail(s))
<1>1. /\ Head(s) \in S /\ Tail(s) \in Seq(S) /\ Len(Tail(s)) = Len(s) - 1
      /\ \A i \in 1 .. Len(Tail(s)) : Tail(s)[i] = s[i + 1]
      /\ Len(s) \in Nat /\ Len(s) > 0 /\ Head(s) = s[1]
  BY HeadTailProperties, EmptySeq, LenProperties
<1>2. \A t : IsElem(t, s) <=> t = Head(s) \/ IsElem(t, Tail(s))
  <2>1. ASSUME NEW t, IsElem(t, s), t # Head(s) PROVE IsElem(t, Tail(s))
    <3>1. PICK i \in 1 .. Len(s) : s[i] = t
      BY <2>1 DEF IsElem
    <3>2. i - 1 \in 1 .. Len(Tail(s)) /\ i = (i - 1) + 1
      BY <1>1, <2>1, <3>1
    <3>3. Tail(s)[i - 1] = t
      BY <1>1, <3>1, <3>2
    <3> QED BY <3>2, <3>3 DEF IsElem
  <2>2. ASSUME NEW t, IsElem(t, Tail(s)) PROVE IsElem(t, s)
    <3>1. PICK i \in 1 .. Len(Tail(s)) : Tail(s)[i] = t
      BY <2>2 DEF IsElem
    <3>2. i + 1 \in 1 .. Len(s) /\ s[i + 1] = t
      BY <1>1, <3>1
    <3> QED BY <3>2 DEF IsElem
  <2>3. IsElem(Head(s), s)
    BY <1>1 DEF IsElem
  <2> QED BY <2>1, <2>2, <2>3
<1>3. ASSUME Distinct(s) PROVE Distinct(Tail(s)) /\ ~IsElem(Head(s), Tail(s))
  <2>1. Distinct(Tail(s))
    <3> SUFFICES ASSUME NEW i \in 1 .. Len(Tail(s)), NEW j \in 1 .. Len(Tail(s)),
                        Tail(s)[i] = Tail(s)[j]
                 PROVE  i = j
      BY DEF Distinct
    <3>1. i + 1 \in 1 .. Len(s) /\ j + 1 \in 1 .. Len(s) /\ s[i + 1] = s[j + 1]
      BY <1>1
    <3> QED BY <1>3, <3>1 DEF Distinct
  <2>2. ~IsElem(Head(s), Tail(s))
    <3> SUFFICES ASSUME NEW i \in 1 .. Len(Tail(s)), Tail(s)[i] = Head(s)
                 PROVE  FALSE
      BY DEF IsElem
    <3>1. i + 1 \in 1 .. Len(s) /\ 1 \in 1 .. Len(s) /\ s[i + 1] = s[1]
      BY <1>1
    <3> QED BY <1>3, <3>1 DEF Distinct
  <2> QED BY <2>1, <2>2
<1> QED BY <1>1, <1>2, <1>3

\* Joining two sequences joins their elements.
LEMMA ConcatElems ==
    ASSUME NEW S, NEW s \in Seq(S), NEW r \in Seq(S)
    PROVE  /\ s \o r \in Seq(S)
           /\ \A t : IsElem(t, s \o r) <=> IsElem(t, s) \/ IsElem(t, r)
           /\ Distinct(s) /\ Distinct(r) /\ (\A t : ~(IsElem(t, s) /\ IsElem(t, r)))
                 => Distinct(s \o r)
<1>1. /\ s \o r \in Seq(S) /\ Len(s \o r) = Len(s) + Len(r)
      /\ Len(s) \in Nat /\ Len(r) \in Nat
      /\ \A i \in 1 .. Len(s) + Len(r) :
            (s \o r)[i] = IF i <= Len(s) THEN s[i] ELSE r[i - Len(s)]
  BY ConcatProperties, LenProperties
<1>a. ASSUME NEW i \in 1 .. Len(s) + Len(r)
      PROVE  \/ i \in 1 .. Len(s) /\ (s \o r)[i] = s[i]
             \/ /\ i - Len(s) \in 1 .. Len(r) /\ i > Len(s)
                /\ (s \o r)[i] = r[i - Len(s)]
  BY <1>1
<1>2. \A t : IsElem(t, s \o r) <=> IsElem(t, s) \/ IsElem(t, r)
  <2>1. ASSUME NEW t, IsElem(t, s \o r) PROVE IsElem(t, s) \/ IsElem(t, r)
    <3>1. PICK i \in 1 .. Len(s) + Len(r) : (s \o r)[i] = t
      BY <1>1, <2>1 DEF IsElem
    <3> QED BY <1>a, <3>1 DEF IsElem
  <2>2. ASSUME NEW t, IsElem(t, s) PROVE IsElem(t, s \o r)
    <3>1. PICK i \in 1 .. Len(s) : s[i] = t
      BY <2>2 DEF IsElem
    <3>2. i \in 1 .. Len(s \o r) /\ (s \o r)[i] = t
      BY <1>1, <3>1
    <3> QED BY <3>2 DEF IsElem
  <2>3. ASSUME NEW t, IsElem(t, r) PROVE IsElem(t, s \o r)
    <3>1. PICK i \in 1 .. Len(r) : r[i] = t
      BY <2>3 DEF IsElem
    <3>2. i + Len(s) \in 1 .. Len(s \o r) /\ (s \o r)[i + Len(s)] = t
      BY <1>1, <3>1
    <3> QED BY <3>2 DEF IsElem
  <2> QED BY <2>1, <2>2, <2>3
<1>3. ASSUME Distinct(s), Distinct(r), \A t : ~(IsElem(t, s) /\ IsElem(t, r))
      PROVE  Distinct(s \o r)
  <2> SUFFICES ASSUME NEW i \in 1 .. Len(s) + Len(r), NEW j \in 1 .. Len(s) + Len(r),
                      (s \o r)[i] = (s \o r)[j]
               PROVE  i = j
    BY <1>1 DEF Distinct
  <2>1. ASSUME NEW k \in 1 .. Len(s), NEW l \in 1 .. Len(r) PROVE s[k] # r[l]
    BY <1>3 DEF IsElem
  <2>2. CASE i \in 1 .. Len(s) /\ j \in 1 .. Len(s)
    BY <1>1, <1>3, <2>2 DEF Distinct
  <2>3. CASE i \notin 1 .. Len(s) /\ j \notin 1 .. Len(s)
    <3>1. i - Len(s) = j - Len(s)
      BY <1>a, <1>3, <2>3 DEF Distinct
    <3> QED BY <1>1, <3>1
  <2> QED BY <1>a, <2>1, <2>2, <2>3
<1> QED BY <1>1, <1>2, <1>3

\* Taking out position k of a sequence without repetitions removes its element.
LEMMA RemoveAtElems ==
    ASSUME NEW S, NEW s \in Seq(S), Distinct(s), NEW k \in 1 .. Len(s)
    PROVE  /\ RemoveAt(s, k) \in Seq(S) /\ Distinct(RemoveAt(s, k))
           /\ \A t : IsElem(t, RemoveAt(s, k)) <=> IsElem(t, s) /\ t # s[k]
<1> DEFINE a == SubSeq(s, 1, k - 1)
           b == SubSeq(s, k + 1, Len(s))
<1>1. Len(s) \in Nat /\ \A i \in 1 .. Len(s) : s[i] \in S
  BY LenProperties, ElementOfSeq
<1>2. /\ a \in Seq(S) /\ Len(a) = k - 1
      /\ \A i \in 1 .. k - 1 : a[i] = s[i]
  <2>1. /\ a \in Seq(S)
        /\ Len(a) = IF 1 <= k - 1 THEN (k - 1) - 1 + 1 ELSE 0
        /\ \A i \in 1 .. (k - 1) - 1 + 1 : a[i] = s[1 + i - 1]
    <3>1. \A i \in 1 .. k - 1 : s[i] \in S
      BY <1>1
    <3> QED BY <1>1, <3>1, SubSeqProperties
  <2> QED BY <1>1, <2>1
<1>3. /\ b \in Seq(S) /\ Len(b) = Len(s) - k
      /\ \A i \in 1 .. Len(s) - k : b[i] = s[i + k]
  <2>1. /\ b \in Seq(S)
        /\ Len(b) = IF k + 1 <= Len(s) THEN Len(s) - (k + 1) + 1 ELSE 0
        /\ \A i \in 1 .. Len(s) - (k + 1) + 1 : b[i] = s[(k + 1) + i - 1]
    <3>1. \A i \in k + 1 .. Len(s) : s[i] \in S
      BY <1>1
    <3> QED BY <1>1, <3>1, SubSeqProperties
  <2> QED BY <1>1, <2>1
<1>4. \A t : IsElem(t, a) <=> \E i \in 1 .. k - 1 : s[i] = t
  BY <1>2 DEF IsElem
<1>5. \A t : IsElem(t, b) <=> \E i \in k + 1 .. Len(s) : s[i] = t
  <2>1. ASSUME NEW t, IsElem(t, b) PROVE \E i \in k + 1 .. Len(s) : s[i] = t
    <3>1. PICK i \in 1 .. Len(s) - k : b[i] = t
      BY <1>3, <2>1 DEF IsElem
    <3>2. i + k \in k + 1 .. Len(s) /\ s[i + k] = t
      BY <1>1, <1>3, <3>1
    <3> QED BY <3>2
  <2>2. ASSUME NEW t, NEW i \in k + 1 .. Len(s), s[i] = t PROVE IsElem(t, b)
    <3>1. i - k \in 1 .. Len(s) - k /\ (i - k) + k = i
      BY <1>1
    <3>2. b[i - k] = t
      BY <1>3, <2>2, <3>1
    <3> QED BY <1>3, <3>1, <3>2 DEF IsElem
  <2> QED BY <2>1, <2>2
<1>6. Distinct(a)
  BY <1>1, <1>2 DEF Distinct
<1>7. Distinct(b)
  <2> SUFFICES ASSUME NEW i \in 1 .. Len(s) - k, NEW j \in 1 .. Len(s) - k, b[i] = b[j]
               PROVE  i = j
    BY <1>3 DEF Distinct
  <2>1. i + k \in 1 .. Len(s) /\ j + k \in 1 .. Len(s) /\ s[i + k] = s[j + k]
    BY <1>1, <1>3
  <2> QED BY <2>1 DEF Distinct
<1>8. \A t : ~(IsElem(t, a) /\ IsElem(t, b))
  BY <1>1, <1>4, <1>5 DEF Distinct
<1>9. /\ a \o b \in Seq(S) /\ Distinct(a \o b)
      /\ \A t : IsElem(t, a \o b) <=> IsElem(t, a) \/ IsElem(t, b)
  <2> HIDE DEF a, b
  <2> QED BY <1>2, <1>3, <1>6, <1>7, <1>8, ConcatElems
<1>10. \A t : IsElem(t, a) \/ IsElem(t, b) <=> IsElem(t, s) /\ t # s[k]
  <2> HIDE DEF a, b
  <2>1. ASSUME NEW t, NEW i \in 1 .. Len(s), s[i] = t, i # k
        PROVE  IsElem(t, s) /\ t # s[k]
    BY <2>1 DEF IsElem, Distinct
  <2>2. ASSUME NEW t, IsElem(t, s), t # s[k]
        PROVE  \E i \in 1 .. Len(s) : s[i] = t /\ i # k
    BY <2>2 DEF IsElem
  <2>3. \A i \in 1 .. Len(s) : i # k <=> i \in 1 .. k - 1 \/ i \in k + 1 .. Len(s)
    BY <1>1
  <2>4. \A i : i \in 1 .. k - 1 \/ i \in k + 1 .. Len(s) => i \in 1 .. Len(s)
    BY <1>1
  <2> QED BY <1>4, <1>5, <2>1, <2>2, <2>3, <2>4
<1> QED BY <1>9, <1>10 DEF RemoveAt

-----------------------------------------------------------------------------
(* The inductive invariant.                                                *)

QueueType ==
    /\ current \in Thread
    /\ state \in [Thread -> {"none", "RUNNING", "READY"} \union Waiting]
    /\ ready \in Seq(Thread)
    /\ waitq \in [WaitQueue -> Seq(Thread)]

\* The current thread is never READY, although it may be waiting; idle never
\* waits.
QueueInv == /\ QueueType
            /\ QueueDiscipline
            /\ state[current] \in {"RUNNING"} \union Waiting
            /\ state[Idle] \in {"RUNNING", "READY"}

TickType == ticks \in [Thread -> 0 .. CHAR_MOD - 1] /\ hard_ticks \in 0 .. MaxLag

ControlType ==
    /\ ctx \in [Thread -> {"proc", "enable", "irq"}]
    /\ phase \in [Thread -> {"code", "fetch", "clear", "run", "leave"}]
    /\ mask \in [Thread -> SUBSET SchedIrq]
    /\ irq_sched_mask \in SUBSET SchedIrq

\* A local mask is empty outside the three steps that work on it.
ControlInv ==
    /\ ControlType
    /\ SuspendedClean
    /\ \A t \in Thread : ctx[t] = "proc" => phase[t] = "code"
    /\ \A t \in Thread : phase[t] \in {"code", "fetch", "leave"} => mask[t] = {}

\* Between the fetch and the clear what counts is what was fetched.
IdleInv ==
    current = Idle /\ ready # <<>> =>
        \/ IRQ_SCHED_SCHEDULE \in mask[Idle]
        \/ IRQ_SCHED_SCHEDULE \in irq_sched_mask /\ phase[Idle] # "clear"

Inv == QueueInv /\ TickType /\ ControlInv /\ IdleInv

-----------------------------------------------------------------------------
(* Where the threads are.                                                  *)

\* A sequence with a length is not empty.
LEMMA NotEmpty ==
    ASSUME NEW S, NEW s \in Seq(S), Len(s) > 0
    PROVE  s # <<>>
OBVIOUS

\* Choosing the next thread takes it off the ready queue and keeps the rest.
LEMMA ChosenElems ==
    ASSUME ready \in Seq(Thread), ready # <<>>, Distinct(ready), Idle \in Thread
    PROVE  /\ Chosen \in Thread /\ IsElem(Chosen, ready)
           /\ Others \in Seq(Thread) /\ Distinct(Others)
           /\ \A t : IsElem(t, Others) <=> IsElem(t, ready) /\ t # Chosen
<1>1. /\ Head(ready) \in Thread /\ Tail(ready) \in Seq(Thread)
      /\ Len(Tail(ready)) = Len(ready) - 1
      /\ \A t : IsElem(t, ready) <=> t = Head(ready) \/ IsElem(t, Tail(ready))
      /\ Distinct(Tail(ready)) /\ ~IsElem(Head(ready), Tail(ready))
  BY TailElems
<1>2. CASE ~SkipIdle
  BY <1>1, <1>2 DEF Chosen, Others
<1>3. CASE SkipIdle
  <2>1. Tail(ready) # <<>> /\ Head(ready) = Idle
    <3>1. Len(Tail(ready)) > 0 /\ Head(ready) = Idle
      BY <1>1, <1>3, LenProperties DEF SkipIdle
    <3>2. Tail(ready) # <<>>
      BY <1>1, <3>1, NotEmpty
    <3> QED BY <3>1, <3>2
  <2> DEFINE r == Tail(ready)
  <2>2. /\ Head(r) \in Thread /\ Tail(r) \in Seq(Thread)
        /\ \A t : IsElem(t, r) <=> t = Head(r) \/ IsElem(t, Tail(r))
        /\ Distinct(Tail(r)) /\ ~IsElem(Head(r), Tail(r))
    BY <1>1, <2>1, TailElems
  <2>3. /\ Append(Tail(r), Idle) \in Seq(Thread)
        /\ \A t : IsElem(t, Append(Tail(r), Idle)) <=> IsElem(t, Tail(r)) \/ t = Idle
        /\ Distinct(Tail(r)) /\ ~IsElem(Idle, Tail(r))
              => Distinct(Append(Tail(r), Idle))
    BY <2>2, AppendElems
  <2>4. Chosen = Head(r) /\ Others = Append(Tail(r), Idle)
    BY <1>3 DEF Chosen, Others
  <2> HIDE DEF r
  <2>5. r = Tail(ready)
    BY DEF r
  <2> QED BY <1>1, <2>1, <2>2, <2>3, <2>4, <2>5
<1> QED BY <1>2, <1>3

\* schedule_preempt_disabled() keeps the threads where they belong.
LEMMA ScheduleKeepsQueues ==
    ASSUME QueueInv, SchedulePreemptDisabled, SchedConstants
    PROVE  QueueInv'
<1> USE DEF QueueInv, QueueType
<1>1. CASE UNCHANGED <<current, queues>>
  BY <1>1 DEF queues, QueueDiscipline
<1>2. CASE /\ ready # <<>> /\ ~OnlyIdleWaits
           /\ ready' = Requeue(current)
           /\ current' = Chosen
           /\ state' = [t \in Thread |->
                           IF t = Chosen THEN "RUNNING"
                           ELSE IF t = current /\ state[t] = "RUNNING" THEN "READY"
                           ELSE state[t]]
           /\ UNCHANGED waitq
  <2>1. /\ Chosen \in Thread /\ IsElem(Chosen, ready)
        /\ Others \in Seq(Thread) /\ Distinct(Others)
        /\ \A t : IsElem(t, Others) <=> IsElem(t, ready) /\ t # Chosen
    BY <1>2, ChosenElems DEF QueueDiscipline, SchedConstants
  <2>2. state[Chosen] = "READY" /\ Chosen # current
    BY <2>1 DEF QueueDiscipline, Waiting
  <2>3. ~IsElem(current, ready)
    BY DEF QueueDiscipline, Waiting
  <2>4. /\ ready' \in Seq(Thread) /\ Distinct(ready')
        /\ \A t : IsElem(t, ready') <=> \/ IsElem(t, ready) /\ t # Chosen
                                        \/ t = current /\ state[t] = "RUNNING"
    <3>1. CASE state[current] = "RUNNING"
      <4>1. ready' = Append(Others, current)
        BY <1>2, <3>1 DEF Requeue
      <4> QED BY <2>1, <2>3, <3>1, <4>1, AppendElems
    <3>2. CASE state[current] # "RUNNING"
      <4>1. ready' = Others
        BY <1>2, <3>2 DEF Requeue
      <4> QED BY <2>1, <3>2, <4>1
    <3> QED BY <3>1, <3>2
  <2>5. QueueType'
    BY <1>2, <2>1, <2>4
  <2>6. \A t \in Thread : state'[t] = "READY" <=> IsElem(t, ready')
    BY <1>2, <2>2, <2>3, <2>4 DEF QueueDiscipline
  <2>7. \A t \in Thread : state'[t] \in Waiting <=> state[t] \in Waiting
    BY <1>2, <2>2 DEF Waiting
  <2>8. \A t \in Thread : state'[t] = "RUNNING" => t = current'
    BY <1>2 DEF QueueDiscipline
  <2>9. QueueDiscipline'
    BY <1>2, <2>4, <2>6, <2>7, <2>8 DEF QueueDiscipline
  <2>10. state'[current'] = "RUNNING"
    BY <1>2, <2>1
  <2>11. state'[Idle] \in {"RUNNING", "READY"}
    BY <1>2 DEF SchedConstants, QueueDiscipline
  <2> QED BY <2>5, <2>9, <2>10, <2>11
<1> QED BY <1>1, <1>2 DEF SchedulePreemptDisabled

\* The sleepers of a queue are its threads but the current one.
LEMMA SleepersElems ==
    ASSUME QueueInv, NEW q \in WaitQueue
    PROVE  /\ Sleepers(q) \in Seq(Thread) /\ Distinct(Sleepers(q))
           /\ \A t : IsElem(t, Sleepers(q)) <=> IsElem(t, waitq[q]) /\ t # current
<1>1. waitq[q] \in Seq(Thread) /\ Distinct(waitq[q])
  BY DEF QueueInv, QueueType, QueueDiscipline
<1>2. CASE IsElem(current, waitq[q])
  <2> DEFINE k == CHOOSE i \in 1 .. Len(waitq[q]) : waitq[q][i] = current
  <2>1. k \in 1 .. Len(waitq[q]) /\ waitq[q][k] = current
    BY <1>2 DEF IsElem
  <2>2. Sleepers(q) = RemoveAt(waitq[q], k)
    BY <1>2 DEF Sleepers, IsElem
  <2> HIDE DEF k
  <2> QED BY <1>1, <2>1, <2>2, RemoveAtElems
<1>3. CASE ~IsElem(current, waitq[q])
  <2>1. Sleepers(q) = waitq[q]
    BY <1>3 DEF Sleepers, IsElem
  <2> QED BY <1>1, <1>3, <2>1
<1> QED BY <1>2, <1>3

\* wake_up_preempt_disabled() keeps the threads where they belong.
LEMMA WakeKeepsQueues ==
    ASSUME QueueInv, NEW q \in WaitQueue, Wake(q), UNCHANGED current, SchedConstants
    PROVE  QueueInv'
<1> USE DEF QueueInv, QueueType
<1>1. /\ Sleepers(q) \in Seq(Thread) /\ Distinct(Sleepers(q))
      /\ \A t : IsElem(t, Sleepers(q)) <=> IsElem(t, waitq[q]) /\ t # current
  BY SleepersElems
<1>2. \A t \in Thread : IsElem(t, waitq[q]) => ~IsElem(t, ready)
  BY DEF QueueDiscipline, Waiting
<1>3. \A t : IsElem(t, ready) => t \in Thread
  BY LenProperties DEF IsElem
<1>4. ready' = ready \o Sleepers(q)
  BY DEF Wake, AddTail
<1>5. /\ ready' \in Seq(Thread) /\ Distinct(ready')
      /\ \A t : IsElem(t, ready') <=> \/ IsElem(t, ready)
                                      \/ IsElem(t, waitq[q]) /\ t # current
  BY <1>1, <1>2, <1>3, <1>4, ConcatElems DEF QueueDiscipline
<1>6. state' = [t \in Thread |-> IF IsElem(t, waitq[q])
                                 THEN IF t = current THEN "RUNNING" ELSE "READY"
                                 ELSE state[t]]
  BY DEF Wake, IsElem
<1>7. /\ waitq' \in [WaitQueue -> Seq(Thread)]
      /\ waitq'[q] = <<>>
      /\ \A p \in WaitQueue : p # q => waitq'[p] = waitq[p]
  BY EmptySeq DEF Wake
<1>8. Distinct(<<>>) /\ \A t : ~IsElem(t, <<>>)
  BY DEF Distinct, IsElem
<1>9. QueueType'
  BY <1>5, <1>6, <1>7
<1>10. \A t \in Thread : state'[t] = "READY" <=> IsElem(t, ready')
  BY <1>2, <1>5, <1>6 DEF QueueDiscipline
<1>a. ASSUME NEW p \in WaitQueue
      PROVE  \A t : IsElem(t, waitq'[p]) <=> p # q /\ IsElem(t, waitq[p])
  BY <1>7, <1>8
<1>11. ASSUME NEW t \in Thread
       PROVE  state'[t] \in Waiting <=> \E p \in WaitQueue : IsElem(t, waitq'[p])
  <2>1. state[t] \in Waiting <=> \E p \in WaitQueue : IsElem(t, waitq[p])
    BY DEF QueueDiscipline
  <2>2. CASE IsElem(t, waitq[q])
    <3>1. state'[t] \notin Waiting
      BY <1>6, <2>2 DEF Waiting
    <3>2. \A p \in WaitQueue : p # q => ~IsElem(t, waitq[p])
      BY <2>2 DEF QueueDiscipline
    <3> QED BY <1>a, <3>1, <3>2
  <2>3. CASE ~IsElem(t, waitq[q])
    <3>1. state'[t] = state[t]
      BY <1>6, <2>3
    <3> QED BY <1>a, <2>1, <2>3, <3>1
  <2> QED BY <2>2, <2>3
<1>12. \A t \in Thread : state'[t] = "RUNNING" => t = current'
  BY <1>6 DEF QueueDiscipline
<1>13. QueueDiscipline'
  <2>1. \A p \in WaitQueue : Distinct(waitq'[p])
    BY <1>7, <1>8 DEF QueueDiscipline
  <2>2. \A p, r \in WaitQueue : p # r =>
           \A t \in Thread : ~(IsElem(t, waitq'[p]) /\ IsElem(t, waitq'[r]))
    BY <1>a DEF QueueDiscipline
  <2> QED BY <1>5, <1>10, <1>11, <1>12, <2>1, <2>2 DEF QueueDiscipline
<1>14. state'[current'] \in {"RUNNING"} \union Waiting
  BY <1>6
<1>15. state'[Idle] \in {"RUNNING", "READY"}
  BY <1>6 DEF QueueDiscipline, Waiting, SchedConstants
<1> QED BY <1>9, <1>13, <1>14, <1>15

-----------------------------------------------------------------------------
(* Every step keeps the invariant.                                         *)

\* What a charge leaves is a char.
LEMMA ChargeType ==
    ASSUME SchedConstants, TickType, ControlType, current \in Thread,
           NEW n \in 0 .. MaxLag, NEW D \in SUBSET Device, NEW late,
           ChargeAndRaise(n, D, late)
    PROVE  /\ ticks' \in [Thread -> 0 .. CHAR_MOD - 1]
           /\ irq_sched_mask' \in SUBSET SchedIrq
           /\ irq_sched_mask \subseteq irq_sched_mask'
<1>1. (D \ late) \subseteq SchedIrq /\ IRQ_SCHED_SCHEDULE \in SchedIrq
  <2>1. D \subseteq SchedIrq
    BY DEF Device
  <2>2. IRQ_SCHED_SCHEDULE \in SchedIrq
    BY DEF SchedIrq, SchedConstants
  <2> QED BY <2>1, <2>2
<1>2. ASSUME NEW x \in 0 .. CHAR_MOD - 1
      PROVE  (x + CHAR_MOD - (n % CHAR_MOD)) % CHAR_MOD \in 0 .. CHAR_MOD - 1
  <2>1. CHAR_MOD \in Nat /\ CHAR_MOD > 0 /\ n \in Nat
    BY DEF SchedConstants
  <2>2. n % CHAR_MOD \in 0 .. CHAR_MOD - 1
    BY <2>1
  <2> DEFINE y == x + CHAR_MOD - (n % CHAR_MOD)
  <2>3. y \in Int
    BY <2>1, <2>2
  <2> HIDE DEF y
  <2>4. y % CHAR_MOD \in 0 .. CHAR_MOD - 1
    BY <2>1, <2>3
  <2> QED BY <2>4 DEF y
<1>3. ticks' \in [Thread -> 0 .. CHAR_MOD - 1]
  <2>1. CASE current = Idle
    BY <2>1 DEF ChargeAndRaise, TickType
  <2>2. CASE current # Idle
    <3>1. ticks' = [ticks EXCEPT ![current] =
                       (@ + CHAR_MOD - (n % CHAR_MOD)) % CHAR_MOD]
      BY <2>2 DEF ChargeAndRaise, TicksAfter
    <3> DEFINE c == (ticks[current] + CHAR_MOD - (n % CHAR_MOD)) % CHAR_MOD
    <3>2. c \in 0 .. CHAR_MOD - 1
      BY <1>2 DEF TickType
    <3>3. ticks' = [ticks EXCEPT ![current] = c]
      BY <3>1
    <3> HIDE DEF c
    <3> QED BY <3>2, <3>3 DEF TickType
  <2> QED BY <2>1, <2>2
<1> QED BY <1>1, <1>3 DEF ChargeAndRaise, Raise, ControlType

\* A new quota is a char.
LEMMA RefillType ==
    ASSUME SchedConstants, TickType, NEW t \in Thread
    PROVE  Refill(t) \in [Thread -> 0 .. CHAR_MOD - 1]
BY DEF Refill, TickType, SchedConstants

\* schedule_preempt_disabled() keeps the types of the ticks.
LEMMA ScheduleKeepsTicks ==
    ASSUME SchedConstants, QueueInv, TickType, SchedulePreemptDisabled
    PROVE  ticks' \in [Thread -> 0 .. CHAR_MOD - 1]
<1>1. ready # <<>> => Chosen \in Thread
  BY ChosenElems DEF QueueInv, QueueType, QueueDiscipline, SchedConstants
<1>2. current \in Thread
  BY DEF QueueInv, QueueType
<1> QED BY <1>1, <1>2, RefillType DEF SchedulePreemptDisabled, TickType

\* It takes the processor from idle if there is a thread to give it to, and
\* gives it to idle only when there is none.
LEMMA ScheduleServesReady ==
    ASSUME SchedConstants, QueueInv, SchedulePreemptDisabled
    PROVE  current' = Idle => ready' = <<>>
<1>1. CASE UNCHANGED <<current, queues>> /\ ready = <<>>
  BY <1>1 DEF queues
<1>2. CASE UNCHANGED <<current, queues>> /\ OnlyIdleWaits
  <2>1. state[Idle] = "READY"
    <3>1. IsElem(Idle, <<Idle>>)
      BY DEF IsElem
    <3> QED BY <1>2, <3>1 DEF OnlyIdleWaits, QueueInv, QueueDiscipline, SchedConstants
  <2>2. current # Idle
    BY <2>1 DEF QueueInv, Waiting
  <2> QED BY <1>2, <2>2
<1>3. CASE /\ ready # <<>> /\ ~OnlyIdleWaits
           /\ ready' = Requeue(current)
           /\ current' = Chosen
  <2> SUFFICES ASSUME Chosen = Idle PROVE ready' = <<>>
    BY <1>3
  <2>1. /\ Head(ready) \in Thread /\ Tail(ready) \in Seq(Thread)
        /\ Len(Tail(ready)) = Len(ready) - 1 /\ Len(ready) \in Nat
        /\ \A t : IsElem(t, ready) <=> t = Head(ready) \/ IsElem(t, Tail(ready))
        /\ Distinct(Tail(ready)) /\ ~IsElem(Head(ready), Tail(ready))
    BY <1>3, TailElems, LenProperties DEF QueueInv, QueueType, QueueDiscipline
  <2>2. ~SkipIdle
    <3> SUFFICES ASSUME SkipIdle PROVE FALSE
      OBVIOUS
    <3>1. Len(Tail(ready)) > 0 /\ Head(ready) = Idle
      BY <2>1 DEF SkipIdle
    <3>2. Tail(ready) # <<>>
      BY <3>1
    <3>3. IsElem(Head(Tail(ready)), Tail(ready))
      BY <2>1, <3>2, TailElems
    <3>4. Chosen = Head(Tail(ready))
      BY DEF Chosen
    <3> QED BY <2>1, <3>1, <3>3, <3>4
  <2>3. Head(ready) = Idle /\ Len(ready) = 1
    <3>1. Head(ready) = Idle
      BY <2>2 DEF Chosen
    <3>2. Len(ready) # 0
      BY <1>3, EmptySeq DEF QueueInv, QueueType
    <3> QED BY <2>1, <2>2, <3>1, <3>2 DEF SkipIdle
  <2>4. Tail(ready) = <<>>
    <3>1. Len(Tail(ready)) = 0
      BY <2>1, <2>3
    <3> QED BY <2>1, <3>1, EmptySeq
  <2>5. ready = <<Idle>>
    BY <1>3, <2>3 DEF QueueInv, QueueType
  <2>6. state[current] # "RUNNING"
    BY <1>3, <2>5 DEF OnlyIdleWaits
  <2> QED BY <1>3, <2>2, <2>4, <2>6 DEF Requeue, Others
<1> QED BY <1>1, <1>2, <1>3 DEF SchedulePreemptDisabled

\* A handler or a call leaves the control of the other threads alone.
LEMMA PreemptEnableKeepsControl ==
    ASSUME ControlInv, InCode, PreemptEnable, current \in Thread,
           irq_sched_mask' \in SUBSET SchedIrq
    PROVE  /\ ControlType'
           /\ \A t \in Thread \ {current} :
                 mask'[t] = {} /\ phase'[t] \in {"code", "fetch"}
           /\ mask'[current] = {} /\ phase'[current] = "fetch"
           /\ \A t \in Thread : ctx'[t] = "proc" => phase'[t] = "code"
           /\ \A t \in Thread : phase'[t] \in {"code", "fetch", "leave"} => mask'[t] = {}
BY DEF ControlInv, ControlType, InCode, PreemptEnable, SuspendedClean

\* The kernel boots into a state of the invariant.
LEMMA InitInv == SchedConstants /\ Init => Inv
<1> SUFFICES ASSUME SchedConstants, Init PROVE Inv
  OBVIOUS
<1> USE DEF Init, SchedConstants
<1>1. QueueType
  BY EmptySeq DEF QueueType, Waiting
<1>2. QueueDiscipline
  <2>1. \A t : IsElem(t, <<Idle>>) <=> t = Idle
    BY DEF IsElem
  <2>2. Distinct(<<Idle>>) /\ Distinct(<<>>) /\ \A t : ~IsElem(t, <<>>)
    BY DEF Distinct, IsElem
  <2> QED BY <2>1, <2>2 DEF QueueDiscipline, Waiting
<1>3. TickType
  BY DEF TickType
<1>4. ControlInv
  BY DEF ControlInv, ControlType, SuspendedClean
<1> QED BY <1>1, <1>2, <1>3, <1>4 DEF Inv, QueueInv, IdleInv

\* A thread calls schedule().
LEMMA YieldInv == ASSUME SchedConstants, Inv, Yield PROVE Inv'
<1> USE DEF Inv, Yield
<1>1. QueueInv'
  BY ScheduleKeepsQueues
<1>2. TickType'
  BY ScheduleKeepsTicks DEF TickType
<1>3. ControlInv'
  <2>1. /\ ControlType'
        /\ \A t \in Thread : mask'[t] = {} /\ phase'[t] \in {"code", "fetch"}
        /\ \A t \in Thread : ctx'[t] = "proc" => phase'[t] = "code"
    BY PreemptEnableKeepsControl DEF QueueInv, QueueType, ControlInv, ControlType
  <2> QED BY <2>1 DEF ControlInv, SuspendedClean
<1>4. IdleInv'
  BY ScheduleServesReady DEF IdleInv
<1> QED BY <1>1, <1>2, <1>3, <1>4

\* The control state after a preempt_enable() of a thread that stays current.
LEMMA CallKeepsControl ==
    ASSUME ControlInv, InCode, PreemptEnable, current \in Thread,
           UNCHANGED current, irq_sched_mask' \in SUBSET SchedIrq
    PROVE  ControlInv'
BY PreemptEnableKeepsControl DEF ControlInv, SuspendedClean

\* A thread creates another.
LEMMA ThreadCreateInv ==
    ASSUME SchedConstants, Inv, NEW t \in Thread, ThreadCreate(t) PROVE Inv'
<1> USE DEF Inv, ThreadCreate
<1>1. QueueInv'
  <2> USE DEF QueueInv, QueueType
  <2>1. ~IsElem(t, ready) /\ t # current /\ t # Idle
    BY DEF QueueDiscipline
  <2>2. /\ ready' \in Seq(Thread) /\ Distinct(ready')
        /\ \A u : IsElem(u, ready') <=> IsElem(u, ready) \/ u = t
    BY <2>1, AppendElems DEF QueueDiscipline
  <2>3. \A u \in Thread : state'[u] = IF u = t THEN "READY" ELSE state[u]
    OBVIOUS
  <2>4. \A u \in Thread : state'[u] \in Waiting <=> state[u] \in Waiting
    BY <2>3 DEF Waiting
  <2>5. QueueType'
    BY <2>2
  <2>6. QueueDiscipline'
    BY <2>2, <2>3, <2>4 DEF QueueDiscipline
  <2> QED BY <2>1, <2>3, <2>5, <2>6 DEF SchedConstants
<1>2. TickType'
  BY DEF TickType
<1>3. ControlInv'
  BY CallKeepsControl DEF QueueInv, QueueType, ControlInv, ControlType
<1>4. IdleInv'
  BY DEF IdleInv
<1> QED BY <1>1, <1>2, <1>3, <1>4

\* A thread goes through a section that changes nothing.
LEMMA SectionInv == ASSUME SchedConstants, Inv, Section PROVE Inv'
<1> USE DEF Inv, Section
<1>1. QueueInv'
  BY DEF queues, QueueInv, QueueType, QueueDiscipline
<1>2. TickType'
  BY DEF TickType
<1>3. ControlInv'
  BY CallKeepsControl DEF QueueInv, QueueType, ControlInv, ControlType
<1>4. IdleInv'
  BY DEF IdleInv
<1> QED BY <1>1, <1>2, <1>3, <1>4

\* A thread puts itself on a wait queue.
LEMMA WaitInv ==
    ASSUME SchedConstants, Inv, NEW q \in WaitQueue, NEW s \in Waiting, Wait(q, s)
    PROVE  Inv'
<1> USE DEF Inv, Wait
<1>1. QueueInv'
  <2> USE DEF QueueInv, QueueType
  <2>1. \A p \in WaitQueue : ~IsElem(current, waitq[p])
    BY DEF QueueDiscipline, Waiting
  <2>2. /\ Append(waitq[q], current) \in Seq(Thread)
        /\ Distinct(Append(waitq[q], current))
        /\ \A u : IsElem(u, Append(waitq[q], current))
                     <=> IsElem(u, waitq[q]) \/ u = current
    BY <2>1, AppendElems DEF QueueDiscipline
  <2>3. \A p \in WaitQueue :
           waitq'[p] = IF p = q THEN Append(waitq[q], current) ELSE waitq[p]
    OBVIOUS
  <2>4. \A u \in Thread : state'[u] = IF u = current THEN s ELSE state[u]
    OBVIOUS
  <2>5. QueueType'
    BY <2>2
  <2>6. \A p \in WaitQueue, u \in Thread :
           IsElem(u, waitq'[p]) <=> IsElem(u, waitq[p]) \/ (p = q /\ u = current)
    BY <2>2, <2>3
  <2>7. \A p \in WaitQueue : Distinct(waitq'[p])
    BY <2>2, <2>3 DEF QueueDiscipline
  <2>8. \A p, r \in WaitQueue : p # r =>
           \A u \in Thread : ~(IsElem(u, waitq'[p]) /\ IsElem(u, waitq'[r]))
    BY <2>1, <2>6 DEF QueueDiscipline
  <2>9. ASSUME NEW u \in Thread
        PROVE  state'[u] \in Waiting <=> \E p \in WaitQueue : IsElem(u, waitq'[p])
    <3>1. CASE u = current
      BY <2>4, <2>6, <3>1
    <3>2. CASE u # current
      BY <2>4, <2>6, <3>2 DEF QueueDiscipline
    <3> QED BY <3>1, <3>2
  <2>10. \A u \in Thread : state'[u] = "READY" <=> IsElem(u, ready')
    BY <2>4 DEF QueueDiscipline, Waiting
  <2>11. \A u \in Thread : state'[u] = "RUNNING" => u = current'
    BY <2>4 DEF QueueDiscipline
  <2>12. QueueDiscipline'
    BY <2>7, <2>8, <2>9, <2>10, <2>11 DEF QueueDiscipline
  <2> QED BY <2>4, <2>5, <2>12 DEF SchedConstants
<1>2. TickType'
  BY DEF TickType
<1>3. ControlInv'
  BY CallKeepsControl DEF QueueInv, QueueType, ControlInv, ControlType
<1>4. IdleInv'
  BY DEF IdleInv
<1> QED BY <1>1, <1>2, <1>3, <1>4

\* What wake_up_preempt_disabled() raises, and what it owes idle.
LEMMA WakeRaises ==
    ASSUME SchedConstants, QueueInv, ControlType, NEW q \in WaitQueue, Wake(q)
    PROVE  /\ irq_sched_mask' \in SUBSET SchedIrq
           /\ irq_sched_mask \subseteq irq_sched_mask'
           /\ current = Idle /\ ready' # <<>> =>
                 ready # <<>> \/ IRQ_SCHED_SCHEDULE \in irq_sched_mask'
<1>1. IRQ_SCHED_SCHEDULE \in SchedIrq
  BY DEF SchedConstants, SchedIrq
<1>2. Sleepers(q) \in Seq(Thread)
  BY SleepersElems
<1>3. Sleepers(q) = <<>> => ready' = ready
  BY ConcatEmptySeq DEF Wake, AddTail, QueueInv, QueueType
<1> QED BY <1>1, <1>3 DEF Wake, RaiseFor, ControlType

\* A thread wakes a queue.
LEMMA WakeUpInv ==
    ASSUME SchedConstants, Inv, NEW q \in WaitQueue, WakeUp(q) PROVE Inv'
<1> USE DEF Inv, WakeUp
<1>1. QueueInv'
  BY WakeKeepsQueues
<1>2. TickType'
  BY DEF TickType
<1>3. ControlInv'
  BY WakeRaises, CallKeepsControl DEF QueueInv, QueueType, ControlInv
<1>4. IdleInv'
  BY DEF IdleInv
<1> QED BY <1>1, <1>2, <1>3, <1>4

\* The steps of irq_sched() that leave the queues alone.
LEMMA FetchInv == ASSUME SchedConstants, Inv, Fetch PROVE Inv'
<1> USE DEF Inv, Fetch
<1>1. QueueInv'
  BY DEF queues, QueueInv, QueueType, QueueDiscipline
<1>2. TickType'
  BY DEF TickType
<1>3. ControlInv'
  BY DEF ControlInv, ControlType, SuspendedClean, QueueInv, QueueType
<1>4. IdleInv'
  BY DEF IdleInv, queues, ControlInv, ControlType, SchedConstants
<1> QED BY <1>1, <1>2, <1>3, <1>4

\* irq_sched() clears the mask it has fetched.
LEMMA ClearInv == ASSUME SchedConstants, Inv, Clear PROVE Inv'
<1> USE DEF Inv, Clear
<1>1. QueueInv'
  BY DEF queues, QueueInv, QueueType, QueueDiscipline
<1>2. TickType'
  BY DEF TickType
<1>3. ControlInv'
  BY DEF ControlInv, ControlType, SuspendedClean, QueueInv, QueueType
<1>4. IdleInv'
  BY DEF IdleInv, queues, ControlInv, ControlType, SchedConstants
<1> QED BY <1>1, <1>2, <1>3, <1>4

\* irq_sched() is left, and excpt_irq() runs the soft IRQs left to it.
LEMMA LeaveInv ==
    ASSUME SchedConstants, Inv, NEW D \in SUBSET Device, NEW late, Leave(D, late)
    PROVE  Inv'
<1> USE DEF Inv, Leave
<1>1. QueueInv'
  BY DEF queues, QueueInv, QueueType, QueueDiscipline
<1>2. /\ ticks' \in [Thread -> 0 .. CHAR_MOD - 1]
      /\ irq_sched_mask' \in SUBSET SchedIrq
      /\ irq_sched_mask \subseteq irq_sched_mask'
  <2>1. CASE ChargeAndRaise(hard_ticks, D, late)
    BY <2>1, ChargeType DEF TickType, QueueInv, QueueType, ControlInv
  <2>2. CASE UNCHANGED <<ticks, irq_sched_mask>>
    BY <2>2 DEF TickType, ControlInv, ControlType
  <2> QED BY <2>1, <2>2
<1>3. TickType'
  BY <1>2 DEF TickType, SchedConstants
<1>4. ControlInv'
  BY <1>2 DEF ControlInv, ControlType, SuspendedClean, QueueInv, QueueType
<1>5. IdleInv'
  BY <1>2 DEF IdleInv, queues, ControlInv, ControlType, SchedConstants
<1> QED BY <1>1, <1>3, <1>4, <1>5

\* The handlers.
LEMMA HandlerWakeInv ==
    ASSUME SchedConstants, Inv, NEW q \in WaitQueue, HandlerWake(q) PROVE Inv'
<1> USE DEF Inv, HandlerWake
<1>1. QueueInv'
  BY WakeKeepsQueues
<1>2. TickType'
  BY DEF TickType
<1>3. phase[current] = "run"
  BY DEF IsNext
<1>4. /\ irq_sched_mask' \in SUBSET SchedIrq
      /\ irq_sched_mask \subseteq irq_sched_mask'
      /\ current = Idle /\ ready' # <<>> =>
            ready # <<>> \/ IRQ_SCHED_SCHEDULE \in irq_sched_mask'
  BY WakeRaises DEF ControlInv
<1>5. ControlInv'
  BY <1>4 DEF ControlInv, ControlType, SuspendedClean, control
<1>6. IdleInv'
  BY <1>3, <1>4 DEF IdleInv, control
<1> QED BY <1>1, <1>2, <1>5, <1>6

\* A device's sched handler returns.
LEMMA HandlerDoneInv ==
    ASSUME SchedConstants, Inv, NEW i \in SchedIrq, HandlerDone(i) PROVE Inv'
<1> USE DEF Inv, HandlerDone
<1>1. QueueInv'
  BY DEF queues, QueueInv, QueueType, QueueDiscipline
<1>2. TickType'
  BY DEF TickType
<1>3. ControlInv'
  BY DEF ControlInv, ControlType, SuspendedClean, QueueInv, QueueType, IsNext
<1>4. IdleInv'
  BY DEF IdleInv, queues, ControlInv, ControlType, SchedConstants, Device, IsNext
<1> QED BY <1>1, <1>2, <1>3, <1>4

\* The last sched handler calls the scheduler.
LEMMA HandlerScheduleInv == ASSUME SchedConstants, Inv, HandlerSchedule PROVE Inv'
<1> USE DEF Inv, HandlerSchedule
<1>1. QueueInv'
  BY ScheduleKeepsQueues
<1>2. TickType'
  BY ScheduleKeepsTicks DEF TickType
<1>3. phase[current] = "run" /\ mask[current] = {IRQ_SCHED_SCHEDULE}
  <2>1. \A j \in mask[current] : j \in SchedIrq /\ IRQ_SCHED_SCHEDULE <= j
    BY DEF ScheduleIsNext, IsNext, ControlInv, ControlType, QueueInv, QueueType
  <2>2. \A j \in mask[current] : j = IRQ_SCHED_SCHEDULE
    BY <2>1 DEF SchedIrq, SchedConstants
  <2> QED BY <2>2 DEF ScheduleIsNext, IsNext
<1>4. /\ mask' = [mask EXCEPT ![current] = {}]
      /\ phase' = [phase EXCEPT ![current] = "fetch"]
  BY <1>3 DEF ControlInv, ControlType
<1>5. ControlInv'
  <2>1. ControlType'
    BY <1>4 DEF ControlInv, ControlType
  <2>2. \A t \in Thread : mask'[t] = {} /\ phase'[t] \in {"code", "fetch"}
    BY <1>4 DEF ControlInv, ControlType, SuspendedClean
  <2>3. ctx[current] # "proc"
    BY <1>3 DEF ControlInv, QueueInv, QueueType
  <2>4. \A t \in Thread : ctx'[t] = "proc" => phase'[t] = "code"
    BY <1>4, <2>3 DEF ControlInv, ControlType
  <2> QED BY <2>1, <2>2, <2>4 DEF ControlInv, SuspendedClean
<1>6. IdleInv'
  BY ScheduleServesReady DEF IdleInv
<1> QED BY <1>1, <1>2, <1>5, <1>6

\* An interrupt.
LEMMA IrqInv ==
    ASSUME SchedConstants, Inv, NEW k \in 0 .. MaxLag, NEW D \in SUBSET Device,
           NEW late, NEW timer \in BOOLEAN, Irq(k, D, late, timer)
    PROVE  Inv'
<1> USE DEF Inv
<1>1. QueueInv'
  BY DEF Irq, queues, QueueInv, QueueType, QueueDiscipline
<1>2. /\ ticks' \in [Thread -> 0 .. CHAR_MOD - 1] /\ hard_ticks' \in 0 .. MaxLag
      /\ irq_sched_mask' \in SUBSET SchedIrq
      /\ irq_sched_mask \subseteq irq_sched_mask'
  <2>1. hard_ticks + k \in 0 .. MaxLag /\ 0 \in 0 .. MaxLag
    BY DEF Irq, TickType, SchedConstants
  <2>2. D \ late \subseteq SchedIrq
    BY DEF Device
  <2>3. CASE ChargeAndRaise(hard_ticks + k, D, late)
    BY <2>1, <2>3, ChargeType DEF Irq, QueueInv, QueueType, ControlInv
  <2>4. CASE ticks' = ticks /\ irq_sched_mask' = Raise(D, late)
    BY <2>1, <2>2, <2>4 DEF Irq, Raise, TickType, ControlInv, ControlType
  <2> QED BY <2>3, <2>4 DEF Irq
<1>3. TickType'
  BY <1>2 DEF TickType
<1>4. \/ UNCHANGED <<ctx, phase>>
      \/ /\ ctx[current] = "proc"
         /\ ctx' = [ctx EXCEPT ![current] = "irq"]
         /\ phase' = [phase EXCEPT ![current] = "fetch"]
  BY DEF Irq
<1>5. UNCHANGED <<current, queues, mask>>
  BY DEF Irq
<1>6. ControlInv'
  <2> USE DEF ControlInv, ControlType
  <2>1. current' = current /\ mask' = mask /\ current \in Thread
    BY <1>5 DEF QueueInv, QueueType
  <2>2. CASE UNCHANGED <<ctx, phase>>
    BY <1>2, <2>1, <2>2 DEF SuspendedClean
  <2>3. CASE /\ ctx[current] = "proc"
             /\ ctx' = [ctx EXCEPT ![current] = "irq"]
             /\ phase' = [phase EXCEPT ![current] = "fetch"]
    <3>1. phase[current] = "code" /\ mask[current] = {}
      BY <2>1, <2>3
    <3>2. ControlType'
      BY <1>2, <2>1, <2>3
    <3>3. SuspendedClean'
      BY <2>1, <2>3 DEF SuspendedClean
    <3> QED BY <2>1, <2>3, <3>1, <3>2, <3>3
  <2> QED BY <1>4, <2>2, <2>3
<1>7. IdleInv'
  <2>1. /\ current' = current /\ ready' = ready /\ mask' = mask
        /\ irq_sched_mask \subseteq irq_sched_mask'
    BY <1>2, <1>5 DEF queues
  <2>2. phase[Idle] # "clear" => phase'[Idle] # "clear"
    BY <1>4 DEF ControlInv, ControlType, SchedConstants
  <2> QED BY <2>1, <2>2 DEF IdleInv
<1> QED BY <1>1, <1>3, <1>6, <1>7

\* Every step, and every stutter, keeps the invariant.
LEMMA NextInv == SchedConstants /\ Inv /\ [Next]_vars => Inv'
<1> SUFFICES ASSUME SchedConstants, Inv, [Next]_vars PROVE Inv'
  OBVIOUS
<1>1. CASE Next
  BY <1>1, YieldInv, ThreadCreateInv, SectionInv, WaitInv, WakeUpInv, FetchInv,
     ClearInv, LeaveInv, HandlerWakeInv, HandlerDoneInv, HandlerScheduleInv, IrqInv
     DEF Next
<1>2. CASE UNCHANGED vars
  BY <1>2 DEF vars, Inv, QueueInv, QueueType, QueueDiscipline, TickType, ControlInv,
              ControlType, SuspendedClean, IdleInv
<1> QED BY <1>1, <1>2

\* The invariant holds in every reachable state.
THEOREM Invariance == Spec => []Inv
BY InitInv, NextInv, SchedConstants, PTL DEF Spec

-----------------------------------------------------------------------------
(* What it says about the code.                                            *)

\* Every variable keeps its type.
THEOREM TypesOK == Spec => []TypeOK
<1>1. Inv => TypeOK
  BY DEF Inv, QueueInv, QueueType, TickType, ControlInv, ControlType, TypeOK
<1> QED BY <1>1, Invariance, PTL

\* Every thread is on the queue of its state, on no other, and once.
THEOREM QueuesHold == Spec => []QueueDiscipline
<1>1. Inv => QueueDiscipline
  BY DEF Inv, QueueInv
<1> QED BY <1>1, Invariance, PTL

\* The invariant implies the assertions of schedule_preempt_disabled() and
\* wake_up_preempt_disabled().
LEMMA InvAssertions == SchedConstants /\ Inv => AssertionsHold
<1> SUFFICES ASSUME SchedConstants, Inv PROVE AssertionsHold
  OBVIOUS
<1> USE DEF Inv, QueueInv, QueueType
<1>1. \A t \in Thread : IsElem(t, ready) => t # current
  BY DEF QueueDiscipline, Waiting
<1>2. state[Idle] = "RUNNING" => current = Idle
  BY DEF QueueDiscipline, SchedConstants
<1>3. ready = <<>> => current = Idle
  <2>1. ~IsElem(Idle, <<>>)
    BY DEF IsElem
  <2> QED BY <1>2, <2>1 DEF QueueDiscipline, SchedConstants
<1>4. ready # <<>> => Head(ready) \in Thread /\ IsElem(Head(ready), ready)
  BY TailElems
<1>5. ready # <<>> => Chosen \in Thread /\ IsElem(Chosen, ready)
  BY ChosenElems DEF QueueDiscipline, SchedConstants
<1>6. ready # <<>> /\ SkipIdle => Chosen # Idle
  <2> SUFFICES ASSUME ready # <<>>, SkipIdle PROVE Chosen # Idle
    OBVIOUS
  <2>1. /\ Tail(ready) \in Seq(Thread) /\ Len(Tail(ready)) = Len(ready) - 1
        /\ ~IsElem(Head(ready), Tail(ready)) /\ Len(ready) \in Nat
    BY TailElems, LenProperties DEF QueueDiscipline
  <2>2. Len(Tail(ready)) > 0 /\ Head(ready) = Idle
    BY <2>1 DEF SkipIdle
  <2>3. Tail(ready) # <<>>
    <3>1. Len(<< >>) = 0
      BY EmptySeq
    <3>2. Len(Tail(ready)) # 0
      BY <2>1, <2>2
    <3> QED BY <3>1, <3>2, Zenon
  <2>4. IsElem(Head(Tail(ready)), Tail(ready))
    BY <2>1, <2>3, TailElems
  <2> QED BY <2>1, <2>2, <2>4 DEF Chosen
<1>7. ready # <<>> /\ OnlyIdleWaits => current # Idle
  <2>1. IsElem(Idle, <<Idle>>)
    BY DEF IsElem
  <2> QED BY <1>1, <2>1 DEF OnlyIdleWaits, SchedConstants
<1>8. \A q \in WaitQueue : ~IsElem(Idle, waitq[q])
  BY DEF QueueDiscipline, Waiting, SchedConstants
<1> QED BY <1>1, <1>3, <1>4, <1>5, <1>6, <1>7, <1>8 DEF AssertionsHold

\* None of the assertions of the scheduler can fail.
THEOREM AssertionsNeverFail == Spec => []AssertionsHold
BY InvAssertions, SchedConstants, Invariance, PTL

\* No thread is switched out with a fetched sched IRQ left to handle.
THEOREM SuspendedThreadsClean == Spec => []SuspendedClean
<1>1. Inv => SuspendedClean
  BY DEF Inv, ControlInv
<1> QED BY <1>1, Invariance, PTL

\* While idle runs with another thread ready, the switch is on its way.
THEOREM IdleAlwaysYields == Spec => []IdleYields
<1>1. Inv => IdleYields
  BY DEF Inv, IdleInv, IdleYields
<1> QED BY <1>1, Invariance, PTL

-----------------------------------------------------------------------------
(* The order of the ready queue.                                           *)

\* Of the threads of r, idle apart, those that were on s follow only threads
\* that they followed there.
KeepsOrder(s, r) ==
    \A i, j \in 1 .. Len(r) :
        i < j /\ r[i] # Idle /\ r[j] # Idle /\ IsElem(r[j], s) =>
            \E k, l \in 1 .. Len(s) : k < l /\ s[k] = r[i] /\ s[l] = r[j]

\* A queue keeps its own order.
LEMMA OrderKept == ASSUME NEW s PROVE KeepsOrder(s, s)
BY DEF KeepsOrder

\* Taking the head off keeps the order.
LEMMA TailOrder ==
    ASSUME NEW S, NEW s, NEW r \in Seq(S), r # <<>>, KeepsOrder(s, r)
    PROVE  KeepsOrder(s, Tail(r))
<1>1. /\ Len(Tail(r)) = Len(r) - 1 /\ Len(r) \in Nat
      /\ \A i \in 1 .. Len(Tail(r)) : Tail(r)[i] = r[i + 1]
  BY HeadTailProperties, LenProperties
<1> SUFFICES ASSUME NEW i \in 1 .. Len(Tail(r)), NEW j \in 1 .. Len(Tail(r)), i < j,
                    Tail(r)[i] # Idle, Tail(r)[j] # Idle, IsElem(Tail(r)[j], s)
             PROVE  \E k, l \in 1 .. Len(s) :
                        k < l /\ s[k] = Tail(r)[i] /\ s[l] = Tail(r)[j]
  BY DEF KeepsOrder
<1>2. /\ i + 1 \in 1 .. Len(r) /\ j + 1 \in 1 .. Len(r) /\ i + 1 < j + 1
      /\ Tail(r)[i] = r[i + 1] /\ Tail(r)[j] = r[j + 1]
  BY <1>1
<1> QED BY <1>2 DEF KeepsOrder

\* So does adding idle, or newcomers, at the end.
LEMMA ConcatOrder ==
    ASSUME NEW S, NEW s, NEW r \in Seq(S), NEW w \in Seq(S), KeepsOrder(s, r),
           \A t : IsElem(t, w) => t = Idle \/ ~IsElem(t, s)
    PROVE  KeepsOrder(s, r \o w)
<1>1. /\ Len(r \o w) = Len(r) + Len(w) /\ Len(r) \in Nat /\ Len(w) \in Nat
      /\ \A i \in 1 .. Len(r) + Len(w) :
            (r \o w)[i] = IF i <= Len(r) THEN r[i] ELSE w[i - Len(r)]
  BY ConcatProperties, LenProperties
<1> SUFFICES ASSUME NEW i \in 1 .. Len(r) + Len(w), NEW j \in 1 .. Len(r) + Len(w), i < j,
                    (r \o w)[i] # Idle, (r \o w)[j] # Idle, IsElem((r \o w)[j], s)
             PROVE  \E k, l \in 1 .. Len(s) :
                        k < l /\ s[k] = (r \o w)[i] /\ s[l] = (r \o w)[j]
  BY <1>1 DEF KeepsOrder
<1>2. CASE j > Len(r)
  <2>1. j - Len(r) \in 1 .. Len(w) /\ (r \o w)[j] = w[j - Len(r)]
    BY <1>1, <1>2
  <2>2. IsElem((r \o w)[j], w)
    BY <2>1 DEF IsElem
  <2> QED BY <2>2
<1>3. CASE j <= Len(r)
  <2>1. /\ i \in 1 .. Len(r) /\ j \in 1 .. Len(r)
        /\ (r \o w)[i] = r[i] /\ (r \o w)[j] = r[j]
    BY <1>1, <1>3
  <2> QED BY <2>1 DEF KeepsOrder
<1>4. j \in Nat
  BY <1>1
<1>5. j > Len(r) \/ j <= Len(r)
  BY <1>1, <1>4
<1> QED BY <1>2, <1>3, <1>5

LEMMA AppendOrder ==
    ASSUME NEW S, NEW s, NEW r \in Seq(S), NEW e \in S, KeepsOrder(s, r),
           e = Idle \/ ~IsElem(e, s)
    PROVE  KeepsOrder(s, Append(r, e))
<1>1. Append(r, e) = r \o <<e>> /\ <<e>> \in Seq(S)
  BY AppendIsConcat
<1>2. \A t : IsElem(t, <<e>>) => t = e
  BY DEF IsElem
<1> QED BY <1>1, <1>2, ConcatOrder

\* schedule_preempt_disabled() takes a thread off, puts idle at the end, and
\* the current thread behind it.
LEMMA ScheduleOrder ==
    ASSUME SchedConstants, QueueInv, SchedulePreemptDisabled
    PROVE  KeepsOrder(ready, ready')
<1> USE DEF QueueInv, QueueType
<1>1. CASE ready' = ready
  BY <1>1, OrderKept
<1>2. CASE ready # <<>> /\ ready' = Requeue(current)
  <2>1. Others \in Seq(Thread) /\ KeepsOrder(ready, Others)
    <3>1. /\ Tail(ready) \in Seq(Thread) /\ KeepsOrder(ready, Tail(ready))
          /\ Len(Tail(ready)) = Len(ready) - 1 /\ Len(ready) \in Nat
      BY <1>2, OrderKept, TailOrder, TailElems, LenProperties
    <3>2. CASE SkipIdle
      <4>1. Tail(ready) # <<>>
        <5>1. Len(Tail(ready)) > 0
          BY <3>1, <3>2 DEF SkipIdle
        <5> QED BY <3>1, <5>1, NotEmpty
      <4>2. Tail(Tail(ready)) \in Seq(Thread) /\ KeepsOrder(ready, Tail(Tail(ready)))
        BY <3>1, <4>1, TailOrder, TailElems
      <4>3. KeepsOrder(ready, Append(Tail(Tail(ready)), Idle))
        BY <4>2, AppendOrder DEF SchedConstants
      <4> QED BY <3>2, <4>2, <4>3, AppendElems DEF Others, SchedConstants
    <3>3. CASE ~SkipIdle
      BY <3>1, <3>3 DEF Others
    <3> QED BY <3>2, <3>3
  <2>2. CASE state[current] = "RUNNING"
    <3>1. ~IsElem(current, ready)
      BY <2>2 DEF QueueDiscipline
    <3> QED BY <1>2, <2>1, <2>2, <3>1, AppendOrder DEF Requeue
  <2>3. CASE state[current] # "RUNNING"
    BY <1>2, <2>1, <2>3 DEF Requeue
  <2> QED BY <2>2, <2>3
<1> QED BY <1>1, <1>2 DEF SchedulePreemptDisabled, queues

\* wake_up_preempt_disabled() adds threads that were waiting.
LEMMA WakeOrder ==
    ASSUME QueueInv, NEW q \in WaitQueue, Wake(q)
    PROVE  KeepsOrder(ready, ready')
<1>1. /\ Sleepers(q) \in Seq(Thread)
      /\ \A t : IsElem(t, Sleepers(q)) <=> IsElem(t, waitq[q]) /\ t # current
  BY SleepersElems
<1>2. \A t \in Thread : IsElem(t, waitq[q]) => ~IsElem(t, ready)
  BY DEF QueueInv, QueueDiscipline, Waiting
<1>3. \A t : IsElem(t, Sleepers(q)) => t \in Thread
  BY <1>1, ElementOfSeq DEF IsElem
<1> QED BY <1>1, <1>2, <1>3, OrderKept, ConcatOrder DEF Wake, AddTail, QueueInv, QueueType

\* Every step keeps the order of the ready queue.
LEMMA NextOrder == SchedConstants /\ Inv /\ [Next]_vars => KeepsOrder(ready, ready')
<1> SUFFICES ASSUME SchedConstants, Inv, [Next]_vars PROVE KeepsOrder(ready, ready')
  OBVIOUS
<1> USE DEF Inv
<1>1. CASE Yield \/ HandlerSchedule
  BY <1>1, ScheduleOrder DEF Yield, HandlerSchedule
<1>2. CASE \E t \in Thread : ThreadCreate(t)
  <2>1. PICK t \in Thread : ThreadCreate(t)
    BY <1>2
  <2>2. ~IsElem(t, ready) /\ ready \in Seq(Thread) /\ ready' = Append(ready, t)
    BY <2>1 DEF ThreadCreate, QueueInv, QueueType, QueueDiscipline
  <2> QED BY <2>2, OrderKept, AppendOrder
<1>3. CASE \E q \in WaitQueue : WakeUp(q) \/ HandlerWake(q)
  BY <1>3, WakeOrder DEF WakeUp, HandlerWake
<1>4. CASE UNCHANGED ready
  BY <1>4, OrderKept
<1>5. \/ Yield \/ HandlerSchedule \/ \E t \in Thread : ThreadCreate(t)
      \/ \E q \in WaitQueue : WakeUp(q) \/ HandlerWake(q)
      \/ UNCHANGED ready
  BY DEF Next, vars, queues, Section, Wait, Fetch, Clear, Leave, HandlerDone, Irq
<1> QED BY <1>1, <1>2, <1>3, <1>4, <1>5

\* No thread overtakes another on the ready queue, whatever is created,
\* woken, or switched: only idle is passed by.
THEOREM NobodyOvertakes == Spec => NoOvertaking
<1>1. ASSUME KeepsOrder(ready, ready')
      PROVE  \A t \in Thread \ {Idle} :
                 IsElem(t, ready) /\ IsElem(t, ready') =>
                     Ahead(t, ready') \subseteq Ahead(t, ready)
  <2> SUFFICES ASSUME NEW t \in Thread \ {Idle}, IsElem(t, ready),
                      NEW u \in Ahead(t, ready')
               PROVE  u \in Ahead(t, ready)
    OBVIOUS
  <2>1. PICK i, j \in 1 .. Len(ready') : i < j /\ ready'[i] = u /\ ready'[j] = t
    BY DEF Ahead
  <2>2. u \in Thread \ {Idle}
    BY DEF Ahead
  <2>3. \E k, l \in 1 .. Len(ready) : k < l /\ ready[k] = u /\ ready[l] = t
    BY <1>1, <2>1, <2>2 DEF KeepsOrder
  <2> QED BY <2>2, <2>3 DEF Ahead
<1>2. SchedConstants /\ Inv /\ [Next]_vars =>
         [\A t \in Thread \ {Idle} :
             IsElem(t, ready) /\ IsElem(t, ready') =>
                 Ahead(t, ready') \subseteq Ahead(t, ready)]_vars
  BY <1>1, NextOrder
<1> QED BY <1>2, Invariance, SchedConstants, PTL DEF Spec, NoOvertaking
=============================================================================
