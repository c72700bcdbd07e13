------------------------ MODULE NtyTailQueueProofs ------------------------
(* The pointers of the ready queue represent a sequence, for any elements.  *)
EXTENDS NtyTailQueue, TLAPS

\* No element is queued twice.
Distinct == \A i, j \in 1..Len(q) : q[i] = q[j] => i = j

Inv == TypeQueue /\ Linked /\ Distinct

LEMMA InsertInv == ASSUME Inv, NEW e \in Elem, InsertTail(e) PROVE Inv'
<1> USE ElemAssumption DEF Inv
<1>1. /\ q \in Seq(Elem) /\ q' = Append(q, e) /\ q' \in Seq(Elem)
      /\ Len(q) \in Nat /\ Len(q') = Len(q) + 1 /\ q'[Len(q) + 1] = e
      /\ \A i \in 1..Len(q) : q'[i] = q[i] /\ q[i] \in Elem /\ q[i] # e
  BY DEF InsertTail, TypeQueue
<1>2. TypeQueue'
  BY <1>1 DEF InsertTail, TypeQueue
<1>3. Distinct'
  BY <1>1 DEF Distinct
<1>4. Linked'
  <2>1. CASE q = << >>
    <3>1. last = HEAD /\ first' = e /\ last' = e
      BY <2>1 DEF Linked, InsertTail
    <3>2. next'[e] = NULL /\ prev'[e] = HEAD /\ q' # << >> /\ Len(q') = 1 /\ q'[1] = e
      BY <1>1, <2>1, <3>1 DEF InsertTail, TypeQueue
    <3> QED
      BY <3>1, <3>2 DEF Linked
  <2>2. CASE q # << >>
    <3> DEFINE n == Len(q)
    <3>1. n \in Nat \ {0} /\ last = q[n] /\ last \in Elem /\ last # e /\ q' # << >>
      BY <1>1, <2>2 DEF Linked
    <3>2. /\ first' = first /\ last' = e
          /\ next' = [next EXCEPT ![e] = NULL, ![last] = e]
          /\ prev' = [prev EXCEPT ![e] = last]
      BY <3>1 DEF InsertTail
    <3>3. /\ next'[e] = NULL /\ next'[last] = e /\ prev'[e] = last
          /\ \A x \in Elem \ {e} : prev'[x] = prev[x] /\ (x # last => next'[x] = next[x])
      BY <3>1, <3>2 DEF TypeQueue
    <3>4. \A i \in 1..(n - 1) : q[i] # last
      BY <1>1, <3>1 DEF Distinct
    <3>5. \A i \in 1..n : /\ next'[q'[i]] = q'[i + 1]
                          /\ prev'[q'[i]] = IF i = 1 THEN HEAD ELSE q'[i - 1]
      <4> SUFFICES ASSUME NEW i \in 1..n
                   PROVE  /\ next'[q[i]] = q'[i + 1]
                          /\ prev'[q[i]] = IF i = 1 THEN HEAD ELSE q'[i - 1]
        BY <1>1
      <4>1. prev'[q[i]] = IF i = 1 THEN HEAD ELSE q'[i - 1]
        BY <1>1, <3>3 DEF Linked
      <4>2. CASE i = n
        BY <1>1, <3>1, <3>3, <4>1, <4>2
      <4>3. CASE i # n
        BY <1>1, <3>3, <3>4, <4>1, <4>3 DEF Linked
      <4> QED
        BY <4>2, <4>3
    <3>6. next'[q'[n + 1]] = NULL /\ prev'[q'[n + 1]] = q'[n]
      BY <1>1, <3>1, <3>3
    <3>7. first' = q'[1] /\ last' = q'[Len(q')]
      BY <1>1, <2>2, <3>1, <3>2 DEF Linked
    <3>8. ASSUME NEW i \in 1..Len(q')
          PROVE  /\ next'[q'[i]] = IF i = Len(q') THEN NULL ELSE q'[i + 1]
                 /\ prev'[q'[i]] = IF i = 1 THEN HEAD ELSE q'[i - 1]
      <4> HIDE DEF n
      <4>1. n \in Nat \ {0} /\ Len(q') = n + 1
        BY <1>1, <3>1 DEF n
      <4>2. CASE i = n + 1
        <5>1. i # 1 /\ i - 1 = n /\ i = Len(q')
          BY <4>1, <4>2
        <5> QED
          BY <3>6, <4>2, <5>1
      <4>3. CASE i # n + 1
        <5>1. i \in 1..n /\ i # Len(q')
          BY <4>1, <4>3
        <5> QED
          BY <3>5, <5>1
      <4> QED
        BY <4>2, <4>3
    <3> QED
      BY <3>1, <3>7, <3>8 DEF Linked
  <2> QED
    BY <2>1, <2>2
<1> QED
  BY <1>2, <1>3, <1>4

LEMMA Positions == \A m \in Nat \ {0} : m # 1 =>
  /\ m \in Nat /\ m > 1 /\ 2 \in 1..m
  /\ 1 \in 1..(m - 1) /\ (m - 1) \in 1..(m - 1) /\ (m - 1) + 1 = m
  OBVIOUS

LEMMA RemoveInv == ASSUME Inv, RemoveFirst PROVE Inv'
<1> USE ElemAssumption DEF Inv
<1> DEFINE e == q[1]
           n == Len(q)
<1>1. q \in Seq(Elem) /\ q # << >> /\ n \in Nat \ {0} /\ q' = Tail(q)
  BY DEF RemoveFirst, Empty, Linked, TypeQueue
<1>0. n \in Nat \ {0}
  BY <1>1
<1>2. /\ q' \in Seq(Elem) /\ Len(q') = n - 1
      /\ \A i \in 1..(n - 1) : q'[i] = q[i + 1]
      /\ \A i \in 1..n : q[i] \in Elem
  BY <1>1
<1>3. \A i \in 2..n : q[i] # e
  BY <1>1 DEF Distinct
<1>4. first = e /\ e \in Elem /\ prev[e] = HEAD /\ next[e] = IF n = 1 THEN NULL ELSE q[2]
  <2>1. n \in Nat \ {0} /\ 1 \in 1..n /\ 1 + 1 = 2
    BY <1>1
  <2>2. first = e /\ e \in Elem
    BY <1>1, <1>2, <2>1 DEF Linked
  <2> QED
    BY <2>1, <2>2 DEF Linked
<1>5. UnlinkBack(e) /\ first' = next[e] /\ next' = next
  BY <1>4 DEF RemoveFirst, First
<1>6. Distinct'
  <2> SUFFICES ASSUME NEW i \in 1..(n - 1), NEW j \in 1..(n - 1), q[i + 1] = q[j + 1]
               PROVE  i = j
    BY <1>2 DEF Distinct
  <2>1. (i + 1) \in 1..n /\ (j + 1) \in 1..n
    BY <1>1
  <2>2. i + 1 = j + 1
    BY <2>1 DEF Distinct
  <2> QED
    BY <2>2
<1> HIDE DEF e
<1>7. CASE n = 1
  <2>1. q' = << >> /\ first' = NULL /\ last' = HEAD /\ prev' = prev
    BY <1>1, <1>2, <1>4, <1>5, <1>7 DEF UnlinkBack
  <2>2. TypeQueue'
    BY <1>2, <1>5, <2>1 DEF TypeQueue
  <2>3. Len(q') = 0
    BY <1>2, <1>7
  <2>4. Linked'
    BY <2>1, <2>3 DEF Linked
  <2> QED
    BY <1>6, <2>2, <2>4
<1>8. CASE n # 1
  <2>1. next[e] = q[2] /\ q[2] \in Elem /\ q[2] # NULL /\ 2 \in 1..n /\ q' # << >>
    <3>1. n \in Nat /\ n > 1 /\ 2 \in 1..n
      BY <1>0, <1>8, Positions
    <3>2. q[2] \in Elem /\ Len(q') # 0
      BY <1>2, <3>1
    <3> QED
      BY <1>4, <1>8, <3>1, <3>2
  <2>2. last' = last /\ prev' = [prev EXCEPT ![q[2]] = HEAD]
    BY <1>4, <1>5, <2>1 DEF UnlinkBack
  <2>3. \A i \in 3..n : q[i] # q[2]
    BY <1>1, <2>1 DEF Distinct
  <2>4. prev'[q[2]] = HEAD /\ \A i \in 3..n : prev'[q[i]] = prev[q[i]]
    BY <1>1, <1>2, <2>1, <2>2, <2>3 DEF TypeQueue
  <2>5. first' = q'[1] /\ last' = q'[n - 1]
    <3>1. last = q[n] /\ q'[1] = q[2] /\ q'[n - 1] = q[n]
      <4>1. /\ n \in Nat /\ 1 \in 1..(n - 1) /\ (n - 1) \in 1..(n - 1)
            /\ (n - 1) + 1 = n
        BY <1>0, <1>8, Positions
      <4>2. q'[1] = q[2] /\ q'[n - 1] = q[n]
        <5>1. 1 + 1 = 2
          OBVIOUS
        <5> QED
          BY <1>2, <4>1, <5>1
      <4> QED
        BY <1>1, <4>2 DEF Linked
    <3> QED
      BY <1>5, <2>1, <2>2, <3>1
  <2>6. ASSUME NEW i \in 1..(n - 1)
        PROVE  /\ next'[q'[i]] = IF i = n - 1 THEN NULL ELSE q'[i + 1]
               /\ prev'[q'[i]] = IF i = 1 THEN HEAD ELSE q'[i - 1]
    <3>1. (i + 1) \in 1..n /\ q'[i] = q[i + 1]
      BY <1>1, <1>2
    <3>2. next[q[i + 1]] = IF i + 1 = n THEN NULL ELSE q[i + 2]
      BY <3>1 DEF Linked
    <3>3. prev[q[i + 1]] = q[i]
      BY <3>1 DEF Linked
    <3>4. ASSUME i # n - 1 PROVE q'[i + 1] = q[i + 2]
      <4>1. (i + 1) \in 1..(n - 1) /\ (i + 1) + 1 = i + 2
        BY <1>1, <3>4
      <4> QED
        BY <1>2, <4>1
    <3>5. ASSUME i # 1 PROVE q'[i - 1] = q[i]
      <4>1. (i - 1) \in 1..(n - 1) /\ (i - 1) + 1 = i
        BY <1>1, <3>5
      <4> QED
        BY <1>2, <4>1
    <3>6. prev'[q[i + 1]] = IF i = 1 THEN HEAD ELSE q[i]
      BY <1>1, <2>4, <3>1, <3>3
    <3> QED
      BY <1>5, <3>1, <3>2, <3>4, <3>5, <3>6
  <2>7. TypeQueue'
    BY <1>2, <1>5, <2>1, <2>2 DEF TypeQueue
  <2>8. Linked'
    BY <1>2, <2>1, <2>5, <2>6 DEF Linked
  <2> QED
    BY <1>6, <2>7, <2>8
<1> QED
  BY <1>7, <1>8

LEMMA InvInit == InitQueue => Inv
  BY ElemAssumption DEF InitQueue, Inv, TypeQueue, Linked, Distinct

\* The pointers of sched->ready represent the sequence of queued coroutines,
\* and TAILQ_LAST finds its last element, after any number of TAILQ_INSERT_TAIL
\* and TAILQ_REMOVE.
THEOREM QueueLinked == SpecQueue => [](Linked /\ LastIsTail)
<1>1. Inv /\ [NextQueue]_queueVars => Inv'
  <2> SUFFICES ASSUME Inv, [NextQueue]_queueVars PROVE Inv'
    OBVIOUS
  <2>1. CASE UNCHANGED queueVars
    BY <2>1 DEF queueVars, Inv, TypeQueue, Linked, Distinct
  <2> QED
    BY <2>1, InsertInv, RemoveInv DEF NextQueue
<1>2. Inv => Linked /\ LastIsTail
  <2> SUFFICES ASSUME Inv PROVE LastIsTail
    BY DEF Inv
  <2>1. CASE q = << >>
    BY <2>1 DEF Inv, Linked, LastIsTail, Last, SecondWord, Deref
  <2>2. CASE Len(q) = 1
    BY <2>2, ElemAssumption DEF Inv, TypeQueue, Linked, LastIsTail, Last, SecondWord, Deref
  <2>3. CASE q # << >> /\ Len(q) # 1
    <3> DEFINE n == Len(q)
    <3>0. n \in Nat /\ n > 1 /\ \A i \in 1..n : q[i] \in Elem
      <4>1. n \in Nat \ {0} /\ \A i \in 1..n : q[i] \in Elem
        BY <2>3 DEF Inv, TypeQueue
      <4> HIDE DEF n
      <4>2. n # 1
        BY <2>3 DEF n
      <4> QED
        BY <4>1, <4>2, Positions
    <3>1. n \in Nat /\ n > 1 /\ q[n] \in Elem /\ q[n - 1] \in Elem
      <4>1. n \in 1..n /\ (n - 1) \in 1..n
        BY <3>0
      <4> QED
        BY <3>0, <4>1
    <3>2. last = q[n] /\ prev[q[n]] = q[n - 1]
      BY <2>3, <3>1 DEF Inv, Linked
    <3>3. next[q[n - 1]] = q[n]
      <4>1. (n - 1) \in 1..n /\ n - 1 # n /\ (n - 1) + 1 = n
        BY <3>1
      <4> QED
        BY <4>1 DEF Inv, Linked
    <3> QED
      BY <2>3, <3>1, <3>2, <3>3, ElemAssumption DEF LastIsTail, Last, SecondWord, Deref
  <2> QED
    BY <2>1, <2>2, <2>3
<1> QED
  BY <1>1, <1>2, InvInit, PTL DEF SpecQueue

\* The sequence that NtyScheduler has for sched->ready is what the pointers of
\* TAILQ_INSERT_TAIL and TAILQ_REMOVE represent.
THEOREM SequenceRepresented == SpecQueue => []Linked
  BY QueueLinked, PTL
=============================================================================
