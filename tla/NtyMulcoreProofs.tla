-------------------------- MODULE NtyMulcoreProofs --------------------------
(***************************************************************************)
(* The count that the processes of nty_server_mulcore.c share loses no     *)
(* update, and the accept lock of nty_http_server_mulcore.c is never       *)
(* taken, for every number of processes and readers and every width of an  *)
(* int that holds them all.                                                *)
(*                                                                         *)
(* The two need each other: the exchange of the total compares the lock    *)
(* word with 0 too, so the loops end only while the lock is not taken, and *)
(* the lock word stays 0 only while the total never goes below zero.       *)
(***************************************************************************)
EXTENDS NtyMulcore, FiniteSetTheorems, TLAPS

-----------------------------------------------------------------------------
(* The inductive invariant *)

\* The shared memory: the total is an int that is not negative, nobody has the
\* lock, and the time is set
Memory ==
  /\ shm \in [1..3 -> Int]
  /\ shm[TOTAL] \in 0..(Half - 1) /\ shm[LOCK] = 0 /\ shm[3] \in 1..(Top - 1)

Locals ==
  /\ pc \in [Proc -> {"sched", "add", "add_cas", "added", "sub", "sub_cas"}]
  /\ value \in [Proc -> 0..(Half - 1)]
  /\ readers \in [Proc -> Nat] /\ stuck \in [Proc -> Nat]
  /\ told \in [Proc -> SUBSET {0}]

\* A coroutine about to be counted is there, and one about to be discounted has
\* left room
Bounded ==
  \A p \in Proc :
    /\ readers[p] + stuck[p] <= MaxConn
    /\ pc[p] \in {"add", "add_cas"} => readers[p] + stuck[p] > 0
    /\ pc[p] \in {"sub", "sub_cas"} => readers[p] + stuck[p] < MaxConn

Inv == Memory /\ Locals /\ Bounded /\ TotalExact

\* No exchange of the lock word has stored, and every caller was told 0
LockNeverTaken == shm[LOCK] = 0 /\ \A p \in Proc : told[p] \subseteq {0}

-----------------------------------------------------------------------------
(* The count of coroutines *)

LEMMA FewerThanHalf ==
  ASSUME NEW S \in SUBSET (Proc \X (1..MaxConn))
  PROVE  IsFiniteSet(S) /\ Cardinality(S) \in Nat /\ Cardinality(S) < Half
<1>1. IsFiniteSet(1..MaxConn) /\ Cardinality(1..MaxConn) = MaxConn
  BY MulcoreAssumption, FS_Interval
<1>2. /\ IsFiniteSet(Proc \X (1..MaxConn))
      /\ Cardinality(Proc \X (1..MaxConn)) = Cardinality(Proc) * MaxConn
  BY <1>1, MulcoreAssumption, FS_Product
<1>3. IsFiniteSet(S) /\ Cardinality(S) <= Cardinality(Proc) * MaxConn
  BY <1>2, FS_Subset
<1>4. Cardinality(S) \in Nat /\ Cardinality(Proc) * MaxConn \in Nat
  BY <1>2, <1>3, FS_CardinalityType
<1> QED
  BY <1>3, <1>4, MulcoreAssumption

LEMMA CountedFinite ==
  /\ IsFiniteSet(Counted) /\ Cardinality(Counted) \in Nat /\ Cardinality(Counted) < Half
<1>1. Counted \in SUBSET (Proc \X (1..MaxConn))
  BY DEF Counted
<1> QED
  BY <1>1, FewerThanHalf

LEMMA CountedIn == ASSUME Locals, Bounded, NEW p \in Proc PROVE CountedBy(p) \in 0..MaxConn
  BY MulcoreAssumption DEF Locals, Bounded, CountedBy

\* The words of a non-negative int, and that the loops test enough
LEMMA Positive ==
  ASSUME NEW v \in 0..(Half - 1) PROVE Long(v) = <<v, 0>> /\ Int32(v) = v
<1>1. v % Top = v
  BY MulcoreAssumption DEF Top
<1>2. v < Half /\ ~(v < 0)
  BY MulcoreAssumption
<1> QED
  BY <1>1, <1>2 DEF Long, Unsigned, Int32

LEMMA TotalIs ==
  ASSUME Inv
  PROVE  shm[TOTAL] = Cardinality(Counted) /\ Returned(TOTAL) = shm[TOTAL]
  BY Positive DEF Inv, Memory, TotalExact, Returned

LEMMA Exchanged ==
  ASSUME Inv, NEW v \in 0..(Half - 1), NEW w
  PROVE  Cmpxchg(TOTAL, v, w) = IF shm[TOTAL] = v
                                  THEN [shm EXCEPT ![1] = Long(w)[1], ![2] = Long(w)[2]]
                                  ELSE shm
<1>1. CmpxchgStores(TOTAL, v) <=> shm[TOTAL] = v
  BY Positive DEF CmpxchgStores, Inv, Memory, TOTAL, LOCK
<1> QED
  BY <1>1 DEF Cmpxchg, TOTAL

LEMMA CountSame ==
  ASSUME \A p \in Proc : CountedBy(p)' = CountedBy(p) PROVE Counted' = Counted
  BY DEF Counted

LEMMA CountUp ==
  ASSUME NEW p \in Proc, CountedBy(p) \in 0..MaxConn, CountedBy(p)' = CountedBy(p) + 1,
         CountedBy(p)' <= MaxConn, \A q \in Proc \ {p} : CountedBy(q)' = CountedBy(q)
  PROVE  Cardinality(Counted') = Cardinality(Counted) + 1
<1> DEFINE n == CountedBy(p)
<1>0. n \in Nat /\ n + 1 \in 1..MaxConn /\ MaxConn \in Nat
  BY MulcoreAssumption
<1>1. ASSUME NEW q \in Proc, NEW i \in 1..MaxConn
      PROVE  i <= CountedBy(q)' <=> i <= CountedBy(q) \/ (q = p /\ i = n + 1)
  <2>1. CASE q = p
    BY <1>0, <2>1
  <2>2. CASE q # p
    BY <2>2
  <2> QED
    BY <2>1, <2>2
<1>2. Counted' = Counted \cup {<<p, n + 1>>}
  BY <1>0, <1>1 DEF Counted
<1>3. <<p, n + 1>> \notin Counted
  BY <1>0 DEF Counted
<1> QED
  BY <1>2, <1>3, CountedFinite, FS_AddElement

LEMMA CountDown ==
  ASSUME NEW p \in Proc, CountedBy(p) \in 1..MaxConn, CountedBy(p)' = CountedBy(p) - 1,
         \A q \in Proc \ {p} : CountedBy(q)' = CountedBy(q)
  PROVE  /\ Cardinality(Counted') = Cardinality(Counted) - 1
         /\ Cardinality(Counted) > 0
<1> DEFINE n == CountedBy(p)
<1>0. n \in 1..MaxConn /\ MaxConn \in Nat
  BY MulcoreAssumption
<1>1. ASSUME NEW q \in Proc, NEW i \in 1..MaxConn
      PROVE  i <= CountedBy(q)' <=> i <= CountedBy(q) /\ ~(q = p /\ i = n)
  <2>1. CASE q = p
    BY <1>0, <2>1
  <2>2. CASE q # p
    BY <2>2
  <2> QED
    BY <2>1, <2>2
<1>2. Counted' = Counted \ {<<p, n>>}
  BY <1>0, <1>1 DEF Counted
<1>3. <<p, n>> \in Counted
  BY <1>0 DEF Counted
<1>4. Cardinality(Counted) # 0
  BY <1>3, CountedFinite, FS_EmptySet
<1> QED
  BY <1>2, <1>3, <1>4, CountedFinite, FS_RemoveElement

-----------------------------------------------------------------------------
(* The steps *)

\* A step that leaves the total and the lock as they are and counts nothing
LEMMA NothingCounted ==
  ASSUME Inv, Memory', Locals', Bounded', shm'[TOTAL] = shm[TOTAL],
         \A q \in Proc : CountedBy(q)' = CountedBy(q)
  PROVE  Inv'
<1>1. Counted' = Counted
  BY CountSame
<1> QED
  BY <1>1 DEF Inv, TotalExact, Int32, Top

\* An exchange of the total that stores
LEMMA Stored ==
  ASSUME Inv, NEW w \in 0..(Half - 1), shm' = [shm EXCEPT ![1] = Long(w)[1], ![2] = Long(w)[2]],
         Locals', Bounded', w = Cardinality(Counted')
  PROVE  Inv'
<1>1. Long(w)[1] = w /\ Long(w)[2] = 0 /\ Int32(w) = w
  BY Positive
<1>2. shm' = [shm EXCEPT ![1] = w, ![2] = 0]
  BY <1>1
<1>3. shm'[TOTAL] = w /\ shm'[LOCK] = 0 /\ shm'[3] = shm[3] /\ shm' \in [1..3 -> Int]
  BY <1>2 DEF Inv, Memory, TOTAL, LOCK
<1>4. Memory'
  BY <1>3 DEF Inv, Memory, Top
<1>5. TotalExact'
  BY <1>1, <1>3 DEF TotalExact, Int32, Top
<1> QED
  BY <1>4, <1>5 DEF Inv

LEMMA AcceptsInv == ASSUME Inv, NEW p \in Proc, Accepts(p) PROVE Inv'
<1> USE MulcoreAssumption DEF Accepts
<1>1. Memory' /\ shm'[TOTAL] = shm[TOTAL]
  BY DEF Inv, Memory
<1>2. Locals' /\ Bounded'
  BY DEF Inv, Locals, Bounded
<1>3. \A q \in Proc : CountedBy(q)' = CountedBy(q)
  BY DEF Inv, Locals, CountedBy
<1> QED
  BY <1>1, <1>2, <1>3, NothingCounted

LEMMA ReaderEndsInv == ASSUME Inv, NEW p \in Proc, ReaderEnds(p) PROVE Inv'
<1> USE MulcoreAssumption DEF ReaderEnds
<1>1. Memory' /\ shm'[TOTAL] = shm[TOTAL]
  BY DEF Inv, Memory
<1>2. Locals' /\ Bounded'
  BY DEF Inv, Locals, Bounded
<1>3. \A q \in Proc : CountedBy(q)' = CountedBy(q)
  BY DEF Inv, Locals, CountedBy
<1> QED
  BY <1>1, <1>2, <1>3, NothingCounted

LEMMA ReadsInv == ASSUME Inv, NEW p \in Proc, AddReads(p) \/ SubReads(p) PROVE Inv'
<1> USE DEF AddReads, SubReads
<1>1. Memory' /\ shm'[TOTAL] = shm[TOTAL]
  BY DEF Inv, Memory
<1>2. Int32(shm[TOTAL]) \in 0..(Half - 1)
  BY Positive DEF Inv, Memory
<1>3. Locals' /\ Bounded'
  BY <1>2 DEF Inv, Locals, Bounded
<1>4. \A q \in Proc : CountedBy(q)' = CountedBy(q)
  BY DEF Inv, Locals, CountedBy
<1> QED
  BY <1>1, <1>3, <1>4, NothingCounted

LEMMA AddedInv == ASSUME Inv, NEW p \in Proc, Added(p) PROVE Inv'
<1>1. Memory' /\ shm'[TOTAL] = shm[TOTAL]
  BY MulcoreAssumption DEF Added, Inv, Memory, TOTAL, LOCK, Top
<1>2. Locals' /\ Bounded'
  BY MulcoreAssumption DEF Added, Inv, Locals, Bounded
<1>3. \A q \in Proc : CountedBy(q)' = CountedBy(q)
  BY DEF Added, Inv, Locals, CountedBy
<1> QED
  BY <1>1, <1>2, <1>3, NothingCounted

LEMMA AddExchangesInv == ASSUME Inv, NEW p \in Proc, AddExchanges(p) PROVE Inv'
<1> DEFINE v == value[p]
<1>1. v \in 0..(Half - 1)
  BY DEF Inv, Locals
<1>2. /\ pc[p] = "add_cas" /\ UNCHANGED <<value, readers, stuck, told>>
      /\ pc' = [pc EXCEPT ![p] = IF shm[TOTAL] = v THEN "added" ELSE "add"]
      /\ shm' = IF shm[TOTAL] = v
                  THEN [shm EXCEPT ![1] = Long(v + 1)[1], ![2] = Long(v + 1)[2]] ELSE shm
  BY <1>1, TotalIs, Exchanged DEF AddExchanges, Retries
<1>3. Locals' /\ Bounded'
  BY <1>2 DEF Inv, Locals, Bounded
<1>4. CASE shm[TOTAL] = v
  <2>1. /\ CountedBy(p)' = CountedBy(p) + 1
        /\ \A q \in Proc \ {p} : CountedBy(q)' = CountedBy(q)
    BY <1>2, <1>4 DEF Inv, Locals, CountedBy
  <2>2. CountedBy(p) \in 0..MaxConn /\ CountedBy(p)' \in 0..MaxConn
    BY <1>3, CountedIn, MulcoreAssumption DEF Inv, Locals, Bounded, CountedBy
  <2>3. Cardinality(Counted') = Cardinality(Counted) + 1
    BY <2>1, <2>2, CountUp, MulcoreAssumption
  <2>4. v = Cardinality(Counted)
    BY <1>4, TotalIs
  <2>5. Cardinality(Counted') < Half
    <3>1. Counted' \in SUBSET (Proc \X (1..MaxConn))
      BY DEF Counted
    <3> QED
      BY <3>1, FewerThanHalf
  <2>6. v + 1 \in 0..(Half - 1)
    BY <1>1, <2>3, <2>4, <2>5, MulcoreAssumption
  <2> QED
    BY <1>2, <1>3, <1>4, <2>3, <2>4, <2>6, Stored
<1>5. CASE shm[TOTAL] # v
  <2>1. Memory' /\ shm'[TOTAL] = shm[TOTAL]
    BY <1>2, <1>5 DEF Inv, Memory
  <2>2. \A q \in Proc : CountedBy(q)' = CountedBy(q)
    BY <1>2, <1>5 DEF Inv, Locals, CountedBy
  <2> QED
    BY <1>3, <2>1, <2>2, NothingCounted
<1> QED
  BY <1>4, <1>5

LEMMA SubExchangesInv == ASSUME Inv, NEW p \in Proc, SubExchanges(p) PROVE Inv'
<1> DEFINE v == value[p]
<1>1. v \in 0..(Half - 1)
  BY DEF Inv, Locals
<1>2. /\ pc[p] = "sub_cas" /\ UNCHANGED <<readers, stuck, told>>
      /\ pc' = [pc EXCEPT ![p] = IF shm[TOTAL] = v THEN "sched" ELSE "sub"]
      /\ value' = IF shm[TOTAL] = v THEN [value EXCEPT ![p] = 0] ELSE value
      /\ shm' = IF shm[TOTAL] = v
                  THEN [shm EXCEPT ![1] = Long(v - 1)[1], ![2] = Long(v - 1)[2]] ELSE shm
  BY <1>1, TotalIs, Exchanged DEF SubExchanges, Retries
<1>3. Locals' /\ Bounded'
  BY <1>2, MulcoreAssumption DEF Inv, Locals, Bounded
<1>4. CASE shm[TOTAL] = v
  <2>1. /\ CountedBy(p)' = CountedBy(p) - 1
        /\ \A q \in Proc \ {p} : CountedBy(q)' = CountedBy(q)
    BY <1>2, <1>4 DEF Inv, Locals, CountedBy
  <2>2. CountedBy(p) \in 1..MaxConn
    BY <1>2, CountedIn, MulcoreAssumption DEF Inv, Locals, Bounded, CountedBy
  <2>3. Cardinality(Counted') = Cardinality(Counted) - 1 /\ Cardinality(Counted) > 0
    BY <2>1, <2>2, CountDown
  <2>4. v = Cardinality(Counted)
    BY <1>4, TotalIs
  <2>5. v - 1 \in 0..(Half - 1)
    BY <1>1, <2>3, <2>4, MulcoreAssumption
  <2> QED
    BY <1>2, <1>3, <1>4, <2>3, <2>4, <2>5, Stored
<1>5. CASE shm[TOTAL] # v
  <2>1. Memory' /\ shm'[TOTAL] = shm[TOTAL]
    BY <1>2, <1>5 DEF Inv, Memory
  <2>2. \A q \in Proc : CountedBy(q)' = CountedBy(q)
    BY <1>2, <1>5 DEF Inv, Locals, CountedBy
  <2> QED
    BY <1>3, <2>1, <2>2, NothingCounted
<1> QED
  BY <1>4, <1>5

\* The seconds are not 0, so no exchange of the lock stores
LEMMA LockInv ==
  ASSUME Inv, NEW p \in Proc, lock_accept_mutex(p) \/ unlock_accept_mutex(p) PROVE Inv'
<1>1. ~CmpxchgStores(LOCK, 0) /\ ~CmpxchgStores(LOCK, 1)
  BY DEF CmpxchgStores, Long, Inv, Memory, LOCK
<1>2. shm' = shm
  BY <1>1 DEF lock_accept_mutex, unlock_accept_mutex, Cmpxchg
<1>3. Returned(LOCK) = 0
  BY MulcoreAssumption DEF Returned, Int32, Inv, Memory
<1>4. Memory' /\ shm'[TOTAL] = shm[TOTAL]
  BY <1>2 DEF Inv, Memory
<1>5. Locals' /\ Bounded'
  BY <1>3 DEF lock_accept_mutex, unlock_accept_mutex, Inv, Locals, Bounded
<1>6. \A q \in Proc : CountedBy(q)' = CountedBy(q)
  BY DEF lock_accept_mutex, unlock_accept_mutex, CountedBy
<1> QED
  BY <1>4, <1>5, <1>6, NothingCounted

-----------------------------------------------------------------------------
(* The theorems *)

LEMMA InvInit == InitMulcore => Inv
<1> SUFFICES ASSUME InitMulcore PROVE Inv
  OBVIOUS
<1>1. shm = <<0, 0, 1>>
  BY DEF InitMulcore, Zeroed
<1>2. Memory
  BY <1>1, MulcoreAssumption DEF Memory, TOTAL, LOCK, Top
<1>3. Locals /\ Bounded
  BY MulcoreAssumption DEF InitMulcore, Locals, Bounded
<1>4. Counted = {}
  BY DEF Counted, CountedBy, InitMulcore
<1>5. TotalExact
  BY <1>1, <1>4, FS_EmptySet, MulcoreAssumption DEF TotalExact, Int32, TOTAL
<1> QED
  BY <1>2, <1>3, <1>5 DEF Inv

LEMMA InvNext == Inv /\ [NextMulcore]_mulcoreVars => Inv'
<1> SUFFICES ASSUME Inv, [NextMulcore]_mulcoreVars PROVE Inv'
  OBVIOUS
<1>1. CASE NextMulcore
  BY <1>1, AcceptsInv, ReadsInv, AddExchangesInv, AddedInv, ReaderEndsInv, SubExchangesInv,
     LockInv DEF NextMulcore
<1>2. CASE UNCHANGED mulcoreVars
  <2>1. Memory' /\ Locals' /\ Bounded' /\ shm'[TOTAL] = shm[TOTAL]
    BY <1>2 DEF mulcoreVars, Inv, Memory, Locals, Bounded
  <2>2. \A q \in Proc : CountedBy(q)' = CountedBy(q)
    BY <1>2 DEF mulcoreVars, CountedBy
  <2> QED
    BY <2>1, <2>2, NothingCounted
<1> QED
  BY <1>1, <1>2

\* The total, the lock word and the time stay in the ranges in which the wide
\* exchange does what the loops expect.
THEOREM Invariance == SpecMulcore => []Inv
  BY InvInit, InvNext, PTL DEF SpecMulcore

\* add_shmvalue and sub_shmvalue lose no update, whatever the number of processes
\* and the order of their exchanges, as long as an int holds all readers.
THEOREM TotalsExact == SpecMulcore => []TotalExact
<1>1. Inv => TotalExact
  BY DEF Inv
<1> QED
  BY <1>1, Invariance, PTL

\* What the count rests on, and why lock_accept_mutex excludes nobody although
\* its comment says `success 0, failed 1`: it tells every caller 0 and stores
\* nothing, as the exchange compares the seconds of tv_begin with 0 too.  If it
\* did store, the exchange of the total would fail without the loops noticing.
THEOREM LockStaysFree == SpecMulcore => []LockNeverTaken
<1>1. Inv => LockNeverTaken
  BY DEF Inv, Memory, Locals, LockNeverTaken
<1> QED
  BY <1>1, Invariance, PTL
=============================================================================
