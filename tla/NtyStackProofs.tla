--------------------------- MODULE NtyStackProofs ---------------------------
(***************************************************************************)
(* The shared stack gives every coroutine its own words back, for every    *)
(* number of coroutines, every depth and every order of resumptions.       *)
(***************************************************************************)
EXTENDS NtySwitch, TLAPS

\* What StackIntact needs of the coroutines that are not running: the saved
\* copy of a suspended one holds its words, last word first.
SavedIntact ==
  \A c \in Co : state[c] = "suspended" =>
    /\ Len(stack[c]) = Len(own[c]) /\ Len(own[c]) \in 1..Depth
    /\ \A i \in 1..Len(own[c]) : stack[c][i] = own[c][Len(own[c]) - i + 1]

\* Only curr runs, and it has at least the frame of _exec on the stack.
OnlyCurrRuns ==
  /\ \A c \in Co : state[c] = "running" <=> curr = c
  /\ curr # NIL => sp \in 1..Depth

Inv == TypeOK /\ SavedIntact /\ OnlyCurrRuns /\ StackIntact

\* The saved copy and the copy back are inverse: what Load puts on the stack is
\* the saved copy from its end.
LEMMA Loaded ==
  ASSUME NEW c \in Co, TypeOK, SavedIntact, state[c] = "suspended"
  PROVE  /\ Load(c) \in [1..Depth -> Word]
         /\ \A p \in 1..Len(stack[c]) : Load(c)[p] = own[c][p]
<1>1. stack[c] \in Seq(Word) /\ own[c] \in Seq(Word) /\ mem \in [1..Depth -> Word]
  BY DEF TypeOK
<1>2. Len(stack[c]) = Len(own[c]) /\ Len(own[c]) \in 1..Depth
  BY DEF SavedIntact
<1>3. Depth \in Nat
  BY StackAssumption
<1>4. ASSUME NEW p \in 1..Depth, p <= Len(stack[c])
      PROVE  Len(stack[c]) - p + 1 \in 1..Len(own[c])
  BY <1>2, <1>3, <1>4
<1>5. Load(c) \in [1..Depth -> Word]
  <2>1. \A i \in 1..Len(stack[c]) : stack[c][i] \in Word
    BY <1>1
  <2>2. ASSUME NEW p \in 1..Depth
        PROVE  (IF p <= Len(stack[c]) THEN stack[c][Len(stack[c]) - p + 1] ELSE mem[p]) \in Word
    BY <1>1, <1>2, <1>4, <2>1
  <2> QED
    BY <2>2 DEF Load
<1>6. ASSUME NEW p \in 1..Len(stack[c])
      PROVE  Load(c)[p] = own[c][p]
  <2>1. p \in 1..Depth /\ p <= Len(stack[c])
    BY <1>2, <1>3
  <2>2. Load(c)[p] = stack[c][Len(stack[c]) - p + 1]
    BY <2>1 DEF Load
  <2>3. Len(stack[c]) - p + 1 \in 1..Len(own[c])
    BY <2>1, <1>4
  <2>4. stack[c][Len(stack[c]) - p + 1] = own[c][Len(own[c]) - (Len(stack[c]) - p + 1) + 1]
    BY <2>3 DEF SavedIntact
  <2>5. Len(own[c]) - (Len(stack[c]) - p + 1) + 1 = p
    BY <1>2, <1>3
  <2> QED
    BY <2>2, <2>4, <2>5
<1> QED
  BY <1>5, <1>6

\* The words of the shared stack keep their type and every frame stays within
\* sched->stack_size.
LEMMA InitInv == Init => Inv
  BY StackAssumption DEF Init, Inv, TypeOK, SavedIntact, OnlyCurrRuns, StackIntact

\* Every operation of the stack preserves Inv.
LEMMA NextInv == Inv /\ [Next]_vars => Inv'
<1> SUFFICES ASSUME Inv, [Next]_vars PROVE Inv'
  OBVIOUS
<1> USE StackAssumption
<1>1. ASSUME NEW c \in Co, NEW p \in 0..Depth, Create(c, p) PROVE Inv'
  <2>1. TypeOK'
    BY <1>1 DEF Inv, TypeOK, Create
  <2>2. SavedIntact'
    BY <1>1 DEF Inv, TypeOK, SavedIntact, Create
  <2>3. OnlyCurrRuns' /\ StackIntact'
    BY <1>1 DEF Inv, TypeOK, OnlyCurrRuns, StackIntact, Create
  <2> QED BY <2>1, <2>2, <2>3 DEF Inv
<1>2. ASSUME NEW c \in Co, NEW w \in Word, Start(c, w) PROVE Inv'
  <2>1. TypeOK'
    BY <1>2 DEF Inv, TypeOK, Start
  <2>2. SavedIntact'
    BY <1>2 DEF Inv, TypeOK, SavedIntact, Start
  <2>3. OnlyCurrRuns'
    BY <1>2 DEF Inv, TypeOK, OnlyCurrRuns, Start
  <2>4. StackIntact'
    BY <1>2 DEF Inv, TypeOK, StackIntact, Start
  <2> QED BY <2>1, <2>2, <2>3, <2>4 DEF Inv
<1>3. ASSUME NEW c \in Co, Resume(c) PROVE Inv'
  <2>0. /\ Load(c) \in [1..Depth -> Word]
        /\ \A p \in 1..Len(stack[c]) : Load(c)[p] = own[c][p]
        /\ Len(stack[c]) = Len(own[c]) /\ Len(own[c]) \in 1..Depth
    BY <1>3, Loaded DEF Inv, Resume, SavedIntact
  <2>1. TypeOK'
    BY <1>3, <2>0 DEF Inv, TypeOK, Resume
  <2>2. SavedIntact'
    BY <1>3 DEF Inv, TypeOK, SavedIntact, Resume
  <2>3. OnlyCurrRuns'
    BY <1>3, <2>0 DEF Inv, TypeOK, OnlyCurrRuns, Resume
  <2>4. StackIntact'
    BY <1>3, <2>0 DEF Inv, TypeOK, StackIntact, Resume
  <2> QED BY <2>1, <2>2, <2>3, <2>4 DEF Inv
<1>4. ASSUME NEW c \in Co, NEW w \in Word, Push(c, w) PROVE Inv'
  <2>0. own[c] \in Seq(Word) /\ sp = Len(own[c]) /\ state[c] = "running"
    BY <1>4 DEF Inv, TypeOK, StackIntact, OnlyCurrRuns, Push
  <2>1. TypeOK'
    BY <1>4, <2>0 DEF Inv, TypeOK, Push
  <2>2. SavedIntact'
    BY <1>4, <2>0 DEF Inv, TypeOK, SavedIntact, Push
  <2>3. OnlyCurrRuns'
    BY <1>4, <2>0 DEF Inv, TypeOK, OnlyCurrRuns, Push
  <2>4. StackIntact'
    BY <1>4, <2>0 DEF Inv, TypeOK, StackIntact, Push
  <2> QED BY <2>1, <2>2, <2>3, <2>4 DEF Inv
<1>5. ASSUME NEW c \in Co, Pop(c) PROVE Inv'
  <2>0. own[c] \in Seq(Word) /\ sp = Len(own[c]) /\ state[c] = "running"
    BY <1>5 DEF Inv, TypeOK, StackIntact, OnlyCurrRuns, Pop
  <2>1. TypeOK'
    BY <1>5, <2>0 DEF Inv, TypeOK, Pop
  <2>2. SavedIntact'
    BY <1>5, <2>0 DEF Inv, TypeOK, SavedIntact, Pop
  <2>3. OnlyCurrRuns'
    BY <1>5, <2>0 DEF Inv, TypeOK, OnlyCurrRuns, Pop
  <2>4. StackIntact'
    BY <1>5, <2>0 DEF Inv, TypeOK, StackIntact, Pop
  <2> QED BY <2>1, <2>2, <2>3, <2>4 DEF Inv
<1>6. ASSUME NEW c \in Co, NEW w \in Word, NEW p \in 1..Depth, Assign(c, p, w) PROVE Inv'
  <2>0. own[c] \in Seq(Word) /\ sp = Len(own[c]) /\ state[c] = "running" /\ p \in 1..Len(own[c])
    BY <1>6 DEF Inv, TypeOK, StackIntact, OnlyCurrRuns, Assign
  <2>1. TypeOK'
    BY <1>6, <2>0 DEF Inv, TypeOK, Assign
  <2>2. SavedIntact'
    BY <1>6, <2>0 DEF Inv, TypeOK, SavedIntact, Assign
  <2>3. OnlyCurrRuns'
    BY <1>6, <2>0 DEF Inv, TypeOK, OnlyCurrRuns, Assign
  <2>4. StackIntact'
    BY <1>6, <2>0 DEF Inv, TypeOK, StackIntact, Assign
  <2> QED BY <2>1, <2>2, <2>3, <2>4 DEF Inv
<1>7. ASSUME NEW c \in Co, Yield(c) PROVE Inv'
  <2>0. /\ own[c] \in Seq(Word) /\ sp = Len(own[c]) /\ sp \in 1..Depth
        /\ \A p \in 1..sp : mem[p] = own[c][p]
    BY <1>7 DEF Inv, TypeOK, StackIntact, OnlyCurrRuns, Yield
  <2>1. Save(c) \in Seq(Word) /\ Len(Save(c)) = sp
        /\ \A i \in 1..sp : Save(c)[i] = own[c][sp - i + 1]
    <3>1. \A i \in 1..sp : sp - i + 1 \in 1..sp /\ sp - i + 1 \in 1..Depth
      BY <2>0
    <3>2. Save(c) = [i \in 1..sp |-> mem[sp - i + 1]]
      BY DEF Save
    <3>3. Save(c) \in [1..sp -> Word]
      BY <3>1, <3>2 DEF Inv, TypeOK
    <3>4. Save(c) \in Seq(Word) /\ Len(Save(c)) = sp
      BY <3>3, <2>0
    <3> QED BY <3>1, <3>2, <3>4, <2>0
  <2>2. TypeOK'
    BY <1>7, <2>1 DEF Inv, TypeOK, Yield
  <2>3. SavedIntact'
    BY <1>7, <2>0, <2>1 DEF Inv, TypeOK, SavedIntact, Yield
  <2>4. OnlyCurrRuns' /\ StackIntact'
    BY <1>7 DEF Inv, TypeOK, OnlyCurrRuns, StackIntact, Yield
  <2> QED BY <2>2, <2>3, <2>4 DEF Inv
<1>8. ASSUME NEW c \in Co, Exit(c) PROVE Inv'
  <2>1. TypeOK'
    BY <1>8 DEF Inv, TypeOK, Exit
  <2>2. SavedIntact'
    BY <1>8 DEF Inv, TypeOK, SavedIntact, Exit
  <2>3. OnlyCurrRuns' /\ StackIntact'
    BY <1>8 DEF Inv, TypeOK, OnlyCurrRuns, StackIntact, Exit
  <2> QED BY <2>1, <2>2, <2>3 DEF Inv
<1>9. CASE UNCHANGED vars
  BY <1>9 DEF Inv, TypeOK, SavedIntact, OnlyCurrRuns, StackIntact, vars
<1> QED
  BY <1>1, <1>2, <1>3, <1>4, <1>5, <1>6, <1>7, <1>8, <1>9 DEF Next

\* A running coroutine finds on the shared stack the words it left there,
\* whatever ran in between (nty_coroutine_yield, nty_coroutine_resume).
THEOREM StackKept == Spec => []StackIntact
<1>1. Inv => StackIntact
  BY DEF Inv
<1> QED
  BY InitInv, NextInv, <1>1, PTL DEF Spec

\* The ready queue and the stack keep out of each other's way: every step of
\* the two together (nty_coroutine_create, nty_coroutine_resume from the queue,
\* nty_coroutine_sleep, nty_coroutine_renice) is a step of each, or leaves it
\* alone, so that StackKept and the theorems on the queue hold of both together.
\* That a coroutine that queues itself is not queued is OnePlace of NtyScheduler.
THEOREM SwitchIsBoth == SpecSwitch => Spec /\ SpecQueue
<1>1. InitSwitch => Init /\ InitQueue
  BY DEF InitSwitch
<1>2. [NextSwitch]_switchVars => [Next]_vars /\ [NextQueue]_queueVars
  <2> SUFFICES ASSUME [NextSwitch]_switchVars PROVE [Next]_vars /\ [NextQueue]_queueVars
    OBVIOUS
  <2>1. CASE UNCHANGED switchVars
    BY <2>1 DEF switchVars, vars, queueVars
  <2>2. ASSUME NEW c \in Co, NEW p \in 0..Depth, CreateReady(c, p)
        PROVE  Next /\ NextQueue
    BY <2>2, SwitchAssumption DEF CreateReady, Next, NextQueue
  <2>3. ASSUME NEW c \in Co, RunFirst(c) PROVE Next /\ NextQueue
    BY <2>3 DEF RunFirst, Next, NextQueue
  <2>4. ASSUME NEW c \in Co, RunWoken(c) PROVE Next /\ UNCHANGED queueVars
    BY <2>4 DEF RunWoken, Next
  <2>5. ASSUME NEW c \in Co, Requeue(c) PROVE Next /\ NextQueue
    BY <2>5, SwitchAssumption DEF Requeue, Next, NextQueue
  <2>6. ASSUME NEW c \in Co, Suspend(c) PROVE Next /\ UNCHANGED queueVars
    BY <2>6 DEF Suspend, Next
  <2>7. ASSUME NEW c \in Co, Work(c) PROVE Next /\ UNCHANGED queueVars
    BY <2>7 DEF Work, Next
  <2> QED
    BY <2>1, <2>2, <2>3, <2>4, <2>5, <2>6, <2>7 DEF NextSwitch
<1> QED
  BY <1>1, <1>2, PTL DEF SpecSwitch, Spec, SpecQueue
=============================================================================
