----------------------------- MODULE MCNtyMemory -----------------------------
(* The two models of memory word by word: the coroutines of one thread on     *)
(* their shared stack, and processes on their shared memory.  They have       *)
(* nothing in common, so at most one of the two leaves its initial state.     *)
EXTENDS NtySwitch, NtyMulcore, TLC

Symmetry ==
  Permutations(Co) \cup Permutations(Word) \cup Permutations(Proc)

\* No coroutine was created yet.  The words of the fresh stack do not matter to
\* the processes, so one content is enough.
NoSwitchYet == InitSwitch /\ \A i, j \in 1..Depth : mem[i] = mem[j]

InitMemory == InitSwitch /\ InitMulcore

NextMemory ==
  \/ InitMulcore /\ NextSwitch /\ UNCHANGED mulcoreVars
  \/ NoSwitchYet /\ NextMulcore /\ UNCHANGED switchVars

SpecMemory == InitMemory /\ [][NextMemory]_<<switchVars, mulcoreVars>>
=============================================================================
