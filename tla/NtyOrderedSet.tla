--------------------------- MODULE NtyOrderedSet ---------------------------
(***************************************************************************)
(* What the red-black trees of nty_tree.h promise their users, and what    *)
(* NtyScheduler takes sched->sleeping and sched->waiting to be: a set of   *)
(* nodes with distinct keys.  A call takes effect when it returns.         *)
(***************************************************************************)
EXTENDS Integers

CONSTANTS Node, NULL, Key, Probe

VARIABLES
  set,   \* the nodes of the tree
  call,  \* the call in progress: its operation and its argument
  ret    \* the result of the last call

vars == <<set, call, ret>>

NoCall == [op |-> "none", arg |-> NULL]

With(k) == {n \in set : Key[n] = k}

\* Keys are distinct, whatever the set has been used for before.
Init ==
  /\ set \in SUBSET Node /\ \A m, n \in set : Key[m] = Key[n] => m = n
  /\ call = NoCall /\ ret = NULL

\* A node is inserted when it is outside and removed when it is inside; a key
\* to find comes in a node of its own.
Invoke ==
  /\ call = NoCall
  /\ \/ \E n \in Node \ set : call' = [op |-> "insert", arg |-> n]
     \/ \E n \in set : call' = [op |-> "remove", arg |-> n]
     \/ \E k \in Probe : call' = [op |-> "find", arg |-> k]
     \/ call' = [op |-> "min", arg |-> NULL]
  /\ ret' = NULL
  /\ UNCHANGED set

\* RB_INSERT returns the node that has the key already, or inserts
Insert ==
  /\ call.op = "insert"
  /\ IF With(Key[call.arg]) = {} THEN set' = set \cup {call.arg} /\ ret' = NULL
                                 ELSE UNCHANGED set /\ ret' \in With(Key[call.arg])

Remove == call.op = "remove" /\ set' = set \ {call.arg} /\ ret' = call.arg

Find ==
  /\ call.op = "find" /\ UNCHANGED set
  /\ IF With(call.arg) = {} THEN ret' = NULL ELSE ret' \in With(call.arg)

Min ==
  /\ call.op = "min" /\ UNCHANGED set
  /\ IF set = {} THEN ret' = NULL
     ELSE ret' \in {n \in set : \A m \in set : Key[n] <= Key[m]}

Return == (Insert \/ Remove \/ Find \/ Min) /\ call' = NoCall

Next == Invoke \/ Return

\* Every call returns.
Spec == Init /\ [][Next]_vars /\ []<>(call = NoCall)
=============================================================================
