---------------------------- MODULE MCNtyRBTree ----------------------------
EXTENDS NtyRBTree

\* Node 10 has the key of node 3; key 0 is nobody's.
MCNode == 1..10
MCKey == [n \in MCNode |-> IF n = 10 THEN 3 ELSE n]
MCProbe == {0, 3, 5}

\* The perfect tree of the nodes 1 to 7, all of them black: what remains when
\* the nodes that made it grow have been removed.  From it RB_REMOVE_COLOR
\* climbs twice, for which a tree that grows from empty needs ten keys.
Perfect ==
  [root   |-> 4,
   kid    |-> [left  |-> <<NULL, 1, NULL, 2, NULL, 5, NULL, NULL, NULL, NULL>>,
               right |-> <<NULL, 3, NULL, 6, NULL, 7, NULL, NULL, NULL, NULL>>],
   parent |-> <<2, 4, 2, NULL, 6, 4, 6, NULL, NULL, NULL>>,
   color  |-> [n \in MCNode |-> "black"]]

PerfectInit ==
  /\ tree = Perfect /\ pc = "idle" /\ call = NoCall
  /\ ret = NULL /\ cur = NULL /\ par = NULL

\* WF_vars(Step) with its ENABLED written out: a step is possible in a call.
StepFair == []<>(pc = "idle") \/ []<><<pc # "idle">>_vars

MCSpec == (Init \/ PerfectInit) /\ [][Next]_vars /\ StepFair
=============================================================================
