----------------------------- MODULE NtyRBTree -----------------------------
(***************************************************************************)
(* The red-black tree of nty_tree.h: RB_INSERT, RB_REMOVE, RB_FIND and     *)
(* RB_MIN, the operations the scheduler uses, one action per iteration of  *)
(* their loops; RB_NEXT, RB_PREV and RB_NFIND as operators.  The code      *)
(* writes every case twice, for left and for right; here the side is a     *)
(* parameter.                                                              *)
(***************************************************************************)
EXTENDS Integers, FiniteSets

CONSTANTS
  Node,   \* the elements
  NULL,
  Key,    \* the field that cmp compares: sleep_usecs or fd
  Probe   \* the keys looked up

ASSUME KeyAssumption ==
  NULL \notin Node /\ IsFiniteSet(Node) /\ Key \in [Node -> Int] /\ Probe \subseteq Int

VARIABLES
  tree,  \* rbh_root, and the RB_ENTRY fields of the nodes
  pc,    \* the loop the call is in
  call,  \* the operation and its argument
  ret,   \* what the last call returned
  cur,   \* tmp of the walks down, elm of the other loops
  par    \* parent

vars == <<tree, pc, call, ret, cur, par>>

NoCall == [op |-> "none", arg |-> NULL]

Sides == {"left", "right"}
Other(s) == IF s = "left" THEN "right" ELSE "left"

\* RB_INIT.  Nothing reads the fields of a node outside the tree, so they are
\* kept at NULL and black.
Empty ==
  [root   |-> NULL,
   kid    |-> [s \in Sides |-> [n \in Node |-> NULL]],
   parent |-> [n \in Node |-> NULL],
   color  |-> [n \in Node |-> "black"]]

Init ==
  /\ tree = Empty /\ pc = "idle" /\ call = NoCall
  /\ ret = NULL /\ cur = NULL /\ par = NULL

-----------------------------------------------------------------------------
(* Operators on trees.                                                     *)

\* The test "elm == NULL || RB_COLOR(elm) == RB_BLACK"
Black(t, n) == IF n = NULL THEN TRUE ELSE t.color[n] = "black"

\* "if (elm) RB_COLOR(elm) = color"
Paint(t, n, color) ==
  IF n = NULL THEN t ELSE [t EXCEPT !.color[n] = color]

\* RB_SET_BLACKRED
BlackRed(t, black, red) == [t EXCEPT !.color[black] = "black", !.color[red] = "red"]

\* The link from p to n on side s, and the one back
Adopt(t, s, p, n) ==
  LET linked == [t EXCEPT !.kid[s][p] = n]
  IN  IF n = NULL THEN linked ELSE [linked EXCEPT !.parent[n] = p]

SideOf(t, p, n) == IF t.kid["left"][p] = n THEN "left" ELSE "right"

\* What is above n, or the head, points to m instead
Replace(t, p, n, m) ==
  IF p = NULL THEN [t EXCEPT !.root = m] ELSE [t EXCEPT !.kid[SideOf(t, p, n)][p] = m]

\* RB_ROTATE_LEFT and RB_ROTATE_RIGHT at n: the kid on the other side comes up
RotateNoParent(t, s, n) == \* mutant: RB_PARENT(tmp) is not set
  LET up == t.kid[Other(s)][n]
  IN  Adopt(Replace(Adopt(t, Other(s), n, t.kid[s][up]), t.parent[n], n, up), s, up, n)
Rotate(t, s, n) ==
  LET up     == t.kid[Other(s)][n]
      above  == t.parent[n]
      inner  == Adopt(t, Other(s), n, t.kid[s][up])
      hooked == [Replace(inner, above, n, up) EXCEPT !.parent[up] = above]
  IN  Adopt(hooked, s, up, n)

-----------------------------------------------------------------------------
(* Calls and returns.                                                      *)

Start(op, arg, at) ==
  /\ pc = "idle"
  /\ call' = [op |-> op, arg |-> arg]
  /\ ret' = NULL /\ par' = NULL
  /\ pc' = at

Return(v) ==
  /\ pc' = "idle" /\ call' = NoCall
  /\ ret' = v /\ cur' = NULL /\ par' = NULL

Goto(at, n, p) == pc' = at /\ cur' = n /\ par' = p /\ UNCHANGED <<call, ret>>

\* The nodes from each node down
Subtrees(t) ==
  LET below[m \in Node \cup {NULL}] ==
        IF m = NULL THEN {} ELSE {m} \cup UNION {below[t.kid[s][m]] : s \in Sides}
  IN  below

Under(t, n) == Subtrees(t)[n]

Contents == Under(tree, tree.root)

-----------------------------------------------------------------------------
(* RB_INSERT, RB_FIND and RB_MIN: the walk down.                           *)

\* The key that cmp compares with the node at hand
Sought == IF call.op = "insert" THEN Key[call.arg] ELSE call.arg

\* Where the walk goes from n
Towards(n) == IF call.op = "min" \/ Sought < Key[n] THEN "left" ELSE "right"

CallInsert(n) == n \notin Contents /\ Start("insert", n, "walk") /\ cur' = tree.root /\ UNCHANGED tree
CallFind(k)   == Start("find", k, "walk") /\ cur' = tree.root /\ UNCHANGED tree
CallMin       == Start("min", NULL, "walk") /\ cur' = tree.root /\ UNCHANGED tree

\* The node that has the key already is what RB_INSERT and RB_FIND return
HitNever == FALSE \* mutant: comp == 0 is taken for comp > 0
Hit == call.op # "min" /\ Key[cur] = Sought

Walk ==
  /\ pc = "walk" /\ cur # NULL
  /\ IF Hit THEN Return(cur) ELSE Goto("walk", tree.kid[Towards(cur)][cur], cur)
  /\ UNCHANGED tree

WalkEnds ==
  /\ pc = "walk" /\ cur = NULL
  /\ call.op # "insert"
  /\ Return(IF call.op = "min" THEN par ELSE NULL)
  /\ UNCHANGED tree

\* RB_SET, then the link from parent on the side of the last comparison
Attach ==
  /\ pc = "walk" /\ cur = NULL
  /\ call.op = "insert"
  /\ LET n == call.arg
         t == [tree EXCEPT !.parent[n] = par, !.color[n] = "red"]
     IN  /\ tree' = IF par = NULL THEN [t EXCEPT !.root = n]
                    ELSE Adopt(t, Towards(par), par, n)
         /\ Goto("insert_color", n, NULL)

-----------------------------------------------------------------------------
(* RB_INSERT_COLOR.                                                        *)

RedParent == tree.parent[cur] # NULL /\ ~Black(tree, tree.parent[cur])

\* The tree after one iteration, for a black uncle on the other side of s: the
\* inner grandchild is first turned outwards
TurnUp(t, s, p, g) ==
  LET inner   == t.kid[Other(s)][p] = cur
      straight == IF inner THEN Rotate(t, s, p) ELSE t
  IN  Rotate(BlackRed(straight, IF inner THEN cur ELSE p, g), Other(s), g)

InsertColor ==
  /\ pc = "insert_color" /\ RedParent
  /\ LET p     == tree.parent[cur]
         g     == tree.parent[p]
         s     == SideOf(tree, g, p)
         uncle == tree.kid[Other(s)][g]
     IN  IF ~Black(tree, uncle)
           THEN /\ tree' = BlackRed(Paint(tree, uncle, "black"), p, g)
                /\ Goto("insert_color", g, NULL)
           ELSE /\ tree' = TurnUp(tree, s, p, g)
                /\ Goto("insert_color", IF tree.kid[Other(s)][p] = cur THEN p ELSE cur, NULL)

InsertColorEndsRed == \* mutant: the root is not made black
  pc = "insert_color" /\ ~RedParent /\ Return(NULL) /\ UNCHANGED tree
InsertColorEnds ==
  /\ pc = "insert_color" /\ ~RedParent
  /\ tree' = Paint(tree, tree.root, "black")
  /\ Return(NULL)

-----------------------------------------------------------------------------
(* RB_REMOVE.                                                              *)

\* child takes the place of n, which has no other kid
Splice(t, n, child) ==
  LET p == t.parent[n]
      c == IF child = NULL THEN t ELSE [t EXCEPT !.parent[child] = p]
  IN  Replace(c, p, n, child)

\* n is out of the tree
Forget(t, n) ==
  [t EXCEPT !.kid["left"][n] = NULL, !.kid["right"][n] = NULL,
            !.parent[n] = NULL, !.color[n] = "black"]

\* The label color: RB_REMOVE_COLOR when a black node has gone
Recolor(color, n, p) ==
  IF color = "black" THEN Goto("remove_color", n, p) ELSE Return(call.arg)

CallRemove(n) ==
  /\ n \in Contents
  /\ Start("remove", n, "remove") /\ cur' = n /\ UNCHANGED tree

RemoveOne ==
  /\ pc = "remove"
  /\ \E s \in Sides : tree.kid[s][cur] = NULL
  /\ LET child == IF tree.kid["left"][cur] = NULL THEN tree.kid["right"][cur]
                                                  ELSE tree.kid["left"][cur]
     IN  /\ tree' = Forget(Splice(tree, cur, child), cur)
         /\ Recolor(tree.color[cur], child, tree.parent[cur])

\* Two kids: the walk to the successor, elm
FindSuccessor ==
  /\ pc = "remove"
  /\ \A s \in Sides : tree.kid[s][cur] # NULL
  /\ Goto("successor", tree.kid["right"][cur], NULL)
  /\ UNCHANGED tree

SuccessorLeft ==
  /\ pc = "successor" /\ tree.kid["left"][cur] # NULL
  /\ Goto("successor", tree.kid["left"][cur], NULL)
  /\ UNCHANGED tree

\* elm, spliced out of t, gets the links and the color of old
TakePlace(t, n, old) ==
  LET copy == [t EXCEPT !.parent[n] = t.parent[old], !.color[n] = t.color[old]]
      up   == Replace(copy, t.parent[old], old, n)
  IN  Adopt(Adopt(up, "left", n, t.kid["left"][old]), "right", n, t.kid["right"][old])

\* "if (RB_PARENT(elm) == old) parent = elm"
ParentOfSpliced(n, old) == IF tree.parent[n] = old THEN n ELSE tree.parent[n]

RemoveTwo ==
  /\ pc = "successor" /\ tree.kid["left"][cur] = NULL
  /\ LET old   == call.arg
         child == tree.kid["right"][cur]
     IN  /\ tree' = Forget(TakePlace(Splice(tree, cur, child), cur, old), old)
         /\ Recolor(tree.color[cur], child, ParentOfSpliced(cur, old))

-----------------------------------------------------------------------------
(* RB_NEXT and RB_PREV (s is "right" and "left"), and RB_NFIND.            *)

\* The last node from n on going to side s
EdgeFrom(t, s, n) ==
  LET edge[m \in Node] == IF t.kid[s][m] = NULL THEN m ELSE edge[t.kid[s][m]]
  IN  edge[n]

\* The first node above n that has n on its other side
ClimbOnce(t, s, n) == t.parent[n] \* mutant: the loop is missing
Climb(t, s, n) ==
  LET above[m \in Node] ==
        LET p == t.parent[m]
        IN  IF p = NULL THEN NULL ELSE IF t.kid[s][p] = m THEN above[p] ELSE p
  IN  above[n]

Neighbour(t, s, n) ==
  IF t.kid[s][n] # NULL THEN EdgeFrom(t, Other(s), t.kid[s][n]) ELSE Climb(t, s, n)

\* The node with the least key that is not below k
NFind(t, k) ==
  LET from[m \in Node \cup {NULL}] ==
        IF m = NULL THEN NULL
        ELSE IF k < Key[m] THEN LET res == from[t.kid["left"][m]] IN IF res = NULL THEN m ELSE res
        ELSE IF k > Key[m] THEN from[t.kid["right"][m]] ELSE m
  IN  from[t.root]

-----------------------------------------------------------------------------
(* RB_REMOVE_COLOR: the paths through cur, below par, lack a black node.   *)

Lacking == Black(tree, cur) /\ cur # tree.root

\* A red sibling is turned up, so that the sibling is black
TurnRedSibling(t, s, p) ==
  LET sib == t.kid[Other(s)][p]
  IN  IF Black(t, sib) THEN t ELSE Rotate(BlackRed(t, sib, p), s, p)

\* A black sibling with a red kid: the far kid is made the red one, the sibling
\* goes up in the colors of p
TurnUpSibling(t, s, p) ==
  LET o     == Other(s)
      sib   == t.kid[o][p]
      far   == IF Black(t, t.kid[o][sib])
                 THEN Rotate(Paint(Paint(t, t.kid[s][sib], "black"), sib, "red"), o, sib)
                 ELSE t
      top   == far.kid[o][p]
      moved == Paint(Paint(far, top, far.color[p]), p, "black")
  IN  Rotate(Paint(moved, moved.kid[o][top], "black"), s, p)

RemoveColor ==
  /\ pc = "remove_color" /\ Lacking
  /\ LET s   == SideOf(tree, par, cur)
         t   == TurnRedSibling(tree, s, par)
         sib == t.kid[Other(s)][par]
     IN  IF \A side \in Sides : Black(t, t.kid[side][sib])
           THEN /\ tree' = Paint(t, sib, "red")
                /\ Goto("remove_color", par, t.parent[par])
           ELSE /\ tree' = TurnUpSibling(t, s, par)
                /\ Goto("remove_color", tree'.root, NULL)

RemoveColorEndsRed == \* mutant: elm is not made black
  pc = "remove_color" /\ ~Lacking /\ Return(call.arg) /\ UNCHANGED tree
RemoveColorEnds ==
  /\ pc = "remove_color" /\ ~Lacking
  /\ tree' = Paint(tree, cur, "black")
  /\ Return(call.arg)

-----------------------------------------------------------------------------
Call ==
  \/ \E n \in Node : CallInsert(n) \/ CallRemove(n)
  \/ \E k \in Probe : CallFind(k)
  \/ CallMin

Step ==
  \/ Walk \/ WalkEnds \/ Attach \/ InsertColor \/ InsertColorEnds
  \/ RemoveOne \/ FindSuccessor \/ SuccessorLeft \/ RemoveTwo
  \/ RemoveColor \/ RemoveColorEnds

Next == Call \/ Step

\* The caller runs the call to its end.
Spec == Init /\ [][Next]_vars /\ WF_vars(Step)

-----------------------------------------------------------------------------
\* At every step of every call, in the middle of a rebalancing too, every link
\* down has its link back up, without which rbe_parent would send the next step
\* out of the tree, and the keys are in order, so that RB_FIND sees every node.
SearchTree ==
  /\ tree.root # NULL => tree.parent[tree.root] = NULL
  /\ \A n \in Contents :
       /\ \A s \in Sides : tree.kid[s][n] # NULL => tree.parent[tree.kid[s][n]] = n
       /\ \A m \in Under(tree, tree.kid["left"][n]) : Key[m] < Key[n]
       /\ \A m \in Under(tree, tree.kid["right"][n]) : Key[n] < Key[m]

\* The numbers of black nodes on the paths from the root to the places where a
\* node could be attached.  RB_REMOVE_COLOR has one to make up for on the paths
\* through cur, or to where cur = NULL is below par.
BlackHeights ==
  LET below       == [m \in Contents |-> Under(tree, m)]
      Path(n)     == {m \in DOMAIN below : n \in below[m]}
      Short(n)    == IF cur = NULL THEN n = par ELSE cur \in Path(n)
      Blacks(n)   == {m \in Path(n) : tree.color[m] = "black"}
      Lack(n)     == IF pc = "remove_color" /\ Short(n) THEN 1 ELSE 0
  IN  {Cardinality(Blacks(n)) + Lack(n) :
         n \in {m \in DOMAIN below : \E s \in Sides : tree.kid[s][m] = NULL}}

\* The loop invariants, which at "idle" are the red-black conditions: the paths
\* have the same number of black nodes, but for the one RB_REMOVE_COLOR still
\* lacks; and a red node has a red parent only where RB_INSERT_COLOR or
\* RB_REMOVE_COLOR is at work.
Balanced ==
  /\ Cardinality(BlackHeights) <= 1
  /\ \A n \in Contents :
       ~Black(tree, n) /\ ~Black(tree, tree.parent[n]) =>
         \/ pc = "insert_color" /\ cur = n
         \/ pc = "remove_color" /\ cur \in {n, tree.parent[n]}
  /\ pc \notin {"insert_color", "remove_color"} => Black(tree, tree.root)

\* The code follows pointers it does not test: the grandparent of a red parent,
\* and the sibling, with the kid that takes its place, where a black node is
\* lacking.
NoNullFollowed ==
  /\ pc = "insert_color" /\ RedParent => tree.parent[tree.parent[cur]] # NULL
  /\ pc = "remove_color" /\ Lacking =>
       /\ par # NULL
       /\ LET s   == SideOf(tree, par, cur)
              sib == tree.kid[Other(s)][par]
          IN  sib # NULL /\ (~Black(tree, sib) => tree.kid[s][sib] # NULL)

\* From every node RB_NEXT and RB_PREV go to the nearest key on their side, so
\* that a loop over the tree visits each node once, and RB_NFIND finds where to
\* begin.
Iterates ==
  pc = "idle" =>
    LET IsNext(n, m) ==
          Key[n] < Key[m] /\ \A o \in Contents : Key[n] < Key[o] => Key[m] <= Key[o]
        NoneBeyond(s, n) ==
          \A o \in Contents : IF s = "right" THEN Key[o] <= Key[n] ELSE Key[o] >= Key[n]
    IN  /\ \A n \in Contents, s \in Sides :
             LET m == Neighbour(tree, s, n)
             IN  IF m = NULL THEN NoneBeyond(s, n)
                 ELSE m \in Contents /\ IF s = "right" THEN IsNext(n, m) ELSE IsNext(m, n)
        /\ \A k \in {Key[n] : n \in Node} :
             LET m == NFind(tree, k)
             IN  IF m = NULL THEN \A o \in Contents : Key[o] < k
                 ELSE /\ m \in Contents /\ k <= Key[m]
                      /\ \A o \in Contents : k <= Key[o] => Key[m] <= Key[o]

\* The nodes as the caller sees them: a call takes effect when it returns
Members ==
  CASE call.op = "insert" -> Contents \ {call.arg}
    [] call.op = "remove" -> Contents \cup {call.arg}
    [] OTHER              -> Contents

Set == INSTANCE NtyOrderedSet WITH set <- Members

\* The tree is the ordered set that NtyScheduler has in its place: nothing is
\* lost or found that should not be, RB_MIN is the earliest, and every call
\* returns.
ImplementsOrderedSet == Set!Spec
=============================================================================
