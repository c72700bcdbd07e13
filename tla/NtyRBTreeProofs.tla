-------------------------- MODULE NtyRBTreeProofs --------------------------
(***************************************************************************)
(* Theorems about NtyRBTree, for every finite set of nodes, every key of   *)
(* each node and every key looked up: what the loops of RB_INSERT,         *)
(* RB_INSERT_COLOR, RB_REMOVE and RB_REMOVE_COLOR keep at each iteration,  *)
(* that the tree is the ordered set the scheduler takes it for, and that   *)
(* RB_NEXT, RB_PREV and RB_NFIND find their node.                          *)
(*                                                                         *)
(* A tree t comes with the function D of what is below each node.  An      *)
(* induction over it takes the lowest or the highest of the nodes that     *)
(* would refute the claim.                                                 *)
(***************************************************************************)
EXTENDS NtyRBTree, WellFoundedInduction, FiniteSetTheorems, TLAPS

\* What a link may be
Ext == Node \cup {NULL}

\* The values of tree
Trees ==
  [root : Ext, kid : [Sides -> [Node -> Ext]], parent : [Node -> Ext],
   color : [Node -> {"red", "black"}]]

\* D[n] is n and what is below it
Downs(t, D) ==
  /\ D \in [Ext -> SUBSET Node] /\ D[NULL] = {}
  /\ \A n \in Node : n \in D[n]
  /\ \A n \in Node, s \in Sides : D[n] = {n} \cup D[t.kid[s][n]] \cup D[t.kid[Other(s)][n]]
  /\ \A m, n \in Node : m \in D[n] => D[m] \subseteq D[n]

\* The key of m belongs on side s of that of n
Beside(s, m, n) == IF s = "left" THEN Key[m] < Key[n] ELSE Key[n] < Key[m]

\* The keys are in order
Ordered(t, D) == \A n \in Node, s \in Sides : \A m \in D[t.kid[s][n]] : Beside(s, m, n)

\* Links down and up agree, inside the tree, and there are none outside
Linked(t, D) ==
  /\ \A n \in Node, s \in Sides : t.kid[s][n] # NULL => t.parent[t.kid[s][n]] = n
  /\ \A n \in Node : t.parent[n] # NULL => \E s \in Sides : t.kid[s][t.parent[n]] = n
  /\ t.root # NULL => t.parent[t.root] = NULL
  /\ \A n \in Node : \A m \in D[n] : m # n => t.parent[m] \in D[n]
  /\ \A n \in Node \ D[t.root] : t.parent[n] = NULL /\ \A s \in Sides : t.kid[s][n] = NULL

\* A search tree, with its links up
Shape(t, D) == t \in Trees /\ Downs(t, D) /\ Ordered(t, D) /\ Linked(t, D)

-----------------------------------------------------------------------------
(* Induction over a tree *)

\* The sides are opposite orders of the nodes
LEMMA BesideOrder ==
  ASSUME NEW s \in Sides, NEW l \in Node, NEW m \in Node
  PROVE  /\ ~Beside(s, m, m) /\ Other(s) \in Sides /\ Other(s) # s /\ Other(Other(s)) = s
         /\ Beside(Other(s), m, l) <=> Beside(s, l, m)
         /\ \A n \in Node : Beside(s, l, m) /\ Beside(s, m, n) => Beside(s, l, n)
         /\ \A z \in Sides : z = s \/ z = Other(s)
  BY KeyAssumption DEF Beside, Other, Sides

\* A set of naturals has a least element
LEMMA NatMin ==
  ASSUME NEW T, T \subseteq Nat, T # {} PROVE \E x \in T : \A y \in T : x <= y
<1>1. PICK x \in T : \A y \in T : <<y, x>> \notin OpToRel(<, Nat)
  BY WFMin, NatLessThanWellFounded
<1>2. \A y \in T : <<y, x>> \notin {ss \in Nat \X Nat : ss[1] < ss[2]}
  BY <1>1 DEF OpToRel
<1>3. \A y \in T : ~(y < x)
  BY <1>2
<1> QED
  BY <1>3

\* A kid and what is below it are below the node, which is not among them
LEMMA KidBelow ==
  ASSUME NEW t \in Trees, NEW D, Downs(t, D), Ordered(t, D), NEW n \in Node, NEW s \in Sides
  PROVE  /\ t.kid[s][n] \in Ext /\ D[t.kid[s][n]] \subseteq D[n] \ {n}
         /\ t.kid[s][n] # NULL => t.kid[s][n] \in D[n] \ {n}
<1>1. t.kid["left"][n] \in Ext /\ t.kid["right"][n] \in Ext
  BY DEF Trees, Sides
<1>2. \A m \in Ext : D[m] \subseteq Node
  BY DEF Downs
<1>3. \A m \in D[t.kid[s][n]] : m # n
  BY <1>1, <1>2, BesideOrder DEF Ordered, Sides
<1>4. D[t.kid[s][n]] \subseteq D[n]
  BY DEF Downs, Sides, Other
<1>5. t.kid[s][n] # NULL => t.kid[s][n] \in D[t.kid[s][n]]
  BY <1>1 DEF Downs, Ext, Sides
<1> QED
  BY <1>1, <1>3, <1>4, <1>5 DEF Sides

\* The nodes below a node can be counted
LEMMA DownFinite ==
  ASSUME NEW t \in Trees, NEW D, Downs(t, D), NEW n \in Ext
  PROVE  IsFiniteSet(D[n]) /\ Cardinality(D[n]) \in Nat
<1>1. D[n] \in SUBSET Node
  BY DEF Downs
<1> QED
  BY <1>1, KeyAssumption, FS_Subset, FS_CardinalityType

\* A set of nodes that is not empty has a lowest one
LEMMA Lowest ==
  ASSUME NEW t \in Trees, NEW D, Downs(t, D), Ordered(t, D), NEW B \in SUBSET Node, B # {}
  PROVE  \E n \in B : \A m \in D[n] \ {n} : m \notin B
<1> DEFINE T == {Cardinality(D[n]) : n \in B}
<1>0. B \subseteq Ext
  BY DEF Ext
<1>1. T \subseteq Nat /\ T # {}
  BY <1>0, DownFinite
<1>2. PICK x \in T : \A y \in T : x <= y
  BY <1>1, NatMin
<1>3. PICK n \in B : x = Cardinality(D[n])
  BY <1>2
<1>4. ASSUME NEW m \in D[n] \ {n} PROVE m \notin B
  <2>1. m \in Node /\ D[m] \subseteq D[n]
    BY <1>0 DEF Downs, Ext
  <2>2. n \notin D[m]
    <3>1. PICK s \in Sides : m \in D[t.kid[s][n]]
      BY DEF Downs, Sides, Other
    <3>2. t.kid[s][n] \in Ext /\ t.kid[s][n] # NULL /\ D[t.kid[s][n]] \subseteq D[n] \ {n}
      BY <3>1, KidBelow DEF Downs
    <3>3. D[m] \subseteq D[t.kid[s][n]]
      BY <2>1, <3>1, <3>2 DEF Downs, Ext
    <3> QED
      BY <3>2, <3>3
  <2>3. n \in D[n]
    BY DEF Downs
  <2>4. Cardinality(D[m]) < Cardinality(D[n])
    <3>1. D[m] \in SUBSET D[n] /\ D[m] # D[n]
      BY <2>1, <2>2, <2>3
    <3>2. IsFiniteSet(D[n]) /\ Cardinality(D[n]) \in Nat /\ Cardinality(D[m]) \in Nat
      BY <1>0, <2>1, DownFinite DEF Ext
    <3> QED
      BY <3>1, <3>2, FS_Subset
  <2>5. Cardinality(D[m]) \in Nat /\ Cardinality(D[n]) \in Nat
    BY <1>0, <2>1, DownFinite DEF Ext
  <2>6. ~(Cardinality(D[n]) <= Cardinality(D[m]))
    BY <2>4, <2>5
  <2> QED
    BY <1>2, <1>3, <2>6
<1> QED
  BY <1>4

\* ... and a highest one
LEMMA Highest ==
  ASSUME NEW t \in Trees, NEW D, Downs(t, D), Ordered(t, D), NEW B \in SUBSET Node, B # {}
  PROVE  \E n \in B : \A m \in B : n \in D[m] => m = n
<1> DEFINE up(n) == {m \in Node : n \in D[m]}
           T == {Cardinality(up(n)) : n \in B}
<1>0. \A n : IsFiniteSet(up(n)) /\ Cardinality(up(n)) \in Nat
  <2> SUFFICES ASSUME NEW n PROVE IsFiniteSet(up(n)) /\ Cardinality(up(n)) \in Nat
    OBVIOUS
  <2>1. up(n) \in SUBSET Node
    OBVIOUS
  <2> QED
    BY <2>1, KeyAssumption, FS_Subset, FS_CardinalityType
<1>1. T \subseteq Nat /\ T # {}
  BY <1>0
<1>2. PICK x \in T : \A y \in T : x <= y
  BY <1>1, NatMin
<1>3. PICK n \in B : x = Cardinality(up(n))
  BY <1>2
<1>4. ASSUME NEW m \in B, n \in D[m], m # n PROVE FALSE
  <2>1. n \in Node /\ m \in Node /\ D[n] \subseteq D[m]
    BY <1>4 DEF Downs
  <2>2. up(m) \in SUBSET up(n)
    BY <1>4 DEF Downs
  <2>3. n \in up(n)
    BY <2>1 DEF Downs
  <2>4. n \notin up(m)
    <3>1. PICK s \in Sides : n \in D[t.kid[s][m]]
      BY <1>4, <2>1 DEF Downs, Sides, Other
    <3>2. t.kid[s][m] \in Ext /\ t.kid[s][m] # NULL /\ D[t.kid[s][m]] \subseteq D[m] \ {m}
      BY <2>1, <3>1, KidBelow DEF Downs
    <3>3. D[n] \subseteq D[t.kid[s][m]]
      BY <2>1, <3>1, <3>2 DEF Downs, Ext
    <3> QED
      BY <3>2, <3>3
  <2>5. up(m) # up(n)
    BY <2>3, <2>4
  <2> HIDE DEF up
  <2>6. ~(Cardinality(up(n)) <= Cardinality(up(m)))
    BY <1>0, <2>2, <2>5, FS_Subset
  <2> QED
    BY <1>2, <1>3, <2>6
<1> QED
  BY <1>4

\* The recursive function of the model satisfies its equation ...
LEMMA SubtreesDef ==
  ASSUME NEW t \in Trees, NEW D, Downs(t, D)
  PROVE  Subtrees(t) =
           [m \in Ext |-> IF m = NULL THEN {}
                          ELSE {m} \cup UNION {Subtrees(t)[t.kid[s][m]] : s \in Sides}]
<1> DEFINE Eq(f) == f = [m \in Ext |-> IF m = NULL THEN {}
                                       ELSE {m} \cup UNION {f[t.kid[s][m]] : s \in Sides}]
<1>1. Subtrees(t) = CHOOSE f : Eq(f)
  BY DEF Subtrees, Ext
<1>2. Eq(D)
  <2>1. ASSUME NEW m \in Node
        PROVE  D[m] = {m} \cup UNION {D[t.kid[s][m]] : s \in Sides}
    <3>1. UNION {D[t.kid[s][m]] : s \in Sides} = D[t.kid["left"][m]] \cup D[t.kid["right"][m]]
      BY DEF Sides
    <3> QED
      BY <3>1 DEF Downs, Sides, Other
  <2> QED
    BY <2>1, KeyAssumption DEF Downs, Ext
<1> HIDE DEF Eq
<1>3. Eq(Subtrees(t))
  BY <1>1, <1>2
<1> QED
  BY <1>3 DEF Eq

\* ... and is the only one that does, as the tree has no cycle
LEMMA SubtreesUnique ==
  ASSUME NEW t \in Trees, NEW D, Downs(t, D), Ordered(t, D)
  PROVE  Subtrees(t) = D
<1> DEFINE S == Subtrees(t)
           B == {n \in Node : S[n] # D[n]}
<1>1. S = [m \in Ext |-> IF m = NULL THEN {}
                         ELSE {m} \cup UNION {S[t.kid[s][m]] : s \in Sides}]
  BY SubtreesDef
<1> HIDE DEF S
<1>2. S[NULL] = D[NULL]
  BY <1>1 DEF Ext, Downs
<1>3. ASSUME B # {} PROVE FALSE
  <2>0. B \in SUBSET Node
    OBVIOUS
  <2>1. PICK n \in B : \A m \in D[n] \ {n} : m \notin B
    <3> HIDE DEF B
    <3> QED
      BY <1>3, <2>0, Lowest
  <2>2. \A s \in Sides : S[t.kid[s][n]] = D[t.kid[s][n]]
    BY <1>2, <2>1, KidBelow DEF Ext
  <2>3. UNION {S[t.kid[s][n]] : s \in Sides} = D[t.kid["left"][n]] \cup D[t.kid["right"][n]]
    BY <2>2 DEF Sides
  <2>4. S[n] = {n} \cup UNION {S[t.kid[s][n]] : s \in Sides}
    BY <1>1, KeyAssumption DEF Ext
  <2> QED
    BY <2>3, <2>4 DEF Downs, Sides, Other
<1>4. \A m \in Ext : S[m] = D[m]
  BY <1>2, <1>3 DEF Ext
<1>5. S = [m \in Ext |-> S[m]]
  BY <1>1
<1> QED
  BY <1>4, <1>5 DEF Downs, S

-----------------------------------------------------------------------------
(* What the operators on trees change *)

Adopted(t, s, p, n, r) ==
  /\ r \in Trees /\ r.root = t.root /\ r.color = t.color
  /\ \A x \in Node, z \in Sides : r.kid[z][x] = IF x = p /\ z = s THEN n ELSE t.kid[z][x]
  /\ \A x \in Node : r.parent[x] = IF x = n THEN p ELSE t.parent[x]

LEMMA AdoptEffect ==
  ASSUME NEW t \in Trees, NEW s \in Sides, NEW p \in Node, NEW n \in Ext
  PROVE  Adopted(t, s, p, n, Adopt(t, s, p, n))
  BY KeyAssumption DEF Adopted, Adopt, Trees, Ext, Sides

Replaced(t, p, n, m, r) ==
  /\ r \in Trees /\ r.color = t.color /\ r.parent = t.parent
  /\ r.root = IF p = NULL THEN m ELSE t.root
  /\ \A x \in Node, z \in Sides :
       r.kid[z][x] = IF x = p /\ z = SideOf(t, p, n) THEN m ELSE t.kid[z][x]

LEMMA ReplaceEffect ==
  ASSUME NEW t \in Trees, NEW p \in Ext, NEW n \in Node, NEW m \in Ext
  PROVE  Replaced(t, p, n, m, Replace(t, p, n, m))
<1>1. SideOf(t, p, n) \in Sides
  BY DEF SideOf, Sides
<1> QED
  BY <1>1, KeyAssumption DEF Replaced, Replace, Trees, Ext, Sides

Rotated(t, s, n, up, r) ==
  /\ r \in Trees /\ r.color = t.color
  /\ r.root = IF t.parent[n] = NULL THEN up ELSE t.root
  /\ \A x \in Node, z \in Sides :
       r.kid[z][x] = IF x = n /\ z = Other(s) THEN t.kid[s][up]
                     ELSE IF x = up /\ z = s THEN n
                     ELSE IF x = t.parent[n] /\ z = SideOf(t, x, n) THEN up
                     ELSE t.kid[z][x]
  /\ \A x \in Node :
       r.parent[x] = IF x = n THEN up ELSE IF x = up THEN t.parent[n]
                     ELSE IF x = t.kid[s][up] THEN n ELSE t.parent[x]

\* What a rotation does to the links
LEMMA RotateEffect ==
  ASSUME NEW t \in Trees, NEW s \in Sides, NEW n \in Node, NEW up \in Node,
         up = t.kid[Other(s)][n], up # n, t.parent[n] \notin {n, up}
  PROVE  Rotated(t, s, n, up, Rotate(t, s, n))
<1> DEFINE above  == t.parent[n]
           inner  == Adopt(t, Other(s), n, t.kid[s][up])
           under  == Replace(inner, above, n, up)
           hooked == [under EXCEPT !.parent[up] = above]
           r      == Adopt(hooked, s, up, n)
<1>0. /\ Other(s) \in Sides /\ t.kid[s][up] \in Ext /\ above \in Ext
      /\ n \in Ext /\ up \in Ext /\ NULL \notin Node
  BY KeyAssumption DEF Trees, Ext, Sides, Other
<1>r. r = Rotate(t, s, n)
  BY DEF Rotate
<1>1. Adopted(t, Other(s), n, t.kid[s][up], inner)
  BY <1>0, AdoptEffect
<1> HIDE DEF inner
<1>2. above \in Node => SideOf(inner, above, n) = SideOf(t, above, n)
  BY <1>1 DEF SideOf, Sides, Adopted
<1>3. Replaced(inner, above, n, up, under)
  BY <1>0, <1>1, ReplaceEffect DEF Adopted
<1> HIDE DEF under
<1>4. /\ hooked \in Trees /\ hooked.color = under.color /\ hooked.root = under.root
      /\ hooked.kid = under.kid
      /\ \A x \in Node : hooked.parent[x] = IF x = up THEN above ELSE under.parent[x]
  BY <1>0, <1>3 DEF Trees, Replaced
<1> HIDE DEF hooked
<1>5. Adopted(hooked, s, up, n, r)
  BY <1>0, <1>4, AdoptEffect
<1> HIDE DEF r
<1>6. /\ r \in Trees /\ r.color = t.color
      /\ r.root = IF t.parent[n] = NULL THEN up ELSE t.root
  BY <1>1, <1>3, <1>4, <1>5 DEF Adopted, Replaced
<1>7. \A x \in Node, z \in Sides :
        r.kid[z][x] = IF x = n /\ z = Other(s) THEN t.kid[s][up]
                      ELSE IF x = up /\ z = s THEN n
                      ELSE IF x = t.parent[n] /\ z = SideOf(t, x, n) THEN up
                      ELSE t.kid[z][x]
  BY <1>1, <1>2, <1>3, <1>4, <1>5 DEF Adopted, Replaced
<1>8. \A x \in Node :
        r.parent[x] = IF x = n THEN up ELSE IF x = up THEN t.parent[n]
                      ELSE IF x = t.kid[s][up] THEN n ELSE t.parent[x]
  BY <1>1, <1>3, <1>4, <1>5 DEF Adopted, Replaced
<1> QED
  BY <1>r, <1>6, <1>7, <1>8 DEF Rotated

-----------------------------------------------------------------------------
(* What is below what, and what is above it, follows from the single links *)

LEMMA ShapeFrom ==
  ASSUME NEW t \in Trees, NEW D \in [Ext -> SUBSET Node], D[NULL] = {},
         \A n \in Node, s \in Sides :
           D[n] = {n} \cup D[t.kid[s][n]] \cup D[t.kid[Other(s)][n]],
         Ordered(t, D),
         \A n \in Node, s \in Sides : t.kid[s][n] # NULL => t.parent[t.kid[s][n]] = n,
         \A n \in Node : t.parent[n] # NULL => \E s \in Sides : t.kid[s][t.parent[n]] = n,
         t.root # NULL => t.parent[t.root] = NULL,
         \A n \in Node \ D[t.root] : t.parent[n] = NULL /\ \A s \in Sides : t.kid[s][n] = NULL
  PROVE  Shape(t, D)
<1> DEFINE Good(n) == \A m \in D[n] : D[m] \subseteq D[n] /\ (m # n => t.parent[m] \in D[n])
           B == {n \in Node : ~Good(n)}
           T == {Cardinality(D[n]) : n \in B}
<1>1. \A n \in Ext : D[n] \in SUBSET Node /\ IsFiniteSet(D[n]) /\ Cardinality(D[n]) \in Nat
  <2> TAKE n \in Ext
  <2>1. D[n] \in SUBSET Node
    OBVIOUS
  <2> QED
    BY <2>1, KeyAssumption, FS_Subset, FS_CardinalityType
<1>2. \A n \in Node : n \in D[n]
  BY DEF Sides
<1>3. ASSUME NEW n \in Node, NEW s \in Sides
      PROVE  /\ t.kid[s][n] \in Ext /\ D[t.kid[s][n]] \in SUBSET D[n] /\ n \notin D[t.kid[s][n]]
             /\ Cardinality(D[t.kid[s][n]]) < Cardinality(D[n])
  <2>1. t.kid[s][n] \in Ext
    BY DEF Trees
  <2>2. D[t.kid[s][n]] \in SUBSET D[n]
    OBVIOUS
  <2>3. n \notin D[t.kid[s][n]]
    BY <2>1, <1>1, BesideOrder DEF Ordered
  <2>4. D[t.kid[s][n]] # D[n] /\ n \in Ext
    BY <2>3, <1>2 DEF Ext
  <2> QED
    BY <1>1, <2>1, <2>2, <2>3, <2>4, FS_Subset
<1>4. ASSUME B # {} PROVE FALSE
  <2>1. T \subseteq Nat /\ T # {}
    BY <1>1, <1>4 DEF Ext
  <2>x. PICK x \in T : \A y \in T : x <= y
    BY <2>1, NatMin
  <2>2. PICK n \in B : \A y \in B : Cardinality(D[n]) <= Cardinality(D[y])
    BY <2>x
  <2>3. ASSUME NEW s \in Sides, t.kid[s][n] # NULL PROVE Good(t.kid[s][n])
    <3>1. t.kid[s][n] \in Node
      BY <1>3, <2>3 DEF Ext
    <3>2. ~(Cardinality(D[n]) <= Cardinality(D[t.kid[s][n]]))
      BY <1>1, <1>3, <3>1 DEF Ext
    <3> QED
      BY <2>2, <3>1, <3>2
  <2>4. ASSUME NEW m \in D[n], m # n
        PROVE  D[m] \subseteq D[n] /\ t.parent[m] \in D[n]
    <3>1. PICK s \in Sides : m \in D[t.kid[s][n]]
      BY <2>4 DEF Sides, Other
    <3>2. t.kid[s][n] # NULL
      BY <3>1
    <3>3. /\ D[m] \subseteq D[t.kid[s][n]]
          /\ m # t.kid[s][n] => t.parent[m] \in D[t.kid[s][n]]
      BY <2>3, <3>1, <3>2
    <3> QED
      BY <1>2, <1>3, <3>2, <3>3
  <2> QED
    BY <2>2, <2>4
<1>5. \A n \in Node : Good(n)
  BY <1>4
<1> HIDE DEF B, T
<1>6. Downs(t, D)
  BY <1>2, <1>5 DEF Downs
<1>7. Linked(t, D)
  BY <1>5 DEF Linked
<1> QED
  BY <1>6, <1>7 DEF Shape

\* Colors are no part of the shape
LEMMA RecolorShape ==
  ASSUME NEW t, NEW D, Shape(t, D), NEW r \in Trees,
         r.root = t.root, r.kid = t.kid, r.parent = t.parent
  PROVE  Shape(r, D)
  BY DEF Shape, Downs, Ordered, Linked

-----------------------------------------------------------------------------
(* Facts about a tree in shape *)

LEMMA KidFacts ==
  ASSUME NEW t, NEW D, Shape(t, D), NEW n \in Node, NEW s \in Sides
  PROVE  LET k == t.kid[s][n]
         IN  /\ k \in Ext /\ k # n /\ D[k] \subseteq D[n] /\ D[k] \subseteq Node /\ n \notin D[k]
             /\ k # NULL => k \in Node /\ k \in D[k] /\ t.parent[k] = n
             /\ D[k] \cap D[t.kid[Other(s)][n]] = {}
             /\ k # NULL => k # t.kid[Other(s)][n]
<1> DEFINE k == t.kid[s][n]
           l == t.kid[Other(s)][n]
<1>0. Other(s) \in Sides /\ k \in Ext /\ l \in Ext
  BY DEF Shape, Trees, Sides, Other
<1>1. D[k] \subseteq D[n] \ {n} /\ (k # NULL => k \in D[n] \ {n})
  BY KidBelow DEF Shape
<1>2. D[k] \subseteq Node /\ D[l] \subseteq Node
  BY <1>0 DEF Shape, Downs
<1>3. ASSUME NEW m \in D[k], m \in D[l] PROVE FALSE
  <2>1. Beside(s, m, n) /\ Beside(Other(s), m, n)
    BY <1>0, <1>3 DEF Shape, Ordered
  <2> QED
    BY <1>2, <2>1, BesideOrder
<1>4. k # NULL => k \in Node /\ k \in D[k] /\ t.parent[k] = n
  BY <1>0 DEF Shape, Downs, Linked, Ext
<1>5. k # NULL => k # l
  BY <1>3, <1>4
<1>6. k # n
  BY <1>1, KeyAssumption
<1> QED
  BY <1>0, <1>1, <1>2, <1>3, <1>4, <1>5, <1>6

LEMMA ParentFacts ==
  ASSUME NEW t, NEW D, Shape(t, D), NEW n \in Node
  PROVE  LET p == t.parent[n]
         IN  /\ p \in Ext /\ p # n
             /\ p # NULL => /\ p \in Node /\ SideOf(t, p, n) \in Sides
                            /\ t.kid[SideOf(t, p, n)][p] = n
                            /\ n \in D[p] /\ D[n] \subseteq D[p] /\ p \notin D[n]
                            /\ \A z \in Sides : t.kid[z][p] = n => z = SideOf(t, p, n)
             /\ n \in D[t.root] => /\ p = NULL <=> n = t.root
                                   /\ p # NULL => p \in D[t.root]
             /\ n \notin D[t.root] => p = NULL
             /\ t.root # NULL => t.root \in Node /\ t.root \in D[t.root]
             /\ \A x \in Node : n \in D[x] /\ n # x => p \in D[x]
<1> DEFINE p == t.parent[n]
<1>1. p \in Ext /\ t.root \in Ext
  BY DEF Shape, Trees
<1>2. ASSUME p # NULL
      PROVE  /\ p \in Node /\ SideOf(t, p, n) \in Sides /\ t.kid[SideOf(t, p, n)][p] = n
             /\ \A z \in Sides : t.kid[z][p] = n => z = SideOf(t, p, n)
  <2>1. p \in Node
    BY <1>1, <1>2 DEF Ext
  <2>2. PICK z \in Sides : t.kid[z][p] = n
    BY <1>2 DEF Shape, Linked
  <2>3. n # t.kid[Other(z)][p]
    BY <2>1, <2>2, KidFacts, KeyAssumption
  <2> QED
    BY <2>1, <2>2, <2>3 DEF SideOf, Sides, Other
<1>3. p # NULL => n \in D[p] /\ D[n] \subseteq D[p] /\ p \notin D[n] /\ p # n
  <2> SUFFICES ASSUME p # NULL PROVE n \in D[p] /\ D[n] \subseteq D[p] /\ p \notin D[n] /\ p # n
    OBVIOUS
  <2>1. n \in D[n]
    BY DEF Shape, Downs
  <2> QED
    BY <1>2, <2>1, KidFacts
<1>4. t.root # NULL => t.root \in Node /\ t.root \in D[t.root]
  BY <1>1 DEF Shape, Downs, Ext
<1>5. ASSUME n \in D[t.root]
      PROVE  /\ p = NULL <=> n = t.root
             /\ p # NULL => p \in D[t.root]
  <2>1. t.root # NULL
    BY <1>5 DEF Shape, Downs
  <2>2. D[t.root] \subseteq Node
    BY <1>1 DEF Shape, Downs
  <2> QED
    BY <1>4, <1>5, <2>1, <2>2, KeyAssumption DEF Shape, Linked
<1>6. n \notin D[t.root] => p = NULL
  BY DEF Shape, Linked
<1>7. \A x \in Node : n \in D[x] /\ n # x => p \in D[x]
  BY DEF Shape, Linked
<1>8. p # n
  BY <1>3, KeyAssumption
<1> QED
  BY <1>1, <1>2, <1>3, <1>4, <1>5, <1>6, <1>7, <1>8

\* The same, to be used for one node at a time
KidOf(t, D, s, n) ==
  LET k == t.kid[s][n]
  IN  /\ k \in Ext /\ k # n /\ D[k] \subseteq D[n] /\ n \notin D[k]
      /\ k # NULL => k \in Node /\ k \in D[k] /\ t.parent[k] = n /\ k # t.kid[Other(s)][n]

LEMMA OneKid ==
  ASSUME NEW t, NEW D, Shape(t, D), NEW n \in Node, NEW s \in Sides PROVE KidOf(t, D, s, n)
  BY KidFacts DEF KidOf

ParentOf(t, D, n) ==
  LET p == t.parent[n]
  IN  /\ p # NULL => p \in Node /\ p \notin D[n]
      /\ n \in D[t.root] => (p = NULL <=> n = t.root)

LEMMA OneParent == ASSUME NEW t, NEW D, Shape(t, D), NEW n \in Node PROVE ParentOf(t, D, n)
  BY ParentFacts DEF ParentOf

-----------------------------------------------------------------------------
(* A rotation keeps the shape *)

LEMMA RotateApplies ==
  ASSUME NEW t, NEW D, Shape(t, D), NEW s \in Sides, NEW n \in Node, t.kid[Other(s)][n] # NULL
  PROVE  LET up == t.kid[Other(s)][n]
         IN  up \in Node /\ up # n /\ Rotated(t, s, n, up, Rotate(t, s, n))
<1> DEFINE up == t.kid[Other(s)][n]
<1>1. Other(s) \in Sides /\ t \in Trees
  BY DEF Sides, Other, Shape
<1>2. up \in Node /\ up # n /\ up \in D[n]
  BY <1>1, KidFacts
<1>3. t.parent[n] # n /\ t.parent[n] # up
  BY <1>2, ParentFacts, KeyAssumption
<1> QED
  BY <1>1, <1>2, <1>3, RotateEffect

\* The nodes below each node, after a rotation
Turned(t, D, s, n, up) ==
  [D EXCEPT ![n] = {n} \cup D[t.kid[s][n]] \cup D[t.kid[s][up]], ![up] = D[n]]

\* A rotation keeps the shape
LEMMA RotateShape ==
  ASSUME NEW t, NEW D, Shape(t, D), NEW s \in Sides, NEW n \in D[t.root], NEW up \in Node,
         up = t.kid[Other(s)][n], NEW r, Rotated(t, s, n, up, r)
  PROVE  /\ Shape(r, Turned(t, D, s, n, up))
         /\ Turned(t, D, s, n, up)[r.root] = D[t.root]
<1> DEFINE o == Other(s)
           a == t.kid[s][n]
           b == t.kid[s][up]
           c == t.kid[o][up]
           p == t.parent[n]
           E == Turned(t, D, s, n, up)
<1>s. /\ o \in Sides /\ Other(o) = s /\ o # s /\ (\A z \in Sides : z = s \/ z = o)
      /\ NULL \notin Node /\ r \in Trees /\ t \in Trees
  BY BesideOrder, KeyAssumption DEF Sides, Other, Rotated, Shape
<1>n. n \in Node
  <2>1. t.root \in Ext
    BY DEF Shape, Trees
  <2> QED
    BY <2>1 DEF Shape, Downs
<1>1. /\ a \in Ext /\ b \in Ext /\ c \in Ext /\ up # n
      /\ a # n /\ a # up /\ b # n /\ b # up /\ c # n /\ c # up
      /\ (a # NULL => a # b) /\ (b # NULL => b # c)
      /\ D[a] \subseteq Node /\ D[b] \subseteq Node /\ D[c] \subseteq Node
      /\ D[n] = {n} \cup D[a] \cup D[up] /\ D[up] = {up} \cup D[b] \cup D[c]
      /\ n \notin D[a] /\ up \notin D[a] /\ n \notin D[b] /\ up \notin D[b]
      /\ n \notin D[c] /\ up \notin D[c]
  <2>1. /\ a \in Ext /\ a # n /\ n \notin D[a] /\ D[a] \cap D[up] = {} /\ D[a] \subseteq Node
        /\ (a # NULL => a \in D[a])
    BY <1>n, <1>s, KidFacts
  <2>2. /\ up # n /\ n \notin D[up] /\ up \in D[up] /\ D[up] \subseteq D[n]
    BY <1>n, <1>s, KidFacts
  <2>3. /\ b \in Ext /\ b # up /\ up \notin D[b] /\ D[b] \subseteq D[up] /\ D[b] \subseteq Node
        /\ (b # NULL => b \in D[b] /\ b # c)
    BY <1>s, KidFacts
  <2>4. /\ c \in Ext /\ c # up /\ up \notin D[c] /\ D[c] \subseteq D[up] /\ D[c] \subseteq Node
        /\ (c # NULL => c \in D[c])
    BY <1>s, KidFacts
  <2>5. D[n] = {n} \cup D[a] \cup D[up] /\ D[up] = {up} \cup D[b] \cup D[c]
    BY <1>n, <1>s DEF Shape, Downs
  <2> QED
    BY <1>n, <1>s, <2>1, <2>2, <2>3, <2>4, <2>5
<1>2. /\ t.parent[up] = n /\ (b # NULL => b \in Node /\ t.parent[b] = up)
      /\ (a # NULL => a \in Node /\ t.parent[a] = n) /\ (c # NULL => c \in Node /\ t.parent[c] = up)
  BY <1>n, <1>s, KidFacts
<1>3. /\ p \in Ext /\ p # n /\ p # up
      /\ p # NULL => p \in Node /\ SideOf(t, p, n) \in Sides /\ t.kid[SideOf(t, p, n)][p] = n
      /\ \A z \in Sides : p # NULL /\ t.kid[z][p] = n => z = SideOf(t, p, n)
      /\ (p = NULL <=> n = t.root) /\ (p # NULL => p \in D[t.root])
  <2>1. up \in D[n]
    BY <1>n, <1>1
  <2> QED
    BY <1>n, <1>s, <2>1, ParentFacts
<1>D. /\ D \in [Ext -> SUBSET Node] /\ D[NULL] = {} /\ \A x \in Node : x \in D[x]
  BY DEF Shape, Downs
<1>E. /\ E \in [Ext -> SUBSET Node] /\ E[n] = {n} \cup D[a] \cup D[b] /\ E[up] = D[n]
      /\ \A x \in Ext : x # n /\ x # up => E[x] = D[x]
  BY <1>D, <1>n, <1>1 DEF Turned, Ext
<1>k. /\ r.kid[s][n] = a /\ r.kid[o][n] = b /\ r.kid[s][up] = n /\ r.kid[o][up] = c
      /\ \A x \in Node, z \in Sides : x # n /\ x # up =>
           r.kid[z][x] = IF x = p /\ z = SideOf(t, p, n) THEN up ELSE t.kid[z][x]
  <2>1. r.kid[o][n] = b /\ r.kid[s][up] = n
    BY <1>n, <1>s, <1>1 DEF Rotated
  <2>2. r.kid[s][n] = a /\ r.kid[o][up] = c
    <3>1. /\ r.kid[s][n] = IF n = n /\ s = Other(s) THEN t.kid[s][up]
                           ELSE IF n = up /\ s = s THEN n
                           ELSE IF n = t.parent[n] /\ s = SideOf(t, n, n) THEN up
                           ELSE t.kid[s][n]
          /\ r.kid[o][up] = IF up = n /\ o = Other(s) THEN t.kid[s][up]
                            ELSE IF up = up /\ o = s THEN n
                            ELSE IF up = t.parent[n] /\ o = SideOf(t, up, n) THEN up
                            ELSE t.kid[o][up]
      BY <1>n, <1>s DEF Rotated
    <3> QED
      BY <1>s, <1>1, <1>3, <3>1
  <2>3. ASSUME NEW x \in Node, NEW z \in Sides, x # n, x # up
        PROVE  r.kid[z][x] = IF x = p /\ z = SideOf(t, p, n) THEN up ELSE t.kid[z][x]
    <3>1. r.kid[z][x] = IF x = n /\ z = Other(s) THEN t.kid[s][up]
                        ELSE IF x = up /\ z = s THEN n
                        ELSE IF x = t.parent[n] /\ z = SideOf(t, x, n) THEN up
                        ELSE t.kid[z][x]
      BY DEF Rotated
    <3> QED
      BY ONLY <2>3, <3>1
  <2> QED
    BY <2>1, <2>2, <2>3
<1>p. /\ r.parent[n] = up /\ r.parent[up] = p /\ (b # NULL => r.parent[b] = n)
      /\ \A x \in Node : x # n /\ x # up /\ x # b => r.parent[x] = t.parent[x]
      /\ r.root = IF p = NULL THEN up ELSE t.root
  BY <1>n, <1>1, <1>2 DEF Rotated
<1> HIDE DEF o, a, b, c, p, E
<1>4. ASSUME NEW x \in Node, x # n, x # up, NEW z \in Sides
      PROVE  /\ E[r.kid[z][x]] = D[t.kid[z][x]]
             /\ ~(x = p /\ z = SideOf(t, p, n)) =>
                  r.kid[z][x] = t.kid[z][x] /\ t.kid[z][x] # n /\ t.kid[z][x] # up
  <2>1. t.kid[z][x] \in Ext /\ (t.kid[z][x] # NULL => t.parent[t.kid[z][x]] = x)
    BY KidFacts
  <2>2. CASE x = p /\ z = SideOf(t, p, n)
    BY <1>E, <1>k, <1>3, <1>4, <2>2, <1>s
  <2>3. CASE ~(x = p /\ z = SideOf(t, p, n))
    <3>1. t.kid[z][x] # n
      BY <1>3, <1>4, <1>n, <1>s, <2>1, <2>3 DEF p
    <3>2. t.kid[z][x] # up
      BY <1>2, <1>4, <1>s, <2>1
    <3> QED
      BY <1>E, <1>k, <1>4, <2>1, <2>3, <3>1, <3>2
  <2> QED
    BY <2>2, <2>3
<1>5. ASSUME NEW x \in Node, NEW z \in Sides
      PROVE  E[x] = {x} \cup E[r.kid[z][x]] \cup E[r.kid[Other(z)][x]]
  <2>z. Other(z) \in Sides /\ ((z = s /\ Other(z) = o) \/ (z = o /\ Other(z) = s))
    BY <1>s DEF Sides, Other, o
  <2>1. CASE x = n
    <3>1. E[a] = D[a] /\ E[b] = D[b]
      BY <1>1, <1>E
    <3> QED
      BY <1>k, <1>E, <2>z, <2>1, <3>1
  <2>2. CASE x = up
    <3>1. E[c] = D[c]
      BY <1>1, <1>E
    <3>2. E[x] = {x} \cup E[n] \cup E[c]
      BY <1>1, <1>E, <2>2, <3>1
    <3>3. \/ r.kid[z][x] = n /\ r.kid[Other(z)][x] = c
          \/ r.kid[z][x] = c /\ r.kid[Other(z)][x] = n
      BY <1>k, <2>z, <2>2
    <3> QED
      BY ONLY <3>2, <3>3
  <2>3. CASE x # n /\ x # up
    <3>1. /\ E[r.kid[z][x]] = D[t.kid[z][x]] /\ E[r.kid[Other(z)][x]] = D[t.kid[Other(z)][x]]
      BY <1>4, <2>z, <2>3
    <3>2. D[x] = {x} \cup D[t.kid[z][x]] \cup D[t.kid[Other(z)][x]]
      BY DEF Shape, Downs
    <3>3. E[x] = D[x]
      BY <1>E, <2>3 DEF Ext
    <3> QED
      BY <3>1, <3>2, <3>3
  <2> QED
    BY <2>1, <2>2, <2>3
<1>e. E[NULL] = {}
  BY <1>D, <1>E, <1>n, <1>s DEF Ext
<1>6. Ordered(r, E)
  <2> SUFFICES ASSUME NEW x \in Node, NEW z \in Sides, NEW m \in E[r.kid[z][x]]
               PROVE  Beside(z, m, x)
    BY DEF Ordered
  <2>o. \A y \in Node, w \in Sides : \A l \in D[t.kid[w][y]] : Beside(w, l, y)
    BY DEF Shape, Ordered
  <2>1. CASE x = n
    <3>1. E[a] = D[a] /\ E[b] = D[b]
      BY <1>1, <1>E
    <3>2. CASE z = s
      BY <1>k, <1>n, <2>o, <2>1, <3>1, <3>2 DEF a
    <3>3. CASE z = o
      <4>1. m \in D[up]
        BY <1>1, <1>k, <2>1, <3>1, <3>3
      <4> QED
        BY <1>n, <1>s, <2>o, <2>1, <3>3, <4>1 DEF o
    <3> QED
      BY <1>s, <3>2, <3>3
  <2>2. CASE x = up
    <3>1. CASE z = s
      <4>1. m \in {n} \cup D[a] \cup D[b]
        BY <1>k, <1>E, <2>2, <3>1
      <4>2. Beside(s, n, up)
        <5>1. Beside(o, up, n)
          BY <1>n, <1>s, <1>D, <2>o DEF o
        <5> QED
          BY <1>n, <5>1, BesideOrder DEF o
      <4>3. CASE m \in D[a]
        <5>1. Beside(s, m, n) /\ m \in Node
          BY <1>n, <1>1, <2>o, <4>3 DEF a
        <5> QED
          BY <1>n, <2>2, <3>1, <4>2, <5>1, BesideOrder
      <4>4. CASE m \in D[b]
        BY <2>o, <2>2, <3>1, <4>4 DEF b
      <4> QED
        BY <2>2, <3>1, <4>1, <4>2, <4>3, <4>4
    <3>2. CASE z = o
      <4>1. m \in D[c]
        BY <1>1, <1>k, <1>E, <2>2, <3>2
      <4> QED
        BY <1>s, <2>o, <2>2, <3>2, <4>1 DEF c
    <3> QED
      BY <1>s, <3>1, <3>2
  <2>3. CASE x # n /\ x # up
    BY <1>4, <2>o, <2>3
  <2> QED
    BY <2>1, <2>2, <2>3
<1>7. E[r.root] = D[t.root]
  <2>1. CASE p = NULL
    BY <1>3, <1>E, <1>p, <2>1
  <2>2. CASE p # NULL
    <3>1. t.root # n /\ t.root \in Ext
      BY <1>3, <2>2 DEF Shape, Trees
    <3>2. t.root # up
      BY <1>2, <1>n, <1>s DEF Shape, Linked
    <3> QED
      BY <1>E, <1>p, <2>2, <3>1, <3>2
  <2> QED
    BY <2>1, <2>2
<1>8. ASSUME NEW x \in Node, NEW z \in Sides, r.kid[z][x] # NULL
      PROVE  r.parent[r.kid[z][x]] = x
  <2>1. CASE x = n
    BY <1>s, <1>1, <1>2, <1>k, <1>p, <1>8, <2>1
  <2>2. CASE x = up
    BY <1>s, <1>n, <1>1, <1>2, <1>k, <1>p, <1>8, <2>2
  <2>3. CASE x # n /\ x # up
    <3>1. CASE x = p /\ z = SideOf(t, p, n)
      BY <1>k, <1>p, <2>3, <3>1
    <3>2. CASE ~(x = p /\ z = SideOf(t, p, n))
      <4>1. r.kid[z][x] = t.kid[z][x] /\ t.kid[z][x] # n /\ t.kid[z][x] # up
        BY <1>4, <2>3, <3>2
      <4>2. t.kid[z][x] \in Node /\ t.parent[t.kid[z][x]] = x
        BY <1>8, <4>1, KidFacts
      <4>3. t.kid[z][x] # b
        BY <1>2, <1>8, <2>3, <4>1, <4>2
      <4> QED
        BY <1>p, <4>1, <4>2, <4>3
    <3> QED
      BY <3>1, <3>2
  <2> QED
    BY <2>1, <2>2, <2>3
<1>9. ASSUME NEW x \in Node, r.parent[x] # NULL
      PROVE  \E z \in Sides : r.kid[z][r.parent[x]] = x
  <2>1. CASE x = n
    BY <1>s, <1>k, <1>p, <2>1
  <2>2. CASE x = up
    BY <1>3, <1>k, <1>p, <1>9, <2>2
  <2>3. CASE x = b
    BY <1>s, <1>k, <1>p, <2>3
  <2>4. CASE x # n /\ x # up /\ x # b
    <3>1. r.parent[x] = t.parent[x]
      BY <1>p, <2>4
    <3>2. PICK z \in Sides : t.kid[z][t.parent[x]] = x
      BY <1>9, <3>1 DEF Shape, Linked
    <3>3. t.parent[x] \in Node
      BY <1>9, <3>1, ParentFacts
    <3>4. CASE t.parent[x] = n
      BY <1>s, <1>k, <2>4, <3>1, <3>2, <3>4 DEF a, o
    <3>5. CASE t.parent[x] = up
      BY <1>s, <1>k, <2>4, <3>1, <3>2, <3>5 DEF b, c
    <3>6. CASE t.parent[x] # n /\ t.parent[x] # up
      <4>1. ~(t.parent[x] = p /\ z = SideOf(t, p, n))
        BY <1>3, <1>s, <2>4, <3>2, <3>3
      <4> QED
        BY <1>4, <3>1, <3>2, <3>3, <3>6, <4>1
    <3> QED
      BY <3>4, <3>5, <3>6
  <2> QED
    BY <2>1, <2>2, <2>3, <2>4
<1>10. r.root # NULL => r.parent[r.root] = NULL
  <2>1. CASE p = NULL
    BY <1>p, <2>1
  <2>2. CASE p # NULL
    <3>1. t.root # n /\ (t.root # NULL => t.root \in Node /\ t.parent[t.root] = NULL)
      BY <1>3, <1>n, <2>2, ParentFacts DEF Shape, Linked
    <3>2. t.root # NULL => t.root # up /\ t.root # b
      BY <1>2, <1>n, <1>s, <3>1
    <3> QED
      BY <1>p, <2>2, <3>1, <3>2
  <2> QED
    BY <2>1, <2>2
<1>11. ASSUME NEW x \in Node \ E[r.root]
      PROVE  r.parent[x] = NULL /\ \A z \in Sides : r.kid[z][x] = NULL
  <2>1. x \notin D[t.root]
    BY <1>7
  <2>2. up \in D[t.root] /\ (b # NULL => b \in D[t.root])
    <3>1. D[n] \subseteq D[t.root]
      <4>1. t.root \in Node
        BY <1>s, <1>D DEF Shape, Trees, Ext
      <4> QED
        BY <1>n, <4>1 DEF Shape, Downs
    <3> QED
      BY <1>1, <1>2, <1>D, <3>1
  <2>3. t.parent[x] = NULL /\ \A z \in Sides : t.kid[z][x] = NULL
    BY <2>1 DEF Shape, Linked
  <2>4. x # n /\ x # up /\ x # b /\ x # p
    BY <2>1, <2>2, <1>3, <1>s
  <2> QED
    BY <1>k, <1>p, <2>3, <2>4
<1> QED
  BY <1>s, <1>e, <1>E, <1>5, <1>6, <1>7, <1>8, <1>9, <1>10, <1>11, ShapeFrom DEF E

-----------------------------------------------------------------------------
(* Nodes inside and outside the tree *)

LEMMA InsideFacts ==
  ASSUME NEW t, NEW D, Shape(t, D), NEW n \in D[t.root]
  PROVE  /\ n \in Node /\ t.root \in Node /\ D[n] \subseteq D[t.root]
         /\ \A s \in Sides : t.kid[s][n] # NULL => t.kid[s][n] \in D[t.root]
<1>1. t.root \in Ext /\ D[t.root] \subseteq Node /\ t.root # NULL
  BY DEF Shape, Trees, Downs
<1>2. n \in Node /\ t.root \in Node
  BY <1>1 DEF Ext
<1>3. D[n] \subseteq D[t.root]
  BY <1>2 DEF Shape, Downs
<1>4. \A s \in Sides : t.kid[s][n] # NULL => t.kid[s][n] \in D[t.root]
  BY <1>2, <1>3, KidFacts
<1> QED
  BY <1>2, <1>3, <1>4

LEMMA OutsideFacts ==
  ASSUME NEW t, NEW D, Shape(t, D), NEW n \in Node, n \notin D[t.root]
  PROVE  /\ t.parent[n] = NULL /\ (\A s \in Sides : t.kid[s][n] = NULL) /\ D[n] = {n}
         /\ \A x \in Ext : n \in D[x] => x = n
         /\ \A x \in Node, z \in Sides : t.kid[z][x] # n
         /\ t.root # n
<1>1. t.parent[n] = NULL /\ (\A s \in Sides : t.kid[s][n] = NULL)
  BY DEF Shape, Linked
<1>2. D[n] = {n}
  BY <1>1 DEF Shape, Downs, Sides, Other
<1>3. ASSUME NEW x \in Ext, n \in D[x] PROVE x = n
  <2>1. x \in Node /\ D[x] \subseteq Node
    BY <1>3 DEF Ext, Shape, Downs
  <2> QED
    BY <1>1, <1>3, <2>1, KeyAssumption DEF Shape, Linked
<1>4. ASSUME NEW x \in Node, NEW z \in Sides PROVE t.kid[z][x] # n
  <2>1. t.kid[z][x] = n => t.parent[n] = x
    BY KidFacts, KeyAssumption
  <2> QED
    BY <1>1, <2>1, KeyAssumption
<1>5. t.root # n
  BY <1>2
<1> QED
  BY <1>1, <1>2, <1>3, <1>4, <1>5

\* The root is below no other node
LEMMA RootOnTop ==
  ASSUME NEW t, NEW D, Shape(t, D), NEW x \in Node, t.root \in D[x] PROVE x = t.root
<1>1. t.root # NULL /\ t.root \in Node
  <2>1. D[x] \subseteq Node
    BY DEF Shape, Downs, Ext
  <2> QED
    BY <2>1, KeyAssumption
<1>2. D[x] \subseteq Node /\ t.parent[t.root] = NULL
  BY <1>1 DEF Shape, Downs, Linked, Ext
<1> QED
  BY <1>1, <1>2, KeyAssumption DEF Shape, Linked

-----------------------------------------------------------------------------
(* A new leaf *)

Attached(t, s, p, n, r) ==
  /\ r \in Trees
  /\ r.root = IF p = NULL THEN n ELSE t.root
  /\ \A x \in Node, z \in Sides : r.kid[z][x] = IF x = p /\ z = s THEN n ELSE t.kid[z][x]
  /\ \A x \in Node : r.parent[x] = IF x = n THEN p ELSE t.parent[x]
  /\ \A x \in Node : r.color[x] = IF x = n THEN "red" ELSE t.color[x]

\* What Attach does to the links
LEMMA AttachEffect ==
  ASSUME NEW t \in Trees, NEW s \in Sides, NEW p \in Ext, NEW n \in Node
  PROVE  LET u == [t EXCEPT !.parent[n] = p, !.color[n] = "red"]
         IN  Attached(t, s, p, n, IF p = NULL THEN [u EXCEPT !.root = n] ELSE Adopt(u, s, p, n))
<1> DEFINE u == [t EXCEPT !.parent[n] = p, !.color[n] = "red"]
<1>1. /\ u \in Trees /\ u.root = t.root /\ u.kid = t.kid
      /\ \A x \in Node : u.parent[x] = IF x = n THEN p ELSE t.parent[x]
      /\ \A x \in Node : u.color[x] = IF x = n THEN "red" ELSE t.color[x]
  BY DEF Trees
<1> HIDE DEF u
<1>2. p = NULL => Attached(t, s, p, n, [u EXCEPT !.root = n])
  <2>1. [u EXCEPT !.root = n] \in Trees
    BY <1>1 DEF Trees, Ext
  <2> QED
    BY <1>1, <2>1, KeyAssumption DEF Attached, Trees
<1>3. p # NULL => Attached(t, s, p, n, Adopt(u, s, p, n))
  <2>1. p # NULL => Adopted(u, s, p, n, Adopt(u, s, p, n))
    BY <1>1, AdoptEffect DEF Ext
  <2> QED
    BY <1>1, <2>1 DEF Attached, Adopted
<1>4. Attached(t, s, p, n, IF p = NULL THEN [u EXCEPT !.root = n] ELSE Adopt(u, s, p, n))
  BY <1>2, <1>3
<1> QED
  BY <1>4 DEF u

\* The nodes below each node, after the leaf n is put below p
Leafed(D, p, n) == [x \in Ext |-> IF p \in D[x] THEN D[x] \cup {n} ELSE D[x]]

\* Attach keeps the shape
LEMMA AttachShape ==
  ASSUME NEW t, NEW D, Shape(t, D), NEW n \in Node, n \notin D[t.root], NEW s \in Sides,
         NEW p \in Ext, p = NULL => t.root = NULL,
         p # NULL => p \in D[t.root] /\ t.kid[s][p] = NULL /\ Beside(s, n, p),
         \A a \in D[t.root], z \in Sides : p \in D[t.kid[z][a]] => Beside(z, n, a),
         NEW r, Attached(t, s, p, n, r)
  PROVE  Shape(r, Leafed(D, p, n)) /\ Leafed(D, p, n)[r.root] = D[t.root] \cup {n}
<1> DEFINE E == Leafed(D, p, n)
<1>D. /\ D \in [Ext -> SUBSET Node] /\ D[NULL] = {} /\ (\A x \in Node : x \in D[x])
      /\ t \in Trees /\ NULL \notin Node /\ NULL \in Ext /\ t.root \in Ext
  BY KeyAssumption DEF Shape, Downs, Ext, Trees
<1>1. /\ t.parent[n] = NULL /\ (\A z \in Sides : t.kid[z][n] = NULL) /\ D[n] = {n}
      /\ \A x \in Ext : n \in D[x] => x = n
      /\ \A x \in Node, z \in Sides : t.kid[z][x] # n
      /\ t.root # n
  BY OutsideFacts
<1>2. n # p
  BY <1>D
<1>3. \A x \in Ext : E[x] = IF p \in D[x] THEN D[x] \cup {n} ELSE D[x]
  BY DEF Leafed
<1>4. /\ E \in [Ext -> SUBSET Node] /\ E[NULL] = {} /\ E[n] = {n} /\ \A x \in Node : x \in Ext
  BY <1>D, <1>1, <1>2 DEF Leafed, Ext
<1> HIDE DEF E
<1>k. \A x \in Node, z \in Sides : r.kid[z][x] = IF x = p /\ z = s THEN n ELSE t.kid[z][x]
  BY DEF Attached
<1>5. ASSUME NEW x \in Node, NEW z \in Sides
      PROVE  /\ t.kid[z][x] \in Ext
             /\ E[r.kid[z][x]] = IF x = p /\ z = s THEN {n} ELSE E[t.kid[z][x]]
             /\ p \in D[t.kid[z][x]] => x # p
             /\ x = p /\ z = s => E[t.kid[z][x]] = {}
  <2>1. t.kid[z][x] \in Ext /\ x \notin D[t.kid[z][x]]
    BY KidFacts
  <2> QED
    BY <1>k, <1>4, <1>D, <2>1
<1>6. ASSUME NEW x \in Node, NEW z \in Sides
      PROVE  E[x] = {x} \cup E[r.kid[z][x]] \cup E[r.kid[Other(z)][x]]
  <2>z. Other(z) \in Sides /\ Other(z) # z
    BY BesideOrder
  <2>1. D[x] = {x} \cup D[t.kid[z][x]] \cup D[t.kid[Other(z)][x]]
    BY DEF Shape, Downs
  <2>2. CASE x = p
    <3>1. E[x] = D[x] \cup {n}
      BY <1>3, <1>4, <1>D, <2>2
    <3>2. \A w \in Sides : E[t.kid[w][x]] = D[t.kid[w][x]]
      BY <1>3, <1>5, <2>2
    <3>3. s = z \/ s = Other(z)
      BY BesideOrder
    <3>4. s = z => D[t.kid[z][x]] = {} /\ E[r.kid[z][x]] = {n} /\ E[r.kid[Other(z)][x]] = D[t.kid[Other(z)][x]]
      BY <1>5, <1>D, <2>z, <2>2, <3>2
    <3>5. s = Other(z) => D[t.kid[Other(z)][x]] = {} /\ E[r.kid[Other(z)][x]] = {n} /\ E[r.kid[z][x]] = D[t.kid[z][x]]
      BY <1>5, <1>D, <2>z, <2>2, <3>2
    <3> QED
      BY <2>1, <3>1, <3>3, <3>4, <3>5
  <2>3. CASE x # p
    <3>1. E[r.kid[z][x]] = E[t.kid[z][x]] /\ E[r.kid[Other(z)][x]] = E[t.kid[Other(z)][x]]
      BY <1>5, <2>z, <2>3
    <3> QED
      BY <1>3, <1>4, <1>5, <2>z, <2>1, <2>3, <3>1
  <2> QED
    BY <2>2, <2>3
<1>7. Ordered(r, E)
  <2> SUFFICES ASSUME NEW x \in Node, NEW z \in Sides, NEW m \in E[r.kid[z][x]]
               PROVE  Beside(z, m, x)
    BY DEF Ordered
  <2>1. CASE x = p /\ z = s
    BY <1>5, <2>1, <1>D
  <2>2. CASE ~(x = p /\ z = s) /\ m \in D[t.kid[z][x]]
    BY <2>2 DEF Shape, Ordered
  <2>3. CASE ~(x = p /\ z = s) /\ m \notin D[t.kid[z][x]]
    <3>1. m = n /\ p \in D[t.kid[z][x]]
      <4>1. t.kid[z][x] \in Ext /\ m \in E[t.kid[z][x]]
        BY <1>5, <2>3
      <4> QED
        BY <1>3, <2>3, <4>1
    <3>2. t.kid[z][x] # NULL
      BY <3>1, <1>D
    <3>3. x \in D[t.root]
      BY <3>2 DEF Shape, Linked
    <3> QED
      BY <3>1, <3>3
  <2> QED
    BY <2>1, <2>2, <2>3
<1>8. E[r.root] = D[t.root] \cup {n}
  BY <1>3, <1>4, <1>D DEF Attached
<1>9. ASSUME NEW x \in Node, NEW z \in Sides, r.kid[z][x] # NULL
      PROVE  r.parent[r.kid[z][x]] = x
  <2>1. CASE x = p /\ z = s
    BY <1>k, <2>1 DEF Attached
  <2>2. CASE ~(x = p /\ z = s)
    <3>1. r.kid[z][x] = t.kid[z][x] /\ t.kid[z][x] # n
      BY <1>1, <1>k, <2>2
    <3>2. t.kid[z][x] \in Node /\ t.parent[t.kid[z][x]] = x
      BY <1>9, <3>1, KidFacts
    <3> QED
      BY <3>1, <3>2 DEF Attached
  <2> QED
    BY <2>1, <2>2
<1>10. ASSUME NEW x \in Node, r.parent[x] # NULL
       PROVE  \E z \in Sides : r.kid[z][r.parent[x]] = x
  <2>1. CASE x = n
    <3>1. r.parent[x] = p /\ p \in Node
      BY <1>10, <2>1 DEF Attached, Ext
    <3> QED
      BY <1>k, <2>1, <3>1
  <2>2. CASE x # n
    <3>1. r.parent[x] = t.parent[x]
      BY <2>2 DEF Attached
    <3>2. PICK z \in Sides : t.kid[z][t.parent[x]] = x
      BY <1>10, <3>1 DEF Shape, Linked
    <3>3. t.parent[x] \in Node
      BY <1>10, <3>1, ParentFacts
    <3>4. ~(t.parent[x] = p /\ z = s)
      BY <1>D, <3>2, <3>3
    <3> QED
      BY <1>k, <3>1, <3>2, <3>3, <3>4
  <2> QED
    BY <2>1, <2>2
<1>11. r.root # NULL => r.parent[r.root] = NULL
  BY <1>1, <1>D DEF Attached, Shape, Linked, Ext
<1>12. ASSUME NEW x \in Node \ E[r.root]
       PROVE  r.parent[x] = NULL /\ \A z \in Sides : r.kid[z][x] = NULL
  <2>1. x \notin D[t.root] /\ x # n
    BY <1>8
  <2>2. x # p
    BY <2>1, <1>D
  <2>3. t.parent[x] = NULL /\ \A z \in Sides : t.kid[z][x] = NULL
    BY <2>1 DEF Shape, Linked
  <2> QED
    BY <1>k, <2>1, <2>2, <2>3 DEF Attached
<1> QED
  <2>1. r \in Trees
    BY DEF Attached
  <2> QED
    BY <1>4, <1>6, <1>7, <1>8, <1>9, <1>10, <1>11, <1>12, <2>1, ShapeFrom DEF E

-----------------------------------------------------------------------------
(* A node with at most one kid is taken out *)

Freed(t, n, r) ==
  /\ r \in Trees /\ r.root = t.root
  /\ \A x \in Node, z \in Sides : r.kid[z][x] = IF x = n THEN NULL ELSE t.kid[z][x]
  /\ \A x \in Node : r.parent[x] = IF x = n THEN NULL ELSE t.parent[x]
  /\ \A x \in Node : r.color[x] = IF x = n THEN "black" ELSE t.color[x]

LEMMA ForgetEffect ==
  ASSUME NEW t \in Trees, NEW n \in Node PROVE Freed(t, n, Forget(t, n))
  BY DEF Freed, Forget, Trees, Ext, Sides

Joined(t, n, child, r) ==
  LET p == t.parent[n]
  IN  /\ r \in Trees /\ r.color = t.color
      /\ r.root = IF p = NULL THEN child ELSE t.root
      /\ \A x \in Node, z \in Sides :
           r.kid[z][x] = IF x = p /\ z = SideOf(t, p, n) THEN child ELSE t.kid[z][x]
      /\ \A x \in Node : r.parent[x] = IF x = child THEN p ELSE t.parent[x]

LEMMA SpliceEffect ==
  ASSUME NEW t \in Trees, NEW n \in Node, NEW child \in Ext
  PROVE  Joined(t, n, child, Splice(t, n, child))
<1> DEFINE p == t.parent[n]
           c == IF child = NULL THEN t ELSE [t EXCEPT !.parent[child] = p]
<1>1. p \in Ext
  BY DEF Trees
<1>2. /\ c \in Trees /\ c.root = t.root /\ c.kid = t.kid /\ c.color = t.color
      /\ \A x \in Node : c.parent[x] = IF x = child THEN p ELSE t.parent[x]
  BY <1>1, KeyAssumption DEF Trees, Ext
<1>3. SideOf(c, p, n) = SideOf(t, p, n)
  BY <1>2 DEF SideOf
<1> HIDE DEF c
<1>4. Replaced(c, p, n, child, Replace(c, p, n, child))
  BY <1>1, <1>2, ReplaceEffect
<1>5. Joined(t, n, child, Replace(c, p, n, child))
  BY <1>2, <1>3, <1>4 DEF Joined, Replaced
<1> QED
  BY <1>5 DEF Splice, c

Spliced(t, n, child, r) ==
  LET p == t.parent[n]
  IN  /\ r \in Trees
      /\ r.root = IF p = NULL THEN child ELSE t.root
      /\ \A x \in Node, z \in Sides :
           r.kid[z][x] = IF x = n THEN NULL
                         ELSE IF x = p /\ z = SideOf(t, p, n) THEN child ELSE t.kid[z][x]
      /\ \A x \in Node :
           r.parent[x] = IF x = n THEN NULL ELSE IF x = child THEN p ELSE t.parent[x]
      /\ \A x \in Node : r.color[x] = IF x = n THEN "black" ELSE t.color[x]

LEMMA SplicedEffect ==
  ASSUME NEW t \in Trees, NEW n \in Node, NEW child \in Ext
  PROVE  Spliced(t, n, child, Forget(Splice(t, n, child), n))
<1> DEFINE j == Splice(t, n, child)
<1>1. Joined(t, n, child, j)
  BY SpliceEffect
<1> HIDE DEF j
<1>2. Freed(j, n, Forget(j, n))
  BY <1>1, ForgetEffect DEF Joined
<1>3. Spliced(t, n, child, Forget(j, n))
  BY <1>1, <1>2 DEF Spliced, Joined, Freed
<1> QED
  BY <1>3 DEF j

\* The nodes below each node, without n
Less(D, n) == [x \in Ext |-> IF x = n THEN {n} ELSE D[x] \ {n}]

\* Taking out a node that has at most one kid keeps the shape
LEMMA SpliceShape ==
  ASSUME NEW t, NEW D, Shape(t, D), NEW n \in D[t.root], NEW w \in Sides,
         t.kid[Other(w)][n] = NULL, NEW r, Spliced(t, n, t.kid[w][n], r)
  PROVE  /\ Shape(r, Less(D, n)) /\ Less(D, n)[r.root] = D[t.root] \ {n}
         /\ \A x \in Node, z \in Sides :
              x # n => Less(D, n)[r.kid[z][x]] = D[t.kid[z][x]] \ {n}
<1> DEFINE E == Less(D, n)
           p == t.parent[n]
           c == t.kid[w][n]
<1>D. /\ D \in [Ext -> SUBSET Node] /\ D[NULL] = {} /\ (\A x \in Node : x \in D[x])
      /\ t \in Trees /\ NULL \notin Node /\ NULL \in Ext /\ t.root \in Ext
      /\ \A x \in Node : x \in Ext
  BY KeyAssumption DEF Shape, Downs, Ext, Trees
<1>n. n \in Node /\ n # NULL
  BY <1>D
<1>c. /\ c \in Ext /\ c # n /\ n \notin D[c] /\ D[n] = {n} \cup D[c]
      /\ (c # NULL => c \in Node /\ t.parent[c] = n)
  <2>1. D[n] = {n} \cup D[c] \cup D[t.kid[Other(w)][n]]
    BY <1>n DEF Shape, Downs
  <2> QED
    BY <1>n, <1>D, <2>1, KidFacts
<1>p. /\ p \in Ext /\ p # n /\ (p = NULL <=> n = t.root) /\ (p # NULL => p \in D[t.root])
      /\ p # NULL => p \in Node /\ SideOf(t, p, n) \in Sides /\ t.kid[SideOf(t, p, n)][p] = n
      /\ \A z \in Sides : p # NULL /\ t.kid[z][p] = n => z = SideOf(t, p, n)
  BY <1>n, ParentFacts
<1>E. /\ E \in [Ext -> SUBSET Node] /\ E[NULL] = {} /\ E[n] = {n}
      /\ \A x \in Ext : x # n => E[x] = D[x] \ {n}
  BY <1>D, <1>n DEF Less
<1>k. /\ \A z \in Sides : r.kid[z][n] = NULL
      /\ \A x \in Node, z \in Sides : x # n =>
           r.kid[z][x] = IF x = p /\ z = SideOf(t, p, n) THEN c ELSE t.kid[z][x]
  BY <1>n DEF Spliced
<1>q. /\ r.parent[n] = NULL /\ (c # NULL => r.parent[c] = p)
      /\ \A x \in Node : x # n /\ x # c => r.parent[x] = t.parent[x]
      /\ r.root = IF p = NULL THEN c ELSE t.root
      /\ r \in Trees
  BY <1>n, <1>c DEF Spliced
<1> HIDE DEF E, p, c
<1>1. ASSUME NEW x \in Node, NEW z \in Sides, x # n
      PROVE  /\ E[r.kid[z][x]] = D[t.kid[z][x]] \ {n}
             /\ ~(x = p /\ z = SideOf(t, p, n)) => r.kid[z][x] = t.kid[z][x] /\ t.kid[z][x] # n
  <2>1. t.kid[z][x] \in Ext /\ (t.kid[z][x] # NULL => t.parent[t.kid[z][x]] = x)
    BY KidFacts
  <2>2. CASE x = p /\ z = SideOf(t, p, n)
    BY <1>E, <1>k, <1>c, <1>p, <1>D, <1>1, <2>2
  <2>3. CASE ~(x = p /\ z = SideOf(t, p, n))
    <3>1. t.kid[z][x] # n
      BY <1>p, <1>n, <1>D, <2>1, <2>3 DEF p
    <3> QED
      BY <1>E, <1>k, <1>1, <2>1, <2>3, <3>1
  <2> QED
    BY <2>2, <2>3
<1>2. ASSUME NEW x \in Node, NEW z \in Sides
      PROVE  E[x] = {x} \cup E[r.kid[z][x]] \cup E[r.kid[Other(z)][x]]
  <2>z. Other(z) \in Sides
    BY BesideOrder
  <2>1. CASE x = n
    BY <1>E, <1>k, <2>z, <2>1
  <2>2. CASE x # n
    <3>1. D[x] = {x} \cup D[t.kid[z][x]] \cup D[t.kid[Other(z)][x]]
      BY DEF Shape, Downs
    <3>2. E[x] = D[x] \ {n}
      BY <1>E, <1>D, <2>2
    <3>3. E[r.kid[z][x]] = D[t.kid[z][x]] \ {n} /\ E[r.kid[Other(z)][x]] = D[t.kid[Other(z)][x]] \ {n}
      BY <1>1, <2>z, <2>2
    <3> QED
      BY <2>2, <3>1, <3>2, <3>3
  <2> QED
    BY <2>1, <2>2
<1>3. Ordered(r, E)
  <2> SUFFICES ASSUME NEW x \in Node, NEW z \in Sides, NEW m \in E[r.kid[z][x]]
               PROVE  Beside(z, m, x)
    BY DEF Ordered
  <2>1. x # n
    BY <1>E, <1>k
  <2> QED
    BY <1>1, <2>1 DEF Shape, Ordered
<1>4. E[r.root] = D[t.root] \ {n}
  <2>1. CASE p = NULL
    BY <1>E, <1>c, <1>p, <1>q, <2>1
  <2>2. CASE p # NULL
    BY <1>E, <1>p, <1>q, <1>D, <2>2
  <2> QED
    BY <2>1, <2>2
<1>5. ASSUME NEW x \in Node, NEW z \in Sides, r.kid[z][x] # NULL
      PROVE  r.parent[r.kid[z][x]] = x
  <2>1. x # n
    BY <1>5, <1>k
  <2>2. CASE x = p /\ z = SideOf(t, p, n)
    <3>1. r.kid[z][x] = c
      BY <1>k, <2>1, <2>2
    <3> QED
      BY <1>5, <1>q, <2>2, <3>1
  <2>3. CASE ~(x = p /\ z = SideOf(t, p, n))
    <3>1. r.kid[z][x] = t.kid[z][x] /\ t.kid[z][x] # n
      BY <1>1, <2>1, <2>3
    <3>2. t.kid[z][x] \in Node /\ t.parent[t.kid[z][x]] = x
      BY <1>5, <3>1, KidFacts
    <3>3. t.kid[z][x] # c
      BY <1>c, <1>D, <2>1, <3>2
    <3> QED
      BY <1>q, <3>1, <3>2, <3>3
  <2> QED
    BY <2>2, <2>3
<1>6. ASSUME NEW x \in Node, r.parent[x] # NULL
      PROVE  \E z \in Sides : r.kid[z][r.parent[x]] = x
  <2>1. x # n
    BY <1>6, <1>q
  <2>2. CASE x = c
    <3>1. r.parent[x] = p
      BY <1>q, <1>D, <2>2
    <3> QED
      BY <1>6, <1>p, <1>k, <2>2, <3>1
  <2>3. CASE x # c
    <3>1. r.parent[x] = t.parent[x]
      BY <1>q, <2>1, <2>3
    <3>2. PICK z \in Sides : t.kid[z][t.parent[x]] = x
      BY <1>6, <3>1 DEF Shape, Linked
    <3>3. t.parent[x] \in Node
      BY <1>6, <3>1, ParentFacts
    <3>4. t.parent[x] # n
      <4>1. z = w \/ z = Other(w)
        BY BesideOrder
      <4> QED
        BY <2>3, <3>2, <4>1, <1>D DEF c
    <3>5. ~(t.parent[x] = p /\ z = SideOf(t, p, n))
      BY <1>p, <2>1, <3>2, <3>3, <1>D
    <3> QED
      BY <1>1, <3>1, <3>2, <3>3, <3>4, <3>5
  <2> QED
    BY <2>2, <2>3
<1>7. r.root # NULL => r.parent[r.root] = NULL
  <2>1. CASE p = NULL
    BY <1>q, <2>1
  <2>2. CASE p # NULL
    <3>1. t.root # n /\ (t.root # NULL => t.root \in Node /\ t.parent[t.root] = NULL)
      BY <1>p, <1>n, <2>2, ParentFacts DEF Shape, Linked
    <3>2. t.root # NULL => t.root # c
      BY <1>c, <1>n, <3>1
    <3> QED
      BY <1>q, <2>2, <3>1, <3>2
  <2> QED
    BY <2>1, <2>2
<1>8. ASSUME NEW x \in Node \ E[r.root]
      PROVE  r.parent[x] = NULL /\ \A z \in Sides : r.kid[z][x] = NULL
  <2>1. CASE x = n
    BY <1>q, <1>k, <2>1
  <2>2. CASE x # n
    <3>1. x \notin D[t.root]
      BY <1>4, <2>2
    <3>2. t.parent[x] = NULL /\ \A z \in Sides : t.kid[z][x] = NULL
      BY <3>1 DEF Shape, Linked
    <3>3. x # p /\ x # c
      BY <3>1, <3>2, <1>p, <1>c, <1>n, <1>D
    <3> QED
      BY <1>k, <1>q, <2>2, <3>2, <3>3
  <2> QED
    BY <2>1, <2>2
<1>9. Shape(r, E)
  BY <1>q, <1>E, <1>2, <1>3, <1>4, <1>5, <1>6, <1>7, <1>8, ShapeFrom
<1> QED
  BY <1>1, <1>4, <1>9 DEF E

-----------------------------------------------------------------------------
(* A node from outside takes the place of old *)

Swapped(t, n, old, r) ==
  LET p == t.parent[old]
  IN  /\ r \in Trees
      /\ r.root = IF p = NULL THEN n ELSE t.root
      /\ \A x \in Node, z \in Sides :
           r.kid[z][x] = IF x = old THEN NULL ELSE IF x = n THEN t.kid[z][old]
                         ELSE IF x = p /\ z = SideOf(t, p, old) THEN n ELSE t.kid[z][x]
      /\ \A x \in Node :
           r.parent[x] = IF x = old THEN NULL ELSE IF x = n THEN p
                         ELSE IF \E z \in Sides : t.kid[z][old] = x THEN n ELSE t.parent[x]
      /\ \A x \in Node :
           r.color[x] = IF x = old THEN "black" ELSE IF x = n THEN t.color[old] ELSE t.color[x]

LEMMA SwapEffect ==
  ASSUME NEW t \in Trees, NEW n \in Node, NEW old \in Node, n # old,
         t.parent[old] \notin {n, old}, \A z \in Sides : t.kid[z][old] \notin {n, old}
  PROVE  Swapped(t, n, old, Forget(TakePlace(t, n, old), old))
<1> DEFINE p    == t.parent[old]
           l    == t.kid["left"][old]
           g    == t.kid["right"][old]
           copy == [t EXCEPT !.parent[n] = p, !.color[n] = t.color[old]]
           up   == Replace(copy, p, old, n)
           a    == Adopt(up, "left", n, l)
           b    == Adopt(a, "right", n, g)
           r    == Forget(b, old)
<1>0. /\ p \in Ext /\ l \in Ext /\ g \in Ext /\ n \in Ext /\ "left" \in Sides /\ "right" \in Sides
      /\ l # n /\ l # old /\ g # n /\ g # old /\ p # n /\ p # old /\ "left" # "right"
      /\ NULL \notin Node
  BY KeyAssumption DEF Trees, Ext, Sides
<1>1. /\ copy \in Trees /\ copy.root = t.root /\ copy.kid = t.kid
      /\ \A x \in Node : copy.parent[x] = IF x = n THEN p ELSE t.parent[x]
      /\ \A x \in Node : copy.color[x] = IF x = n THEN t.color[old] ELSE t.color[x]
  BY <1>0 DEF Trees
<1>2. SideOf(copy, p, old) = SideOf(t, p, old)
  BY <1>1 DEF SideOf
<1> HIDE DEF copy
<1>3. Replaced(copy, p, old, n, up)
  BY <1>0, <1>1, ReplaceEffect
<1> HIDE DEF up
<1>4. Adopted(up, "left", n, l, a)
  BY <1>0, <1>3, AdoptEffect DEF Replaced
<1> HIDE DEF a
<1>5. Adopted(a, "right", n, g, b)
  <2>1. a \in Trees
    BY <1>4 DEF Adopted
  <2> QED
    BY <1>0, <2>1, AdoptEffect
<1> HIDE DEF b
<1>6. Freed(b, old, r)
  BY <1>5, ForgetEffect DEF Adopted
<1> HIDE DEF r
<1>7. r \in Trees /\ r.root = IF p = NULL THEN n ELSE t.root
  BY <1>1, <1>3, <1>4, <1>5, <1>6 DEF Freed, Adopted, Replaced
<1>8. ASSUME NEW x \in Node, NEW z \in Sides
      PROVE  r.kid[z][x] = IF x = old THEN NULL ELSE IF x = n THEN t.kid[z][old]
                           ELSE IF x = p /\ z = SideOf(t, p, old) THEN n ELSE t.kid[z][x]
  <2>1. r.kid[z][x] = IF x = old THEN NULL ELSE b.kid[z][x]
    BY <1>6 DEF Freed
  <2>2. b.kid[z][x] = IF x = n THEN t.kid[z][old] ELSE up.kid[z][x]
    <3>1. z = "left" \/ z = "right"
      BY DEF Sides
    <3> QED
      BY <1>0, <1>4, <1>5, <3>1 DEF Adopted
  <2>3. up.kid[z][x] = IF x = p /\ z = SideOf(t, p, old) THEN n ELSE t.kid[z][x]
    BY <1>1, <1>2, <1>3 DEF Replaced
  <2> QED
    BY <2>1, <2>2, <2>3
<1>9. ASSUME NEW x \in Node
      PROVE  r.parent[x] = IF x = old THEN NULL ELSE IF x = n THEN p
                           ELSE IF \E z \in Sides : t.kid[z][old] = x THEN n ELSE t.parent[x]
  <2>1. (\E z \in Sides : t.kid[z][old] = x) <=> x = l \/ x = g
    BY DEF Sides
  <2>2. r.parent[x] = IF x = old THEN NULL ELSE b.parent[x]
    BY <1>6 DEF Freed
  <2>3. b.parent[x] = IF x = l \/ x = g THEN n ELSE IF x = n THEN p ELSE t.parent[x]
    BY <1>1, <1>3, <1>4, <1>5 DEF Adopted, Replaced
  <2> QED
    BY <1>0, <2>1, <2>2, <2>3
<1>10. \A x \in Node :
         r.color[x] = IF x = old THEN "black" ELSE IF x = n THEN t.color[old] ELSE t.color[x]
  BY <1>1, <1>3, <1>4, <1>5, <1>6 DEF Freed, Adopted, Replaced
<1>11. r = Forget(TakePlace(t, n, old), old)
  BY DEF r, b, a, up, copy, TakePlace
<1>12. Swapped(t, n, old, r)
  BY <1>7, <1>8, <1>9, <1>10 DEF Swapped
<1> QED
  BY <1>11, <1>12

\* The nodes below each node, with n for old
Instead(D, n, old) ==
  [x \in Ext |-> IF x = old THEN {old}
                 ELSE LET y == IF x = n THEN old ELSE x
                      IN  IF old \in D[y] THEN (D[y] \ {old}) \cup {n} ELSE D[y]]

\* The successor in the place of the removed node keeps the shape
LEMMA SwapShape ==
  ASSUME NEW t, NEW D, Shape(t, D), NEW n \in Node, n \notin D[t.root], NEW old \in D[t.root],
         \A x \in D[t.root], z \in Sides : old \in D[t.kid[z][x]] => Beside(z, n, x),
         \A z \in Sides : \A m \in D[t.kid[z][old]] : Beside(z, m, n),
         NEW r, Swapped(t, n, old, r)
  PROVE  /\ Shape(r, Instead(D, n, old))
         /\ Instead(D, n, old)[r.root] = (D[t.root] \ {old}) \cup {n}
<1> DEFINE E == Instead(D, n, old)
           p == t.parent[old]
<1>D. /\ D \in [Ext -> SUBSET Node] /\ D[NULL] = {} /\ (\A x \in Node : x \in D[x])
      /\ t \in Trees /\ NULL \notin Node /\ NULL \in Ext /\ t.root \in Ext
      /\ \A x \in Node : x \in Ext
  BY KeyAssumption DEF Shape, Downs, Ext, Trees
<1>o. old \in Node /\ old # NULL /\ n # old
  BY <1>D
<1>n. /\ t.parent[n] = NULL /\ (\A z \in Sides : t.kid[z][n] = NULL) /\ D[n] = {n}
      /\ \A x \in Ext : n \in D[x] => x = n
      /\ \A x \in Node, z \in Sides : t.kid[z][x] # n
      /\ t.root # n
  BY OutsideFacts
<1>p. /\ p \in Ext /\ p # old /\ (p = NULL <=> old = t.root) /\ (p # NULL => p \in D[t.root])
      /\ p # NULL => p \in Node /\ SideOf(t, p, old) \in Sides /\ t.kid[SideOf(t, p, old)][p] = old
      /\ \A z \in Sides : p # NULL /\ t.kid[z][p] = old => z = SideOf(t, p, old)
  BY <1>o, ParentFacts
<1>m. p # n
  BY <1>p, <1>D
<1>E. /\ E \in [Ext -> SUBSET Node] /\ E[NULL] = {} /\ E[old] = {old}
      /\ E[n] = (D[old] \ {old}) \cup {n}
      /\ \A x \in Ext : x # old /\ x # n =>
           E[x] = IF old \in D[x] THEN (D[x] \ {old}) \cup {n} ELSE D[x]
  <2>1. n \in Ext /\ old \in Ext /\ old \in D[old]
    BY <1>D, <1>o
  <2>2. E \in [Ext -> SUBSET Node]
    <3>1. \A x \in Ext : E[x] \in SUBSET Node
      BY <1>D, <1>o DEF Instead
    <3> QED
      BY <3>1 DEF Instead
  <2> QED
    BY <1>D, <1>o, <2>1, <2>2 DEF Instead
<1>k. /\ \A z \in Sides : r.kid[z][old] = NULL /\ r.kid[z][n] = t.kid[z][old]
      /\ \A x \in Node, z \in Sides : x # old /\ x # n =>
           r.kid[z][x] = IF x = p /\ z = SideOf(t, p, old) THEN n ELSE t.kid[z][x]
  BY <1>o DEF Swapped
<1>q. /\ r.parent[old] = NULL /\ r.parent[n] = p
      /\ \A x \in Node : x # old /\ x # n /\ t.parent[x] = old => r.parent[x] = n
      /\ \A x \in Node : x # old /\ x # n /\ t.parent[x] # old => r.parent[x] = t.parent[x]
      /\ r.root = IF p = NULL THEN n ELSE t.root
      /\ r \in Trees
  <2>1. \A x \in Node : (\E z \in Sides : t.kid[z][old] = x) <=> t.parent[x] = old
    <3> TAKE x \in Node
    <3>1. ASSUME NEW z \in Sides, t.kid[z][old] = x PROVE t.parent[x] = old
      BY <3>1, <1>o, <1>D, KidFacts
    <3>2. t.parent[x] = old => \E z \in Sides : t.kid[z][old] = x
      BY <1>o DEF Shape, Linked
    <3> QED
      BY <3>1, <3>2
  <2> QED
    BY <1>o, <2>1 DEF Swapped
<1> HIDE DEF E, p
<1>1. ASSUME NEW x \in Node, NEW z \in Sides, x # old, x # n
      PROVE  LET K == D[t.kid[z][x]]
             IN  /\ E[r.kid[z][x]] = IF old \in K THEN (K \ {old}) \cup {n} ELSE K
                 /\ ~(x = p /\ z = SideOf(t, p, old)) =>
                      r.kid[z][x] = t.kid[z][x] /\ t.kid[z][x] # old /\ t.kid[z][x] # n
  <2>1. t.kid[z][x] \in Ext /\ (t.kid[z][x] # NULL => t.parent[t.kid[z][x]] = x)
    BY KidFacts
  <2>2. CASE x = p /\ z = SideOf(t, p, old)
    <3>1. r.kid[z][x] = n /\ t.kid[z][x] = old
      BY <1>k, <1>p, <1>D, <1>1, <2>2
    <3> QED
      BY <1>E, <1>D, <1>o, <2>2, <3>1
  <2>3. CASE ~(x = p /\ z = SideOf(t, p, old))
    <3>1. t.kid[z][x] # old
      BY <1>p, <1>o, <1>D, <2>1, <2>3 DEF p
    <3>2. t.kid[z][x] # n
      BY <1>n
    <3>3. r.kid[z][x] = t.kid[z][x]
      BY <1>k, <1>1, <2>3
    <3> DEFINE k == t.kid[z][x]
    <3>4. k \in Ext /\ k # old /\ k # n
      BY ONLY <2>1, <3>1, <3>2
    <3> HIDE DEF k
    <3>5. E[k] = IF old \in D[k] THEN (D[k] \ {old}) \cup {n} ELSE D[k]
      BY ONLY <1>E, <3>4
    <3> QED
      BY ONLY <3>1, <3>2, <3>3, <3>5 DEF k
  <2> QED
    BY <2>2, <2>3
<1>2. ASSUME NEW z \in Sides
      PROVE  E[r.kid[z][n]] = D[t.kid[z][old]] /\ t.kid[z][old] # old /\ t.kid[z][old] \in Ext
  <2>1. t.kid[z][old] \in Ext /\ t.kid[z][old] # old /\ old \notin D[t.kid[z][old]]
    BY <1>o, KidFacts
  <2> QED
    BY <1>E, <1>k, <1>n, <1>o, <2>1
<1>3. ASSUME NEW x \in Node, NEW z \in Sides
      PROVE  E[x] = {x} \cup E[r.kid[z][x]] \cup E[r.kid[Other(z)][x]]
  <2>z. Other(z) \in Sides
    BY BesideOrder
  <2>d. \A y \in Node : D[y] = {y} \cup D[t.kid[z][y]] \cup D[t.kid[Other(z)][y]]
    BY DEF Shape, Downs
  <2>1. CASE x = old
    BY <1>E, <1>k, <2>z, <2>1
  <2>2. CASE x = n
    <3>1. old \notin D[t.kid[z][old]] /\ old \notin D[t.kid[Other(z)][old]]
      BY <1>o, <2>z, KidFacts
    <3> QED
      BY <1>E, <1>2, <1>o, <2>z, <2>d, <2>2, <3>1
  <2>3. CASE x # old /\ x # n
    <3> DEFINE K == D[t.kid[z][x]]
               L == D[t.kid[Other(z)][x]]
    <3>1. E[r.kid[z][x]] = IF old \in K THEN (K \ {old}) \cup {n} ELSE K
      BY <1>1, <2>3
    <3>2. E[r.kid[Other(z)][x]] = IF old \in L THEN (L \ {old}) \cup {n} ELSE L
      BY <1>1, <2>z, <2>3
    <3>3. E[x] = IF old \in D[x] THEN (D[x] \ {old}) \cup {n} ELSE D[x]
      BY <1>E, <1>D, <2>3
    <3>4. D[x] = {x} \cup K \cup L
      BY <2>d
    <3> HIDE DEF K, L
    <3> QED
      BY <2>3, <3>1, <3>2, <3>3, <3>4
  <2> QED
    BY <2>1, <2>2, <2>3
<1>4. Ordered(r, E)
  <2> SUFFICES ASSUME NEW x \in Node, NEW z \in Sides, NEW m \in E[r.kid[z][x]]
               PROVE  Beside(z, m, x)
    BY DEF Ordered
  <2>1. x # old
    BY <1>E, <1>k
  <2>2. CASE x = n
    BY <1>2, <2>2
  <2>3. CASE x # n
    <3> DEFINE K == D[t.kid[z][x]]
    <3>0. E[r.kid[z][x]] = IF old \in K THEN (K \ {old}) \cup {n} ELSE K
      BY <1>1, <2>1, <2>3
    <3>1. m \in D[t.kid[z][x]] \/ (m = n /\ old \in D[t.kid[z][x]])
      <4> HIDE DEF K
      <4>1. m \in K \/ (m = n /\ old \in K)
        BY <3>0
      <4> QED
        BY <4>1 DEF K
    <3>2. CASE m \in D[t.kid[z][x]]
      BY <3>2 DEF Shape, Ordered
    <3>3. CASE m = n /\ old \in D[t.kid[z][x]]
      <4>1. t.kid[z][x] # NULL
        BY <3>3, <1>D
      <4>2. x \in D[t.root]
        BY <4>1 DEF Shape, Linked
      <4> QED
        BY <3>3, <4>2
    <3> QED
      BY <3>1, <3>2, <3>3
  <2> QED
    BY <2>2, <2>3
<1>5. E[r.root] = (D[t.root] \ {old}) \cup {n}
  <2>1. CASE p = NULL
    BY <1>E, <1>p, <1>q, <2>1
  <2>2. CASE p # NULL
    BY <1>E, <1>p, <1>q, <1>n, <1>D, <2>2
  <2> QED
    BY <2>1, <2>2
<1>6. ASSUME NEW x \in Node, NEW z \in Sides, r.kid[z][x] # NULL
      PROVE  r.parent[r.kid[z][x]] = x
  <2>1. x # old
    BY <1>6, <1>k
  <2>2. CASE x = n
    <3>1. r.kid[z][x] = t.kid[z][old]
      BY <1>k, <2>2
    <3>2. t.kid[z][old] \in Node /\ t.parent[t.kid[z][old]] = old
      BY <1>6, <1>o, <3>1, KidFacts
    <3> QED
      BY <1>q, <1>n, <1>2, <1>o, <2>2, <3>1, <3>2
  <2>3. CASE x # n /\ x = p /\ z = SideOf(t, p, old)
    <3>1. r.kid[z][x] = n
      BY <1>k, <2>1, <2>3
    <3> QED
      BY <1>q, <2>3, <3>1
  <2>4. CASE x # n /\ ~(x = p /\ z = SideOf(t, p, old))
    <3>1. r.kid[z][x] = t.kid[z][x] /\ t.kid[z][x] # old /\ t.kid[z][x] # n
      BY <1>1, <2>1, <2>4
    <3>2. t.kid[z][x] \in Node /\ t.parent[t.kid[z][x]] = x
      BY <1>6, <3>1, KidFacts
    <3> QED
      BY <1>q, <2>1, <3>1, <3>2
  <2> QED
    BY <2>2, <2>3, <2>4
<1>7. ASSUME NEW x \in Node, r.parent[x] # NULL
      PROVE  \E z \in Sides : r.kid[z][r.parent[x]] = x
  <2>1. x # old
    BY <1>7, <1>q
  <2>2. CASE x = n
    BY <1>7, <1>q, <1>p, <1>k, <1>m, <2>2
  <2>3. CASE x # n /\ t.parent[x] = old
    <3>1. r.parent[x] = n
      BY <1>q, <2>1, <2>3
    <3>2. PICK z \in Sides : t.kid[z][old] = x
      BY <1>o, <2>3 DEF Shape, Linked
    <3> QED
      BY <1>k, <3>1, <3>2
  <2>4. CASE x # n /\ t.parent[x] # old
    <3>1. r.parent[x] = t.parent[x]
      BY <1>q, <2>1, <2>4
    <3>2. PICK z \in Sides : t.kid[z][t.parent[x]] = x
      BY <1>7, <3>1 DEF Shape, Linked
    <3>3. t.parent[x] \in Node
      BY <1>7, <3>1, ParentFacts
    <3>4. t.parent[x] # n
      BY <1>n, <1>D, <3>2
    <3>5. ~(t.parent[x] = p /\ z = SideOf(t, p, old))
      BY <1>p, <2>1, <3>2, <3>3, <1>D
    <3>6. r.kid[z][t.parent[x]] = t.kid[z][t.parent[x]]
      BY <1>1, <2>4, <3>2, <3>3, <3>4, <3>5
    <3> QED
      BY <3>1, <3>2, <3>6
  <2> QED
    BY <2>2, <2>3, <2>4
<1>8. r.root # NULL => r.parent[r.root] = NULL
  <2>1. CASE p = NULL
    BY <1>q, <2>1
  <2>2. CASE p # NULL
    <3>1. t.root # old /\ t.root # n /\ (t.root # NULL => t.root \in Node /\ t.parent[t.root] = NULL)
      BY <1>p, <1>n, <1>o, <2>2, ParentFacts DEF Shape, Linked
    <3> QED
      BY <1>q, <1>o, <2>2, <3>1
  <2> QED
    BY <2>1, <2>2
<1>9. ASSUME NEW x \in Node \ E[r.root]
      PROVE  r.parent[x] = NULL /\ \A z \in Sides : r.kid[z][x] = NULL
  <2>1. CASE x = old
    BY <1>q, <1>k, <2>1
  <2>2. CASE x # old
    <3>1. x \notin D[t.root] /\ x # n
      BY <1>5, <2>2
    <3>2. t.parent[x] = NULL /\ \A z \in Sides : t.kid[z][x] = NULL
      BY <3>1 DEF Shape, Linked
    <3>3. x # p
      BY <3>1, <1>p, <1>D
    <3> QED
      BY <1>k, <1>q, <1>o, <2>2, <3>1, <3>2, <3>3
  <2> QED
    BY <2>1, <2>2
<1>10. Shape(r, E)
  BY <1>q, <1>E, <1>3, <1>4, <1>5, <1>6, <1>7, <1>8, <1>9, ShapeFrom
<1> QED
  BY <1>5, <1>10 DEF E

-----------------------------------------------------------------------------
(* Black heights and red nodes *)

Bit(t, n) == IF t.color[n] = "black" THEN 1 ELSE 0
Owed(n, s, q, z) == IF n = q /\ s = z THEN 1 ELSE 0

\* H[n] is the number of black nodes on every path from n down, counting one
\* that is lacking below q on side z (none when q is NULL)
Heights(t, H, q, z) ==
  /\ H \in [Ext -> Nat] /\ H[NULL] = 0
  /\ \A n \in Node, s \in Sides : H[n] = H[t.kid[s][n]] + Owed(n, s, q, z) + Bit(t, n)

\* A red node below a red one is in A, or the upper one is in B
Reds(t, A, B) ==
  \A n \in Node :
    t.color[n] = "red" /\ t.parent[n] # NULL /\ t.color[t.parent[n]] = "red" =>
      n \in A \/ t.parent[n] \in B

LEMMA BlackOrRed ==
  ASSUME NEW t \in Trees, NEW n \in Ext
  PROVE  /\ ~Black(t, n) <=> n # NULL /\ t.color[n] = "red"
         /\ n # NULL => t.color[n] = "red" \/ t.color[n] = "black"
  BY KeyAssumption DEF Trees, Ext, Black

\* Where a black node is lacking on a side, there is a node on the other
LEMMA SideOwed ==
  ASSUME NEW t, NEW D, Shape(t, D), NEW q \in Node, NEW z \in Sides, NEW H, Heights(t, H, q, z)
  PROVE  /\ t.kid[Other(z)][q] # NULL /\ SideOf(t, q, t.kid[z][q]) = z
         /\ H[t.kid[Other(z)][q]] = H[t.kid[z][q]] + 1
<1> DEFINE k == t.kid[z][q]
           l == t.kid[Other(z)][q]
<1>1. Other(z) \in Sides /\ Other(z) # z
  BY BesideOrder
<1>2. k \in Ext /\ l \in Ext /\ (k # NULL => k # l)
  BY <1>1, KidFacts
<1>3. H[k] \in Nat /\ H[l] \in Nat /\ H[NULL] = 0
  BY <1>2 DEF Heights
<1>4. H[q] = H[k] + 1 + Bit(t, q) /\ H[q] = H[l] + 0 + Bit(t, q)
  BY <1>1 DEF Heights, Owed
<1>5. Bit(t, q) \in Nat
  BY DEF Bit
<1>6. H[l] = H[k] + 1
  BY <1>3, <1>4, <1>5
<1>7. l # NULL
  BY <1>3, <1>6
<1>8. k # l
  BY <1>2, <1>7
<1> QED
  BY <1>6, <1>7, <1>8, <1>1 DEF SideOf, Sides, Other

-----------------------------------------------------------------------------
(* Rotations: the links around the two nodes *)

Around(t, s, n, up, r) ==
  LET a == t.kid[s][n]
      b == t.kid[s][up]
      c == t.kid[Other(s)][up]
  IN  /\ a \in Ext /\ b \in Ext /\ c \in Ext /\ up # n
      /\ a # n /\ a # up /\ b # n /\ b # up /\ c # n /\ c # up
      /\ (c # NULL => c # a /\ c # b) /\ t.parent[up] = n
      /\ (a # NULL => t.parent[a] = n) /\ (b # NULL => t.parent[b] = up)
      /\ (c # NULL => t.parent[c] = up)
      /\ t.parent[n] # n /\ t.parent[n] # up /\ t.parent[n] \in Ext
      /\ r.kid[s][n] = a /\ r.kid[Other(s)][n] = b /\ r.kid[s][up] = n /\ r.kid[Other(s)][up] = c
      /\ \A x \in Node, z \in Sides : x # n /\ x # up =>
           \/ r.kid[z][x] = up /\ t.kid[z][x] = n
           \/ r.kid[z][x] = t.kid[z][x] /\ t.kid[z][x] # n /\ t.kid[z][x] # up
      /\ \A x \in Node, z \in Sides : t.kid[z][x] = c /\ c # NULL => x = up /\ z = Other(s)
      /\ r.parent[n] = up /\ r.parent[up] = t.parent[n] /\ (b # NULL => r.parent[b] = n)
      /\ \A x \in Node : x # n /\ x # up /\ x # b =>
           r.parent[x] = t.parent[x] /\ (t.parent[x] = n => x = a) /\ (t.parent[x] = up => x = c)

LEMMA RotateAround ==
  ASSUME NEW t, NEW D, Shape(t, D), NEW s \in Sides, NEW n \in Node, NEW up \in Node,
         up = t.kid[Other(s)][n], NEW r, Rotated(t, s, n, up, r)
  PROVE  Around(t, s, n, up, r)
<1> DEFINE o == Other(s)
           a == t.kid[s][n]
           b == t.kid[s][up]
           c == t.kid[o][up]
           p == t.parent[n]
<1>s. /\ o \in Sides /\ Other(o) = s /\ o # s /\ (\A z \in Sides : z = s \/ z = o)
      /\ NULL \notin Node /\ r \in Trees /\ t \in Trees
  BY BesideOrder, KeyAssumption DEF Rotated, Shape
<1>1. /\ a \in Ext /\ a # n /\ D[a] \cap D[up] = {} /\ (a # NULL => a \in D[a] /\ t.parent[a] = n)
      /\ n \notin D[a]
  BY <1>s, KidFacts
<1>2. up # n /\ n \notin D[up] /\ up \in D[up] /\ D[up] \subseteq D[n] /\ t.parent[up] = n
  BY <1>s, KidFacts
<1>3. /\ b \in Ext /\ b # up /\ D[b] \subseteq D[up]
      /\ (b # NULL => b \in D[b] /\ b # c /\ t.parent[b] = up)
  BY <1>s, KidFacts
<1>4. /\ c \in Ext /\ c # up /\ D[c] \subseteq D[up]
      /\ (c # NULL => c \in D[c] /\ c # b /\ t.parent[c] = up)
  BY <1>s, KidFacts
<1>5. a # up /\ b # n /\ c # n /\ (c # NULL => c # a)
  BY <1>s, <1>1, <1>2, <1>3, <1>4
<1>6. /\ p \in Ext /\ p # n /\ p # up
      /\ p # NULL => p \in Node /\ SideOf(t, p, n) \in Sides /\ t.kid[SideOf(t, p, n)][p] = n
      /\ \A z \in Sides : p # NULL /\ t.kid[z][p] = n => z = SideOf(t, p, n)
  BY <1>s, <1>2, ParentFacts
<1>7. r.kid[o][n] = b /\ r.kid[s][up] = n
  BY <1>s, <1>2 DEF Rotated
<1>8. r.kid[s][n] = a /\ r.kid[o][up] = c
  BY <1>s, <1>2, <1>6 DEF Rotated
<1>9. ASSUME NEW x \in Node, NEW z \in Sides, x # n, x # up
      PROVE  \/ r.kid[z][x] = up /\ t.kid[z][x] = n
             \/ r.kid[z][x] = t.kid[z][x] /\ t.kid[z][x] # n /\ t.kid[z][x] # up
  <2>1. r.kid[z][x] = IF x = p /\ z = SideOf(t, p, n) THEN up ELSE t.kid[z][x]
    BY <1>9 DEF Rotated
  <2>2. t.kid[z][x] # NULL => t.parent[t.kid[z][x]] = x
    BY KidFacts
  <2>3. t.kid[z][x] # up
    BY <1>2, <1>s, <1>9, <2>2
  <2>4. t.kid[z][x] = n => x = p /\ z = SideOf(t, p, n)
    BY <1>6, <1>s, <2>2
  <2> QED
    BY <1>6, <1>s, <2>1, <2>3, <2>4
<1>10. ASSUME NEW x \in Node, NEW z \in Sides, t.kid[z][x] = c, c # NULL PROVE x = up /\ z = o
  <2>1. x = up
    BY <1>4, <1>10, KidFacts
  <2> QED
    BY <1>3, <1>s, <1>10, <2>1, <1>4
<1>11. ASSUME NEW x \in Node, x # n, x # up, x # b
       PROVE  r.parent[x] = t.parent[x] /\ (t.parent[x] = n => x = a) /\ (t.parent[x] = up => x = c)
  <2>1. r.parent[x] = t.parent[x]
    BY <1>11 DEF Rotated
  <2>2. t.parent[x] # NULL => \E z \in Sides : t.kid[z][t.parent[x]] = x
    BY DEF Shape, Linked
  <2> QED
    BY <1>s, <1>11, <2>1, <2>2
<1>12. r.parent[n] = up /\ r.parent[up] = p /\ (b # NULL => r.parent[b] = n)
  BY <1>2, <1>3, <1>5 DEF Rotated, Ext
<1> QED
  BY <1>1, <1>2, <1>3, <1>4, <1>5, <1>6, <1>7, <1>8, <1>9, <1>10, <1>11, <1>12 DEF Around

-----------------------------------------------------------------------------
(* Rotations: the three changes of heights and colors *)

Recolored(t, u) == u \in Trees /\ u.root = t.root /\ u.kid = t.kid /\ u.parent = t.parent

LEMMA RecoloredAround ==
  ASSUME NEW t, NEW D, Shape(t, D), NEW s \in Sides, NEW n \in Node, NEW up \in Node,
         up = t.kid[Other(s)][n], NEW u, Recolored(t, u), NEW r, Rotated(u, s, n, up, r)
  PROVE  Around(t, s, n, up, r) /\ r.color = u.color /\ r \in Trees
<1>1. Shape(u, D)
  BY RecolorShape DEF Recolored
<1>2. Around(u, s, n, up, r)
  BY <1>1, RotateAround DEF Recolored
<1>3. u.kid = t.kid /\ u.parent = t.parent
  BY DEF Recolored
<1>4. Around(t, s, n, up, r)
  BY ONLY <1>2, <1>3 DEF Around
<1>5. r.color = u.color /\ r \in Trees
  BY DEF Rotated
<1> QED
  BY <1>4, <1>5

\* The upper node is black and the lower one red: they exchange their colors
LEMMA SwapColorsHeights ==
  ASSUME NEW t, NEW D, Shape(t, D), NEW s \in Sides, NEW n \in Node, NEW up \in Node,
         up = t.kid[Other(s)][n], t.color[n] = "black", t.color[up] = "red",
         NEW u, Recolored(t, u), u.color[up] = "black", u.color[n] = "red",
         \A x \in Node : x # n /\ x # up => u.color[x] = t.color[x],
         NEW r, Rotated(u, s, n, up, r),
         NEW H, NEW q \in Ext, NEW z \in Sides, Heights(t, H, q, z), q # up, q = n => z = s
  PROVE  Heights(r, [H EXCEPT ![n] = H[up], ![up] = H[n]], q, z)
<1> DEFINE G == [H EXCEPT ![n] = H[up], ![up] = H[n]]
           o == Other(s)
           a == t.kid[s][n]
           b == t.kid[s][up]
           c == t.kid[o][up]
<1>s. /\ o \in Sides /\ o # s /\ (\A w \in Sides : w = s \/ w = o)
      /\ NULL \notin Node /\ n \in Ext /\ up \in Ext /\ NULL \in Ext
  BY BesideOrder, KeyAssumption DEF Ext
<1>1. Around(t, s, n, up, r) /\ r.color = u.color
  BY RecoloredAround
<1>2. /\ a \in Ext /\ b \in Ext /\ c \in Ext /\ up # n
      /\ a # n /\ a # up /\ b # n /\ b # up /\ c # n /\ c # up
      /\ r.kid[s][n] = a /\ r.kid[o][n] = b /\ r.kid[s][up] = n /\ r.kid[o][up] = c
  BY <1>1 DEF Around
<1>H. H \in [Ext -> Nat] /\ H[NULL] = 0
  BY DEF Heights
<1>G. /\ G \in [Ext -> Nat] /\ G[NULL] = 0 /\ G[n] = H[up] /\ G[up] = H[n]
      /\ \A x \in Ext : x # n /\ x # up => G[x] = H[x]
  BY <1>H, <1>s, <1>2
<1>3. /\ H[n] = H[a] + Owed(n, s, q, z) + 1 /\ H[n] = H[up] + Owed(n, o, q, z) + 1
      /\ H[up] = H[b] + Owed(up, s, q, z) + 0 /\ H[up] = H[c] + Owed(up, o, q, z) + 0
  BY <1>s DEF Heights, Bit
<1>4. Owed(n, o, q, z) = 0 /\ Owed(up, s, q, z) = 0 /\ Owed(up, o, q, z) = 0 /\ Owed(n, s, q, z) \in {0, 1}
  BY <1>s DEF Owed
<1> HIDE DEF G, o, a, b, c
<1>5. ASSUME NEW x \in Node, NEW w \in Sides
      PROVE  G[x] = G[r.kid[w][x]] + Owed(x, w, q, z) + Bit(r, x)
  <2>1. CASE x = n
    <3>1. Bit(r, n) = 0
      BY <1>1 DEF Bit
    <3>2. G[a] = H[a] /\ G[b] = H[b] /\ H[a] \in Nat /\ H[b] \in Nat /\ H[up] \in Nat
      BY <1>G, <1>2, <1>H, <1>s
    <3>3. CASE w = s
      BY <1>2, <1>3, <1>4, <1>G, <2>1, <3>1, <3>2, <3>3
    <3>4. CASE w = o
      BY <1>2, <1>3, <1>4, <1>G, <2>1, <3>1, <3>2, <3>4
    <3> QED
      BY <1>s, <3>3, <3>4
  <2>2. CASE x = up
    <3>1. Bit(r, up) = 1
      BY <1>1 DEF Bit
    <3>2. G[c] = H[c] /\ H[c] \in Nat /\ H[up] \in Nat
      BY <1>G, <1>2, <1>H, <1>s
    <3>3. CASE w = s
      BY <1>2, <1>3, <1>4, <1>G, <2>2, <3>1, <3>2, <3>3
    <3>4. CASE w = o
      BY <1>2, <1>3, <1>4, <1>G, <2>2, <3>1, <3>2, <3>4
    <3> QED
      BY <1>s, <3>3, <3>4
  <2>3. CASE x # n /\ x # up
    <3>1. Bit(r, x) = Bit(t, x)
      BY <1>1, <2>3 DEF Bit
    <3>2. G[r.kid[w][x]] = H[t.kid[w][x]]
      <4>1. t.kid[w][x] \in Ext
        BY KidFacts
      <4>2. \/ r.kid[w][x] = up /\ t.kid[w][x] = n
            \/ r.kid[w][x] = t.kid[w][x] /\ t.kid[w][x] # n /\ t.kid[w][x] # up
        BY <1>1, <2>3 DEF Around
      <4> QED
        BY <1>G, <4>1, <4>2
    <3>3. G[x] = H[x]
      BY <1>G, <2>3 DEF Ext
    <3> QED
      BY <3>1, <3>2, <3>3 DEF Heights
  <2> QED
    BY <2>1, <2>2, <2>3
<1> QED
  BY <1>G, <1>5 DEF Heights, G

\* ... and a red far kid is below a red node no more
LEMMA SwapColorsReds ==
  ASSUME NEW t, NEW D, Shape(t, D), NEW s \in Sides, NEW n \in Node, NEW up \in Node,
         up = t.kid[Other(s)][n],
         NEW u, Recolored(t, u), u.color[up] = "black", u.color[n] = "red",
         \A x \in Node : x # n /\ x # up => u.color[x] = t.color[x],
         NEW r, Rotated(u, s, n, up, r),
         Black(t, t.kid[s][n]), Black(t, t.kid[s][up]), Reds(t, {t.kid[Other(s)][up]}, {})
  PROVE  Reds(r, {}, {})
<1> DEFINE a == t.kid[s][n]
           b == t.kid[s][up]
           c == t.kid[Other(s)][up]
<1>1. Around(t, s, n, up, r) /\ r.color = u.color
  BY RecoloredAround
<1>2. /\ a \in Ext /\ b \in Ext /\ c \in Ext /\ up # n /\ a # n /\ a # up /\ b # n /\ b # up
      /\ r.parent[n] = up /\ r.parent[up] = t.parent[n] /\ (b # NULL => r.parent[b] = n)
      /\ \A x \in Node : x # n /\ x # up /\ x # b =>
           r.parent[x] = t.parent[x] /\ (t.parent[x] = n => x = a) /\ (t.parent[x] = up => x = c)
  BY <1>1 DEF Around
<1>3. t \in Trees /\ NULL \notin Node
  BY KeyAssumption DEF Shape
<1>4. (a # NULL => t.color[a] = "black") /\ (b # NULL => t.color[b] = "black")
  BY DEF Black
<1> HIDE DEF a, b, c
<1> SUFFICES ASSUME NEW x \in Node, r.color[x] = "red", r.parent[x] # NULL,
                    r.color[r.parent[x]] = "red"
             PROVE  FALSE
  BY DEF Reds
<1>5. x # n /\ x # up
  BY <1>1, <1>2
<1>6. x # b
  BY <1>1, <1>4, <1>5, <1>3
<1>7. r.parent[x] = t.parent[x] /\ t.parent[x] # up
  BY <1>1, <1>2, <1>5, <1>6
<1>8. t.parent[x] # n
  BY <1>1, <1>2, <1>3, <1>4, <1>5, <1>6
<1>9. t.parent[x] \in Node
  BY <1>7, ParentFacts
<1>10. t.color[x] = "red" /\ t.color[t.parent[x]] = "red"
  BY <1>1, <1>5, <1>7, <1>8, <1>9
<1>11. x = c
  BY <1>7, <1>10 DEF Reds, c
<1>12. t.parent[c] = up
  BY <1>1, <1>3, <1>11 DEF Around, c
<1> QED
  BY <1>7, <1>11, <1>12

\* Both nodes are red
LEMMA RedRotation ==
  ASSUME NEW t, NEW D, Shape(t, D), NEW s \in Sides, NEW n \in Node, NEW up \in Node,
         up = t.kid[Other(s)][n], t.color[n] = "red", t.color[up] = "red",
         NEW r, Rotated(t, s, n, up, r), t.parent[n] # NULL, t.color[t.parent[n]] = "black",
         NEW H, NEW z, Heights(t, H, NULL, z), Reds(t, {up}, {})
  PROVE  Heights(r, H, NULL, z) /\ Reds(r, {n}, {})
<1> DEFINE o == Other(s)
           a == t.kid[s][n]
           b == t.kid[s][up]
           c == t.kid[o][up]
<1>s. /\ o \in Sides /\ o # s /\ (\A w \in Sides : w = s \/ w = o) /\ NULL \notin Node
  BY BesideOrder, KeyAssumption DEF Ext
<1>1. Around(t, s, n, up, r) /\ r.color = t.color
  BY RotateAround DEF Rotated
<1>2. /\ a \in Ext /\ b \in Ext /\ c \in Ext /\ up # n /\ a # n /\ a # up /\ b # n /\ b # up
      /\ r.kid[s][n] = a /\ r.kid[o][n] = b /\ r.kid[s][up] = n /\ r.kid[o][up] = c
      /\ r.parent[n] = up /\ r.parent[up] = t.parent[n] /\ (b # NULL => r.parent[b] = n)
      /\ (b # NULL => t.parent[b] = up)
      /\ \A x \in Node : x # n /\ x # up /\ x # b =>
           r.parent[x] = t.parent[x] /\ (t.parent[x] = n => x = a) /\ (t.parent[x] = up => x = c)
  BY <1>1 DEF Around
<1>3. H \in [Ext -> Nat] /\ H[NULL] = 0 /\ n \in Ext /\ up \in Ext
  BY DEF Heights, Ext
<1>4. \A x \in Node, w \in Sides : Owed(x, w, NULL, z) = 0
  BY <1>s DEF Owed
<1>5. \A x \in Node, w \in Sides : H[x] = H[t.kid[w][x]] + 0 + Bit(t, x)
  BY <1>4 DEF Heights
<1>6. Bit(t, n) = 0 /\ Bit(t, up) = 0 /\ \A x \in Node : Bit(r, x) = Bit(t, x)
  BY <1>1 DEF Bit
<1>7. H[n] = H[a] /\ H[n] = H[up] /\ H[up] = H[b] /\ H[up] = H[c]
  <2>1. /\ H[n] = H[a] + 0 + 0 /\ H[n] = H[up] + 0 + 0
        /\ H[up] = H[b] + 0 + 0 /\ H[up] = H[c] + 0 + 0
    BY <1>5, <1>6, <1>s
  <2>2. H[n] \in Nat /\ H[a] \in Nat /\ H[up] \in Nat /\ H[b] \in Nat /\ H[c] \in Nat
    BY <1>2, <1>3
  <2> QED
    BY ONLY <2>1, <2>2
<1> HIDE DEF o, a, b, c
<1>8. ASSUME NEW x \in Node, NEW w \in Sides PROVE H[r.kid[w][x]] = H[t.kid[w][x]]
  <2>1. CASE x = n
    BY <1>2, <1>7, <1>s, <2>1 DEF a, o
  <2>2. CASE x = up
    BY <1>2, <1>7, <1>s, <2>2 DEF b, c
  <2>3. CASE x # n /\ x # up
    <3>1. \/ r.kid[w][x] = up /\ t.kid[w][x] = n
          \/ r.kid[w][x] = t.kid[w][x]
      BY <1>1, <2>3 DEF Around
    <3> QED
      BY <1>7, <3>1
  <2> QED
    BY <2>1, <2>2, <2>3
<1>9. Heights(r, H, NULL, z)
  BY <1>3, <1>4, <1>6, <1>8 DEF Heights
<1>10. ASSUME NEW x \in Node, r.color[x] = "red", r.parent[x] # NULL,
              r.color[r.parent[x]] = "red", x # n
       PROVE  FALSE
  <2>1. x # up
    BY <1>1, <1>2, <1>10
  <2>2. x # b
    BY <1>1, <1>2, <1>s, <1>10, <2>1 DEF Reds
  <2>3. r.parent[x] = t.parent[x]
    BY <1>2, <1>10, <2>1, <2>2
  <2> QED
    BY <1>1, <1>10, <2>1, <2>3 DEF Reds
<1> QED
  BY <1>9, <1>10 DEF Reds

\* A black node is lacking below n on side s, the kid on the other side is
\* black, and its own kid on that side red: one more black node on side s
LEMMA FillHeights ==
  ASSUME NEW t, NEW D, Shape(t, D), NEW s \in Sides, NEW n \in Node, NEW up \in Node,
         up = t.kid[Other(s)][n], t.color[up] = "black", NEW c \in Node,
         c = t.kid[Other(s)][up], t.color[c] = "red",
         NEW u, Recolored(t, u), u.color[up] = t.color[n], u.color[n] = "black", u.color[c] = "black",
         \A x \in Node : x # n /\ x # up /\ x # c => u.color[x] = t.color[x],
         NEW r, Rotated(u, s, n, up, r), NEW H, Heights(t, H, n, s)
  PROVE  Heights(r, [H EXCEPT ![n] = H[up], ![up] = H[n], ![c] = H[c] + 1], NULL, s)
<1> DEFINE G == [H EXCEPT ![n] = H[up], ![up] = H[n], ![c] = H[c] + 1]
           o == Other(s)
           a == t.kid[s][n]
           b == t.kid[s][up]
<1>s. /\ o \in Sides /\ o # s /\ (\A w \in Sides : w = s \/ w = o)
      /\ NULL \notin Node /\ n \in Ext /\ up \in Ext /\ NULL \in Ext /\ c \in Ext /\ c # NULL
  BY BesideOrder, KeyAssumption DEF Ext
<1>1. Around(t, s, n, up, r) /\ r.color = u.color
  BY RecoloredAround
<1>2. /\ a \in Ext /\ b \in Ext /\ up # n /\ c # a /\ c # b
      /\ a # n /\ a # up /\ b # n /\ b # up /\ c # n /\ c # up
      /\ r.kid[s][n] = a /\ r.kid[o][n] = b /\ r.kid[s][up] = n /\ r.kid[o][up] = c
      /\ \A x \in Node, w \in Sides : t.kid[w][x] = c => x = up
  BY <1>1, <1>s DEF Around
<1>H. H \in [Ext -> Nat] /\ H[NULL] = 0
  BY DEF Heights
<1>G. /\ G \in [Ext -> Nat] /\ G[NULL] = 0 /\ G[n] = H[up] /\ G[up] = H[n] /\ G[c] = H[c] + 1
      /\ \A x \in Ext : x # n /\ x # up /\ x # c => G[x] = H[x]
  <2>1. H[up] \in Nat /\ H[n] \in Nat /\ H[c] + 1 \in Nat
    BY <1>H, <1>s
  <2>2. G = [x \in Ext |-> IF x = c THEN H[c] + 1 ELSE IF x = up THEN H[n] ELSE IF x = n THEN H[up] ELSE H[x]]
    BY <1>H, <1>s, <1>2
  <2> HIDE DEF G
  <2> QED
    BY <1>H, <1>s, <1>2, <2>1, <2>2
<1>3. /\ H[n] = H[a] + 1 + Bit(t, n) /\ H[n] = H[up] + 0 + Bit(t, n)
      /\ H[up] = H[b] + 0 + 1 /\ H[up] = H[c] + 0 + 1
  <2>1. \A x \in Node, w \in Sides : H[x] = H[t.kid[w][x]] + Owed(x, w, n, s) + Bit(t, x)
    BY DEF Heights
  <2>2. /\ Owed(n, s, n, s) = 1 /\ Owed(n, o, n, s) = 0 /\ Bit(t, up) = 1
        /\ Owed(up, s, n, s) = 0 /\ Owed(up, o, n, s) = 0
    BY <1>s, <1>2 DEF Owed, Bit
  <2> QED
    BY <1>s, <2>1, <2>2
<1>4. /\ Bit(t, n) \in {0, 1} /\ Bit(r, up) = Bit(t, n) /\ Bit(r, n) = 1 /\ Bit(r, c) = 1 /\ Bit(t, c) = 0
      /\ \A x \in Node : x # n /\ x # up /\ x # c => Bit(r, x) = Bit(t, x)
  BY <1>1, <1>2 DEF Bit
<1>5. \A x \in Node, w \in Sides : Owed(x, w, NULL, s) = 0 /\ (x # n => Owed(x, w, n, s) = 0)
  BY <1>s DEF Owed
<1> HIDE DEF G, o, a, b
<1>6. ASSUME NEW x \in Node, NEW w \in Sides
      PROVE  G[x] = G[r.kid[w][x]] + Owed(x, w, NULL, s) + Bit(r, x)
  <2>1. CASE x = n
    <3>1. G[a] = H[a] /\ G[b] = H[b] /\ H[a] \in Nat /\ H[b] \in Nat /\ H[up] \in Nat
      BY <1>G, <1>2, <1>H, <1>s
    <3>2. H[up] = H[a] + 1 /\ H[up] = H[b] + 1
      BY <1>3, <1>4, <3>1
    <3>3. r.kid[w][x] = a \/ r.kid[w][x] = b
      BY <1>2, <1>s, <2>1
    <3> QED
      BY <1>4, <1>5, <1>G, <2>1, <3>1, <3>2, <3>3
  <2>2. CASE x = up
    <3>1. H[c] \in Nat /\ H[up] \in Nat /\ H[n] \in Nat
      BY <1>H, <1>s
    <3>2. H[n] = H[up] + Bit(t, n) /\ H[up] = H[c] + 1
      BY <1>3, <1>4, <3>1
    <3>3. r.kid[w][x] = n \/ r.kid[w][x] = c
      BY <1>2, <1>s, <2>2
    <3>4. G[r.kid[w][x]] = H[up]
      BY <1>G, <3>2, <3>3
    <3>5. G[x] = H[n] /\ Bit(r, x) = Bit(t, n) /\ Owed(x, w, NULL, s) = 0 /\ Bit(t, n) \in {0, 1}
      BY <1>4, <1>5, <1>G, <2>2
    <3> QED
      BY ONLY <3>1, <3>2, <3>4, <3>5
  <2>3. CASE x # n /\ x # up
    <3>1. t.kid[w][x] \in Ext
      BY KidFacts
    <3>2. \/ r.kid[w][x] = up /\ t.kid[w][x] = n
          \/ r.kid[w][x] = t.kid[w][x] /\ t.kid[w][x] # n /\ t.kid[w][x] # up
      BY <1>1, <2>3 DEF Around
    <3>3. t.kid[w][x] # c
      BY <1>2, <2>3
    <3>4. G[r.kid[w][x]] = H[t.kid[w][x]] /\ H[t.kid[w][x]] \in Nat
      BY <1>G, <1>H, <3>1, <3>2, <3>3
    <3>5. H[x] = H[t.kid[w][x]] + 0 + Bit(t, x)
      BY <1>5, <2>3 DEF Heights
    <3>6. CASE x = c
      <4>1. G[x] = H[x] + 1 /\ Bit(r, x) = 1 /\ Bit(t, x) = 0 /\ Owed(x, w, NULL, s) = 0
        BY <1>4, <1>5, <1>G, <3>6
      <4> QED
        BY <3>4, <3>5, <4>1
    <3>7. CASE x # c
      BY <1>4, <1>5, <1>G, <2>3, <3>4, <3>5, <3>7 DEF Ext
    <3> QED
      BY <3>6, <3>7
  <2> QED
    BY <2>1, <2>2, <2>3
<1> QED
  BY <1>G, <1>6 DEF Heights, G

\* ... and red nodes stay apart
LEMMA FillReds ==
  ASSUME NEW t, NEW D, Shape(t, D), NEW s \in Sides, NEW n \in Node, NEW up \in Node,
         up = t.kid[Other(s)][n], NEW c \in Node, c = t.kid[Other(s)][up],
         NEW u, Recolored(t, u), u.color[up] = t.color[n], u.color[n] = "black", u.color[c] = "black",
         \A x \in Node : x # n /\ x # up /\ x # c => u.color[x] = t.color[x],
         NEW r, Rotated(u, s, n, up, r), Reds(t, {}, {})
  PROVE  Reds(r, {}, {})
<1> DEFINE b == t.kid[s][up]
<1>1. Around(t, s, n, up, r) /\ r.color = u.color
  BY RecoloredAround
<1>2. NULL \notin Node /\ c # NULL
  BY KeyAssumption
<1>3. /\ up # n /\ c # n /\ c # up /\ r.parent[n] = up /\ r.parent[up] = t.parent[n]
      /\ (b # NULL => r.parent[b] = n) /\ t.parent[n] # n /\ t.parent[n] # up /\ t.parent[c] = up
      /\ \A x \in Node : x # n /\ x # up /\ x # b =>
           r.parent[x] = t.parent[x] /\ (t.parent[x] = up => x = c)
  BY <1>1, <1>2 DEF Around
<1> HIDE DEF b
<1> SUFFICES ASSUME NEW x \in Node, r.color[x] = "red", r.parent[x] # NULL,
                    r.color[r.parent[x]] = "red"
             PROVE  FALSE
  BY DEF Reds
<1>4. x # n /\ x # c
  BY <1>1
<1>5. CASE x = up
  <2>1. t.parent[n] # c /\ t.parent[n] \in Node
    <3>1. c \in D[c] /\ Other(s) \in Sides /\ t.parent[n] # NULL
      BY <1>3, <1>5 DEF Shape, Downs, Sides, Other
    <3>2. ParentOf(t, D, n) /\ KidOf(t, D, Other(s), up) /\ KidOf(t, D, Other(s), n)
      BY <3>1, OneParent, OneKid
    <3>3. t.parent[n] \in Node /\ t.parent[n] \notin D[n]
      BY <3>1, <3>2 DEF ParentOf
    <3>4. D[c] \subseteq D[up] /\ D[up] \subseteq D[n]
      BY <3>2 DEF KidOf
    <3> QED
      BY ONLY <3>1, <3>3, <3>4
  <2>2. r.color[t.parent[n]] = t.color[t.parent[n]]
    BY <1>1, <1>3, <2>1
  <2> QED
    BY <1>1, <1>3, <1>5, <2>2 DEF Reds
<1>6. CASE x # up
  <2>1. x # b
    BY <1>1, <1>2, <1>3
  <2>2. r.parent[x] = t.parent[x] /\ t.parent[x] # up /\ t.parent[x] # n
    BY <1>1, <1>3, <1>4, <1>6, <2>1
  <2>3. t.parent[x] \in Node /\ t.parent[x] # c
    BY <1>1, <2>2, ParentFacts
  <2> QED
    BY <1>1, <1>4, <1>6, <2>2, <2>3 DEF Reds
<1> QED
  BY <1>5, <1>6

-----------------------------------------------------------------------------
(* Heights and red nodes: changes of color alone *)

\* RB_INSERT_COLOR with a red uncle
LEMMA RaiseRed ==
  ASSUME NEW t, NEW D, Shape(t, D), NEW g \in Node, NEW s \in Sides, NEW p \in Node, NEW y \in Node,
         p = t.kid[s][g], y = t.kid[Other(s)][g],
         t.color[p] = "red", t.color[y] = "red", t.color[g] = "black",
         NEW u, Recolored(t, u), u.color[p] = "black", u.color[y] = "black", u.color[g] = "red",
         \A x \in Node : x # p /\ x # y /\ x # g => u.color[x] = t.color[x],
         NEW H, NEW z, Heights(t, H, NULL, z), NEW v, t.parent[v] = p, Reds(t, {v}, {})
  PROVE  Heights(u, [H EXCEPT ![p] = H[p] + 1, ![y] = H[y] + 1], NULL, z) /\ Reds(u, {g}, {})
<1> DEFINE G == [H EXCEPT ![p] = H[p] + 1, ![y] = H[y] + 1]
           o == Other(s)
<1>s. /\ o \in Sides /\ o # s /\ (\A w \in Sides : w = s \/ w = o)
      /\ NULL \notin Node /\ p \in Ext /\ y \in Ext /\ NULL \in Ext
  BY BesideOrder, KeyAssumption DEF Ext
<1>1. /\ t.parent[p] = g /\ t.parent[y] = g /\ p # g /\ y # g /\ p # y
  BY <1>s, KidFacts
<1>2. \A x \in Node, w \in Sides : t.kid[w][x] \in Ext /\ (t.kid[w][x] \in {p, y} => x = g)
  <2> TAKE x \in Node, w \in Sides
  <2> QED
    BY <1>s, <1>1, KidFacts
<1>H. H \in [Ext -> Nat] /\ H[NULL] = 0
  BY DEF Heights
<1>G. /\ G \in [Ext -> Nat] /\ G[NULL] = 0 /\ G[p] = H[p] + 1 /\ G[y] = H[y] + 1
      /\ \A x \in Ext : x # p /\ x # y => G[x] = H[x]
  <2>1. H[p] + 1 \in Nat /\ H[y] + 1 \in Nat
    BY <1>H, <1>s
  <2> QED
    BY <1>H, <1>s, <1>1, <2>1
<1>3. /\ Bit(t, p) = 0 /\ Bit(t, y) = 0 /\ Bit(t, g) = 1
      /\ Bit(u, p) = 1 /\ Bit(u, y) = 1 /\ Bit(u, g) = 0
      /\ \A x \in Node : x # p /\ x # y /\ x # g => Bit(u, x) = Bit(t, x)
  BY DEF Bit
<1>4. \A x \in Node, w \in Sides : Owed(x, w, NULL, z) = 0
  BY <1>s DEF Owed
<1>5. u.kid = t.kid /\ u.parent = t.parent
  BY DEF Recolored
<1> HIDE DEF G, o
<1>6. ASSUME NEW x \in Node, NEW w \in Sides
      PROVE  G[x] = G[u.kid[w][x]] + Owed(x, w, NULL, z) + Bit(u, x)
  <2>1. H[x] = H[t.kid[w][x]] + 0 + Bit(t, x) /\ H[t.kid[w][x]] \in Nat
    BY <1>2, <1>4, <1>H DEF Heights
  <2>2. CASE x = g
    <3>1. t.kid[w][x] \in {p, y}
      BY <1>s, <2>2 DEF o
    <3>2. G[t.kid[w][x]] = H[t.kid[w][x]] + 1
      BY <1>G, <3>1
    <3>3. G[x] = H[x]
      BY <1>G, <1>1, <2>2 DEF Ext
    <3> QED
      BY <1>3, <1>4, <1>5, <2>1, <2>2, <3>2, <3>3
  <2>3. CASE x # g
    <3>1. G[t.kid[w][x]] = H[t.kid[w][x]]
      BY <1>G, <1>2, <2>3
    <3>2. CASE x = p \/ x = y
      <4>1. G[x] = H[x] + 1 /\ Bit(u, x) = 1 /\ Bit(t, x) = 0
        BY <1>G, <1>3, <3>2
      <4> QED
        BY <1>4, <1>5, <2>1, <3>1, <4>1
    <3>3. CASE x # p /\ x # y
      <4>1. G[x] = H[x] /\ Bit(u, x) = Bit(t, x)
        BY <1>G, <1>3, <2>3, <3>3 DEF Ext
      <4> QED
        BY <1>4, <1>5, <2>1, <3>1, <4>1
    <3> QED
      BY <3>2, <3>3
  <2> QED
    BY <2>2, <2>3
<1>7. Heights(u, G, NULL, z)
  BY <1>G, <1>6 DEF Heights
<1>8. ASSUME NEW x \in Node, u.color[x] = "red", u.parent[x] # NULL,
             u.color[u.parent[x]] = "red", x # g
      PROVE  FALSE
  <2>1. x # p /\ x # y /\ t.parent[x] # p /\ t.parent[x] # y
    BY <1>5, <1>8
  <2>2. t.parent[x] # g
    <3>1. t.parent[x] # NULL => \E w \in Sides : t.kid[w][t.parent[x]] = x
      BY DEF Shape, Linked
    <3> QED
      BY <1>5, <1>8, <1>s, <2>1, <3>1 DEF o
  <2>3. t.parent[x] \in Node
    BY <1>5, <1>8, ParentFacts
  <2> QED
    BY <1>5, <1>8, <2>1, <2>2, <2>3 DEF Reds
<1> QED
  BY <1>7, <1>8 DEF Reds, G

\* RB_REMOVE_COLOR with a black sibling and black nephews
LEMMA SinkBlack ==
  ASSUME NEW t, NEW D, Shape(t, D), NEW n \in Node, NEW s \in Sides, NEW y \in Node,
         y = t.kid[Other(s)][n], t.color[y] = "black", \A w \in Sides : Black(t, t.kid[w][y]),
         NEW u, Recolored(t, u), u.color[y] = "red",
         \A x \in Node : x # y => u.color[x] = t.color[x],
         NEW H, Heights(t, H, n, s), Reds(t, {}, {})
  PROVE  /\ Heights(u, [H EXCEPT ![n] = H[n] - 1, ![y] = H[y] - 1], t.parent[n],
                    SideOf(t, t.parent[n], n))
         /\ Reds(u, {n}, {n})
<1> DEFINE G == [H EXCEPT ![n] = H[n] - 1, ![y] = H[y] - 1]
           o == Other(s)
           q == t.parent[n]
           z == SideOf(t, q, n)
<1>s. /\ o \in Sides /\ o # s /\ (\A w \in Sides : w = s \/ w = o)
      /\ NULL \notin Node /\ n \in Ext /\ y \in Ext /\ NULL \in Ext
  BY BesideOrder, KeyAssumption DEF Ext
<1>1. t.parent[y] = n /\ y # n
  BY <1>s, KidFacts
<1>2. /\ q \in Ext /\ q # n /\ (q # NULL => q \in Node /\ z \in Sides /\ t.kid[z][q] = n)
      /\ \A w \in Sides : q # NULL /\ t.kid[w][q] = n => w = z
  BY ParentFacts
<1>3. q # y
  BY <1>1, <1>2, <1>s, ParentFacts
<1>4. ASSUME NEW x \in Node, NEW w \in Sides
      PROVE  /\ t.kid[w][x] \in Ext /\ (t.kid[w][x] = y => x = n /\ w = o)
             /\ t.kid[w][x] = n <=> x = q /\ w = z
  <2>1. t.kid[w][x] \in Ext /\ (t.kid[w][x] # NULL => t.parent[t.kid[w][x]] = x)
    BY KidFacts
  <2>2. t.kid[s][n] # y
    BY <1>s, KidFacts
  <2> QED
    BY <1>s, <1>1, <1>2, <2>1, <2>2
<1>H. H \in [Ext -> Nat] /\ H[NULL] = 0
  BY DEF Heights
<1>5. /\ H[n] = H[t.kid[s][n]] + 1 + Bit(t, n) /\ H[n] = H[y] + 0 + Bit(t, n)
      /\ \A w \in Sides : H[y] = H[t.kid[w][y]] + 0 + 1
  BY <1>s, <1>1 DEF Heights, Owed, Bit
<1>6. \A x \in Node : Bit(t, x) \in {0, 1} /\ (x # y => Bit(u, x) = Bit(t, x)) /\ Bit(u, y) = 0
  BY DEF Bit
<1>7. /\ H[n] \in Nat /\ H[y] \in Nat /\ H[n] - 1 \in Nat /\ H[y] - 1 \in Nat
  <2>1. H[t.kid[s][n]] \in Nat /\ H[t.kid[s][y]] \in Nat /\ H[y] \in Nat /\ H[n] \in Nat
    BY <1>4, <1>H, <1>s
  <2> QED
    BY <1>5, <1>6, <2>1
<1>G. /\ G \in [Ext -> Nat] /\ G[NULL] = 0 /\ G[n] = H[n] - 1 /\ G[y] = H[y] - 1
      /\ \A x \in Ext : x # n /\ x # y => G[x] = H[x]
  BY <1>H, <1>s, <1>1, <1>7
<1>8. u.kid = t.kid /\ u.parent = t.parent
  BY DEF Recolored
<1> HIDE DEF G, o, q, z
<1>9. ASSUME NEW x \in Node, NEW w \in Sides
      PROVE  G[x] = G[u.kid[w][x]] + Owed(x, w, q, z) + Bit(u, x)
  <2>k. H[t.kid[w][x]] \in Nat /\ Bit(t, x) \in {0, 1}
    BY <1>4, <1>6, <1>H
  <2>1. CASE x = n
    <3>1. Owed(x, w, q, z) = 0 /\ Bit(u, x) = Bit(t, x) /\ t.kid[w][x] # n
      BY <1>1, <1>2, <1>4, <1>6, <2>1 DEF Owed
    <3>2. CASE w = s
      <4>1. G[t.kid[w][x]] = H[t.kid[w][x]]
        BY <1>G, <1>4, <1>s, <3>1, <3>2
      <4> QED
        BY <1>5, <1>7, <1>8, <1>G, <2>1, <2>k, <3>1, <3>2, <4>1
    <3>3. CASE w = o
      BY <1>5, <1>7, <1>8, <1>G, <2>1, <2>k, <3>1, <3>3 DEF o
    <3> QED
      BY <1>s, <3>2, <3>3
  <2>2. CASE x = y
    <3>1. Owed(x, w, q, z) = 0 /\ Bit(u, x) = 0 /\ G[t.kid[w][x]] = H[t.kid[w][x]]
      BY <1>1, <1>3, <1>4, <1>6, <1>G, <2>2 DEF Owed
    <3>2. H[y] = H[t.kid[w][x]] + 0 + 1 /\ u.kid[w][x] = t.kid[w][x]
      BY <1>5, <1>8, <2>2
    <3>3. G[x] = H[y] - 1 /\ H[y] \in Nat
      BY <1>7, <1>G, <2>2
    <3> QED
      BY ONLY <2>k, <3>1, <3>2, <3>3
  <2>3. CASE x # n /\ x # y
    <3>1. H[x] = H[t.kid[w][x]] + 0 + Bit(t, x)
      BY <2>3 DEF Heights, Owed
    <3>2. G[x] = H[x] /\ Bit(u, x) = Bit(t, x) /\ t.kid[w][x] # y
      BY <1>G, <1>4, <1>6, <2>3 DEF Ext
    <3>3. CASE x = q /\ w = z
      <4>1. t.kid[w][x] = n /\ Owed(x, w, q, z) = 1
        BY <1>4, <3>3 DEF Owed
      <4> QED
        BY <1>7, <1>8, <1>G, <2>k, <3>1, <3>2, <4>1
    <3>4. CASE ~(x = q /\ w = z)
      <4>1. G[t.kid[w][x]] = H[t.kid[w][x]] /\ Owed(x, w, q, z) = 0
        BY <1>4, <1>G, <3>2, <3>4 DEF Owed
      <4> QED
        BY <1>8, <3>1, <3>2, <4>1
    <3> QED
      BY <3>3, <3>4
  <2> QED
    BY <2>1, <2>2, <2>3
<1>10. Heights(u, G, q, z)
  BY <1>G, <1>9 DEF Heights
<1>11. ASSUME NEW x \in Node, u.color[x] = "red", u.parent[x] # NULL,
             u.color[u.parent[x]] = "red", t.parent[x] # n
       PROVE  FALSE
  <2>1. x # y
    BY <1>1, <1>11
  <2>2. t.parent[x] \in Node /\ \E w \in Sides : t.kid[w][t.parent[x]] = x
    BY <1>8, <1>11, ParentFacts DEF Shape, Linked
  <2>3. t.parent[x] # y
    BY <1>11, <1>s, <2>1, <2>2 DEF Black
  <2> QED
    BY <1>8, <1>11, <2>1, <2>2, <2>3 DEF Reds
<1>12. Reds(u, {n}, {n})
  BY <1>8, <1>11 DEF Reds
<1> QED
  BY <1>10, <1>12 DEF G, q, z

\* A red node where a black one is lacking, or at the root, is made black
LEMMA PaintDone ==
  ASSUME NEW t, NEW D, Shape(t, D), NEW c \in Node, t.color[c] = "red",
         NEW u, Recolored(t, u), u.color[c] = "black",
         \A x \in Node : x # c => u.color[x] = t.color[x],
         NEW H, NEW q, NEW z, Heights(t, H, q, z),
         \A x \in Node, w \in Sides : t.kid[w][x] = c <=> x = q /\ w = z
  PROVE  Heights(u, [H EXCEPT ![c] = H[c] + 1], NULL, z)
<1> DEFINE G == [H EXCEPT ![c] = H[c] + 1]
<1>s. NULL \notin Node /\ c \in Ext /\ NULL \in Ext
  BY KeyAssumption DEF Ext
<1>H. H \in [Ext -> Nat] /\ H[NULL] = 0
  BY DEF Heights
<1>G. G \in [Ext -> Nat] /\ G[NULL] = 0 /\ G[c] = H[c] + 1 /\ \A x \in Ext : x # c => G[x] = H[x]
  <2>1. H[c] + 1 \in Nat
    BY <1>H, <1>s
  <2> QED
    BY <1>H, <1>s, <2>1
<1>1. \A x \in Node : Bit(t, x) \in {0, 1} /\ (x # c => Bit(u, x) = Bit(t, x)) /\ Bit(t, c) = 0 /\ Bit(u, c) = 1
  BY DEF Bit
<1>2. u.kid = t.kid
  BY DEF Recolored
<1> HIDE DEF G
<1>3. ASSUME NEW x \in Node, NEW w \in Sides
      PROVE  G[x] = G[u.kid[w][x]] + Owed(x, w, NULL, z) + Bit(u, x)
  <2>1. t.kid[w][x] \in Ext /\ t.kid[w][x] # x
    BY KidFacts
  <2>2. H[x] = H[t.kid[w][x]] + Owed(x, w, q, z) + Bit(t, x)
    BY DEF Heights
  <2>3. H[t.kid[w][x]] \in Nat /\ Owed(x, w, NULL, z) = 0
    BY <1>H, <1>s, <2>1 DEF Owed
  <2>4. CASE t.kid[w][x] = c
    <3>1. Owed(x, w, q, z) = 1 /\ x # c /\ G[x] = H[x]
      BY <1>G, <2>1, <2>4 DEF Owed, Ext
    <3> QED
      BY <1>1, <1>2, <1>G, <2>2, <2>3, <2>4, <3>1
  <2>5. CASE t.kid[w][x] # c
    <3>1. Owed(x, w, q, z) = 0 /\ G[t.kid[w][x]] = H[t.kid[w][x]]
      BY <1>G, <2>1, <2>5 DEF Owed
    <3>2. CASE x = c
      <4>1. G[x] = H[x] + 1 /\ Bit(t, x) = 0 /\ Bit(u, x) = 1
        BY <1>G, <1>1, <3>2
      <4> QED
        BY <1>2, <2>2, <2>3, <3>1, <4>1
    <3>3. CASE x # c
      <4>1. G[x] = H[x] /\ Bit(u, x) = Bit(t, x)
        BY <1>G, <1>1, <3>3 DEF Ext
      <4> QED
        BY <1>2, <2>2, <2>3, <3>1, <4>1
    <3> QED
      BY <3>2, <3>3
  <2> QED
    BY <2>4, <2>5
<1> QED
  BY <1>G, <1>3 DEF Heights, G

\* ... and red nodes stay apart
LEMMA PaintReds ==
  ASSUME NEW t, NEW D, Shape(t, D), NEW c \in Node, NEW u, Recolored(t, u), u.color[c] = "black",
         \A x \in Node : x # c => u.color[x] = t.color[x], Reds(t, {c}, {c})
  PROVE  Reds(u, {}, {})
<1>1. u.kid = t.kid /\ u.parent = t.parent
  BY DEF Recolored
<1>2. ASSUME NEW x \in Node, u.color[x] = "red", u.parent[x] # NULL, u.color[u.parent[x]] = "red"
      PROVE  FALSE
  <2>1. x # c /\ t.parent[x] # c
    BY <1>1, <1>2
  <2>2. t.parent[x] \in Node
    BY <1>1, <1>2, ParentFacts
  <2> QED
    BY <1>1, <1>2, <2>1, <2>2 DEF Reds
<1> QED
  BY <1>2 DEF Reds

-----------------------------------------------------------------------------
(* Heights and red nodes: nodes that come and go *)

\* A red leaf changes no height
LEMMA AttachHeights ==
  ASSUME NEW t, NEW D, Shape(t, D), NEW n \in Node, n \notin D[t.root], NEW s \in Sides,
         NEW p \in Ext, p # NULL => p \in D[t.root] /\ t.kid[s][p] = NULL,
         NEW r, Attached(t, s, p, n, r), NEW H, NEW z, Heights(t, H, NULL, z), Reds(t, {}, {})
  PROVE  Heights(r, [H EXCEPT ![n] = 0], NULL, z) /\ Reds(r, {n}, {})
<1> DEFINE G == [H EXCEPT ![n] = 0]
<1>s. NULL \notin Node /\ n \in Ext /\ NULL \in Ext
  BY KeyAssumption DEF Ext
<1>1. /\ t.parent[n] = NULL /\ (\A w \in Sides : t.kid[w][n] = NULL)
      /\ \A x \in Node, w \in Sides : t.kid[w][x] # n
  BY OutsideFacts
<1>2. p # n
  BY <1>s
<1>H. H \in [Ext -> Nat] /\ H[NULL] = 0
  BY DEF Heights
<1>G. G \in [Ext -> Nat] /\ G[NULL] = 0 /\ G[n] = 0 /\ \A x \in Ext : x # n => G[x] = H[x]
  BY <1>H, <1>s
<1>3. /\ \A x \in Node, w \in Sides : r.kid[w][x] = IF x = p /\ w = s THEN n ELSE t.kid[w][x]
      /\ \A x \in Node : r.parent[x] = IF x = n THEN p ELSE t.parent[x]
      /\ \A x \in Node : r.color[x] = IF x = n THEN "red" ELSE t.color[x]
  BY DEF Attached
<1>4. \A x \in Node : Bit(t, x) \in {0, 1} /\ (x # n => Bit(r, x) = Bit(t, x)) /\ Bit(r, n) = 0
  BY <1>3 DEF Bit
<1> HIDE DEF G
<1>5. ASSUME NEW x \in Node, NEW w \in Sides
      PROVE  G[x] = G[r.kid[w][x]] + Owed(x, w, NULL, z) + Bit(r, x)
  <2>1. Owed(x, w, NULL, z) = 0
    BY <1>s DEF Owed
  <2>2. CASE x = n
    <3>1. r.kid[w][x] = NULL
      BY <1>1, <1>2, <1>3, <2>2
    <3> QED
      BY <1>4, <1>G, <2>1, <2>2, <3>1
  <2>3. CASE x # n
    <3>1. t.kid[w][x] \in Ext /\ t.kid[w][x] # n
      BY <1>1, KidFacts
    <3>2. G[r.kid[w][x]] = H[t.kid[w][x]]
      BY <1>3, <1>G, <1>H, <1>s, <3>1
    <3>3. H[x] = H[t.kid[w][x]] + Owed(x, w, NULL, z) + Bit(t, x)
      BY DEF Heights
    <3> QED
      BY <1>4, <1>G, <2>3, <3>2, <3>3 DEF Ext
  <2> QED
    BY <2>2, <2>3
<1>6. Heights(r, G, NULL, z)
  BY <1>G, <1>5 DEF Heights
<1>7. ASSUME NEW x \in Node, r.color[x] = "red", r.parent[x] # NULL,
             r.color[r.parent[x]] = "red", x # n
      PROVE  FALSE
  <2>1. r.parent[x] = t.parent[x] /\ r.color[x] = t.color[x]
    BY <1>3, <1>7
  <2>2. t.parent[x] \in Node /\ \E w \in Sides : t.kid[w][t.parent[x]] = x
    BY <1>7, <2>1, ParentFacts DEF Shape, Linked
  <2>3. t.parent[x] # n
    BY <1>1, <1>s, <2>2
  <2> QED
    BY <1>3, <1>7, <2>1, <2>2, <2>3 DEF Reds
<1> QED
  BY <1>6, <1>7 DEF Reds, G

\* Without a black node there is one lacking on the side where it was
LEMMA SpliceHeights ==
  ASSUME NEW t, NEW D, Shape(t, D), NEW n \in D[t.root], NEW w \in Sides,
         t.kid[Other(w)][n] = NULL, NEW r, Spliced(t, n, t.kid[w][n], r),
         NEW H, NEW z, Heights(t, H, NULL, z), Reds(t, {}, {})
  PROVE  LET p == t.parent[n]
             c == t.kid[w][n]
             G == [H EXCEPT ![n] = 1]
         IN  /\ t.color[n] = "red" => Heights(r, G, NULL, z) /\ Reds(r, {}, {})
             /\ t.color[n] = "black" => Heights(r, G, p, SideOf(t, p, n)) /\ Reds(r, {c}, {c})
<1> DEFINE p == t.parent[n]
           c == t.kid[w][n]
           G == [H EXCEPT ![n] = 1]
           Q == IF t.color[n] = "black" THEN p ELSE NULL
<1>n. n \in Node
  BY InsideFacts
<1>s. NULL \notin Node /\ n \in Ext /\ NULL \in Ext /\ t \in Trees
  BY <1>n, KeyAssumption DEF Ext, Shape
<1>c. /\ c \in Ext /\ c # n /\ (c # NULL => c \in Node /\ t.parent[c] = n)
      /\ \A x \in Node : t.parent[x] = n => x = c
  <2>1. c \in Ext /\ c # n /\ (c # NULL => c \in Node /\ t.parent[c] = n)
    BY <1>n, KidFacts
  <2>2. ASSUME NEW x \in Node, t.parent[x] = n PROVE x = c
    <3>1. PICK y \in Sides : t.kid[y][n] = x
      BY <1>n, <1>s, <2>2 DEF Shape, Linked
    <3>2. y = w \/ y = Other(w)
      BY BesideOrder
    <3> QED
      BY <1>s, <3>1, <3>2
  <2> QED
    BY <2>1, <2>2
<1>p. /\ p \in Ext /\ p # n
      /\ p # NULL => p \in Node /\ SideOf(t, p, n) \in Sides /\ t.kid[SideOf(t, p, n)][p] = n
      /\ \A y \in Sides : p # NULL /\ t.kid[y][p] = n => y = SideOf(t, p, n)
  BY <1>n, ParentFacts
<1>1. /\ \A y \in Sides : r.kid[y][n] = NULL
      /\ \A x \in Node, y \in Sides : x # n =>
           r.kid[y][x] = IF x = p /\ y = SideOf(t, p, n) THEN c ELSE t.kid[y][x]
      /\ r.parent[n] = NULL
      /\ \A x \in Node : x # n => r.parent[x] = IF x = c THEN p ELSE t.parent[x]
      /\ r.color[n] = "black" /\ \A x \in Node : x # n => r.color[x] = t.color[x]
  BY <1>n DEF Spliced
<1>H. H \in [Ext -> Nat] /\ H[NULL] = 0
  BY DEF Heights
<1>G. G \in [Ext -> Nat] /\ G[NULL] = 0 /\ G[n] = 1 /\ \A x \in Ext : x # n => G[x] = H[x]
  BY <1>H, <1>s, <1>n
<1>2. H[n] = H[c] + 0 + Bit(t, n) /\ H[c] \in Nat /\ H[n] \in Nat /\ Bit(t, n) \in {0, 1}
  BY <1>n, <1>s, <1>c, <1>H DEF Heights, Owed, Bit
<1>3. \A x \in Node : (x # n => Bit(r, x) = Bit(t, x)) /\ Bit(r, n) = 1
  BY <1>1 DEF Bit
<1> HIDE DEF G, p, c
<1>4. ASSUME NEW q, NEW y, q = Q, q # NULL => y = SideOf(t, p, n)
      PROVE  Heights(r, G, q, y)
  <2> SUFFICES ASSUME NEW x \in Node, NEW v \in Sides
               PROVE  G[x] = G[r.kid[v][x]] + Owed(x, v, q, y) + Bit(r, x)
    BY <1>G DEF Heights
  <2>1. CASE x = n
    <3>1. Owed(x, v, q, y) = 0
      BY <1>4, <1>p, <1>s, <2>1 DEF Owed
    <3> QED
      BY <1>1, <1>3, <1>G, <2>1, <3>1
  <2>2. CASE x # n
    <3>0. t.kid[v][x] \in Ext /\ (t.kid[v][x] # NULL => t.parent[t.kid[v][x]] = x)
      BY KidFacts
    <3>1. H[x] = H[t.kid[v][x]] + 0 + Bit(t, x) /\ H[t.kid[v][x]] \in Nat /\ Bit(t, x) \in {0, 1}
      BY <1>s, <1>H, <3>0 DEF Heights, Owed, Bit
    <3>2. G[x] = H[x] /\ Bit(r, x) = Bit(t, x)
      BY <1>3, <1>G, <2>2 DEF Ext
    <3>3. CASE x = p /\ v = SideOf(t, p, n)
      <4>1. r.kid[v][x] = c /\ t.kid[v][x] = n /\ G[c] = H[c]
        BY <1>1, <1>G, <1>c, <1>p, <1>s, <2>2, <3>3
      <4>2. Owed(x, v, q, y) = Bit(t, n)
        BY <1>4, <1>s, <3>3 DEF Owed, Bit
      <4> QED
        BY <1>2, <3>1, <3>2, <4>1, <4>2
    <3>4. CASE ~(x = p /\ v = SideOf(t, p, n))
      <4>1. r.kid[v][x] = t.kid[v][x] /\ t.kid[v][x] # n
        BY <1>1, <1>n, <1>p, <1>s, <2>2, <3>0, <3>4 DEF p
      <4>2. Owed(x, v, q, y) = 0
        BY <1>4, <1>s, <3>4 DEF Owed
      <4>3. G[t.kid[v][x]] = H[t.kid[v][x]]
        BY <1>G, <3>0, <4>1
      <4> QED
        BY <3>1, <3>2, <4>1, <4>2, <4>3
    <3> QED
      BY <3>3, <3>4
  <2> QED
    BY <2>1, <2>2
<1>5. ASSUME NEW x \in Node, r.color[x] = "red", r.parent[x] # NULL, r.color[r.parent[x]] = "red"
      PROVE  x = c /\ t.color[n] = "black"
  <2>1. x # n
    BY <1>1, <1>5
  <2>2. CASE x = c
    <3>1. t.parent[c] = n /\ t.color[c] = "red"
      BY <1>1, <1>5, <1>c, <1>s, <2>1, <2>2
    <3>2. t.color[n] # "red"
      BY <1>n, <1>s, <2>2, <3>1 DEF Reds
    <3> QED
      BY <1>n, <1>s, <2>2, <3>2, BlackOrRed
  <2>3. CASE x # c
    <3>1. r.parent[x] = t.parent[x] /\ t.color[x] = "red"
      BY <1>1, <1>5, <2>1, <2>3
    <3>2. t.parent[x] \in Node /\ t.parent[x] # n
      BY <1>5, <1>c, <2>3, <3>1, ParentFacts
    <3> QED
      BY <1>1, <1>5, <3>1, <3>2 DEF Reds
  <2> QED
    BY <2>2, <2>3
<1>6. t.color[n] = "red" => Heights(r, G, NULL, z) /\ Reds(r, {}, {})
  BY <1>4, <1>5 DEF Reds
<1>7. t.color[n] = "black" => Heights(r, G, p, SideOf(t, p, n)) /\ Reds(r, {c}, {c})
  BY <1>4, <1>5 DEF Reds
<1> QED
  BY <1>6, <1>7 DEF G, p, c

\* The node that takes a place takes its color, and the heights with it
LEMMA SwapHeights ==
  ASSUME NEW t, NEW D, Shape(t, D), NEW n \in Node, n \notin D[t.root], NEW old \in D[t.root],
         NEW r, Swapped(t, n, old, r), NEW H, NEW q \in Ext, NEW z, Heights(t, H, q, z),
         q # n, NEW A, NEW B, old \notin A, old \notin B, Reds(t, A, B)
  PROVE  /\ Heights(r, [H EXCEPT ![n] = H[old], ![old] = 1], IF q = old THEN n ELSE q, z)
         /\ Reds(r, A, B)
<1> DEFINE p == t.parent[old]
           G == [H EXCEPT ![n] = H[old], ![old] = 1]
           k == IF q = old THEN n ELSE q
<1>o. old \in Node /\ n # old
  BY InsideFacts
<1>s. NULL \notin Node /\ n \in Ext /\ old \in Ext /\ NULL \in Ext /\ t \in Trees
  BY <1>o, KeyAssumption DEF Ext, Shape
<1>n. /\ t.parent[n] = NULL /\ (\A y \in Sides : t.kid[y][n] = NULL)
      /\ \A x \in Node, y \in Sides : t.kid[y][x] # n
  BY OutsideFacts
<1>p. /\ p \in Ext /\ p # old /\ (p # NULL => p # n)
      /\ p # NULL => p \in Node /\ SideOf(t, p, old) \in Sides /\ t.kid[SideOf(t, p, old)][p] = old
      /\ \A y \in Sides : p # NULL /\ t.kid[y][p] = old => y = SideOf(t, p, old)
  BY <1>o, ParentFacts
<1>1. /\ \A y \in Sides : r.kid[y][old] = NULL /\ r.kid[y][n] = t.kid[y][old]
      /\ \A x \in Node, y \in Sides : x # old /\ x # n =>
           r.kid[y][x] = IF x = p /\ y = SideOf(t, p, old) THEN n ELSE t.kid[y][x]
      /\ r.parent[old] = NULL /\ r.parent[n] = p
      /\ r.color[old] = "black" /\ r.color[n] = t.color[old]
      /\ \A x \in Node : x # old /\ x # n => r.color[x] = t.color[x]
  BY <1>o DEF Swapped
<1>2. ASSUME NEW x \in Node, x # old, x # n
      PROVE  r.parent[x] = IF t.parent[x] = old THEN n ELSE t.parent[x]
  <2>1. (\E y \in Sides : t.kid[y][old] = x) <=> t.parent[x] = old
    <3>1. ASSUME NEW y \in Sides, t.kid[y][old] = x PROVE t.parent[x] = old
      BY <3>1, <1>o, <1>s, KidFacts
    <3>2. t.parent[x] = old => \E y \in Sides : t.kid[y][old] = x
      BY <1>o, <1>s DEF Shape, Linked
    <3> QED
      BY <3>1, <3>2
  <2> QED
    BY <1>2, <2>1 DEF Swapped
<1>H. H \in [Ext -> Nat] /\ H[NULL] = 0
  BY DEF Heights
<1>G. /\ G \in [Ext -> Nat] /\ G[NULL] = 0 /\ G[n] = H[old] /\ G[old] = 1
      /\ \A x \in Ext : x # n /\ x # old => G[x] = H[x]
  BY <1>H, <1>s, <1>o
<1>3. /\ Bit(r, old) = 1 /\ Bit(r, n) = Bit(t, old)
      /\ \A x \in Node : x # old /\ x # n => Bit(r, x) = Bit(t, x)
  BY <1>1 DEF Bit
<1> HIDE DEF G, p
<1>4. ASSUME NEW x \in Node, NEW v \in Sides
      PROVE  G[x] = G[r.kid[v][x]] + Owed(x, v, k, z) + Bit(r, x)
  <2>0. \A y \in Node : H[y] = H[t.kid[v][y]] + Owed(y, v, q, z) + Bit(t, y)
    BY DEF Heights
  <2>1. CASE x = old
    <3>1. Owed(x, v, k, z) = 0
      BY <1>o, <1>s, <2>1 DEF Owed
    <3> QED
      BY <1>1, <1>3, <1>G, <2>1, <3>1
  <2>2. CASE x = n
    <3>1. Owed(x, v, k, z) = Owed(old, v, q, z)
      BY <1>o, <2>2 DEF Owed
    <3>2. r.kid[v][x] = t.kid[v][old] /\ G[t.kid[v][old]] = H[t.kid[v][old]]
      BY <1>1, <1>G, <1>n, <1>o, <2>2, KidFacts
    <3> QED
      BY <1>3, <1>G, <1>o, <2>0, <2>2, <3>1, <3>2
  <2>3. CASE x # old /\ x # n
    <3>1. Owed(x, v, k, z) = Owed(x, v, q, z)
      BY <2>3 DEF Owed
    <3>2. t.kid[v][x] \in Ext /\ (t.kid[v][x] # NULL => t.parent[t.kid[v][x]] = x)
      BY KidFacts
    <3>3. G[r.kid[v][x]] = H[t.kid[v][x]]
      <4>1. CASE x = p /\ v = SideOf(t, p, old)
        BY <1>1, <1>G, <1>p, <1>s, <2>3, <4>1
      <4>2. CASE ~(x = p /\ v = SideOf(t, p, old))
        <5>1. r.kid[v][x] = t.kid[v][x] /\ t.kid[v][x] # n
          BY <1>1, <1>n, <2>3, <4>2
        <5>2. t.kid[v][x] # old
          BY <1>o, <1>p, <1>s, <3>2, <4>2 DEF p
        <5> QED
          BY <1>G, <3>2, <5>1, <5>2
      <4> QED
        BY <4>1, <4>2
    <3>4. G[x] = H[x] /\ Bit(r, x) = Bit(t, x)
      BY <1>3, <1>G, <2>3 DEF Ext
    <3> QED
      BY <2>0, <3>1, <3>3, <3>4
  <2> QED
    BY <2>1, <2>2, <2>3
<1>5. Heights(r, G, k, z)
  BY <1>G, <1>4 DEF Heights
<1>6. ASSUME NEW x \in Node, r.color[x] = "red", r.parent[x] # NULL, r.color[r.parent[x]] = "red"
      PROVE  x \in A \/ r.parent[x] \in B
  <2>1. x # old
    BY <1>1, <1>6
  <2>2. CASE x = n
    <3>1. r.color[p] = t.color[p] /\ t.color[old] = "red"
      BY <1>1, <1>6, <1>p, <1>n, <2>2
    <3> QED
      BY <1>1, <1>6, <1>o, <2>2, <3>1 DEF Reds, p
  <2>3. CASE x # n /\ t.parent[x] = old
    <3>1. t.color[x] = "red" /\ t.color[old] = "red"
      BY <1>1, <1>2, <1>6, <2>1, <2>3
    <3> QED
      BY <1>o, <1>s, <2>3, <3>1 DEF Reds
  <2>4. CASE x # n /\ t.parent[x] # old
    <3>1. r.parent[x] = t.parent[x] /\ t.color[x] = "red"
      BY <1>1, <1>2, <1>6, <2>1, <2>4
    <3>2. t.parent[x] \in Node /\ \E y \in Sides : t.kid[y][t.parent[x]] = x
      BY <1>6, <3>1, ParentFacts DEF Shape, Linked
    <3>3. t.parent[x] # n
      BY <1>n, <1>s, <3>2
    <3> QED
      BY <1>1, <1>6, <2>4, <3>1, <3>2, <3>3 DEF Reds
  <2> QED
    BY <2>2, <2>3, <2>4
<1> QED
  BY <1>5, <1>6 DEF Reds, G

\* RB_REMOVE of a node with two kids is both, one after the other
LEMMA RemoveTwoEffect ==
  ASSUME NEW t, NEW D, Shape(t, D), NEW old \in D[t.root], NEW n \in D[old], n # old,
         NEW child \in Ext, child # n, child # old
  PROVE  LET j == Splice(t, n, child)
             u == Forget(j, n)
         IN  Spliced(t, n, child, u) /\ Swapped(u, n, old, Forget(TakePlace(j, n, old), old))
<1> DEFINE j == Splice(t, n, child)
           u == Forget(j, n)
           r == Forget(TakePlace(j, n, old), old)
<1>o. old \in Node /\ n \in Node /\ NULL \notin Node /\ t \in Trees
  <2>1. old \in Node
    BY InsideFacts
  <2> QED
    BY <2>1, KeyAssumption DEF Shape, Downs, Ext
<1>1. Joined(t, n, child, j)
  BY <1>o, SpliceEffect
<1>2. Spliced(t, n, child, u)
  BY <1>o, SplicedEffect
<1> HIDE DEF j
<1>3. Freed(j, n, u)
  BY <1>1, <1>o, ForgetEffect DEF Joined
<1>4. /\ t.parent[n] # NULL => t.parent[n] \in Node /\ t.kid[SideOf(t, t.parent[n], n)][t.parent[n]] = n
      /\ \A z \in Sides : t.parent[n] # NULL /\ t.kid[z][t.parent[n]] = n => z = SideOf(t, t.parent[n], n)
  BY <1>o, ParentFacts
<1>5. t.parent[old] \notin {n, old} /\ t.parent[old] \in Ext
  BY <1>o, ParentFacts
<1>6. j.parent[old] = t.parent[old]
  BY <1>1, <1>o DEF Joined
<1>7. ASSUME NEW z \in Sides PROVE j.kid[z][old] \notin {n, old}
  <2>1. t.kid[z][old] # old /\ (t.kid[z][old] = n => t.parent[n] = old)
    BY <1>o, KidFacts
  <2>2. t.kid[z][old] = n => z = SideOf(t, old, n)
    BY <1>4, <1>o, <2>1
  <2> QED
    BY <1>1, <1>o, <2>1, <2>2 DEF Joined
<1>8. Swapped(j, n, old, r)
  BY <1>1, <1>5, <1>6, <1>7, <1>o, SwapEffect DEF Joined
<1> HIDE DEF u, r
<1>9. /\ u.parent[old] = j.parent[old] /\ u.root = j.root /\ u.color[old] = j.color[old]
      /\ \A z \in Sides : u.kid[z][old] = j.kid[z][old]
      /\ \A x \in Node : x # n => /\ u.parent[x] = j.parent[x] /\ u.color[x] = j.color[x]
                                  /\ \A z \in Sides : u.kid[z][x] = j.kid[z][x]
  BY <1>3, <1>o DEF Freed
<1>10. j.parent[old] # NULL => SideOf(u, u.parent[old], old) = SideOf(j, j.parent[old], old)
  BY <1>5, <1>6, <1>9 DEF SideOf, Sides, Ext
<1>11. Swapped(u, n, old, r)
  <2>1. r \in Trees /\ r.root = IF u.parent[old] = NULL THEN n ELSE u.root
    BY <1>8, <1>9 DEF Swapped
  <2>2. \A x \in Node, z \in Sides :
          r.kid[z][x] = IF x = old THEN NULL ELSE IF x = n THEN u.kid[z][old]
                        ELSE IF x = u.parent[old] /\ z = SideOf(u, u.parent[old], old) THEN n ELSE u.kid[z][x]
    BY <1>8, <1>9, <1>10, <1>o DEF Swapped
  <2>3. \A x \in Node :
          r.parent[x] = IF x = old THEN NULL ELSE IF x = n THEN u.parent[old]
                        ELSE IF \E z \in Sides : u.kid[z][old] = x THEN n ELSE u.parent[x]
    BY <1>8, <1>9 DEF Swapped
  <2>4. \A x \in Node :
          r.color[x] = IF x = old THEN "black" ELSE IF x = n THEN u.color[old] ELSE u.color[x]
    BY <1>8, <1>9 DEF Swapped
  <2> QED
    BY <2>1, <2>2, <2>3, <2>4 DEF Swapped
<1> QED
  BY <1>2, <1>11 DEF u, r, j

-----------------------------------------------------------------------------
(* The invariant *)

\* Key k belongs on side s of key l
OnSide(s, k, l) == IF s = "left" THEN k < l ELSE l < k

TreeOK == Shape(tree, Subtrees(tree))

\* Which call each loop serves, and whether its node is in the tree
CallOK ==
  /\ pc \in {"idle", "walk", "insert_color", "remove", "successor", "remove_color"}
  /\ pc = "idle" => call = NoCall
  /\ pc = "walk" => \/ \E n \in Node \ Contents : call = [op |-> "insert", arg |-> n]
                    \/ \E k \in Probe : call = [op |-> "find", arg |-> k]
                    \/ call = [op |-> "min", arg |-> NULL]
  /\ pc = "insert_color" => \E n \in Contents : call = [op |-> "insert", arg |-> n]
  /\ pc \in {"remove", "successor"} => \E n \in Contents : call = [op |-> "remove", arg |-> n]
  /\ pc = "remove_color" => \E n \in Node \ Contents : call = [op |-> "remove", arg |-> n]

\* What the walk has left aside on its way to cur, below par
WalkOK ==
  pc = "walk" =>
    /\ par = NULL => cur = tree.root
    /\ par # NULL => /\ par \in Contents /\ cur = tree.kid[Towards(par)][par]
                     /\ call.op # "min" => Key[par] # Sought
    /\ call.op # "min" =>
         /\ \A m \in Contents : Key[m] = Sought => m \in Under(tree, cur)
         /\ \A a \in Contents, s \in Sides :
              par \in Under(tree, tree.kid[s][a]) => OnSide(s, Sought, Key[a])
    /\ call.op = "min" =>
         \A m \in Contents : m \notin Under(tree, cur) => Key[par] <= Key[m]

\* The successor of the node to remove is cur or to the left below it
RemoveOK ==
  /\ pc = "remove" => cur = call.arg
  /\ pc = "successor" =>
       LET right == tree.kid["right"][call.arg]
       IN  /\ tree.kid["left"][call.arg] # NULL /\ right # NULL
           /\ cur \in Under(tree, right)
           /\ \A m \in Under(tree, right) : m \notin Under(tree, cur) => Key[cur] < Key[m]

\* Where the rebalancing is
ColorOK ==
  /\ pc = "insert_color" => cur \in Contents /\ tree.color[cur] = "red"
  /\ pc = "remove_color" =>
       /\ par = NULL => cur = tree.root
       /\ par # NULL => par \in Contents /\ \E s \in Sides : tree.kid[s][par] = cur

LackAt == IF pc = "remove_color" THEN par ELSE NULL

HeightsOK == \E H : Heights(tree, H, LackAt, SideOf(tree, par, cur))

RedsOK ==
  Reds(tree, IF pc \in {"insert_color", "remove_color"} THEN {cur} ELSE {},
             IF pc = "remove_color" THEN {cur} ELSE {})

RootOK ==
  ~Black(tree, tree.root) => pc \in {"insert_color", "remove_color"} /\ cur = tree.root

RBInv == TreeOK /\ CallOK /\ WalkOK /\ RemoveOK /\ ColorOK /\ HeightsOK /\ RedsOK /\ RootOK

Quiet == {"idle", "walk", "remove", "successor"}

\* A function that makes the links a tree is the model's
LEMMA ShapeIs == ASSUME NEW t, NEW D, Shape(t, D) PROVE Subtrees(t) = D
  BY SubtreesUnique DEF Shape

\* The side is of no matter when no black node is lacking
LEMMA HeightsAny ==
  ASSUME NEW t, NEW H, NEW y, NEW z, Heights(t, H, NULL, y) PROVE Heights(t, H, NULL, z)
<1>1. \A n \in Node, s \in Sides : Owed(n, s, NULL, y) = Owed(n, s, NULL, z)
  BY KeyAssumption DEF Owed
<1> QED
  BY <1>1 DEF Heights

LEMMA InitInv == Init => RBInv
<1> SUFFICES ASSUME Init PROVE RBInv
  OBVIOUS
<1> DEFINE D == [x \in Ext |-> IF x = NULL THEN {} ELSE {x}]
           H == [x \in Ext |-> IF x = NULL THEN 0 ELSE 1]
<1>1. /\ tree \in Trees /\ tree.root = NULL
      /\ \A n \in Node : tree.parent[n] = NULL /\ tree.color[n] = "black"
      /\ \A n \in Node, s \in Sides : tree.kid[s][n] = NULL
  BY DEF Init, Empty, Trees, Ext
<1>2. NULL \notin Node /\ NULL \in Ext /\ \A n \in Node : n \in Ext
  BY KeyAssumption DEF Ext
<1>3. D \in [Ext -> SUBSET Node] /\ D[NULL] = {} /\ \A n \in Node : D[n] = {n}
  BY <1>2 DEF Ext
<1>4. H \in [Ext -> Nat] /\ H[NULL] = 0 /\ \A n \in Node : H[n] = 1
  BY <1>2 DEF Ext
<1> HIDE DEF D, H
<1>5. Ordered(tree, D)
  BY <1>1, <1>3 DEF Ordered
<1>6. Shape(tree, D)
  <2>1. \A n \in Node, s \in Sides :
          D[n] = {n} \cup D[tree.kid[s][n]] \cup D[tree.kid[Other(s)][n]]
    BY <1>1, <1>3, BesideOrder
  <2> QED
    BY <1>1, <1>3, <1>5, <2>1, ShapeFrom
<1>7. TreeOK
  BY <1>6, ShapeIs DEF TreeOK
<1>8. Heights(tree, H, NULL, SideOf(tree, par, cur))
  BY <1>1, <1>2, <1>4 DEF Heights, Owed, Bit
<1>9. RedsOK /\ RootOK
  BY <1>1 DEF RedsOK, RootOK, Reds, Black
<1> QED
  BY <1>7, <1>8, <1>9 DEF RBInv, CallOK, WalkOK, RemoveOK, ColorOK, HeightsOK, LackAt, Init

\* A step that leaves the tree alone, outside the rebalancing
LEMMA QuietStep ==
  ASSUME RBInv, pc \in Quiet, pc' \in Quiet, UNCHANGED tree
  PROVE  TreeOK' /\ ColorOK' /\ HeightsOK' /\ RedsOK' /\ RootOK'
<1>1. TreeOK' /\ ColorOK' /\ RedsOK' /\ RootOK'
  BY DEF RBInv, TreeOK, ColorOK, RedsOK, RootOK, Quiet
<1>2. PICK H : Heights(tree, H, NULL, SideOf(tree, par, cur))
  BY DEF RBInv, HeightsOK, LackAt, Quiet
<1>3. Heights(tree', H, NULL, SideOf(tree', par', cur'))
  BY <1>2, HeightsAny
<1>4. LackAt' = NULL
  BY DEF LackAt, Quiet
<1> QED
  BY <1>1, <1>3, <1>4 DEF HeightsOK

-----------------------------------------------------------------------------
(* Calls *)

LEMMA CallKeeps == ASSUME RBInv, Call PROVE RBInv'
<1>1. pc = "idle" /\ pc' \in {"walk", "remove"} /\ UNCHANGED tree /\ par' = NULL
  BY DEF Call, CallInsert, CallRemove, CallFind, CallMin, Start
<1>2. TreeOK' /\ ColorOK' /\ HeightsOK' /\ RedsOK' /\ RootOK'
  BY <1>1, QuietStep DEF Quiet
<1> DEFINE D == Subtrees(tree)
<1>3. Shape(tree, D) /\ NULL \notin Node
  BY KeyAssumption DEF RBInv, TreeOK
<1>4. Contents' = Contents /\ Contents = D[tree.root]
  BY <1>1 DEF Contents, Under
<1>5. CallOK'
  BY <1>1, <1>4 DEF Call, CallInsert, CallRemove, CallFind, CallMin, Start, CallOK
<1>6. ASSUME pc' = "walk" PROVE WalkOK'
  <2>1. cur' = tree.root
    BY <1>6 DEF Call, CallInsert, CallRemove, CallFind, CallMin, Start
  <2>2. Under(tree, cur)' = Contents
    BY <1>1, <2>1 DEF Contents, Under
  <2>3. \A a \in Contents, s \in Sides : par' \notin Under(tree, tree.kid[s][a])'
    <3> TAKE a \in Contents, s \in Sides
    <3>1. a \in Node
      BY <1>3, <1>4, InsideFacts
    <3>2. D[tree.kid[s][a]] \subseteq Node
      BY <1>3, <3>1, KidFacts
    <3> QED
      BY <1>1, <1>3, <3>2 DEF Under
  <2> QED
    BY <1>1, <1>4, <2>1, <2>2, <2>3 DEF WalkOK
<1>7. RemoveOK'
  BY <1>1 DEF RemoveOK, Call, CallInsert, CallRemove, CallFind, CallMin, Start
<1> QED
  BY <1>2, <1>5, <1>6, <1>7 DEF RBInv, WalkOK

-----------------------------------------------------------------------------
(* The walk down *)

LEMMA WalkTypes ==
  ASSUME RBInv, pc = "walk"
  PROVE  /\ cur \in Ext /\ (cur # NULL => cur \in Contents) /\ par \in Ext
         /\ call.op \in {"insert", "find", "min"} /\ (call.op # "min" => Sought \in Int)
         /\ (par # NULL => Towards(par) \in Sides) /\ Contents \subseteq Node
<1> DEFINE D == Subtrees(tree)
<1>1. Shape(tree, D) /\ Contents = D[tree.root] /\ NULL \notin Node /\ tree.root \in Ext
  BY KeyAssumption DEF RBInv, TreeOK, Contents, Under, Shape, Trees
<1>2. Contents \subseteq Node
  BY <1>1, InsideFacts
<1>3. call.op \in {"insert", "find", "min"} /\ (call.op # "min" => Sought \in Int)
  BY KeyAssumption DEF RBInv, CallOK, Sought
<1>4. Towards(par) \in Sides
  BY DEF Towards, Sides
<1>5. CASE par = NULL
  <2>1. cur = tree.root
    BY <1>5 DEF RBInv, WalkOK
  <2> QED
    BY <1>1, <1>2, <1>3, <1>5, <2>1 DEF Shape, Downs, Ext
<1>6. CASE par # NULL
  <2>1. par \in Contents /\ cur = tree.kid[Towards(par)][par]
    BY <1>6 DEF RBInv, WalkOK
  <2>2. cur # NULL => cur \in Contents
    BY <1>1, <1>4, <2>1, InsideFacts
  <2>3. cur \in Ext
    BY <1>1, <1>2, <1>4, <2>1, KidFacts
  <2> QED
    BY <1>2, <1>3, <1>4, <2>1, <2>2, <2>3 DEF Ext
<1> QED
  BY <1>5, <1>6

LEMMA ReturnKeeps ==
  ASSUME RBInv, pc \in Quiet, UNCHANGED tree, NEW v, Return(v) PROVE RBInv'
<1>1. pc' = "idle" /\ call' = NoCall
  BY DEF Return
<1>2. TreeOK' /\ ColorOK' /\ HeightsOK' /\ RedsOK' /\ RootOK'
  BY <1>1, QuietStep DEF Quiet
<1> QED
  BY <1>1, <1>2 DEF RBInv, CallOK, WalkOK, RemoveOK

LEMMA WalkKeeps == ASSUME RBInv, Walk PROVE RBInv'
<1> DEFINE D == Subtrees(tree)
<1>1. pc = "walk" /\ cur # NULL /\ UNCHANGED tree
  BY DEF Walk
<1>2. CASE Hit
  BY <1>1, <1>2, ReturnKeeps DEF Walk, Quiet
<1>3. CASE ~Hit
  <2>1. /\ pc' = "walk" /\ cur' = tree.kid[Towards(cur)][cur] /\ par' = cur
        /\ UNCHANGED <<call, ret, tree>>
    BY <1>1, <1>3 DEF Walk, Goto
  <2>2. TreeOK' /\ ColorOK' /\ HeightsOK' /\ RedsOK' /\ RootOK'
    BY <1>1, <2>1, QuietStep DEF Quiet
  <2>3. /\ Shape(tree, D) /\ Contents = D[tree.root] /\ NULL \notin Node /\ Contents' = Contents
        /\ \A n : Under(tree', n) = D[n] /\ Under(tree, n) = D[n]
    BY <2>1, KeyAssumption DEF RBInv, TreeOK, Contents, Under
  <2>4. CallOK' /\ RemoveOK'
    BY <1>1, <2>1, <2>3 DEF RBInv, CallOK, RemoveOK
  <2>5. /\ cur \in Contents /\ cur \in Node /\ call.op \in {"insert", "find", "min"}
        /\ (call.op # "min" => Sought \in Int) /\ Contents \subseteq Node /\ Key[cur] \in Int
        /\ Towards(cur) \in Sides
    BY <1>1, WalkTypes, KeyAssumption DEF Towards, Sides
  <2> DEFINE s == Towards(cur)
             k == tree.kid[s][cur]
             l == tree.kid[Other(s)][cur]
  <2>6. /\ D[cur] = {cur} \cup D[k] \cup D[l] /\ Other(s) \in Sides
        /\ \A m \in D[k] : Beside(s, m, cur)
        /\ \A m \in D[l] : Beside(Other(s), m, cur)
        /\ D[k] \subseteq Node /\ D[l] \subseteq Node
    <3>1. Other(s) \in Sides
      BY <2>5, BesideOrder
    <3>2. D[cur] = {cur} \cup D[k] \cup D[l]
      BY <2>3, <2>5 DEF Shape, Downs
    <3>3. \A m \in D[k] : Beside(s, m, cur)
      BY <2>3, <2>5 DEF Shape, Ordered
    <3>4. \A m \in D[l] : Beside(Other(s), m, cur)
      BY <2>3, <2>5, <3>1 DEF Shape, Ordered
    <3> QED
      BY <2>3, <2>5, <3>1, <3>2, <3>3, <3>4, KidFacts
  <2>7. call.op # "min" => Key[cur] # Sought /\ OnSide(s, Sought, Key[cur])
    BY <1>3, <2>5 DEF Hit, OnSide, Towards
  <2>8. ASSUME call.op # "min", NEW m \in Contents, Key[m] = Sought PROVE m \in D[k]
    <3>1. m \in D[cur]
      BY <1>1, <2>3, <2>8 DEF RBInv, WalkOK
    <3>2. m # cur
      BY <2>7, <2>8
    <3>3. m \notin D[l]
      BY <2>5, <2>6, <2>7, <2>8, KeyAssumption DEF OnSide, Beside, Other, Sides
    <3> QED
      BY <2>6, <3>1, <3>2, <3>3
  <2>9. ASSUME call.op # "min", NEW a \in Contents, NEW z \in Sides, cur \in D[tree.kid[z][a]]
        PROVE  OnSide(z, Sought, Key[a])
    <3> DEFINE y == tree.kid[z][a]
    <3>0. a \in Node /\ y \in Ext /\ y # NULL /\ y \in Node /\ tree.parent[y] = a
      BY <2>3, <2>5, <2>9, KidFacts DEF Shape, Downs
    <3>1. par # NULL
      <4>1. par = NULL => cur = tree.root
        BY <1>1 DEF RBInv, WalkOK
      <4>2. cur = tree.root => y = tree.root
        BY <2>3, <2>9, <3>0, RootOnTop
      <4>3. tree.root # NULL => tree.parent[tree.root] = NULL
        BY <2>3 DEF Shape, Linked
      <4> QED
        BY <2>3, <3>0, <4>1, <4>2, <4>3
    <3>2. /\ par \in Contents /\ cur = tree.kid[Towards(par)][par] /\ Key[par] # Sought
          /\ par \in Node /\ Key[par] \in Int /\ Towards(par) \in Sides
      BY <1>1, <2>5, <2>9, <3>1, KeyAssumption DEF RBInv, WalkOK, Towards, Sides
    <3>3. tree.parent[cur] = par
      BY <2>3, <2>5, <3>2, KidFacts
    <3>4. CASE y = cur
      <4>1. a = par /\ tree.kid[z][par] = cur /\ tree.kid[Towards(par)][par] = cur
        BY <3>0, <3>2, <3>3, <3>4
      <4>2. z = Towards(par)
        <5>1. z = Towards(par) \/ z = Other(Towards(par))
          BY <3>2, BesideOrder
        <5> QED
          BY <2>3, <2>5, <3>2, <4>1, <5>1, KidFacts
      <4> QED
        BY <2>5, <2>9, <3>2, <4>1, <4>2 DEF OnSide, Towards
    <3>5. CASE y # cur
      <4>1. par \in D[y]
        BY <2>3, <2>5, <2>9, <3>0, <3>3, <3>5, ParentFacts
      <4> QED
        BY <1>1, <2>3, <2>9, <4>1 DEF RBInv, WalkOK
    <3> QED
      BY <3>4, <3>5
  <2>10. ASSUME call.op = "min", NEW m \in Contents, m \notin D[k] PROVE Key[cur] <= Key[m]
    <3>0. m \in Node /\ Key[m] \in Int /\ s = "left" /\ Other(s) = "right"
      BY <2>5, <2>10, KeyAssumption DEF Towards, Other
    <3>1. CASE m \in D[cur]
      BY <2>5, <2>6, <2>10, <3>0, <3>1 DEF Beside
    <3>2. CASE m \notin D[cur]
      <4>1. Key[par] <= Key[m] /\ par # NULL
        BY <1>1, <2>3, <2>10, <3>2 DEF RBInv, WalkOK
      <4>2. par \in Contents /\ cur = tree.kid["left"][par] /\ "left" \in Sides
        BY <1>1, <2>10, <4>1 DEF RBInv, WalkOK, Towards, Sides
      <4>3. Key[cur] < Key[par] /\ Key[par] \in Int
        <5>1. cur \in D[cur] /\ par \in Node
          BY <2>3, <2>5, <4>2 DEF Shape, Downs
        <5>2. Beside("left", cur, par)
          BY <2>3, <4>2, <5>1 DEF Shape, Ordered
        <5> QED
          BY <5>1, <5>2, KeyAssumption DEF Beside
      <4> QED
        BY <2>5, <3>0, <4>1, <4>3
    <3> QED
      BY <3>1, <3>2
  <2>11. WalkOK'
    <3>1. Sought' = Sought
      BY <2>1 DEF Sought
    <3>2. tree'.kid[Towards(par)'][par'] = cur'
      BY <2>1 DEF Towards, Sought
    <3>3. par' # NULL /\ par' \in Contents' /\ (call'.op # "min" => Key[par'] # Sought')
      BY <1>1, <2>1, <2>3, <2>5, <2>7, <3>1
    <3>4. Under(tree, cur)' = D[k]
      BY <2>1, <2>3
    <3>5. call'.op # "min" =>
            /\ \A m \in Contents' : Key[m] = Sought' => m \in Under(tree, cur)'
            /\ \A a \in Contents', z \in Sides :
                 par' \in Under(tree', tree'.kid[z][a]) => OnSide(z, Sought', Key[a])
      <4>1. \A a \in Contents, z \in Sides : Under(tree', tree'.kid[z][a]) = D[tree.kid[z][a]]
        BY <2>1, <2>3 DEF Under
      <4> QED
        BY <2>1, <2>3, <2>8, <2>9, <3>1, <3>4, <4>1
    <3>6. call'.op = "min" =>
            \A m \in Contents' : m \notin Under(tree, cur)' => Key[par'] <= Key[m]
      BY <2>1, <2>3, <2>10, <3>4
    <3> QED
      BY <3>2, <3>3, <3>5, <3>6 DEF WalkOK
  <2> QED
    BY <2>2, <2>4, <2>11 DEF RBInv
<1> QED
  BY <1>2, <1>3

LEMMA WalkEndsKeeps == ASSUME RBInv, WalkEnds PROVE RBInv'
  BY ReturnKeeps DEF WalkEnds, Quiet

-----------------------------------------------------------------------------
(* Nodes that come and go *)

LEMMA NewTree ==
  ASSUME NEW E, Shape(tree', E)
  PROVE  TreeOK' /\ Contents' = E[tree'.root] /\ \A n : Under(tree', n) = E[n]
<1>1. Subtrees(tree') = E
  BY ShapeIs
<1> QED
  BY <1>1 DEF TreeOK, Contents, Under

\* What the invariant says of the tree where no rebalancing is going on
LEMMA QuietTree ==
  ASSUME RBInv, pc \in Quiet
  PROVE  /\ Shape(tree, Subtrees(tree)) /\ Contents = Subtrees(tree)[tree.root] /\ tree \in Trees
         /\ \A n : Under(tree, n) = Subtrees(tree)[n]
         /\ \E H : \A z : Heights(tree, H, NULL, z)
         /\ Reds(tree, {}, {}) /\ (tree.root # NULL => tree.color[tree.root] = "black")
         /\ NULL \notin Node /\ Contents \subseteq Node
<1>1. Shape(tree, Subtrees(tree)) /\ Contents = Subtrees(tree)[tree.root] /\ tree \in Trees
  BY DEF RBInv, TreeOK, Contents, Under, Shape
<1>2. PICK H : Heights(tree, H, NULL, SideOf(tree, par, cur))
  BY DEF RBInv, HeightsOK, LackAt, Quiet
<1>3. \A z : Heights(tree, H, NULL, z)
  BY <1>2, HeightsAny
<1>4. Reds(tree, {}, {})
  BY DEF RBInv, RedsOK, Quiet
<1>5. tree.root # NULL => tree.color[tree.root] = "black"
  BY DEF RBInv, RootOK, Black, Quiet
<1>6. Contents \subseteq Node
  BY <1>1, InsideFacts
<1> QED
  BY <1>1, <1>3, <1>4, <1>5, <1>6, KeyAssumption DEF Under

LEMMA AttachKeeps == ASSUME RBInv, Attach PROVE RBInv' /\ Contents' = Contents \cup {call.arg}
<1> DEFINE D == Subtrees(tree)
           n == call.arg
           s == Towards(par)
           E == Leafed(D, par, n)
<1>1. /\ pc = "walk" /\ cur = NULL /\ call.op = "insert"
      /\ pc' = "insert_color" /\ cur' = n /\ par' = NULL /\ UNCHANGED <<call, ret>>
  BY DEF Attach, Goto
<1>2. n \in Node \ Contents /\ call = [op |-> "insert", arg |-> n] /\ Sought = Key[n]
  BY <1>1 DEF RBInv, CallOK, Sought
<1>3. /\ Shape(tree, D) /\ Contents = D[tree.root] /\ tree \in Trees
      /\ \A x : Under(tree, x) = D[x]
      /\ Reds(tree, {}, {}) /\ (tree.root # NULL => tree.color[tree.root] = "black")
      /\ NULL \notin Node /\ Contents \subseteq Node
  BY <1>1, QuietTree DEF Quiet
<1>4. PICK H : \A z : Heights(tree, H, NULL, z)
  BY <1>1, QuietTree DEF Quiet
<1>5. par \in Ext /\ s \in Sides
  BY <1>1, WalkTypes DEF Towards, Sides
<1>6. Attached(tree, s, par, n, tree')
  <2>1. tree' = LET t == [tree EXCEPT !.parent[n] = par, !.color[n] = "red"]
                IN  IF par = NULL THEN [t EXCEPT !.root = n] ELSE Adopt(t, s, par, n)
    BY DEF Attach
  <2> QED
    BY <1>2, <1>3, <1>5, <2>1, AttachEffect
<1>7. par = NULL => tree.root = NULL
  BY <1>1 DEF RBInv, WalkOK
<1>8. par # NULL => par \in D[tree.root] /\ tree.kid[s][par] = NULL /\ Beside(s, n, par)
  <2> SUFFICES ASSUME par # NULL
               PROVE  par \in D[tree.root] /\ tree.kid[s][par] = NULL /\ Beside(s, n, par)
    OBVIOUS
  <2>1. par \in Contents /\ cur = tree.kid[s][par] /\ Key[par] # Key[n]
    BY <1>1, <1>2 DEF RBInv, WalkOK
  <2> QED
    BY <1>1, <1>2, <1>3, <2>1, KeyAssumption DEF Beside, Towards
<1>9. \A a \in D[tree.root], z \in Sides : par \in D[tree.kid[z][a]] => Beside(z, n, a)
  BY <1>1, <1>2, <1>3 DEF RBInv, WalkOK, OnSide, Beside
<1> HIDE DEF s
<1>10. Shape(tree', E) /\ E[tree'.root] = D[tree.root] \cup {n}
  BY <1>2, <1>3, <1>5, <1>6, <1>7, <1>8, <1>9, AttachShape
<1>11. TreeOK' /\ Contents' = Contents \cup {n}
  BY <1>3, <1>10, NewTree
<1>12. ASSUME NEW z PROVE Heights(tree', [H EXCEPT ![n] = 0], NULL, z) /\ Reds(tree', {n}, {})
  BY <1>2, <1>3, <1>4, <1>5, <1>6, <1>8, AttachHeights
<1>13. tree'.color[n] = "red"
  BY <1>2, <1>6 DEF Attached
<1>14. HeightsOK' /\ RedsOK'
  BY <1>1, <1>12 DEF HeightsOK, LackAt, RedsOK
<1>15. RootOK'
  <2>1. CASE par = NULL
    BY <1>1, <1>6, <2>1 DEF RootOK, Attached
  <2>2. CASE par # NULL
    <3>1. tree'.root = tree.root /\ tree.root \in Node /\ tree.root # n
      BY <1>2, <1>3, <1>6, <1>8, <2>2, InsideFacts, OutsideFacts DEF Attached
    <3> QED
      BY <1>3, <1>6, <3>1 DEF RootOK, Attached, Black
  <2> QED
    BY <2>1, <2>2
<1> QED
  BY <1>1, <1>2, <1>11, <1>13, <1>14, <1>15 DEF RBInv, CallOK, WalkOK, RemoveOK, ColorOK

LEMMA FindSuccessorKeeps == ASSUME RBInv, FindSuccessor PROVE RBInv'
<1> DEFINE D == Subtrees(tree)
<1>1. /\ pc = "remove" /\ pc' = "successor" /\ cur' = tree.kid["right"][cur]
      /\ tree.kid["left"][cur] # NULL /\ tree.kid["right"][cur] # NULL
      /\ UNCHANGED <<tree, call, ret>> /\ "right" \in Sides
  BY DEF FindSuccessor, Goto, Sides
<1>2. TreeOK' /\ ColorOK' /\ HeightsOK' /\ RedsOK' /\ RootOK'
  BY <1>1, QuietStep DEF Quiet
<1>3. cur = call.arg /\ cur \in Contents /\ Contents' = Contents
  BY <1>1 DEF RBInv, RemoveOK, CallOK, Contents
<1>4. Shape(tree, D) /\ cur \in Node /\ \A n : Under(tree, n) = D[n] /\ Under(tree', n) = D[n]
  BY <1>1, <1>3, QuietTree DEF Quiet, Under
<1>5. tree.kid["right"][cur] \in D[tree.kid["right"][cur]]
  BY <1>1, <1>4, KidFacts
<1>6. RemoveOK'
  BY <1>1, <1>3, <1>4, <1>5 DEF RemoveOK
<1> QED
  BY <1>1, <1>2, <1>3, <1>6 DEF RBInv, CallOK, WalkOK

\* Where the walk to the successor is
LEMMA SuccessorTypes ==
  ASSUME RBInv, pc = "successor"
  PROVE  LET right == tree.kid["right"][call.arg]
             D     == Subtrees(tree)
         IN  /\ call.arg \in Contents /\ call.arg \in Node /\ right \in Node
             /\ call = [op |-> "remove", arg |-> call.arg]
             /\ cur \in D[right] /\ cur \in Node /\ cur \in D[call.arg] /\ cur # call.arg
             /\ D[cur] \subseteq D[right] /\ call.arg \notin D[right] /\ cur \in Contents
             /\ D[right] \subseteq D[call.arg] /\ D[right] \subseteq Node
             /\ \A m \in D[right] : m \notin D[cur] => Key[cur] < Key[m]
             /\ "right" \in Sides /\ "left" \in Sides /\ Other("right") = "left"
<1> DEFINE right == tree.kid["right"][call.arg]
           D     == Subtrees(tree)
<1>1. Shape(tree, D) /\ Contents = D[tree.root] /\ Contents \subseteq Node
      /\ \A n : Under(tree, n) = D[n]
  BY QuietTree DEF Quiet
<1>2. call.arg \in Contents /\ call = [op |-> "remove", arg |-> call.arg]
  BY DEF RBInv, CallOK
<1>3. /\ right # NULL /\ cur \in D[right]
      /\ \A m \in D[right] : m \notin D[cur] => Key[cur] < Key[m]
  BY <1>1 DEF RBInv, RemoveOK
<1>4. "right" \in Sides /\ "left" \in Sides /\ Other("right") = "left"
  BY DEF Sides, Other
<1>5. /\ right \in Node /\ D[right] \subseteq D[call.arg] /\ D[right] \subseteq Node
      /\ call.arg \notin D[right]
  BY <1>1, <1>2, <1>3, <1>4, KidFacts
<1>6. D[cur] \subseteq D[right] /\ D[call.arg] \subseteq D[tree.root]
  BY <1>1, <1>2, <1>3, <1>5, InsideFacts DEF Shape, Downs
<1> QED
  BY <1>1, <1>2, <1>3, <1>4, <1>5, <1>6

LEMMA SuccessorLeftKeeps == ASSUME RBInv, SuccessorLeft PROVE RBInv'
<1> DEFINE D == Subtrees(tree)
           right == tree.kid["right"][call.arg]
           l == tree.kid["left"][cur]
<1>1. /\ pc = "successor" /\ pc' = "successor" /\ cur' = l /\ l # NULL
      /\ UNCHANGED <<tree, call, ret>>
  BY DEF SuccessorLeft, Goto
<1>2. TreeOK' /\ ColorOK' /\ HeightsOK' /\ RedsOK' /\ RootOK'
  BY <1>1, QuietStep DEF Quiet
<1>3. Shape(tree, D) /\ \A n : Under(tree, n) = D[n] /\ Under(tree', n) = D[n]
  BY <1>1, QuietTree DEF Quiet, Under
<1>4. /\ call.arg \in Contents /\ cur \in Node /\ D[cur] \subseteq D[right] /\ D[right] \subseteq Node
      /\ \A m \in D[right] : m \notin D[cur] => Key[cur] < Key[m]
      /\ "right" \in Sides /\ "left" \in Sides /\ Other("left") = "right"
  BY <1>1, SuccessorTypes DEF Other
<1>5. l \in Node /\ l \in D[l] /\ D[l] \subseteq D[cur]
  BY <1>1, <1>3, <1>4, KidFacts
<1>6. ASSUME NEW m \in D[right], m \notin D[l] PROVE Key[l] < Key[m]
  <2>1. Key[l] < Key[cur] /\ (\A x \in D[tree.kid["right"][cur]] : Key[cur] < Key[x])
    BY <1>3, <1>4, <1>5 DEF Shape, Ordered, Beside
  <2>2. D[cur] = {cur} \cup D[l] \cup D[tree.kid["right"][cur]]
    BY <1>3, <1>4 DEF Shape, Downs
  <2>3. Key[l] \in Int /\ Key[cur] \in Int /\ Key[m] \in Int
    BY <1>4, <1>5, KeyAssumption
  <2>4. m = cur \/ Key[cur] < Key[m]
    BY <1>4, <1>6, <2>1, <2>2
  <2> QED
    BY <2>1, <2>3, <2>4
<1>7. RemoveOK'
  <2>1. tree.kid["left"][call.arg] # NULL /\ right # NULL
    BY <1>1 DEF RBInv, RemoveOK
  <2> QED
    BY <1>1, <1>3, <1>4, <1>5, <1>6, <2>1 DEF RemoveOK
<1>8. CallOK'
  BY <1>1 DEF RBInv, CallOK, Contents
<1> QED
  BY <1>1, <1>2, <1>7, <1>8 DEF RBInv, WalkOK

\* The end of RB_REMOVE's splicing: either RB_REMOVE_COLOR or a return
LEMMA RecolorKeeps ==
  ASSUME NEW E, Shape(tree', E), NEW n \in Node, n \notin E[tree'.root],
         call = [op |-> "remove", arg |-> n], NEW color \in {"red", "black"},
         NEW c, NEW p \in Ext, NEW z, Recolor(color, c, p),
         p = NULL => tree'.root = c,
         p # NULL => p \in E[tree'.root] /\ z \in Sides /\ tree'.kid[z][p] = c,
         NEW G, color = "black" => Heights(tree', G, p, z) /\ Reds(tree', {c}, {c}),
         color = "red" => Heights(tree', G, NULL, z) /\ Reds(tree', {}, {}),
         \/ tree'.root # NULL => tree'.color[tree'.root] = "black"
         \/ color = "black" /\ tree'.root = c
  PROVE  RBInv' /\ Contents' = E[tree'.root]
<1>1. TreeOK' /\ Contents' = E[tree'.root]
  BY NewTree
<1>2. CASE color = "red"
  <2>1. pc' = "idle" /\ call' = NoCall
    BY <1>2 DEF Recolor, Return
  <2>2. HeightsOK'
    BY <1>2, <2>1, HeightsAny DEF HeightsOK, LackAt
  <2>3. RedsOK' /\ RootOK'
    BY <1>2, <2>1 DEF RedsOK, RootOK, Black
  <2> QED
    BY <1>1, <2>1, <2>2, <2>3 DEF RBInv, CallOK, WalkOK, RemoveOK, ColorOK
<1>3. CASE color = "black"
  <2>1. pc' = "remove_color" /\ cur' = c /\ par' = p /\ UNCHANGED call
    BY <1>3 DEF Recolor, Goto
  <2>2. ColorOK'
    BY <1>1, <2>1 DEF ColorOK
  <2>3. Heights(tree', G, p, SideOf(tree', p, c))
    <3>1. CASE p = NULL
      BY <1>3, <3>1, HeightsAny
    <3>2. CASE p # NULL
      <4>1. p \in Node
        BY <3>2 DEF Ext
      <4>2. SideOf(tree', p, tree'.kid[z][p]) = z
        BY <1>3, <3>2, <4>1, SideOwed
      <4> QED
        BY <1>3, <3>2, <4>2
    <3> QED
      BY <3>1, <3>2
  <2>4. HeightsOK' /\ RedsOK'
    BY <1>3, <2>1, <2>3 DEF HeightsOK, LackAt, RedsOK
  <2>5. RootOK'
    BY <2>1 DEF RootOK, Black
  <2>6. CallOK'
    BY <1>1, <2>1 DEF CallOK
  <2> QED
    BY <1>1, <2>1, <2>2, <2>4, <2>5, <2>6 DEF RBInv, WalkOK, RemoveOK
<1> QED
  BY <1>2, <1>3

LEMMA RemoveOneKeeps == ASSUME RBInv, RemoveOne PROVE RBInv' /\ Contents' = Contents \ {call.arg}
<1> DEFINE D == Subtrees(tree)
           n == cur
           c == IF tree.kid["left"][cur] = NULL THEN tree.kid["right"][cur] ELSE tree.kid["left"][cur]
           p == tree.parent[cur]
           E == Less(D, n)
<1>1. /\ pc = "remove" /\ tree' = Forget(Splice(tree, n, c), n) /\ Recolor(tree.color[n], c, p)
  BY DEF RemoveOne
<1>2. /\ Shape(tree, D) /\ Contents = D[tree.root] /\ tree \in Trees
      /\ Reds(tree, {}, {}) /\ (tree.root # NULL => tree.color[tree.root] = "black")
      /\ NULL \notin Node /\ Contents \subseteq Node
  BY <1>1, QuietTree DEF Quiet
<1>3. PICK H : \A z : Heights(tree, H, NULL, z)
  BY <1>1, QuietTree DEF Quiet
<1>4. n = call.arg /\ n \in Contents /\ n \in Node /\ call = [op |-> "remove", arg |-> n]
  BY <1>1, <1>2 DEF RBInv, CallOK, RemoveOK
<1>5. PICK w \in Sides : c = tree.kid[w][n] /\ tree.kid[Other(w)][n] = NULL
  BY DEF RemoveOne, Sides, Other
<1>6. c \in Ext /\ p \in Ext /\ tree.color[n] \in {"red", "black"} /\ p # n
  BY <1>2, <1>4, <1>5, KidFacts, ParentFacts DEF Trees
<1>7. Spliced(tree, n, tree.kid[w][n], tree')
  BY <1>1, <1>2, <1>4, <1>5, <1>6, SplicedEffect
<1>8. Shape(tree', E) /\ E[tree'.root] = Contents \ {n}
  BY <1>2, <1>4, <1>5, <1>7, SpliceShape
<1> DEFINE G == [H EXCEPT ![n] = 1]
           z == SideOf(tree, p, n)
<1>9. /\ tree.color[n] = "red" => Heights(tree', G, NULL, z) /\ Reds(tree', {}, {})
      /\ tree.color[n] = "black" => Heights(tree', G, p, z) /\ Reds(tree', {c}, {c})
  BY <1>2, <1>3, <1>4, <1>5, <1>7, SpliceHeights
<1>10. /\ (p = NULL <=> n = tree.root) /\ (p # NULL => p \in Contents /\ p \in Node /\ z \in Sides)
       /\ tree.root \in Node
  BY <1>2, <1>4, ParentFacts, InsideFacts
<1>11. p = NULL => tree'.root = c
  BY <1>5, <1>7 DEF Spliced
<1>12. p # NULL => p \in E[tree'.root] /\ z \in Sides /\ tree'.kid[z][p] = c
  BY <1>5, <1>6, <1>7, <1>8, <1>10 DEF Spliced
<1>13. \/ tree'.root # NULL => tree'.color[tree'.root] = "black"
       \/ tree.color[n] = "black" /\ tree'.root = c
  <2>1. CASE p = NULL
    BY <1>2, <1>10, <1>11, <2>1
  <2>2. CASE p # NULL
    BY <1>2, <1>7, <1>10, <2>2 DEF Spliced
  <2> QED
    BY <2>1, <2>2
<1>14. /\ n \in Node /\ n \notin E[tree'.root] /\ call = [op |-> "remove", arg |-> n]
       /\ tree.color[n] \in {"red", "black"} /\ p \in Ext /\ Recolor(tree.color[n], c, p)
       /\ Shape(tree', E)
  BY <1>1, <1>4, <1>6, <1>8
<1> HIDE DEF c, p, E, G, z
<1>15. RBInv' /\ Contents' = E[tree'.root]
  BY ONLY <1>9, <1>11, <1>12, <1>13, <1>14, RecolorKeeps
<1> QED
  BY <1>4, <1>8, <1>15

LEMMA RemoveTwoKeeps == ASSUME RBInv, RemoveTwo PROVE RBInv' /\ Contents' = Contents \ {call.arg}
<1> DEFINE D == Subtrees(tree)
           n == cur
           old == call.arg
           right == tree.kid["right"][old]
           c == tree.kid["right"][cur]
           p == tree.parent[n]
           k == IF p = old THEN n ELSE p
           z == SideOf(tree, p, n)
           u == Forget(Splice(tree, n, c), n)
           D1 == Less(D, n)
           E == Instead(D1, n, old)
<1>1. /\ pc = "successor" /\ tree.kid["left"][n] = NULL
      /\ tree' = Forget(TakePlace(Splice(tree, n, c), n, old), old) /\ Recolor(tree.color[n], c, k)
  BY DEF RemoveTwo, ParentOfSpliced
<1>2. /\ Shape(tree, D) /\ Contents = D[tree.root] /\ tree \in Trees
      /\ Reds(tree, {}, {}) /\ (tree.root # NULL => tree.color[tree.root] = "black")
      /\ NULL \notin Node /\ Contents \subseteq Node
  BY <1>1, QuietTree DEF Quiet
<1>3. PICK H : \A y : Heights(tree, H, NULL, y)
  BY <1>1, QuietTree DEF Quiet
<1>4. /\ old \in Contents /\ old \in Node /\ n \in Contents /\ n \in Node
      /\ call = [op |-> "remove", arg |-> old]
      /\ n \in D[old] /\ n # old /\ n \in D[right] /\ D[n] \subseteq D[right] /\ old \notin D[right]
      /\ \A m \in D[right] : m \notin D[n] => Key[n] < Key[m]
      /\ "right" \in Sides /\ "left" \in Sides /\ Other("right") = "left"
  BY <1>1, SuccessorTypes
<1>5. /\ c \in Ext /\ c # n /\ c # old /\ D[n] = {n} \cup D[c] /\ D[c] \subseteq Node
      /\ \A m \in D[c] : Key[n] < Key[m]
  <2>1. c \in Ext /\ c # n /\ D[c] \subseteq D[n] /\ D[c] \subseteq Node /\ (c # NULL => c \in D[c])
    BY <1>2, <1>4, KidFacts
  <2>2. D[n] = {n} \cup D[c] \cup D[NULL] /\ D[NULL] = {}
    BY <1>1, <1>2, <1>4 DEF Shape, Downs
  <2>3. \A m \in D[c] : Key[n] < Key[m]
    BY <1>2, <1>4 DEF Shape, Ordered, Beside
  <2> QED
    BY <1>2, <1>4, <2>1, <2>2, <2>3
<1>6. /\ p \in D[old] /\ p \in Node /\ z \in Sides /\ tree.kid[z][p] = n /\ p # n /\ p # NULL
      /\ p \in Contents /\ n # tree.root
  <2>1. p \in D[old]
    BY <1>2, <1>4, ParentFacts
  <2>2. p \in Node /\ p \in Contents
    BY <1>2, <1>4, <2>1, InsideFacts
  <2> QED
    BY <1>2, <1>4, <2>1, <2>2, ParentFacts
<1>7. /\ tree.parent[old] \notin D[old] /\ (tree.parent[old] = NULL <=> old = tree.root)
      /\ tree.parent[old] \in Ext /\ tree.parent[old] # n /\ tree.root \in Node
  BY <1>2, <1>4, ParentFacts, InsideFacts
<1>8. Spliced(tree, n, tree.kid["right"][n], u) /\ Swapped(u, n, old, tree')
  BY <1>1, <1>2, <1>4, <1>5, RemoveTwoEffect
<1>9. /\ Shape(u, D1) /\ D1[u.root] = Contents \ {n}
      /\ \A x \in Node, y \in Sides : x # n => D1[u.kid[y][x]] = D[tree.kid[y][x]] \ {n}
  <2>1. /\ Shape(tree, D) /\ n \in D[tree.root] /\ "right" \in Sides
        /\ tree.kid[Other("right")][n] = NULL /\ Spliced(tree, n, tree.kid["right"][n], u)
    BY <1>1, <1>2, <1>4, <1>8
  <2> HIDE DEF D, u
  <2>2. /\ Shape(u, Less(D, n)) /\ Less(D, n)[u.root] = D[tree.root] \ {n}
        /\ \A x \in Node, y \in Sides : x # n => Less(D, n)[u.kid[y][x]] = D[tree.kid[y][x]] \ {n}
    BY ONLY <2>1, SpliceShape
  <2> QED
    BY <1>2, <2>2 DEF D
<1> HIDE DEF u, D1, c
<1>10. Shape(tree', E) /\ E[tree'.root] = Contents \ {old}
  <2>1. ASSUME NEW x \in D1[u.root], NEW y \in Sides, old \in D1[u.kid[y][x]] PROVE Beside(y, n, x)
    <3>1. x \in Node /\ x # n /\ tree.kid[y][x] \in Ext
      BY <1>2, <1>9, KidFacts
    <3>2. old \in D[tree.kid[y][x]]
      BY <1>9, <2>1, <3>1
    <3>3. D[old] \subseteq D[tree.kid[y][x]]
      <4>1. tree.kid[y][x] \in Node
        BY <1>2, <3>1, <3>2 DEF Shape, Downs, Ext
      <4> QED
        BY <1>2, <1>4, <3>2, <4>1 DEF Shape, Downs
    <3> QED
      BY <1>2, <1>4, <3>1, <3>3 DEF Shape, Ordered
  <2>2. ASSUME NEW y \in Sides, NEW m \in D1[u.kid[y][old]] PROVE Beside(y, m, n)
    <3>1. m \in D[tree.kid[y][old]] /\ m # n
      BY <1>4, <1>9, <2>2
    <3>2. CASE y = "right"
      BY <1>4, <1>5, <3>1, <3>2 DEF Beside
    <3>3. CASE y = "left"
      <4>1. m \in Node /\ Key[m] < Key[old]
        BY <1>2, <1>4, <3>1, <3>3, KidFacts DEF Shape, Ordered, Beside
      <4>2. Key[old] < Key[n]
        BY <1>2, <1>4 DEF Shape, Ordered, Beside
      <4> QED
        BY <1>4, <3>3, <4>1, <4>2, KeyAssumption DEF Beside
    <3> QED
      BY <3>2, <3>3 DEF Sides
  <2>3. n \notin D1[u.root] /\ old \in D1[u.root]
    BY <1>4, <1>9
  <2>4. Shape(tree', E) /\ E[tree'.root] = (D1[u.root] \ {old}) \cup {n}
    BY <1>4, <1>8, <1>9, <2>1, <2>2, <2>3, SwapShape
  <2> QED
    BY <1>4, <1>9, <2>4
<1> DEFINE G1 == [H EXCEPT ![n] = 1]
           G == [G1 EXCEPT ![n] = G1[old], ![old] = 1]
<1>11. /\ tree.color[n] = "red" => Heights(u, G1, NULL, z) /\ Reds(u, {}, {})
       /\ tree.color[n] = "black" => Heights(u, G1, p, z) /\ Reds(u, {c}, {c})
  BY <1>1, <1>2, <1>3, <1>4, <1>8, SpliceHeights DEF c
<1>12. n \notin D1[u.root] /\ old \in D1[u.root]
  BY <1>4, <1>9
<1> HIDE DEF G1, z
<1>13. tree.color[n] = "red" => Heights(tree', G, NULL, z) /\ Reds(tree', {}, {})
  <2> SUFFICES ASSUME tree.color[n] = "red" PROVE Heights(tree', G, NULL, z) /\ Reds(tree', {}, {})
    OBVIOUS
  <2>1. NULL \in Ext /\ NULL # n /\ NULL # old /\ old \notin {}
    BY <1>2, <1>4 DEF Ext
  <2>2. /\ Heights(tree', G, IF NULL = old THEN n ELSE NULL, z)
        /\ Reds(tree', {}, {})
    BY <1>4, <1>8, <1>9, <1>11, <1>12, <2>1, SwapHeights
  <2> QED
    BY <2>1, <2>2
<1>14. tree.color[n] = "black" => Heights(tree', G, k, z) /\ Reds(tree', {c}, {c})
  <2> SUFFICES ASSUME tree.color[n] = "black" PROVE Heights(tree', G, k, z) /\ Reds(tree', {c}, {c})
    OBVIOUS
  <2>1. p \in Ext /\ old \notin {c} /\ p # n
    BY <1>5, <1>6 DEF Ext
  <2>2. Heights(u, G1, p, z) /\ Reds(u, {c}, {c}) /\ Shape(u, D1) /\ Swapped(u, n, old, tree')
    BY <1>8, <1>9, <1>11
  <2> HIDE DEF p, G
  <2>3. /\ Heights(tree', [G1 EXCEPT ![n] = G1[old], ![old] = 1], IF p = old THEN n ELSE p, z)
        /\ Reds(tree', {c}, {c})
    BY <1>4, <1>12, <2>1, <2>2, SwapHeights
  <2> QED
    BY <2>3 DEF G
<1>15. u.kid[z][p] = c /\ u.parent[old] = tree.parent[old] /\ u.root = tree.root
  BY <1>4, <1>5, <1>6, <1>8 DEF Spliced, c, z
<1>16. k \in E[tree'.root] /\ tree'.kid[z][k] = c
  <2>1. CASE p = old
    <3>1. tree'.kid[z][n] = u.kid[z][old]
      BY <1>4, <1>6, <1>8 DEF Swapped
    <3> QED
      BY <1>4, <1>10, <1>15, <2>1, <3>1
  <2>2. CASE p # old
    <3>1. p # u.parent[old]
      BY <1>6, <1>7, <1>15
    <3>2. tree'.kid[z][p] = u.kid[z][p]
      BY <1>6, <1>8, <2>2, <3>1 DEF Swapped
    <3> QED
      BY <1>6, <1>10, <1>15, <2>2, <3>2
  <2> QED
    BY <2>1, <2>2
<1>17. tree'.root # NULL => tree'.color[tree'.root] = "black"
  <2>1. u.color[old] = tree.color[old] /\ (\A x \in Node : x # n => u.color[x] = tree.color[x])
    BY <1>4, <1>8 DEF Spliced
  <2>2. CASE old = tree.root
    <3>1. tree'.root = n /\ tree'.color[n] = u.color[old]
      BY <1>4, <1>7, <1>8, <1>15, <2>2 DEF Swapped
    <3> QED
      BY <1>2, <1>4, <2>1, <2>2, <3>1
  <2>3. CASE old # tree.root
    <3>1. tree'.root = tree.root /\ tree'.color[tree.root] = u.color[tree.root]
      BY <1>4, <1>6, <1>7, <1>8, <1>15, <2>3 DEF Swapped
    <3> QED
      BY <1>2, <1>6, <1>7, <2>1, <3>1
  <2> QED
    BY <2>2, <2>3
<1>18. k \in Ext /\ k # NULL /\ tree.color[n] \in {"red", "black"} /\ z \in Sides
  BY <1>2, <1>4, <1>6 DEF Ext, Trees
<1>19. old \notin E[tree'.root]
  BY <1>10
<1> HIDE DEF E, G, k
<1> QED
  BY <1>1, <1>4, <1>10, <1>13, <1>14, <1>16, <1>17, <1>18, <1>19, RecolorKeeps

-----------------------------------------------------------------------------
(* Rebalancing *)

LEMMA PaintEffect ==
  ASSUME NEW t \in Trees, NEW n \in Node, NEW color \in {"red", "black"}
  PROVE  LET u == Paint(t, n, color)
         IN  Recolored(t, u) /\ u.color[n] = color /\ \A x \in Node : x # n => u.color[x] = t.color[x]
<1>1. n # NULL
  BY KeyAssumption
<1> QED
  BY <1>1 DEF Paint, Recolored, Trees

LEMMA BlackRedEffect ==
  ASSUME NEW t \in Trees, NEW b \in Node, NEW r \in Node, b # r
  PROVE  LET u == BlackRed(t, b, r)
         IN  /\ Recolored(t, u) /\ u.color[b] = "black" /\ u.color[r] = "red"
             /\ \A x \in Node : x # b /\ x # r => u.color[x] = t.color[x]
  BY DEF BlackRed, Recolored, Trees

LEMMA RecoloredShape == ASSUME NEW t, NEW D, Shape(t, D), NEW u, Recolored(t, u) PROVE Shape(u, D)
  BY RecolorShape DEF Recolored

\* A step of RB_INSERT_COLOR's loop
LEMMA InsertStep ==
  ASSUME RBInv, pc = "insert_color", NEW n, Goto("insert_color", n, NULL),
         NEW E, Shape(tree', E), E[tree'.root] = Contents, n \in Contents, tree'.color[n] = "red",
         NEW G, NEW z, Heights(tree', G, NULL, z), Reds(tree', {n}, {}),
         tree'.color[tree'.root] = "black" \/ n = tree'.root
  PROVE  RBInv' /\ Contents' = Contents
<1>1. TreeOK' /\ Contents' = Contents
  BY NewTree
<1>2. pc' = "insert_color" /\ cur' = n /\ par' = NULL /\ UNCHANGED call
  BY DEF Goto
<1>3. HeightsOK' /\ RedsOK'
  BY <1>2, HeightsAny DEF HeightsOK, LackAt, RedsOK
<1>4. CallOK'
  BY <1>1, <1>2 DEF RBInv, CallOK
<1>5. RootOK'
  BY <1>2 DEF RootOK, Black
<1> QED
  BY <1>1, <1>2, <1>3, <1>4, <1>5 DEF RBInv, WalkOK, RemoveOK, ColorOK

\* Where RB_INSERT_COLOR is at work
LEMMA InsertTree ==
  ASSUME RBInv, pc = "insert_color"
  PROVE  /\ Shape(tree, Subtrees(tree)) /\ Contents = Subtrees(tree)[tree.root] /\ tree \in Trees
         /\ \E H : \A z : Heights(tree, H, NULL, z)
         /\ cur \in Contents /\ cur \in Node /\ tree.color[cur] = "red" /\ Reds(tree, {cur}, {})
         /\ NULL \notin Node /\ Contents \subseteq Node
         /\ tree.root \in Node /\ (tree.color[tree.root] = "black" \/ cur = tree.root)
         /\ RedParent =>
              LET p == tree.parent[cur]
                  g == tree.parent[p]
              IN  /\ p \in Contents /\ p \in Node /\ tree.color[p] = "red" /\ p # cur
                  /\ g \in Contents /\ g \in Node /\ tree.color[g] = "black" /\ g # p /\ g # cur
                  /\ SideOf(tree, g, p) \in Sides /\ tree.kid[SideOf(tree, g, p)][g] = p
                  /\ \E y \in Sides : tree.kid[y][p] = cur
<1> DEFINE D == Subtrees(tree)
           p == tree.parent[cur]
           g == tree.parent[p]
<1>1. Shape(tree, D) /\ Contents = D[tree.root] /\ tree \in Trees
  BY DEF RBInv, TreeOK, Contents, Under, Shape
<1>2. PICK H : Heights(tree, H, NULL, SideOf(tree, par, cur))
  BY DEF RBInv, HeightsOK, LackAt
<1>3. \A z : Heights(tree, H, NULL, z)
  BY <1>2, HeightsAny
<1>4. Reds(tree, {cur}, {}) /\ cur \in Contents /\ tree.color[cur] = "red"
  BY DEF RBInv, RedsOK, ColorOK
<1>5. Contents \subseteq Node /\ tree.root \in Node /\ cur \in Node /\ NULL \notin Node
  BY <1>1, <1>4, InsideFacts, KeyAssumption
<1>6. tree.color[tree.root] = "black" \/ cur = tree.root
  BY <1>1, <1>5 DEF RBInv, RootOK, Black, Trees
<1>7. ASSUME RedParent
      PROVE  /\ p \in Contents /\ p \in Node /\ tree.color[p] = "red" /\ p # cur
             /\ g \in Contents /\ g \in Node /\ tree.color[g] = "black" /\ g # p /\ g # cur
             /\ SideOf(tree, g, p) \in Sides /\ tree.kid[SideOf(tree, g, p)][g] = p
             /\ \E y \in Sides : tree.kid[y][p] = cur
  <2>1. p # NULL /\ p \in Node /\ p \in Contents /\ p # cur /\ cur # tree.root
    BY <1>1, <1>4, <1>5, <1>7, ParentFacts DEF RedParent
  <2>2. cur \in D[p] /\ p \notin D[cur] /\ \E y \in Sides : tree.kid[y][p] = cur
    BY <1>1, <1>5, <2>1, ParentFacts
  <2>3. tree.color[p] = "red"
    BY <1>1, <1>7, <2>1 DEF RedParent, Black, Trees
  <2>4. p # tree.root
    BY <1>6, <2>1, <2>3
  <2>5. g # NULL /\ g \in Node /\ g \in Contents /\ g # p
    BY <1>1, <2>1, <2>4, ParentFacts
  <2>6. SideOf(tree, g, p) \in Sides /\ tree.kid[SideOf(tree, g, p)][g] = p /\ D[p] \subseteq D[g]
        /\ g \notin D[p]
    BY <1>1, <2>1, <2>5, ParentFacts
  <2>7. tree.color[g] # "red"
    BY <1>4, <2>1, <2>3, <2>5 DEF Reds
  <2>8. tree.color[g] = "black"
    BY <1>1, <2>5, <2>7 DEF Trees
  <2> QED
    BY <2>1, <2>2, <2>3, <2>5, <2>6, <2>8
<1> QED
  BY <1>1, <1>3, <1>4, <1>5, <1>6, <1>7

\* A rotation after a change of colors keeps the shape and what is in the tree
LEMMA TurnShape ==
  ASSUME NEW t, NEW D, Shape(t, D), NEW s \in Sides, NEW n \in D[t.root], t.kid[Other(s)][n] # NULL,
         NEW u, Recolored(t, u)
  PROVE  LET up == t.kid[Other(s)][n]
             r  == Rotate(u, s, n)
         IN  /\ n \in Node /\ up \in Node /\ up # n /\ up \in D[t.root] /\ Rotated(u, s, n, up, r)
             /\ Around(t, s, n, up, r) /\ r.color = u.color /\ r \in Trees
             /\ \E E : Shape(r, E) /\ E[r.root] = D[t.root]
             /\ r.root = IF n = t.root THEN up ELSE t.root
<1> DEFINE up == t.kid[Other(s)][n]
           r  == Rotate(u, s, n)
<1>1. Shape(u, D) /\ u.kid = t.kid /\ u.root = t.root /\ u.parent = t.parent
  BY RecoloredShape DEF Recolored
<1>2. n \in Node /\ Other(s) \in Sides /\ up \in D[t.root]
  BY InsideFacts, BesideOrder
<1>3. up \in Node /\ up # n /\ Rotated(u, s, n, up, r)
  BY <1>1, <1>2, RotateApplies
<1>4. n \in D[u.root] /\ up = u.kid[Other(s)][n]
  BY <1>1
<1> HIDE DEF r, up
<1>5. Shape(r, Turned(u, D, s, n, up)) /\ Turned(u, D, s, n, up)[r.root] = D[u.root]
  BY <1>1, <1>3, <1>4, RotateShape
<1>6. Around(t, s, n, up, r) /\ r.color = u.color /\ r \in Trees
  BY <1>2, <1>3, RecoloredAround DEF up
<1>7. r.root = IF n = t.root THEN up ELSE t.root
  <2>1. t.parent[n] = NULL <=> n = t.root
    BY <1>2, ParentFacts
  <2> QED
    BY <1>1, <1>3, <2>1 DEF Rotated
<1> QED
  BY <1>1, <1>2, <1>3, <1>5, <1>6, <1>7 DEF up, r

\* RB_INSERT_COLOR with a red uncle
LEMMA RedUncle ==
  ASSUME NEW t, NEW D, Shape(t, D), NEW g \in Node, NEW s \in Sides, NEW p \in Node, NEW y \in Node,
         p = t.kid[s][g], y = t.kid[Other(s)][g],
         t.color[p] = "red", t.color[y] = "red", t.color[g] = "black",
         NEW H, Heights(t, H, NULL, s), NEW v \in Node, t.parent[v] = p, Reds(t, {v}, {})
  PROVE  LET u == BlackRed(Paint(t, y, "black"), p, g)
         IN  /\ Recolored(t, u) /\ u.color[g] = "red"
             /\ \A x \in Node : x # g /\ t.color[x] = "black" => u.color[x] = "black"
             /\ \E G : Heights(u, G, NULL, s)
             /\ Reds(u, {g}, {})
<1> DEFINE b == Paint(t, y, "black")
           u == BlackRed(b, p, g)
<1>1. t \in Trees /\ y # g /\ p # y /\ g # p
  <2>1. Other(s) \in Sides /\ NULL \notin Node
    BY BesideOrder, KeyAssumption
  <2> QED
    BY <2>1, KidFacts DEF Shape
<1>2. Recolored(t, b) /\ b.color[y] = "black" /\ \A x \in Node : x # y => b.color[x] = t.color[x]
  BY <1>1, PaintEffect
<1> HIDE DEF b
<1>3. b \in Trees
  BY <1>2 DEF Recolored
<1>4. /\ Recolored(b, u) /\ u.color[p] = "black" /\ u.color[g] = "red"
      /\ \A x \in Node : x # p /\ x # g => u.color[x] = b.color[x]
  BY <1>1, <1>3, BlackRedEffect
<1> HIDE DEF u
<1>5. /\ Recolored(t, u) /\ u.color[y] = "black"
      /\ \A x \in Node : x # p /\ x # y /\ x # g => u.color[x] = t.color[x]
  BY <1>1, <1>2, <1>4 DEF Recolored
<1>6. Heights(u, [H EXCEPT ![p] = H[p] + 1, ![y] = H[y] + 1], NULL, s) /\ Reds(u, {g}, {})
  BY <1>4, <1>5, RaiseRed
<1>7. \A x \in Node : x # g /\ t.color[x] = "black" => u.color[x] = "black"
  BY <1>4, <1>5
<1> QED
  BY <1>4, <1>5, <1>6, <1>7 DEF u, b

\* A red node p on side s below a black one: v alone may be a red kid of a red node
RedBelow(t, D, s, g, p, v, H) ==
  /\ Shape(t, D) /\ s \in Sides /\ g \in D[t.root] /\ p = t.kid[s][g] /\ p # NULL
  /\ t.color[p] = "red" /\ t.color[g] = "black" /\ t.color[t.root] = "black"
  /\ Heights(t, H, NULL, s) /\ Reds(t, {v}, {})

\* Every path has its black nodes, for the nodes C
Mended(t, C, s) ==
  /\ \E E : Shape(t, E) /\ E[t.root] = C
  /\ \E G : Heights(t, G, NULL, s)
  /\ Reds(t, {}, {}) /\ t.color[t.root] = "black"

\* The red kid v of the red node p is on the outside, or on the inside, and the
\* other kids at hand are black: the nodes are C
OuterRed(t, D, s, g, p, v, H, C) ==
  /\ RedBelow(t, D, s, g, p, v, H) /\ v = t.kid[s][p] /\ C = D[t.root]
  /\ Black(t, t.kid[Other(s)][g]) /\ Black(t, t.kid[Other(s)][p])

InnerRed(t, D, s, g, p, v, H, C) ==
  /\ RedBelow(t, D, s, g, p, v, H) /\ v = t.kid[Other(s)][p] /\ C = D[t.root]
  /\ v # NULL /\ t.color[v] = "red"
  /\ Black(t, t.kid[Other(s)][g]) /\ Black(t, t.kid[Other(s)][v])

\* The red nodes stay red, but for p
KeepsRed(t, r, p) == \A x \in Node : x # p /\ t.color[x] = "red" => r.color[x] = "red"

\* RB_INSERT_COLOR with a black uncle: the rotation at the grandparent, for a
\* red node and its red kid on the outside
LEMMA BlackUncle ==
  ASSUME NEW t, NEW D, NEW s, NEW g, NEW p, NEW v, NEW H, NEW C,
         OuterRed(t, D, s, g, p, v, H, C)
  PROVE  LET r == Rotate(BlackRed(t, p, g), Other(s), g) IN Mended(r, C, s) /\ KeepsRed(t, r, p)
<1> DEFINE o == Other(s)
           u == BlackRed(t, p, g)
           r == Rotate(u, o, g)
<1> /\ Shape(t, D) /\ s \in Sides /\ g \in D[t.root] /\ p = t.kid[s][g] /\ p # NULL
    /\ t.color[p] = "red" /\ t.color[g] = "black" /\ t.color[t.root] = "black"
    /\ Heights(t, H, NULL, s) /\ Reds(t, {v}, {}) /\ v = t.kid[s][p] /\ C = D[t.root]
    /\ Black(t, t.kid[Other(s)][g]) /\ Black(t, t.kid[Other(s)][p])
  BY DEF OuterRed, RedBelow
<1>1. o \in Sides /\ Other(o) = s /\ t \in Trees /\ NULL \notin Node /\ NULL \in Ext
  BY BesideOrder, KeyAssumption DEF Shape, Sides, Other, Ext
<1>2. g \in Node /\ p \in Node /\ p # g /\ p \in D[t.root] /\ t.root \in Node
  BY <1>1, InsideFacts, KidFacts
<1>3. /\ Recolored(t, u) /\ u.color[p] = "black" /\ u.color[g] = "red"
      /\ \A x \in Node : x # p /\ x # g => u.color[x] = t.color[x]
  BY <1>1, <1>2, BlackRedEffect
<1> HIDE DEF u
<1>4. /\ Rotated(u, o, g, p, r) /\ r.color = u.color
      /\ (\E E : Shape(r, E) /\ E[r.root] = D[t.root])
      /\ r.root = IF g = t.root THEN p ELSE t.root
  BY <1>1, <1>3, TurnShape
<1> HIDE DEF r, o
<1>5. Heights(t, H, NULL, o)
  BY HeightsAny
<1>5a. p = t.kid[Other(o)][g] /\ NULL # p /\ NULL # g
  BY <1>1, <1>2
<1>6. Heights(r, [H EXCEPT ![g] = H[p], ![p] = H[g]], NULL, o)
  BY <1>1, <1>2, <1>3, <1>4, <1>5, <1>5a, SwapColorsHeights
<1>7. Heights(r, [H EXCEPT ![g] = H[p], ![p] = H[g]], NULL, s)
  BY <1>6, HeightsAny
<1>8. Black(t, t.kid[o][g]) /\ Black(t, t.kid[o][p]) /\ Reds(t, {t.kid[Other(o)][p]}, {})
  BY <1>1 DEF o
<1>9. Reds(r, {}, {})
  BY <1>1, <1>2, <1>3, <1>4, <1>5a, <1>8, SwapColorsReds
<1>10. r.color[r.root] = "black"
  BY <1>2, <1>3, <1>4
<1>11. KeepsRed(t, r, p)
  BY <1>3, <1>4 DEF KeepsRed
<1> QED
  BY <1>4, <1>7, <1>9, <1>10, <1>11 DEF r, u, o, Mended

\* A red node on the inside of a red parent is first turned outside
LEMMA TurnOutside ==
  ASSUME NEW t, NEW D, NEW s, NEW g, NEW p, NEW v, NEW H, NEW C,
         InnerRed(t, D, s, g, p, v, H, C)
  PROVE  LET r == Rotate(t, s, p)
         IN  (\E E : OuterRed(r, E, s, g, v, p, H, C)) /\ KeepsRed(t, r, v)
<1> DEFINE o == Other(s)
           r == Rotate(t, s, p)
<1> /\ Shape(t, D) /\ s \in Sides /\ g \in D[t.root] /\ p = t.kid[s][g] /\ p # NULL
    /\ t.color[p] = "red" /\ t.color[g] = "black" /\ t.color[t.root] = "black"
    /\ Heights(t, H, NULL, s) /\ Reds(t, {v}, {}) /\ v = t.kid[o][p] /\ C = D[t.root]
    /\ v # NULL /\ t.color[v] = "red" /\ Black(t, t.kid[o][g]) /\ Black(t, t.kid[o][v])
  BY DEF InnerRed, RedBelow
<1>1. o \in Sides /\ o # s /\ Other(o) = s /\ t \in Trees /\ NULL \notin Node
  BY BesideOrder, KeyAssumption DEF Shape, Sides, Other
<1>2. /\ g \in Node /\ p \in Node /\ p # g /\ p \in D[t.root] /\ t.root \in Node /\ t.parent[p] = g
      /\ D[p] \subseteq D[g] /\ g \notin D[p] /\ t.kid[o][g] # p
  <2>1. g \in Node /\ t.root \in Node /\ D[g] \subseteq D[t.root]
    BY ONLY Shape(t, D), g \in D[t.root], InsideFacts
  <2>2. KidOf(t, D, s, g)
    BY <2>1, OneKid
  <2>3. /\ p \in Node /\ p # g /\ t.parent[p] = g /\ p \in D[p]
        /\ D[p] \subseteq D[g] /\ g \notin D[p] /\ p # t.kid[Other(s)][g]
    BY ONLY <2>2, p = t.kid[s][g], p # NULL DEF KidOf
  <2> QED
    BY ONLY <2>1, <2>3 DEF o
<1>3. v \in Node /\ v # p /\ v \in D[p] /\ t.parent[v] = p
  <2>1. v = t.kid[o][p] /\ v # NULL
    OBVIOUS
  <2>2. KidOf(t, D, o, p)
    BY <1>1, <1>2, OneKid
  <2> HIDE DEF o
  <2>3. v \in Node /\ v # p /\ D[v] \subseteq D[p] /\ v \in D[v] /\ t.parent[v] = p
    BY ONLY <2>1, <2>2 DEF KidOf
  <2> QED
    BY ONLY <2>3
<1>5. /\ Rotated(t, s, p, v, r) /\ Around(t, s, p, v, r) /\ r.color = t.color
      /\ (\E E : Shape(r, E) /\ E[r.root] = D[t.root])
      /\ r.root = IF p = t.root THEN v ELSE t.root
  <2>1. /\ Shape(t, D) /\ s \in Sides /\ p \in D[t.root] /\ t.kid[Other(s)][p] # NULL
        /\ Recolored(t, t) /\ v = t.kid[Other(s)][p]
    BY <1>1, <1>2 DEF Recolored
  <2> QED
    BY ONLY <2>1, TurnShape
<1> HIDE DEF r
<1>6. Heights(r, H, NULL, s) /\ Reds(r, {p}, {})
  <2>1. /\ Shape(t, D) /\ s \in Sides /\ p \in Node /\ v \in Node /\ v = t.kid[Other(s)][p]
        /\ t.color[p] = "red" /\ t.color[v] = "red" /\ Rotated(t, s, p, v, r)
        /\ t.parent[p] # NULL /\ t.color[t.parent[p]] = "black"
        /\ Heights(t, H, NULL, s) /\ Reds(t, {v}, {})
    BY <1>1, <1>2, <1>3, <1>5
  <2> QED
    BY ONLY <2>1, RedRotation
<1>7. p # t.root
  OBVIOUS
<1>8. r.kid[s][v] = p /\ r.kid[o][v] = t.kid[o][v]
  BY <1>5 DEF Around
<1>9. v # g
  BY <1>2, <1>3
<1>10. r.kid[s][g] = v /\ r.kid[o][g] = t.kid[o][g]
  BY <1>1, <1>2, <1>5, <1>9 DEF Around
<1>11. PICK E : Shape(r, E) /\ E[r.root] = D[t.root]
  BY <1>5
<1>12. RedBelow(r, E, s, g, v, p, H)
  BY <1>5, <1>6, <1>7, <1>10, <1>11 DEF RedBelow
<1>13. Black(r, r.kid[o][g]) /\ Black(r, r.kid[o][v])
  BY <1>5, <1>8, <1>10 DEF Black
<1>14. OuterRed(r, E, s, g, v, p, H, C)
  BY <1>8, <1>11, <1>12, <1>13 DEF OuterRed
<1>15. KeepsRed(t, r, v)
  BY <1>5 DEF KeepsRed
<1> QED
  BY <1>14, <1>15 DEF r

\* No red kid below a red node, but for the one at hand
LEMMA BlackKid ==
  ASSUME NEW t, NEW D, Shape(t, D), NEW n \in Node, NEW w \in Sides, t.color[n] = "red",
         NEW v, Reds(t, {v}, {}), t.kid[w][n] # v
  PROVE  Black(t, t.kid[w][n])
<1> DEFINE k == t.kid[w][n]
<1>1. k \in Ext /\ (k # NULL => k \in Node /\ t.parent[k] = n) /\ t \in Trees /\ n # NULL
  BY KidFacts, KeyAssumption DEF Shape
<1>2. k # NULL => t.color[k] # "red"
  BY <1>1 DEF Reds
<1> QED
  BY <1>1, <1>2, BlackOrRed

LEMMA InsertColorKeeps == ASSUME RBInv, InsertColor PROVE RBInv' /\ Contents' = Contents
<1> DEFINE D == Subtrees(tree)
<1>1. pc = "insert_color" /\ RedParent
  BY DEF InsertColor
<1>2. PICK p, g, s, y :
        /\ p = tree.parent[cur] /\ g = tree.parent[p] /\ s = SideOf(tree, g, p)
        /\ y = tree.kid[Other(s)][g]
  OBVIOUS
<1>3. IF ~Black(tree, y)
        THEN /\ tree' = BlackRed(Paint(tree, y, "black"), p, g)
             /\ Goto("insert_color", g, NULL)
        ELSE /\ tree' = TurnUp(tree, s, p, g)
             /\ Goto("insert_color", IF tree.kid[Other(s)][p] = cur THEN p ELSE cur, NULL)
  BY <1>2 DEF InsertColor
<1>4. /\ Shape(tree, D) /\ Contents = D[tree.root] /\ tree \in Trees
      /\ cur \in Contents /\ cur \in Node /\ tree.color[cur] = "red" /\ Reds(tree, {cur}, {})
      /\ NULL \notin Node /\ Contents \subseteq Node
      /\ tree.root \in Node /\ (tree.color[tree.root] = "black" \/ cur = tree.root)
  BY <1>1, InsertTree
<1>5. PICK H : \A z : Heights(tree, H, NULL, z)
  BY <1>1, InsertTree
<1>6. /\ p \in Contents /\ p \in Node /\ tree.color[p] = "red" /\ p # cur
      /\ g \in Contents /\ g \in Node /\ tree.color[g] = "black" /\ g # p /\ g # cur
      /\ s \in Sides /\ tree.kid[s][g] = p /\ \E x \in Sides : tree.kid[x][p] = cur
  BY <1>1, <1>2, InsertTree
<1>7. Other(s) \in Sides /\ Other(s) # s /\ (\A x \in Sides : x = s \/ x = Other(s))
  BY <1>6, BesideOrder
<1>8. y \in Ext /\ (y # NULL => y \in Node)
  BY <1>2, <1>4, <1>6, <1>7 DEF Trees, Ext
<1> HIDE DEF D
<1>9. tree.color[tree.root] = "black"
  <2>1. cur # tree.root
    BY <1>1, <1>4, ParentFacts DEF RedParent
  <2> QED
    BY <1>4, <2>1
<1>10. CASE ~Black(tree, y)
  <2>1. y \in Node /\ tree.color[y] = "red"
    BY <1>4, <1>8, <1>10, BlackOrRed
  <2>a. /\ p = tree.kid[s][g] /\ y = tree.kid[Other(s)][g] /\ tree.parent[cur] = p
        /\ Heights(tree, H, NULL, s)
        /\ Shape(tree, D) /\ g \in Node /\ s \in Sides /\ p \in Node /\ y \in Node /\ cur \in Node
        /\ tree.color[p] = "red" /\ tree.color[g] = "black" /\ tree.color[y] = "red"
        /\ Reds(tree, {cur}, {})
    BY <1>2, <1>3, <1>4, <1>5, <1>6, <1>10, <2>1
  <2>b. tree' = BlackRed(Paint(tree, y, "black"), p, g)
    BY <1>3, <1>10
  <2>2. /\ Recolored(tree, tree') /\ tree'.color[g] = "red"
        /\ (\A x \in Node : x # g /\ tree.color[x] = "black" => tree'.color[x] = "black")
        /\ (\E G : Heights(tree', G, NULL, s))
        /\ Reds(tree', {g}, {})
    BY ONLY <2>a, <2>b, RedUncle
  <2>3. Shape(tree', D) /\ tree'.root = tree.root
    BY <1>4, <2>2, RecoloredShape DEF Recolored
  <2>4. tree'.color[tree'.root] = "black" \/ g = tree'.root
    BY <1>4, <1>9, <2>2, <2>3
  <2>5. PICK G : Heights(tree', G, NULL, s)
    BY <2>2
  <2> QED
    BY <1>1, <1>3, <1>4, <1>6, <1>10, <2>2, <2>3, <2>4, <2>5, InsertStep
<1>11. CASE Black(tree, y) /\ tree.kid[Other(s)][p] # cur
  <2>1. tree.kid[s][p] = cur
    BY <1>6, <1>7, <1>11
  <2>2. Black(tree, tree.kid[Other(s)][p])
    BY <1>4, <1>6, <1>7, <1>11, BlackKid
  <2>3. tree' = Rotate(BlackRed(tree, p, g), Other(s), g) /\ Goto("insert_color", cur, NULL)
    BY <1>3, <1>11 DEF TurnUp
  <2>4. /\ p # NULL /\ p = tree.kid[s][g] /\ g \in D[tree.root] /\ Black(tree, tree.kid[Other(s)][g])
        /\ Heights(tree, H, NULL, s)
    BY <1>2, <1>4, <1>5, <1>6, <1>11
  <2>a. RedBelow(tree, D, s, g, p, cur, H)
    BY <1>4, <1>6, <1>9, <2>4 DEF RedBelow
  <2>b. OuterRed(tree, D, s, g, p, cur, H, Contents)
    BY <1>4, <2>a, <2>1, <2>2, <2>4 DEF OuterRed
  <2>c. Mended(tree', Contents, s) /\ KeepsRed(tree, tree', p)
    BY ONLY <2>b, <2>3, BlackUncle
  <2>5. /\ (\E E : Shape(tree', E) /\ E[tree'.root] = Contents)
        /\ (\E G : Heights(tree', G, NULL, s))
        /\ Reds(tree', {}, {}) /\ tree'.color[tree'.root] = "black"
    BY ONLY <2>c DEF Mended
  <2>d. tree'.color[cur] = "red"
    BY <1>4, <1>6, <2>c DEF KeepsRed
  <2>6. Reds(tree', {cur}, {}) /\ tree'.color[cur] = "red"
    BY <2>5, <2>d DEF Reds
  <2>7. PICK E : Shape(tree', E) /\ E[tree'.root] = Contents
    BY <2>5
  <2>8. PICK G : Heights(tree', G, NULL, s)
    BY <2>5
  <2> QED
    BY <1>1, <1>4, <2>3, <2>5, <2>6, <2>7, <2>8, InsertStep
<1>12. CASE Black(tree, y) /\ tree.kid[Other(s)][p] = cur
  <2> DEFINE t == Rotate(tree, s, p)
  <2>1. tree' = Rotate(BlackRed(t, cur, g), Other(s), g) /\ Goto("insert_color", p, NULL)
    BY <1>3, <1>12 DEF TurnUp
  <2>2. /\ p # NULL /\ cur # NULL /\ p = tree.kid[s][g] /\ g \in D[tree.root]
        /\ cur = tree.kid[Other(s)][p] /\ y = tree.kid[Other(s)][g] /\ Heights(tree, H, NULL, s)
    BY <1>2, <1>4, <1>5, <1>6, <1>12
  <2>3. RedBelow(tree, D, s, g, p, cur, H)
    BY <1>4, <1>6, <1>9, <2>2 DEF RedBelow
  <2>4. Black(tree, tree.kid[Other(s)][cur])
    <3>1. KidOf(tree, D, Other(s), cur)
      BY <1>4, <1>7, OneKid
    <3>2. tree.kid[Other(s)][cur] # cur
      BY <1>4, <3>1 DEF KidOf
    <3> QED
      BY <1>4, <1>7, <3>2, BlackKid
  <2>5. InnerRed(tree, D, s, g, p, cur, H, Contents)
    BY <1>4, <1>12, <2>2, <2>3, <2>4 DEF InnerRed
  <2>6. (\E E : OuterRed(t, E, s, g, cur, p, H, Contents)) /\ KeepsRed(tree, t, cur)
    BY ONLY <2>5, TurnOutside
  <2> HIDE DEF t
  <2>7. Mended(tree', Contents, s) /\ KeepsRed(t, tree', cur)
    BY ONLY <2>1, <2>6, BlackUncle
  <2>8. /\ (\E F : Shape(tree', F) /\ F[tree'.root] = Contents)
        /\ (\E G : Heights(tree', G, NULL, s))
        /\ Reds(tree', {}, {}) /\ tree'.color[tree'.root] = "black"
    BY ONLY <2>7 DEF Mended
  <2>a. tree'.color[p] = "red"
    BY <1>6, <2>6, <2>7 DEF KeepsRed
  <2>9. Reds(tree', {p}, {}) /\ tree'.color[p] = "red"
    BY <2>8, <2>a DEF Reds
  <2>10. PICK F : Shape(tree', F) /\ F[tree'.root] = Contents
    BY <2>8
  <2>11. PICK G : Heights(tree', G, NULL, s)
    BY <2>8
  <2> QED
    BY <1>1, <1>6, <2>1, <2>8, <2>9, <2>10, <2>11, InsertStep
<1> QED
  BY <1>10, <1>11, <1>12

\* The loops end and the call returns
LEMMA ColorEnds ==
  ASSUME RBInv, NEW v, Return(v), NEW E, Shape(tree', E), NEW G, NEW z, Heights(tree', G, NULL, z),
         Reds(tree', {}, {}), tree'.root # NULL => tree'.color[tree'.root] = "black"
  PROVE  RBInv' /\ Contents' = E[tree'.root]
<1>1. TreeOK' /\ Contents' = E[tree'.root]
  BY NewTree
<1>2. pc' = "idle" /\ call' = NoCall
  BY DEF Return
<1>3. HeightsOK' /\ RedsOK' /\ RootOK'
  BY <1>2, HeightsAny DEF HeightsOK, LackAt, RedsOK, RootOK, Black
<1> QED
  BY <1>1, <1>2, <1>3 DEF RBInv, CallOK, WalkOK, RemoveOK, ColorOK

\* No node points down at the root
LEMMA NothingAboveRoot ==
  ASSUME NEW t, NEW D, Shape(t, D), t.root # NULL, NEW x \in Node, NEW w \in Sides
  PROVE  t.kid[w][x] # t.root
<1>1. t.parent[t.root] = NULL
  BY DEF Shape, Linked
<1> QED
  BY <1>1, KidFacts, KeyAssumption

LEMMA InsertColorEndsKeeps == ASSUME RBInv, InsertColorEnds PROVE RBInv' /\ Contents' = Contents
<1> DEFINE D == Subtrees(tree)
           c == tree.root
<1>1. pc = "insert_color" /\ ~RedParent /\ tree' = Paint(tree, tree.root, "black") /\ Return(NULL)
  BY DEF InsertColorEnds
<1>2. /\ Shape(tree, D) /\ tree \in Trees
      /\ cur \in Contents /\ cur \in Node /\ tree.color[cur] = "red" /\ Reds(tree, {cur}, {})
      /\ NULL \notin Node /\ tree.root \in Node /\ Contents = D[tree.root]
  BY <1>1, InsertTree
<1>3. PICK H : \A z : Heights(tree, H, NULL, z)
  BY <1>1, InsertTree
<1>4. /\ Recolored(tree, tree') /\ tree'.color[c] = "black"
      /\ \A x \in Node : x # c => tree'.color[x] = tree.color[x]
  BY <1>1, <1>2, PaintEffect
<1>c. c \in Node
  BY <1>2
<1>5. Shape(tree', D) /\ tree'.root = tree.root
  BY <1>2, <1>4, RecoloredShape DEF Recolored
<1>6. Reds(tree, {c}, {c})
  <2>1. ~(tree.parent[cur] # NULL /\ tree.color[tree.parent[cur]] = "red")
    BY <1>1 DEF RedParent, Black
  <2> QED
    BY <1>2, <2>1 DEF Reds
<1>7. Reds(tree', {}, {})
  BY <1>2, <1>4, <1>6, PaintReds
<1>8. \E G : Heights(tree', G, NULL, "left")
  <2>1. CASE tree.color[c] = "red"
    <3>1. \A x \in Node, w \in Sides : tree.kid[w][x] = c <=> x = NULL /\ w = "left"
      BY <1>2, NothingAboveRoot
    <3>2. Heights(tree, H, NULL, "left")
      BY <1>3
    <3> HIDE DEF c, D
    <3>3. Heights(tree', [H EXCEPT ![c] = H[c] + 1], NULL, "left")
      BY <1>2, <1>4, <1>c, <2>1, <3>1, <3>2, PaintDone
    <3> QED
      BY <3>3
  <2>2. CASE tree.color[c] # "red"
    <3>1. \A x \in Node : tree'.color[x] = tree.color[x]
      BY <1>2, <1>4, <2>2 DEF Trees
    <3>2. tree'.kid = tree.kid
      BY <1>4 DEF Recolored
    <3>3. Heights(tree', H, NULL, "left")
      BY <1>3, <3>1, <3>2 DEF Heights, Bit
    <3> QED
      BY <3>3
  <2> QED
    BY <2>1, <2>2
<1>9. PICK G : Heights(tree', G, NULL, "left")
  BY <1>8
<1> QED
  BY <1>1, <1>2, <1>4, <1>5, <1>7, <1>9, ColorEnds

\* A black node is lacking below p on side s
Lacks(t, D, s, p, H) ==
  /\ Shape(t, D) /\ s \in Sides /\ p \in D[t.root] /\ Heights(t, H, p, s)
  /\ Reds(t, {}, {}) /\ t.color[t.root] = "black"

\* RB_REMOVE_COLOR with a red sibling
LEMMA RedSibling ==
  ASSUME NEW t, NEW D, NEW s, NEW p, NEW H, Lacks(t, D, s, p, H), Black(t, t.kid[s][p])
  PROVE  LET r == TurnRedSibling(t, s, p)
         IN  /\ \E E : Shape(r, E) /\ E[r.root] = D[t.root]
             /\ \E G : Heights(r, G, p, s)
             /\ Reds(r, {}, {}) /\ r.color[r.root] = "black"
             /\ r.kid[Other(s)][p] \in Node /\ r.color[r.kid[Other(s)][p]] = "black"
<1> DEFINE o == Other(s)
           sib == t.kid[o][p]
<1> /\ Shape(t, D) /\ s \in Sides /\ p \in D[t.root] /\ Heights(t, H, p, s)
    /\ Reds(t, {}, {}) /\ t.color[t.root] = "black"
  BY DEF Lacks
<1>1. o \in Sides /\ o # s /\ t \in Trees /\ NULL \notin Node
  BY KeyAssumption DEF Shape, Sides, Other
<1>2. p \in Node /\ p \in Ext /\ t.root \in Node
  BY InsideFacts DEF Ext
<1>3. sib # NULL
  BY <1>2, SideOwed
<1>4. sib \in Node /\ sib # p /\ t.parent[sib] = p /\ sib # t.root /\ sib \in Ext
  BY <1>1, <1>2, <1>3, KidFacts, NothingAboveRoot
<1>5. CASE Black(t, sib)
  <2>1. TurnRedSibling(t, s, p) = t
    BY <1>5 DEF TurnRedSibling
  <2>2. t.color[sib] = "black"
    BY <1>3, <1>5 DEF Black
  <2> QED
    BY <1>4, <2>1, <2>2
<1>6. CASE ~Black(t, sib)
  <2> DEFINE u == BlackRed(t, sib, p)
             r == Rotate(u, s, p)
  <2>1. TurnRedSibling(t, s, p) = r
    BY <1>6 DEF TurnRedSibling
  <2>2. t.color[sib] = "red"
    BY <1>1, <1>4, <1>6, BlackOrRed
  <2>3. t.color[p] = "black"
    <3>1. t.color[p] # "red"
      BY <1>1, <1>2, <1>4, <2>2 DEF Reds
    <3> QED
      BY <1>1, <1>2, <3>1 DEF Trees
  <2>4. /\ Recolored(t, u) /\ u.color[sib] = "black" /\ u.color[p] = "red"
        /\ \A x \in Node : x # p /\ x # sib => u.color[x] = t.color[x]
    BY <1>1, <1>2, <1>4, BlackRedEffect
  <2> HIDE DEF u
  <2>5. t.kid[Other(s)][p] # NULL /\ sib = t.kid[Other(s)][p]
    BY <1>3
  <2> HIDE DEF sib
  <2>6. /\ Rotated(u, s, p, sib, r) /\ r.color = u.color /\ Around(t, s, p, sib, r)
        /\ (\E E : Shape(r, E) /\ E[r.root] = D[t.root])
        /\ r.root = IF p = t.root THEN sib ELSE t.root
    BY <2>4, <2>5, TurnShape
  <2> HIDE DEF r, o
  <2>7. Heights(r, [H EXCEPT ![p] = H[sib], ![sib] = H[p]], p, s)
    BY <1>2, <1>4, <2>2, <2>3, <2>4, <2>5, <2>6, SwapColorsHeights
  <2>8. Reds(t, {sib}, {}) /\ Reds(t, {t.kid[Other(s)][sib]}, {}) /\ t.kid[s][sib] # sib
    BY <1>4, KidFacts DEF Reds
  <2>9. Black(t, t.kid[s][sib])
    BY <1>4, <2>2, <2>8, BlackKid
  <2>10. Reds(r, {}, {})
    BY <1>2, <1>4, <2>4, <2>5, <2>6, <2>8, <2>9, SwapColorsReds
  <2>11. r.color[r.root] = "black"
    BY <1>2, <1>4, <2>4, <2>6
  <2>12. PICK E : Shape(r, E) /\ E[r.root] = D[t.root]
    BY <2>6
  <2>13. r.kid[Other(s)][p] # NULL
    BY <1>2, <2>7, <2>12, SideOwed
  <2>14. r.kid[Other(s)][p] = t.kid[s][sib] /\ t.kid[s][sib] # p /\ t.kid[s][sib] # sib
    BY <2>6 DEF Around
  <2>15. t.kid[s][sib] \in Node
    BY <1>4, <2>13, <2>14, KidFacts
  <2>16. r.color[t.kid[s][sib]] = "black"
    BY <1>1, <2>4, <2>6, <2>9, <2>14, <2>15 DEF Black
  <2> QED
    BY <2>1, <2>7, <2>10, <2>11, <2>12, <2>14, <2>15, <2>16
<1> QED
  BY <1>5, <1>6

\* A black sibling of the side s below p has a red far kid
FarIsRed(t, C, s, p) ==
  LET top == t.kid[Other(s)][p]
      c   == t.kid[Other(s)][top]
  IN  /\ \E E : Shape(t, E) /\ E[t.root] = C
      /\ \E H : Heights(t, H, p, s)
      /\ Reds(t, {}, {}) /\ t.color[t.root] = "black"
      /\ top \in Node /\ t.color[top] = "black" /\ c \in Node /\ t.color[c] = "red"

\* A black sibling whose far kid is black and whose near one is red
LEMMA RedNear ==
  ASSUME NEW t, NEW D, NEW s, NEW p, NEW H, Lacks(t, D, s, p, H),
         NEW sib \in Node, sib = t.kid[Other(s)][p], t.color[sib] = "black",
         Black(t, t.kid[Other(s)][sib]), ~Black(t, t.kid[s][sib]),
         NEW r, r = Rotate(Paint(Paint(t, t.kid[s][sib], "black"), sib, "red"), Other(s), sib)
  PROVE  FarIsRed(r, D[t.root], s, p)
<1> DEFINE o == Other(s)
           near == t.kid[s][sib]
           b == Paint(t, near, "black")
           u == Paint(b, sib, "red")
<1> /\ Shape(t, D) /\ s \in Sides /\ p \in D[t.root] /\ Heights(t, H, p, s)
    /\ Reds(t, {}, {}) /\ t.color[t.root] = "black"
  BY DEF Lacks
<1>r. r = Rotate(u, o, sib)
  OBVIOUS
<1>1. o \in Sides /\ o # s /\ Other(o) = s /\ t \in Trees /\ NULL \notin Node
  BY BesideOrder, KeyAssumption DEF Shape, Sides, Other
<1>2. p \in Node /\ p \in Ext /\ t.root \in Node /\ sib \in D[t.root]
  BY <1>1, InsideFacts DEF Ext
<1>3. /\ near \in Node /\ near # sib /\ near # NULL /\ t.parent[near] = sib /\ near # t.root
      /\ t.color[near] = "red" /\ near \in D[sib]
  <2>1. near \in Ext
    BY <1>1 DEF Trees
  <2>2. near # NULL /\ t.color[near] = "red"
    BY <1>1, <2>1, BlackOrRed
  <2>k. KidOf(t, D, s, sib)
    BY OneKid
  <2>3. /\ near \in Node /\ near # sib /\ t.parent[near] = sib
        /\ near \in D[near] /\ D[near] \subseteq D[sib]
    BY ONLY <2>k, <2>2 DEF KidOf
  <2>4. near # t.root
    BY <1>2, <2>2, NothingAboveRoot
  <2> QED
    BY ONLY <2>2, <2>3, <2>4
<1>4. sib # p /\ p \notin D[sib] /\ sib # t.root
  BY <1>1, <1>2, KidFacts, NothingAboveRoot
<1>5. Recolored(t, b) /\ b.color[near] = "black" /\ \A x \in Node : x # near => b.color[x] = t.color[x]
  BY <1>1, <1>3, PaintEffect
<1> HIDE DEF b
<1>6. Recolored(b, u) /\ u.color[sib] = "red" /\ \A x \in Node : x # sib => u.color[x] = b.color[x]
  <2>1. b \in Trees
    BY <1>5 DEF Recolored
  <2> QED
    BY <2>1, PaintEffect
<1> HIDE DEF u
<1>7. /\ Recolored(t, u) /\ u.color[near] = "black" /\ u.color[sib] = "red"
      /\ \A x \in Node : x # sib /\ x # near => u.color[x] = t.color[x]
  BY <1>3, <1>5, <1>6 DEF Recolored
<1>8. near = t.kid[Other(o)][sib]
  BY <1>1
<1> HIDE DEF near
<1>9. /\ Rotated(u, o, sib, near, r) /\ r.color = u.color /\ Around(t, o, sib, near, r)
      /\ (\E E : Shape(r, E) /\ E[r.root] = D[t.root])
      /\ r.root = IF sib = t.root THEN near ELSE t.root
  <2> DEFINE rr == Rotate(u, o, sib)
  <2>0. /\ Shape(t, D) /\ o \in Sides /\ sib \in D[t.root] /\ t.kid[Other(o)][sib] # NULL
        /\ Recolored(t, u) /\ near = t.kid[Other(o)][sib]
    BY <1>1, <1>2, <1>3, <1>7, <1>8
  <2> HIDE DEF o
  <2>1. /\ Rotated(u, o, sib, near, rr) /\ rr.color = u.color /\ Around(t, o, sib, near, rr)
        /\ (\E E : Shape(rr, E) /\ E[rr.root] = D[t.root])
        /\ rr.root = IF sib = t.root THEN near ELSE t.root
    BY ONLY <2>0, TurnShape
  <2> QED
    BY <1>r, <2>1 DEF o
<1>10. p # near /\ Black(t, t.kid[o][sib]) /\ t.kid[o][near] # near
  <2>1. p # near /\ Black(t, t.kid[o][sib])
    BY <1>3, <1>4
  <2>2. KidOf(t, D, o, near)
    BY <1>1, <1>3, OneKid
  <2> QED
    BY <2>1, <2>2 DEF KidOf
<1>11. Heights(r, [H EXCEPT ![sib] = H[near], ![near] = H[sib]], p, s)
  <2> HIDE DEF o
  <2> QED
    BY <1>1, <1>2, <1>3, <1>4, <1>7, <1>8, <1>9, <1>10, SwapColorsHeights
<1>12. Reds(t, {near}, {}) /\ Reds(t, {t.kid[Other(o)][near]}, {})
  BY DEF Reds
<1>13. Black(t, t.kid[o][near])
  <2> HIDE DEF o
  <2> QED
    BY <1>1, <1>3, <1>10, <1>12, BlackKid
<1>14. Reds(r, {}, {})
  <2> HIDE DEF o
  <2> QED
    BY <1>1, <1>3, <1>7, <1>8, <1>9, <1>10, <1>12, <1>13, SwapColorsReds
<1>15. r.color[r.root] = "black"
  BY <1>2, <1>3, <1>4, <1>7, <1>9
<1>16. r.kid[o][p] = near /\ r.kid[o][near] = sib
  BY <1>1, <1>2, <1>4, <1>9, <1>10 DEF Around
<1>17. r.color[near] = "black" /\ r.color[sib] = "red"
  BY <1>7, <1>9
<1> HIDE DEF o
<1>18. /\ r.kid[o][p] \in Node /\ r.color[r.kid[o][p]] = "black"
       /\ r.kid[o][r.kid[o][p]] \in Node /\ r.color[r.kid[o][r.kid[o][p]]] = "red"
  BY <1>3, <1>16, <1>17
<1> QED
  BY <1>9, <1>11, <1>14, <1>15, <1>18 DEF o, FarIsRed

\* A black sibling with a red far kid makes up for the black node
LEMMA RedFar ==
  ASSUME NEW t, NEW D, NEW s, NEW p, NEW H, Lacks(t, D, s, p, H),
         NEW top \in Node, top = t.kid[Other(s)][p], t.color[top] = "black",
         NEW c \in Node, c = t.kid[Other(s)][top], t.color[c] = "red"
  PROVE  Mended(Rotate(Paint(Paint(Paint(t, top, t.color[p]), p, "black"), c, "black"), s, p),
                D[t.root], s)
<1> DEFINE a == Paint(t, top, t.color[p])
           b == Paint(a, p, "black")
           u == Paint(b, c, "black")
           r == Rotate(u, s, p)
<1> /\ Shape(t, D) /\ s \in Sides /\ p \in D[t.root] /\ Heights(t, H, p, s)
    /\ Reds(t, {}, {}) /\ t.color[t.root] = "black"
  BY DEF Lacks
<1>1. Other(s) \in Sides /\ t \in Trees /\ NULL \notin Node
  BY BesideOrder, KeyAssumption DEF Shape
<1>2. p \in Node /\ p \in Ext /\ t.root \in Node /\ t.color[p] \in {"red", "black"}
  BY <1>1, InsideFacts DEF Ext, Trees
<1>3. top # p /\ top # t.root /\ c # top /\ c # t.root /\ c # p
  <2>1. top # p /\ top # t.root /\ c # top /\ c # t.root /\ p \notin D[top] /\ c \in D[c] /\ D[c] \subseteq D[top]
    BY <1>1, <1>2, KidFacts, NothingAboveRoot
  <2> QED
    BY <2>1
<1>4. Recolored(t, a) /\ a.color[top] = t.color[p] /\ \A x \in Node : x # top => a.color[x] = t.color[x]
  BY <1>1, <1>2, PaintEffect
<1> HIDE DEF a
<1>5. Recolored(a, b) /\ b.color[p] = "black" /\ \A x \in Node : x # p => b.color[x] = a.color[x]
  <2>1. a \in Trees
    BY <1>4 DEF Recolored
  <2> QED
    BY <1>2, <2>1, PaintEffect
<1> HIDE DEF b
<1>6. Recolored(b, u) /\ u.color[c] = "black" /\ \A x \in Node : x # c => u.color[x] = b.color[x]
  <2>1. b \in Trees
    BY <1>5 DEF Recolored
  <2> QED
    BY <2>1, PaintEffect
<1> HIDE DEF u
<1>7. /\ Recolored(t, u) /\ u.color[top] = t.color[p] /\ u.color[p] = "black" /\ u.color[c] = "black"
      /\ \A x \in Node : x # p /\ x # top /\ x # c => u.color[x] = t.color[x]
  BY <1>2, <1>3, <1>4, <1>5, <1>6 DEF Recolored
<1>8. t.kid[Other(s)][p] # NULL
  BY <1>1
<1>9. /\ Rotated(u, s, p, top, r) /\ r.color = u.color
      /\ (\E E : Shape(r, E) /\ E[r.root] = D[t.root])
      /\ r.root = IF p = t.root THEN top ELSE t.root
  BY <1>7, <1>8, TurnShape
<1> HIDE DEF r
<1>10. Heights(r, [H EXCEPT ![p] = H[top], ![top] = H[p], ![c] = H[c] + 1], NULL, s)
  BY <1>2, <1>7, <1>9, FillHeights
<1>11. Reds(r, {}, {})
  BY <1>2, <1>7, <1>9, FillReds
<1>12. r.color[r.root] = "black"
  BY <1>2, <1>3, <1>7, <1>9
<1> QED
  BY <1>9, <1>10, <1>11, <1>12 DEF r, u, b, a, Mended

\* A step of RB_REMOVE_COLOR's loop
LEMMA RemoveStep ==
  ASSUME RBInv, pc = "remove_color", NEW n, NEW p, Goto("remove_color", n, p),
         NEW E, Shape(tree', E), E[tree'.root] = Contents,
         p = NULL => n = tree'.root,
         p # NULL => p \in Contents /\ \E s \in Sides : tree'.kid[s][p] = n,
         NEW G, Heights(tree', G, p, SideOf(tree', p, n)), Reds(tree', {n}, {n}),
         tree'.color[tree'.root] = "black" \/ n = tree'.root
  PROVE  RBInv' /\ Contents' = Contents
<1>1. TreeOK' /\ Contents' = Contents
  BY NewTree
<1>2. pc' = "remove_color" /\ cur' = n /\ par' = p /\ UNCHANGED call
  BY DEF Goto
<1>3. HeightsOK' /\ RedsOK'
  BY <1>2 DEF HeightsOK, LackAt, RedsOK
<1>4. CallOK'
  BY <1>1, <1>2 DEF RBInv, CallOK
<1>5. RootOK'
  BY <1>2 DEF RootOK, Black
<1> QED
  BY <1>1, <1>2, <1>3, <1>4, <1>5 DEF RBInv, WalkOK, RemoveOK, ColorOK

\* Where RB_REMOVE_COLOR is at work
LEMMA RemoveTree ==
  ASSUME RBInv, pc = "remove_color"
  PROVE  LET z == SideOf(tree, par, cur)
         IN  /\ Shape(tree, Subtrees(tree)) /\ Contents = Subtrees(tree)[tree.root] /\ tree \in Trees
             /\ \E H : Heights(tree, H, par, z)
             /\ cur \in Ext /\ Reds(tree, {cur}, {cur})
             /\ NULL \notin Node /\ Contents \subseteq Node
             /\ par = NULL => cur = tree.root
             /\ par # NULL => par \in Contents /\ par \in Node /\ z \in Sides /\ tree.kid[z][par] = cur
             /\ tree.root # NULL /\ cur # tree.root => tree.color[tree.root] = "black"
             /\ Lacking => par # NULL /\ Reds(tree, {}, {}) /\ tree.color[tree.root] = "black"
<1> DEFINE D == Subtrees(tree)
           z == SideOf(tree, par, cur)
<1>1. Shape(tree, D) /\ Contents = D[tree.root] /\ tree \in Trees /\ tree.root \in Ext
  BY DEF RBInv, TreeOK, Contents, Under, Shape, Trees
<1>2. \E H : Heights(tree, H, par, z)
  BY DEF RBInv, HeightsOK, LackAt
<1>3. Reds(tree, {cur}, {cur}) /\ (par = NULL => cur = tree.root)
  BY DEF RBInv, RedsOK, ColorOK
<1>4. Contents \subseteq Node /\ NULL \notin Node
  BY <1>1, InsideFacts, KeyAssumption
<1>5. par # NULL => par \in Contents /\ par \in Node /\ z \in Sides /\ tree.kid[z][par] = cur
  <2> SUFFICES ASSUME par # NULL
               PROVE  par \in Contents /\ par \in Node /\ z \in Sides /\ tree.kid[z][par] = cur
    OBVIOUS
  <2>1. par \in Contents /\ \E s \in Sides : tree.kid[s][par] = cur
    BY DEF RBInv, ColorOK
  <2> QED
    BY <1>4, <2>1 DEF SideOf, Sides
<1>6. cur \in Ext
  BY <1>1, <1>3, <1>5, KidFacts
<1>7. tree.root # NULL /\ cur # tree.root => tree.color[tree.root] = "black"
  BY <1>1 DEF RBInv, RootOK, Black, Trees
<1>8. ASSUME Lacking PROVE par # NULL /\ Reds(tree, {}, {}) /\ tree.color[tree.root] = "black"
  <2>1. par # NULL /\ Black(tree, cur) /\ cur # tree.root
    BY <1>3, <1>8 DEF Lacking
  <2>2. tree.root # NULL
    BY <1>1, <1>5, <2>1, InsideFacts, KeyAssumption
  <2>3. Reds(tree, {}, {})
    BY <1>3, <1>4, <2>1 DEF Reds, Black
  <2> QED
    BY <1>7, <2>1, <2>2, <2>3
<1> QED
  BY <1>1, <1>2, <1>3, <1>4, <1>5, <1>6, <1>7, <1>8

\* The kids of the sibling are black: it turns red, and its parent lacks a node
LEMMA SinkKeeps ==
  ASSUME RBInv, pc = "remove_color", NEW t, NEW E, Shape(t, E), E[t.root] = Contents,
         NEW s \in Sides, NEW p \in Contents, NEW sib \in Node, sib = t.kid[Other(s)][p],
         t.color[sib] = "black", \A side \in Sides : Black(t, t.kid[side][sib]),
         NEW G, Heights(t, G, p, s), Reds(t, {}, {}), t.color[t.root] = "black",
         tree' = Paint(t, sib, "red"), Goto("remove_color", p, t.parent[p])
  PROVE  RBInv' /\ Contents' = Contents
<1> DEFINE q == t.parent[p]
<1>1. t \in Trees /\ NULL \notin Node /\ Other(s) \in Sides
  BY KeyAssumption DEF Shape, Sides, Other
<1>2. p \in Node /\ t.root \in Node
  BY InsideFacts
<1>3. sib # p /\ sib # t.root
  BY <1>1, <1>2, KidFacts, NothingAboveRoot
<1>4. Recolored(t, tree') /\ tree'.color[sib] = "red" /\ \A x \in Node : x # sib => tree'.color[x] = t.color[x]
  BY <1>1, PaintEffect
<1>5. Shape(tree', E) /\ tree'.root = t.root /\ tree'.kid = t.kid
  BY <1>4, RecoloredShape DEF Recolored
<1>6. /\ Heights(tree', [G EXCEPT ![p] = G[p] - 1, ![sib] = G[sib] - 1], q, SideOf(t, q, p))
      /\ Reds(tree', {p}, {p})
  BY <1>2, <1>4, SinkBlack
<1>7. SideOf(tree', q, p) = SideOf(t, q, p)
  BY <1>5 DEF SideOf
<1>8. /\ q = NULL => p = t.root
      /\ q # NULL => q \in Contents /\ \E w \in Sides : t.kid[w][q] = p
  BY <1>2, ParentFacts
<1>9. tree'.color[tree'.root] = "black"
  BY <1>2, <1>3, <1>4, <1>5
<1> HIDE DEF q
<1>10. Goto("remove_color", p, q)
  BY DEF q
<1> DEFINE F == [G EXCEPT ![p] = G[p] - 1, ![sib] = G[sib] - 1]
<1> HIDE DEF F
<1>11. Heights(tree', F, q, SideOf(tree', q, p))
  BY <1>6, <1>7 DEF F
<1> QED
  BY <1>5, <1>6, <1>8, <1>9, <1>10, <1>11, RemoveStep

\* The sibling has a red kid: it makes up for the black node
LEMMA FillKeeps ==
  ASSUME RBInv, pc = "remove_color", NEW t, NEW E, Shape(t, E), E[t.root] = Contents,
         NEW s \in Sides, NEW p \in Contents, NEW sib \in Node, sib = t.kid[Other(s)][p],
         t.color[sib] = "black", ~\A side \in Sides : Black(t, t.kid[side][sib]),
         NEW G, Heights(t, G, p, s), Reds(t, {}, {}), t.color[t.root] = "black",
         tree' = TurnUpSibling(t, s, p), Goto("remove_color", tree'.root, NULL)
  PROVE  RBInv' /\ Contents' = Contents
<1> DEFINE o == Other(s)
           far == IF Black(t, t.kid[o][sib])
                    THEN Rotate(Paint(Paint(t, t.kid[s][sib], "black"), sib, "red"), o, sib)
                    ELSE t
           top == far.kid[o][p]
           c == far.kid[o][top]
           moved == Paint(Paint(far, top, far.color[p]), p, "black")
<1>1. t \in Trees /\ NULL \notin Node /\ o \in Sides /\ (\A side \in Sides : side = s \/ side = o)
  BY KeyAssumption DEF Shape, Sides, Other
<1>2. tree' = Rotate(Paint(moved, moved.kid[o][top], "black"), s, p)
  BY DEF TurnUpSibling
<1>3. /\ \E F : Shape(far, F) /\ F[far.root] = E[t.root]
      /\ \E H : Heights(far, H, p, s)
      /\ Reds(far, {}, {}) /\ far.color[far.root] = "black"
      /\ top \in Node /\ far.color[top] = "black" /\ c \in Node /\ far.color[c] = "red"
  <2>1. CASE Black(t, t.kid[o][sib])
    <3>1. far = Rotate(Paint(Paint(t, t.kid[s][sib], "black"), sib, "red"), Other(s), sib)
      BY <2>1
    <3>2. /\ ~Black(t, t.kid[s][sib]) /\ Black(t, t.kid[Other(s)][sib]) /\ Lacks(t, E, s, p, G)
          /\ sib \in Node /\ sib = t.kid[Other(s)][p] /\ t.color[sib] = "black"
      BY <1>1, <2>1 DEF Lacks
    <3> HIDE DEF far
    <3>3. FarIsRed(far, E[t.root], s, p)
      BY ONLY <3>1, <3>2, RedNear
    <3> QED
      BY <3>3 DEF FarIsRed
  <2>2. CASE ~Black(t, t.kid[o][sib])
    <3>1. far = t /\ top = sib
      BY <2>2
    <3>2. t.kid[o][sib] \in Ext
      BY <1>1, KidFacts
    <3>3. t.kid[o][sib] \in Node /\ t.color[t.kid[o][sib]] = "red"
      BY <1>1, <2>2, <3>2, BlackOrRed DEF Ext
    <3> QED
      BY <3>1, <3>3
  <2> QED
    BY <2>1, <2>2
<1> HIDE DEF far
<1>4. PICK F : Shape(far, F) /\ F[far.root] = Contents
  BY <1>3
<1>5. PICK H : Heights(far, H, p, s)
  BY <1>3
<1>6. p \in Node /\ far \in Trees /\ far.color[p] \in {"red", "black"}
  BY <1>4, InsideFacts DEF Shape, Trees
<1>7. moved.kid = far.kid
  <2>1. Recolored(far, Paint(far, top, far.color[p]))
    BY <1>3, <1>6, PaintEffect
  <2>2. Recolored(Paint(far, top, far.color[p]), moved)
    BY <1>6, <2>1, PaintEffect DEF Recolored
  <2> QED
    BY <2>1, <2>2 DEF Recolored
<1>8. tree' = Rotate(Paint(moved, c, "black"), s, p)
  BY <1>2, <1>7
<1>9. /\ \E L : Shape(tree', L) /\ L[tree'.root] = F[far.root]
      /\ \E K : Heights(tree', K, NULL, s)
      /\ Reds(tree', {}, {}) /\ tree'.color[tree'.root] = "black"
  <2>1. /\ Lacks(far, F, s, p, H) /\ top = far.kid[Other(s)][p] /\ c = far.kid[Other(s)][top]
        /\ top \in Node /\ far.color[top] = "black" /\ c \in Node /\ far.color[c] = "red"
    BY <1>3, <1>4, <1>5 DEF Lacks
  <2>2. tree' = Rotate(Paint(Paint(Paint(far, top, far.color[p]), p, "black"), c, "black"), s, p)
    BY <1>8
  <2> HIDE DEF top, c, o
  <2>3. Mended(tree', F[far.root], s)
    BY ONLY <2>1, <2>2, RedFar
  <2> QED
    BY ONLY <2>3 DEF Mended
<1>10. PICK L : Shape(tree', L) /\ L[tree'.root] = Contents
  BY <1>4, <1>9
<1>11. PICK K : Heights(tree', K, NULL, s)
  BY <1>9
<1>12. Heights(tree', K, NULL, SideOf(tree', NULL, tree'.root))
  BY <1>11, HeightsAny
<1>13. Reds(tree', {tree'.root}, {tree'.root})
  BY <1>9 DEF Reds
<1> QED
  BY <1>10, <1>12, <1>13, RemoveStep

LEMMA RemoveColorKeeps == ASSUME RBInv, RemoveColor PROVE RBInv' /\ Contents' = Contents
<1> DEFINE D == Subtrees(tree)
<1>1. PICK s, t, sib :
        /\ s = SideOf(tree, par, cur) /\ t = TurnRedSibling(tree, s, par) /\ sib = t.kid[Other(s)][par]
  OBVIOUS
<1>2. /\ pc = "remove_color" /\ Lacking
      /\ IF \A side \in Sides : Black(t, t.kid[side][sib])
           THEN tree' = Paint(t, sib, "red") /\ Goto("remove_color", par, t.parent[par])
           ELSE tree' = TurnUpSibling(t, s, par) /\ Goto("remove_color", tree'.root, NULL)
  BY <1>1 DEF RemoveColor
<1>3. /\ Shape(tree, D) /\ Contents = D[tree.root] /\ tree \in Trees
      /\ par \in Contents /\ par \in Node /\ s \in Sides /\ tree.kid[s][par] = cur
      /\ Reds(tree, {}, {}) /\ tree.color[tree.root] = "black"
  BY <1>1, <1>2, RemoveTree
<1>4. PICK H : Heights(tree, H, par, s)
  BY <1>1, <1>2, RemoveTree
<1>5. par \in D[tree.root] /\ Black(tree, tree.kid[s][par])
  BY <1>2, <1>3 DEF Lacking
<1> HIDE DEF D
<1>l. Lacks(tree, D, s, par, H)
  BY <1>3, <1>4, <1>5 DEF Lacks
<1>6. /\ \E E : Shape(t, E) /\ E[t.root] = D[tree.root]
      /\ \E G : Heights(t, G, par, s)
      /\ Reds(t, {}, {}) /\ t.color[t.root] = "black"
      /\ t.kid[Other(s)][par] \in Node /\ t.color[t.kid[Other(s)][par]] = "black"
  BY ONLY <1>1, <1>5, <1>l, RedSibling
<1>7. PICK E : Shape(t, E) /\ E[t.root] = Contents
  BY <1>3, <1>6
<1>8. PICK G : Heights(t, G, par, s)
  BY <1>6
<1>9. sib \in Node /\ t.color[sib] = "black"
  BY <1>1, <1>6
<1>10. CASE \A side \in Sides : Black(t, t.kid[side][sib])
  <2>1. tree' = Paint(t, sib, "red") /\ Goto("remove_color", par, t.parent[par])
    BY <1>2, <1>10
  <2> QED
    BY <1>1, <1>2, <1>3, <1>6, <1>7, <1>8, <1>9, <1>10, <2>1, SinkKeeps
<1>11. CASE ~\A side \in Sides : Black(t, t.kid[side][sib])
  <2>1. tree' = TurnUpSibling(t, s, par) /\ Goto("remove_color", tree'.root, NULL)
    BY <1>2, <1>11
  <2> QED
    BY <1>1, <1>2, <1>3, <1>6, <1>7, <1>8, <1>9, <1>11, <2>1, FillKeeps
<1> QED
  BY <1>10, <1>11

LEMMA RemoveColorEndsKeeps == ASSUME RBInv, RemoveColorEnds PROVE RBInv' /\ Contents' = Contents
<1> DEFINE D == Subtrees(tree)
           z == SideOf(tree, par, cur)
<1>1. /\ pc = "remove_color" /\ ~Lacking /\ tree' = Paint(tree, cur, "black") /\ Return(call.arg)
  BY DEF RemoveColorEnds
<1>2. /\ Shape(tree, D) /\ Contents = D[tree.root] /\ tree \in Trees
      /\ cur \in Ext /\ Reds(tree, {cur}, {cur})
      /\ NULL \notin Node /\ Contents \subseteq Node
      /\ par = NULL => cur = tree.root
      /\ par # NULL => par \in Contents /\ par \in Node /\ z \in Sides /\ tree.kid[z][par] = cur
      /\ tree.root # NULL /\ cur # tree.root => tree.color[tree.root] = "black"
  BY <1>1, RemoveTree
<1>3. PICK H : Heights(tree, H, par, z)
  BY <1>1, RemoveTree
<1>4. CASE cur = NULL
  <2>1. tree.root = NULL /\ tree' = tree
    BY <1>1, <1>4 DEF Lacking, Paint, Black
  <2>2. par = NULL
    BY <1>2, <2>1, InsideFacts
  <2>3. Reds(tree', {}, {})
    BY <1>2, <1>4, <2>1, ParentFacts DEF Reds
  <2> QED
    BY <1>1, <1>2, <1>3, <2>1, <2>2, <2>3, ColorEnds
<1>5. CASE cur # NULL
  <2>1. cur \in Node
    BY <1>2, <1>5 DEF Ext
  <2>2. /\ Recolored(tree, tree') /\ tree'.color[cur] = "black"
        /\ \A x \in Node : x # cur => tree'.color[x] = tree.color[x]
    BY <1>1, <1>2, <2>1, PaintEffect
  <2>3. Shape(tree', D) /\ tree'.root = tree.root /\ tree'.kid = tree.kid
    BY <1>2, <2>2, RecoloredShape DEF Recolored
  <2>4. Reds(tree', {}, {})
    BY <1>2, <2>1, <2>2, PaintReds
  <2>5. tree'.root # NULL => tree'.color[tree'.root] = "black"
    <3>1. tree.root \in Ext
      BY <1>2 DEF Trees
    <3> QED
      BY <1>2, <2>2, <2>3, <3>1 DEF Ext
  <2>6. \E G : Heights(tree', G, NULL, z)
    <3>1. CASE tree.color[cur] = "red"
      <4>1. \A x \in Node, w \in Sides : tree.kid[w][x] = cur <=> x = par /\ w = z
        <5>1. CASE par = NULL
          BY <1>2, <1>5, <5>1, NothingAboveRoot
        <5>2. CASE par # NULL
          <6>1. tree.parent[cur] = par /\ par # NULL
            BY <1>2, <1>5, <5>2, KidFacts
          <6>2. \A w \in Sides : tree.kid[w][par] = cur => w = z
            BY <1>2, <2>1, <6>1, ParentFacts
          <6>3. \A x \in Node, w \in Sides : tree.kid[w][x] = cur => x = par
            BY <1>2, <1>5, <6>1, KidFacts
          <6> QED
            BY <1>2, <5>2, <6>2, <6>3
        <5> QED
          BY <5>1, <5>2
      <4> HIDE DEF z, D
      <4>2. Heights(tree', [H EXCEPT ![cur] = H[cur] + 1], NULL, z)
        BY <1>2, <1>3, <2>1, <2>2, <3>1, <4>1, PaintDone
      <4> QED
        BY <4>2
    <3>2. CASE tree.color[cur] # "red"
      <4>1. cur = tree.root
        BY <1>1, <1>2, <2>1, <3>2 DEF Lacking, Black, Trees
      <4>2. par = NULL
        BY <1>2, <1>5, <4>1, NothingAboveRoot
      <4>3. \A x \in Node : tree'.color[x] = tree.color[x]
        BY <1>2, <2>1, <2>2, <3>2 DEF Trees
      <4>4. Heights(tree', H, NULL, z)
        BY <1>3, <2>3, <4>2, <4>3 DEF Heights, Bit
      <4> QED
        BY <4>4
    <3> QED
      BY <3>1, <3>2
  <2>7. PICK G : Heights(tree', G, NULL, z)
    BY <2>6
  <2> HIDE DEF z
  <2> QED
    BY <1>1, <1>2, <2>3, <2>4, <2>5, <2>7, ColorEnds
<1> QED
  BY <1>4, <1>5

\* Every step of every call keeps the invariant
LEMMA StepKeeps == ASSUME RBInv, [Next]_vars PROVE RBInv'
<1>1. CASE Call
  BY <1>1, CallKeeps
<1>2. CASE Step
  BY <1>2, WalkKeeps, WalkEndsKeeps, AttachKeeps, InsertColorKeeps, InsertColorEndsKeeps,
     RemoveOneKeeps, FindSuccessorKeeps, SuccessorLeftKeeps, RemoveTwoKeeps, RemoveColorKeeps,
     RemoveColorEndsKeeps DEF Step
<1>3. CASE UNCHANGED vars
  BY <1>3 DEF vars, RBInv, TreeOK, CallOK, WalkOK, RemoveOK, ColorOK, HeightsOK, LackAt, RedsOK,
     RootOK, Contents, Under, Towards, Sought
<1> QED
  BY <1>1, <1>2, <1>3 DEF Next

\* Whatever calls are made, at every iteration of every loop of RB_INSERT,
\* RB_FIND, RB_MIN, RB_REMOVE, RB_INSERT_COLOR and RB_REMOVE_COLOR: the links
\* make a search tree, the walk is on the way to where the key belongs, and the
\* red-black conditions hold but for the red parent or the black node that the
\* rebalancing at hand is still to mend.
THEOREM Invariance == Spec => []RBInv
<1>1. Init => RBInv
  BY InitInv
<1>2. RBInv /\ [Next]_vars => RBInv'
  BY StepKeeps
<1> QED
  BY <1>1, <1>2, PTL DEF Spec

-----------------------------------------------------------------------------
(* What follows from the invariant *)

\* The invariant implies the properties of the runs
LEMMA InvSearchTree == RBInv => SearchTree
<1> SUFFICES ASSUME RBInv PROVE SearchTree
  OBVIOUS
<1> DEFINE D == Subtrees(tree)
<1>1. Shape(tree, D) /\ Contents = D[tree.root] /\ \A n : Under(tree, n) = D[n]
  BY DEF RBInv, TreeOK, Contents, Under
<1>2. Contents \subseteq Node
  BY <1>1, InsideFacts
<1>3. tree.root # NULL => tree.parent[tree.root] = NULL
  BY <1>1 DEF Shape, Linked
<1>4. \A n \in Contents, s \in Sides : tree.kid[s][n] # NULL => tree.parent[tree.kid[s][n]] = n
  BY <1>1, <1>2 DEF Shape, Linked
<1>5. ASSUME NEW n \in Contents
      PROVE  /\ \A m \in D[tree.kid["left"][n]] : Key[m] < Key[n]
             /\ \A m \in D[tree.kid["right"][n]] : Key[n] < Key[m]
  BY <1>1, <1>2 DEF Shape, Ordered, Beside, Sides
<1> HIDE DEF D
<1> QED
  BY <1>1, <1>3, <1>4, <1>5 DEF SearchTree

LEMMA InvNoNull == RBInv => NoNullFollowed
<1> SUFFICES ASSUME RBInv PROVE NoNullFollowed
  OBVIOUS
<1>1. pc = "insert_color" /\ RedParent => tree.parent[tree.parent[cur]] # NULL
  BY InsertTree
<1>2. ASSUME pc = "remove_color", Lacking,
             NEW s, s = SideOf(tree, par, cur), NEW sib, sib = tree.kid[Other(s)][par]
      PROVE  par # NULL /\ sib # NULL /\ (~Black(tree, sib) => tree.kid[s][sib] # NULL)
  <2> DEFINE D == Subtrees(tree)
  <2>1. /\ Shape(tree, D) /\ tree \in Trees /\ par # NULL /\ par \in Node /\ s \in Sides
        /\ tree.kid[s][par] = cur /\ cur \in Ext
    BY <1>2, RemoveTree
  <2>2. PICK H : Heights(tree, H, par, s)
    BY <1>2, RemoveTree
  <2>3. sib # NULL /\ H[sib] = H[cur] + 1
    BY <1>2, <2>1, <2>2, SideOwed
  <2>4. Other(s) \in Sides
    BY <2>1 DEF Sides, Other
  <2>5. sib \in Node /\ sib # par /\ sib \in Ext /\ tree.kid[s][sib] \in Ext
    BY <1>2, <2>1, <2>3, <2>4, KidFacts DEF Ext
  <2>6. ASSUME ~Black(tree, sib) PROVE tree.kid[s][sib] # NULL
    <3>1. Bit(tree, sib) = 0 /\ Owed(sib, s, par, s) = 0
      BY <2>1, <2>5, <2>6, BlackOrRed DEF Bit, Owed
    <3>2. H[sib] = H[tree.kid[s][sib]] + Owed(sib, s, par, s) + Bit(tree, sib)
      BY <2>1, <2>2, <2>5 DEF Heights
    <3>3. H[cur] \in Nat /\ H[sib] \in Nat /\ H[tree.kid[s][sib]] \in Nat /\ H[NULL] = 0
      BY <2>1, <2>2, <2>5 DEF Heights
    <3> QED
      BY <2>3, <3>1, <3>2, <3>3
  <2> QED
    BY <2>1, <2>3, <2>6
<1> QED
  BY <1>1, <1>2 DEF NoNullFollowed

\* The black nodes from the root down to n
BlackAbove(t, D, n) == {m \in D[t.root] : n \in D[m] /\ t.color[m] = "black"}

LEMMA BlackAboveKid ==
  ASSUME NEW t, NEW D, Shape(t, D), NEW n \in D[t.root]
  PROVE  /\ IsFiniteSet(BlackAbove(t, D, n)) /\ Cardinality(BlackAbove(t, D, n)) \in Nat
         /\ n = t.root => Cardinality(BlackAbove(t, D, n)) = Bit(t, n)
         /\ n # t.root => Cardinality(BlackAbove(t, D, n)) =
                            Cardinality(BlackAbove(t, D, t.parent[n])) + Bit(t, n)
<1> DEFINE B(x) == BlackAbove(t, D, x)
           p == t.parent[n]
<1>1. \A x : IsFiniteSet(B(x)) /\ Cardinality(B(x)) \in Nat
  <2> TAKE x
  <2>1. D[t.root] \subseteq Node
    BY InsideFacts
  <2>2. B(x) \in SUBSET Node
    BY <2>1 DEF BlackAbove
  <2> QED
    BY <2>2, KeyAssumption, FS_Subset, FS_CardinalityType
<1>2. n \in Node /\ n \in D[n] /\ D[t.root] \subseteq Node /\ t.root \in Node
  BY InsideFacts DEF Shape, Downs
<1>3. CASE n = t.root
  <2>1. B(n) = IF t.color[n] = "black" THEN {n} ELSE {}
    BY <1>2, <1>3, RootOnTop DEF BlackAbove
  <2> QED
    BY <1>1, <1>3, <2>1, FS_EmptySet, FS_Singleton DEF Bit
<1>4. CASE n # t.root
  <2>1. /\ p \in Node /\ n \in D[p] /\ D[n] \subseteq D[p] /\ p \notin D[n] /\ p \in D[t.root]
        /\ \A x \in Node : n \in D[x] /\ n # x => p \in D[x]
    BY <1>2, <1>4, ParentFacts
  <2>2. \A x \in Node : p \in D[x] => n \in D[x]
    BY <1>2, <2>1 DEF Shape, Downs
  <2>3. B(n) = (IF t.color[n] = "black" THEN B(p) \cup {n} ELSE B(p)) /\ n \notin B(p)
    BY <1>2, <2>1, <2>2 DEF BlackAbove
  <2> HIDE DEF B
  <2>4. Cardinality(B(n)) = Cardinality(B(p)) + Bit(t, n)
    <3>1. CASE t.color[n] = "black"
      BY <1>1, <2>3, <3>1, FS_AddElement DEF Bit
    <3>2. CASE t.color[n] # "black"
      BY <1>1, <2>3, <3>2 DEF Bit
    <3> QED
      BY <3>1, <3>2
  <2> QED
    BY <1>1, <1>4, <2>4 DEF B
<1> QED
  BY <1>3, <1>4

\* Whether the path to n is through v
Through(D, v, n) == IF v # NULL /\ n \in D[v] THEN 1 ELSE 0

\* The black nodes above a node and its height add up to the same number for all
\* nodes, when the one lacking above v is counted
EvenPaths(t, D, H, v) ==
  \A n \in D[t.root] :
    Cardinality(BlackAbove(t, D, n)) + Through(D, v, n) + H[n] =
      H[t.root] + Through(D, v, t.root) + Bit(t, n)

\* Induction from the root: all paths count the same
LEMMA PathHeights ==
  ASSUME NEW t, NEW D, Shape(t, D), NEW q \in Ext, NEW z, NEW v \in Ext, NEW H, Heights(t, H, q, z),
         q # NULL => z \in Sides /\ t.kid[z][q] = v,
         q = NULL => v = NULL \/ v = t.root
  PROVE  EvenPaths(t, D, H, v)
<1> DEFINE Sum(n) == Cardinality(BlackAbove(t, D, n)) + Through(D, v, n) + H[n]
           Bad == {n \in D[t.root] : Sum(n) # H[t.root] + Through(D, v, t.root) + Bit(t, n)}
<1>1. \A n : Through(D, v, n) \in {0, 1} /\ Bit(t, n) \in {0, 1}
  BY DEF Bit, Through
<1>2. H \in [Ext -> Nat] /\ NULL \notin Node
  BY KeyAssumption DEF Heights
<1>3. \A n \in D[t.root] : n \in Node /\ t.root \in Node /\ H[n] \in Nat /\ H[t.root] \in Nat
  BY <1>2, InsideFacts DEF Ext
<1>4. \A n \in D[t.root] : Cardinality(BlackAbove(t, D, n)) \in Nat
  BY BlackAboveKid
<1>5. ASSUME Bad # {} PROVE FALSE
  <2>1. Bad \in SUBSET Node
    BY <1>3
  <2> HIDE DEF Bad
  <2>2. PICK n \in Bad : \A m \in Bad : n \in D[m] => m = n
    BY <1>5, <2>1, Highest DEF Shape
  <2> USE DEF Bad
  <2>3. n \in D[t.root] /\ n \in Node /\ Sum(n) # H[t.root] + Through(D, v, t.root) + Bit(t, n)
    BY <1>3, <2>2
  <2> HIDE DEF Bad
  <2>4. n # t.root
    <3> SUFFICES ASSUME n = t.root PROVE FALSE
      OBVIOUS
    <3>1. Cardinality(BlackAbove(t, D, n)) = Bit(t, n)
      BY <2>3, BlackAboveKid
    <3> QED
      BY <1>1, <1>3, <2>3, <3>1
  <2> DEFINE p == t.parent[n]
  <2>5. /\ p # NULL /\ p \in Node /\ p \in D[t.root] /\ n \in D[p] /\ p \notin D[n] /\ D[n] \subseteq D[p]
        /\ SideOf(t, p, n) \in Sides /\ t.kid[SideOf(t, p, n)][p] = n /\ p # n
        /\ \A w \in Sides : t.kid[w][p] = n => w = SideOf(t, p, n)
        /\ \A x \in Node : n \in D[x] /\ n # x => p \in D[x]
    BY <2>3, <2>4, ParentFacts
  <2>6. Sum(p) = H[t.root] + Through(D, v, t.root) + Bit(t, p)
    BY <2>2, <2>5 DEF Bad
  <2>7. Cardinality(BlackAbove(t, D, n)) = Cardinality(BlackAbove(t, D, p)) + Bit(t, n)
    BY <2>3, <2>4, BlackAboveKid
  <2> DEFINE w == SideOf(t, p, n)
             ow == Owed(p, w, q, z)
  <2>8. H[p] = H[n] + ow + Bit(t, p)
    BY <2>5 DEF Heights
  <2>9. ow = IF n = v THEN 1 ELSE 0
    <3>1. CASE n = v
      <4>1. q # NULL
        BY <1>2, <2>3, <2>4, <3>1
      <4>2. q \in Node /\ z \in Sides /\ t.kid[z][q] = n
        BY <3>1, <4>1 DEF Ext
      <4>3. p = q
        BY <1>2, <2>3, <4>2, KidFacts
      <4>4. z = w
        BY <2>5, <4>2, <4>3
      <4> QED
        BY <3>1, <4>3, <4>4 DEF Owed
    <3>2. CASE n # v
      <4>1. ~(p = q /\ w = z)
        BY <2>5, <3>2
      <4> QED
        BY <3>2, <4>1 DEF Owed
    <3> QED
      BY <3>1, <3>2
  <2>10. Through(D, v, n) = Through(D, v, p) + ow
    <3>1. CASE n = v
      <4>1. Through(D, v, n) = 1 /\ Through(D, v, p) = 0
        <5>1. n \in D[v]
          BY <2>3, <3>1 DEF Shape, Downs
        <5> QED
          BY <1>2, <2>3, <2>5, <3>1, <5>1 DEF Through
      <4> QED
        BY <2>9, <3>1, <4>1
    <3>2. CASE n # v
      <4>1. v # NULL => (n \in D[v] <=> p \in D[v])
        <5> SUFFICES ASSUME v # NULL PROVE n \in D[v] <=> p \in D[v]
          OBVIOUS
        <5>1. v \in Node
          BY DEF Ext
        <5> QED
          BY <2>3, <2>5, <3>2, <5>1 DEF Shape, Downs
      <4>2. Through(D, v, n) = Through(D, v, p)
        BY <4>1 DEF Through
      <4> QED
        BY <1>1, <2>9, <3>2, <4>2
    <3> QED
      BY <3>1, <3>2
  <2>11. ow \in {0, 1}
    BY <2>9
  <2> HIDE DEF p, w, ow
  <2> QED
    BY <1>1, <1>3, <1>4, <2>3, <2>5, <2>6, <2>7, <2>8, <2>10, <2>11
<1> QED
  BY <1>5 DEF EvenPaths

\* One value at most
LEMMA OneHeight == ASSUME NEW S, NEW k, S \subseteq {k} PROVE Cardinality(S) <= 1
<1>1. IsFiniteSet({k}) /\ Cardinality({k}) = 1 /\ S \in SUBSET {k}
  BY FS_Singleton
<1> QED
  BY <1>1, FS_Subset

LEMMA InvBalanced == RBInv => Balanced
<1> SUFFICES ASSUME RBInv PROVE Balanced
  OBVIOUS
<1> DEFINE D == Subtrees(tree)
           z == SideOf(tree, par, cur)
           q == LackAt
           v == IF pc = "remove_color" THEN cur ELSE NULL
<1>1. Shape(tree, D) /\ Contents = D[tree.root] /\ (\A n : Under(tree, n) = D[n]) /\ tree \in Trees
  BY DEF RBInv, TreeOK, Contents, Under, Shape
<1>2. Contents \subseteq Node /\ NULL \notin Node /\ NULL \in Ext
  BY <1>1, InsideFacts, KeyAssumption DEF Ext
<1>3. PICK H : Heights(tree, H, q, z)
  BY DEF RBInv, HeightsOK
<1>4. /\ q \in Ext /\ v \in Ext /\ (q # NULL => q \in Node /\ z \in Sides /\ tree.kid[z][q] = v)
      /\ (q = NULL => v = NULL \/ v = tree.root) /\ (v # NULL => v \in Contents)
  <2>1. CASE pc = "remove_color"
    <3>1. /\ cur \in Ext /\ (par = NULL => cur = tree.root) /\ q = par /\ v = cur
          /\ par # NULL => par \in Contents /\ par \in Node /\ z \in Sides /\ tree.kid[z][par] = cur
      BY <2>1, RemoveTree DEF LackAt
    <3>2. cur # NULL => cur \in Contents
      <4>1. par = NULL /\ cur # NULL => cur \in Contents
        BY <1>1, <3>1 DEF Shape, Downs, Ext
      <4>2. par # NULL /\ cur # NULL => cur \in Contents
        BY <1>1, <3>1, InsideFacts
      <4> QED
        BY <4>1, <4>2
    <3> QED
      BY <1>2, <3>1, <3>2 DEF Ext
  <2>2. CASE pc # "remove_color"
    BY <1>2, <2>2 DEF LackAt
  <2> QED
    BY <2>1, <2>2
<1> HIDE DEF D, z
<1>5. \A n \in Contents :
        Cardinality(BlackAbove(tree, D, n)) + Through(D, v, n) + H[n] =
          H[tree.root] + Through(D, v, tree.root) + Bit(tree, n)
  <2> HIDE DEF q, v
  <2>1. EvenPaths(tree, D, H, v)
    BY <1>1, <1>3, <1>4, PathHeights
  <2> QED
    BY <1>1, <2>1 DEF EvenPaths
<1> DEFINE K == H[tree.root] + Through(D, v, tree.root)
<1>6. ASSUME NEW n \in Contents, NEW s \in Sides, tree.kid[s][n] = NULL,
             NEW lack, lack = IF pc = "remove_color" /\ (IF cur = NULL THEN n = par ELSE n \in D[cur])
                                THEN 1 ELSE 0
      PROVE  Cardinality(BlackAbove(tree, D, n)) + lack = K
  <2>1. H[n] = H[NULL] + Owed(n, s, q, z) + Bit(tree, n) /\ H[NULL] = 0
    BY <1>2, <1>3, <1>6 DEF Heights
  <2>2. lack = Through(D, v, n) + Owed(n, s, q, z)
    <3>1. CASE v # NULL
      <4>1. Owed(n, s, q, z) = 0
        <5>1. ~(n = q /\ s = z)
          BY <1>2, <1>4, <1>6, <3>1
        <5> QED
          BY <5>1 DEF Owed
      <4>2. lack = Through(D, v, n)
        BY <1>6, <3>1 DEF Through
      <4>3. lack \in {0, 1}
        BY <1>6
      <4> QED
        BY <4>1, <4>2, <4>3
    <3>2. CASE v = NULL
      <4>1. Through(D, v, n) = 0
        BY <3>2 DEF Through
      <4>2. lack = IF n = q THEN 1 ELSE 0
        <5>1. CASE pc = "remove_color"
          BY <1>6, <3>2, <5>1 DEF LackAt
        <5>2. CASE pc # "remove_color"
          BY <1>2, <1>6, <5>2 DEF LackAt
        <5> QED
          BY <5>1, <5>2
      <4>3. n = q => s = z
        <5> SUFFICES ASSUME n = q, s # z PROVE FALSE
          OBVIOUS
        <5>1. q \in Node /\ z \in Sides
          BY <1>2, <1>4
        <5>2. tree.kid[Other(z)][q] # NULL
          BY <1>1, <1>3, <5>1, SideOwed
        <5>3. s = Other(z)
          BY <5>1 DEF Sides, Other
        <5> QED
          BY <1>6, <5>2, <5>3
      <4> QED
        BY <4>1, <4>2, <4>3 DEF Owed
    <3> QED
      BY <3>1, <3>2
  <2>3. /\ Cardinality(BlackAbove(tree, D, n)) \in Nat /\ H[tree.root] \in Nat /\ tree.root \in Ext
        /\ Through(D, v, n) \in {0, 1} /\ Through(D, v, tree.root) \in {0, 1}
        /\ Bit(tree, n) \in {0, 1} /\ Owed(n, s, q, z) \in {0, 1}
    <3>1. tree.root \in Ext /\ H[tree.root] \in Nat
      BY <1>1, <1>3 DEF Trees, Heights
    <3> QED
      BY <1>1, <3>1, BlackAboveKid DEF Through, Bit, Owed
  <2> HIDE DEF q, v
  <2> QED
    BY <1>5, <2>1, <2>2, <2>3
<1>7. BlackHeights \subseteq {K}
  <2> DEFINE below == [m \in Contents |-> Under(tree, m)]
             Path(n) == {m \in DOMAIN below : n \in below[m]}
             Short(n) == IF cur = NULL THEN n = par ELSE cur \in Path(n)
             Blacks(n) == {m \in Path(n) : tree.color[m] = "black"}
             Lack(n) == IF pc = "remove_color" /\ Short(n) THEN 1 ELSE 0
  <2>1. ASSUME NEW n \in Contents, NEW s \in Sides, tree.kid[s][n] = NULL
        PROVE  Cardinality(Blacks(n)) + Lack(n) = K
    <3>1. DOMAIN below = Contents /\ \A m \in Contents : below[m] = D[m]
      BY <1>1
    <3>2. Blacks(n) = BlackAbove(tree, D, n)
      BY <1>1, <3>1 DEF BlackAbove
    <3>3. Lack(n) = IF pc = "remove_color" /\ (IF cur = NULL THEN n = par ELSE n \in D[cur])
                      THEN 1 ELSE 0
      <4>1. pc = "remove_color" /\ cur # NULL => cur \in Contents
        BY <1>4
      <4>2. pc = "remove_color" /\ cur # NULL => (cur \in Path(n) <=> n \in D[cur])
        BY <3>1, <4>1
      <4> QED
        BY <4>2
    <3> HIDE DEF Blacks, Lack, K
    <3> QED
      BY <1>6, <2>1, <3>2, <3>3
  <2>2. BlackHeights = {Cardinality(Blacks(n)) + Lack(n) :
                          n \in {m \in DOMAIN below : \E s \in Sides : tree.kid[s][m] = NULL}}
    BY DEF BlackHeights
  <2>3. DOMAIN below = Contents
    OBVIOUS
  <2> HIDE DEF Blacks, Lack, K, below
  <2> QED
    BY <2>1, <2>2, <2>3
<1>8. Cardinality(BlackHeights) <= 1
  BY <1>7, OneHeight
<1>9. \A n \in Contents :
        ~Black(tree, n) /\ ~Black(tree, tree.parent[n]) =>
          \/ pc = "insert_color" /\ cur = n
          \/ pc = "remove_color" /\ cur \in {n, tree.parent[n]}
  <2> TAKE n \in Contents
  <2> HAVE ~Black(tree, n) /\ ~Black(tree, tree.parent[n])
  <2>1. n \in Node /\ n \in Ext /\ tree.parent[n] \in Ext
    BY <1>1, <1>2 DEF Trees, Ext
  <2>2. tree.color[n] = "red" /\ tree.parent[n] # NULL /\ tree.color[tree.parent[n]] = "red"
    BY <1>1, <2>1, BlackOrRed
  <2>3. Reds(tree, IF pc \in {"insert_color", "remove_color"} THEN {cur} ELSE {},
                   IF pc = "remove_color" THEN {cur} ELSE {})
    BY DEF RBInv, RedsOK
  <2> QED
    BY <2>1, <2>2, <2>3 DEF Reds
<1>10. pc \notin {"insert_color", "remove_color"} => Black(tree, tree.root)
  BY DEF RBInv, RootOK
<1> QED
  BY <1>8, <1>9, <1>10 DEF Balanced

\* In the middle of the rotations of RB_INSERT_COLOR and RB_REMOVE_COLOR too,
\* the keys are in order and every link down has its rbe_parent.
THEOREM AlwaysSearchTree == Spec => []SearchTree
  BY Invariance, InvSearchTree, PTL

\* After every RB_INSERT and RB_REMOVE all paths have the same number of black
\* nodes and no red node has a red parent; during the rebalancing the only
\* exception is at the node the loop is at.
THEOREM AlwaysBalanced == Spec => []Balanced
  BY Invariance, InvBalanced, PTL

\* The grandparent that RB_INSERT_COLOR and the sibling that RB_REMOVE_COLOR read
\* without a test are never NULL.
THEOREM NeverNullFollowed == Spec => []NoNullFollowed
  BY Invariance, InvNoNull, PTL

-----------------------------------------------------------------------------
(* The tree is the ordered set *)

\* No two nodes of a tree have the same key
LEMMA DistinctKeys ==
  ASSUME NEW t, NEW D, Shape(t, D), NEW m \in D[t.root], NEW n \in D[t.root], Key[m] = Key[n]
  PROVE  m = n
<1> SUFFICES ASSUME m # n PROVE FALSE
  OBVIOUS
<1> DEFINE B == {x \in Node : m \in D[x] /\ n \in D[x]}
<1>1. m \in Node /\ n \in Node /\ t.root \in Node
  BY InsideFacts
<1>2. B \in SUBSET Node /\ B # {}
  BY <1>1
<1> HIDE DEF B
<1>3. PICK x \in B : \A y \in D[x] \ {x} : y \notin B
  BY <1>2, Lowest DEF Shape
<1>4. x \in Node /\ m \in D[x] /\ n \in D[x]
  BY <1>3 DEF B
<1>5. \A y \in D[x] : y = x \/ \E s \in Sides : y \in D[t.kid[s][x]]
  BY <1>4 DEF Shape, Downs, Sides, Other
<1>6. \A y \in Node, s \in Sides : y \in D[t.kid[s][x]] => Key[y] # Key[x]
  BY <1>4, KeyAssumption DEF Shape, Ordered, Beside
<1>7. m # x /\ n # x
  BY <1>1, <1>4, <1>5, <1>6
<1>8. PICK s \in Sides : m \in D[t.kid[s][x]]
  BY <1>4, <1>5, <1>7
<1>9. PICK w \in Sides : n \in D[t.kid[w][x]]
  BY <1>4, <1>5, <1>7
<1>10. CASE s = w
  <2>1. t.kid[s][x] # NULL
    BY <1>8 DEF Shape, Downs
  <2>2. t.kid[s][x] \in Node /\ t.kid[s][x] \in D[x] /\ t.kid[s][x] # x
    BY <1>4, <2>1, KidFacts
  <2>3. t.kid[s][x] \in B
    BY <1>8, <1>9, <1>10, <2>2 DEF B
  <2> QED
    BY <1>3, <2>2, <2>3
<1>11. CASE s # w
  <2>1. Beside(s, m, x) /\ Beside(w, n, x)
    BY <1>4, <1>8, <1>9 DEF Shape, Ordered
  <2> QED
    BY <1>1, <1>4, <1>11, <2>1, KeyAssumption DEF Beside, Sides
<1> QED
  BY <1>10, <1>11

\* A step the caller does not see
LEMMA Stutter == ASSUME UNCHANGED <<call, ret>>, Members' = Members PROVE UNCHANGED Set!vars
  BY DEF Set!vars

\* What the caller sees in each of the loops
LEMMA MembersAre ==
  ASSUME RBInv
  PROVE  /\ pc \in {"idle", "walk", "remove", "successor"} => Members = Contents
         /\ pc = "insert_color" => /\ call.op = "insert" /\ call.arg \in Contents
                                   /\ Members = Contents \ {call.arg}
         /\ pc = "remove_color" => /\ call.op = "remove" /\ call.arg \notin Contents
                                   /\ Members = Contents \cup {call.arg}
         /\ pc \in {"remove", "successor"} => call.op = "remove" /\ call.arg \in Contents
         /\ pc = "idle" => call = NoCall
         /\ pc = "walk" /\ call.op = "insert" => call.arg \in Node \ Contents
         /\ pc = "walk" => call.op \in {"insert", "find", "min"}
<1>1. CallOK
  BY DEF RBInv
<1>2. CASE pc = "idle"
  BY <1>1, <1>2 DEF CallOK, Members, NoCall
<1>3. CASE pc = "walk"
  <2>1. CASE \E n \in Node \ Contents : call = [op |-> "insert", arg |-> n]
    BY <1>3, <2>1 DEF Members
  <2>2. CASE \E k \in Probe : call = [op |-> "find", arg |-> k]
    BY <1>3, <2>2 DEF Members
  <2>3. CASE call = [op |-> "min", arg |-> NULL]
    BY <1>3, <2>3 DEF Members
  <2> QED
    BY <1>1, <1>3, <2>1, <2>2, <2>3 DEF CallOK
<1>4. CASE pc = "insert_color"
  BY <1>1, <1>4 DEF CallOK, Members
<1>5. CASE pc \in {"remove", "successor"}
  <2>1. PICK n \in Contents : call = [op |-> "remove", arg |-> n]
    BY <1>1, <1>5 DEF CallOK
  <2>2. Members = Contents
    BY <2>1 DEF Members
  <2> QED
    BY <1>5, <2>1, <2>2
<1>6. CASE pc = "remove_color"
  BY <1>1, <1>6 DEF CallOK, Members
<1> QED
  BY <1>1, <1>2, <1>3, <1>4, <1>5, <1>6 DEF CallOK

LEMMA CallMaps == ASSUME RBInv, Call PROVE Set!Next
<1>1. pc = "idle" /\ UNCHANGED tree /\ ret' = NULL
  BY DEF Call, CallInsert, CallRemove, CallFind, CallMin, Start
<1>2. Members = Contents /\ call = NoCall /\ Contents' = Contents
  BY <1>1, MembersAre DEF Contents
<1>3. Contents \subseteq Node
  BY InsideFacts DEF RBInv, TreeOK, Contents, Under
<1> DEFINE Called == \/ \E n \in Node \ Members : call' = [op |-> "insert", arg |-> n]
                     \/ \E n \in Members : call' = [op |-> "remove", arg |-> n]
                     \/ \E k \in Probe : call' = [op |-> "find", arg |-> k]
                     \/ call' = [op |-> "min", arg |-> NULL]
<1>4. UNCHANGED Members /\ Called
  <2>1. ASSUME NEW n \in Node, CallInsert(n) PROVE UNCHANGED Members /\ Called
    <3>1. n \notin Contents /\ call' = [op |-> "insert", arg |-> n]
      BY <2>1 DEF CallInsert, Start
    <3>2. Members' = Contents' \ {n}
      BY <3>1 DEF Members
    <3> QED
      BY <1>2, <3>1, <3>2
  <2>2. ASSUME NEW n \in Node, CallRemove(n) PROVE UNCHANGED Members /\ Called
    <3>1. n \in Contents /\ call' = [op |-> "remove", arg |-> n]
      BY <2>2 DEF CallRemove, Start
    <3>2. Members' = Contents' \cup {n}
      BY <3>1 DEF Members
    <3> QED
      BY <1>2, <3>1, <3>2
  <2>3. ASSUME NEW k \in Probe, CallFind(k) PROVE UNCHANGED Members /\ Called
    <3>1. call' = [op |-> "find", arg |-> k]
      BY <2>3 DEF CallFind, Start
    <3>2. Members' = Contents'
      BY <3>1 DEF Members
    <3> QED
      BY <1>2, <3>1, <3>2
  <2>4. ASSUME CallMin PROVE UNCHANGED Members /\ Called
    <3>1. call' = [op |-> "min", arg |-> NULL]
      BY <2>4 DEF CallMin, Start
    <3>2. Members' = Contents'
      BY <3>1 DEF Members
    <3> QED
      BY <1>2, <3>1, <3>2
  <2> QED
    BY <2>1, <2>2, <2>3, <2>4 DEF Call
<1> QED
  BY <1>1, <1>2, <1>4 DEF Set!Next, Set!Invoke, Set!NoCall, NoCall

\* A return ends with the members that are in the tree
LEMMA ReturnMembers ==
  ASSUME NEW v, Return(v) PROVE Members' = Contents' /\ call' = NoCall /\ ret' = v
  BY DEF Return, Members, NoCall

LEMMA WalkMaps == ASSUME RBInv, Walk PROVE Set!Next \/ UNCHANGED Set!vars
<1>1. pc = "walk" /\ cur # NULL /\ UNCHANGED tree
  BY DEF Walk
<1>2. Members = Contents /\ Contents' = Contents
  BY <1>1, MembersAre DEF Contents
<1>3. cur \in Contents /\ call.op \in {"insert", "find", "min"}
  BY <1>1, WalkTypes
<1>4. CASE Hit
  <2>1. Return(cur) /\ call.op # "min" /\ Key[cur] = Sought
    BY <1>4 DEF Walk, Hit
  <2>2. Members' = Members /\ call' = NoCall /\ ret' = cur
    BY <1>2, <2>1, ReturnMembers
  <2>3. CASE call.op = "insert"
    <3>1. cur \in Set!With(Key[call.arg])
      BY <1>2, <1>3, <2>1, <2>3 DEF Set!With, Sought
    <3>2. Set!Insert
      BY <2>2, <2>3, <3>1 DEF Set!Insert
    <3> QED
      BY <2>2, <3>2 DEF Set!Next, Set!Return, Set!NoCall, NoCall
  <2>4. CASE call.op = "find"
    <3>1. cur \in Set!With(call.arg)
      BY <1>2, <1>3, <2>1, <2>4 DEF Set!With, Sought
    <3>2. Set!Find
      BY <2>2, <2>4, <3>1 DEF Set!Find
    <3> QED
      BY <2>2, <3>2 DEF Set!Next, Set!Return, Set!NoCall, NoCall
  <2> QED
    BY <1>3, <2>1, <2>3, <2>4
<1>5. CASE ~Hit
  <2>1. UNCHANGED <<call, ret>>
    BY <1>5 DEF Walk, Goto
  <2>2. Members' = Members
    BY <1>2, <2>1 DEF Members
  <2> QED
    BY <2>1, <2>2, Stutter
<1> QED
  BY <1>4, <1>5

LEMMA WalkEndsMaps == ASSUME RBInv, WalkEnds PROVE Set!Next
<1> DEFINE v == IF call.op = "min" THEN par ELSE NULL
<1>1. pc = "walk" /\ cur = NULL /\ call.op # "insert" /\ UNCHANGED tree /\ Return(v)
  BY DEF WalkEnds
<1>2. Members = Contents /\ Contents' = Contents
  BY <1>1, MembersAre DEF Contents
<1>3. call.op \in {"find", "min"} /\ par \in Ext
  BY <1>1, WalkTypes
<1>4. Members' = Members /\ call' = NoCall /\ ret' = v
  BY <1>1, <1>2, ReturnMembers
<1>5. Under(tree, cur) = {} /\ (tree.root = NULL => Contents = {})
  BY <1>1 DEF RBInv, TreeOK, Shape, Downs, Contents, Under
<1>6. CASE call.op = "find"
  <2>1. \A m \in Contents : Key[m] # call.arg
    BY <1>1, <1>5, <1>6 DEF RBInv, WalkOK, Sought
  <2>2. Set!With(call.arg) = {}
    BY <1>2, <2>1 DEF Set!With
  <2>3. Set!Find
    BY <1>4, <1>6, <2>2 DEF Set!Find
  <2> QED
    BY <1>4, <2>3 DEF Set!Next, Set!Return, Set!NoCall, NoCall
<1>7. CASE call.op = "min"
  <2>1. \A m \in Contents : Key[par] <= Key[m]
    BY <1>1, <1>5, <1>7 DEF RBInv, WalkOK
  <2>2. (par = NULL => Contents = {}) /\ (par # NULL => par \in Contents)
    BY <1>1, <1>5 DEF RBInv, WalkOK
  <2>3. Set!Min
    BY <1>2, <1>4, <1>7, <2>1, <2>2 DEF Set!Min
  <2> QED
    BY <1>4, <2>3 DEF Set!Next, Set!Return, Set!NoCall, NoCall
<1> QED
  BY <1>3, <1>6, <1>7

LEMMA InsertMaps ==
  ASSUME RBInv PROVE  /\ Attach \/ InsertColor => UNCHANGED Set!vars
                      /\ InsertColorEnds => Set!Next
<1>1. ASSUME Attach PROVE UNCHANGED Set!vars
  <2>1. pc = "walk" /\ call.op = "insert" /\ UNCHANGED <<call, ret>>
    BY <1>1 DEF Attach, Goto
  <2>2. Members = Contents /\ call.arg \notin Contents /\ Contents' = Contents \cup {call.arg}
    BY <1>1, <2>1, MembersAre, AttachKeeps
  <2>3. Members' = Contents' \ {call.arg}
    BY <2>1 DEF Members
  <2> QED
    BY <2>1, <2>2, <2>3, Stutter
<1>2. ASSUME InsertColor PROVE UNCHANGED Set!vars
  <2>1. UNCHANGED <<call, ret>>
    BY <1>2 DEF InsertColor, Goto
  <2>2. Members' = Members
    BY <1>2, <2>1, InsertColorKeeps DEF Members
  <2> QED
    BY <2>1, <2>2, Stutter
<1>3. ASSUME InsertColorEnds PROVE Set!Next
  <2>1. pc = "insert_color" /\ Return(NULL)
    BY <1>3 DEF InsertColorEnds
  <2>2. /\ call.op = "insert" /\ call.arg \in Contents /\ Members = Contents \ {call.arg}
        /\ Contents' = Contents
    BY <1>3, <2>1, MembersAre, InsertColorEndsKeeps
  <2>3. Members' = Members \cup {call.arg} /\ call' = NoCall /\ ret' = NULL
    BY <2>1, <2>2, ReturnMembers
  <2>4. Shape(tree, Subtrees(tree)) /\ Contents = Subtrees(tree)[tree.root]
    BY <2>1, InsertTree
  <2>5. \A m \in Members : Key[m] # Key[call.arg]
    BY <2>2, <2>4, DistinctKeys
  <2>6. Set!With(Key[call.arg]) = {}
    BY <2>5 DEF Set!With
  <2>7. Set!Insert
    BY <2>2, <2>3, <2>6 DEF Set!Insert
  <2> QED
    BY <2>3, <2>7 DEF Set!Next, Set!Return, Set!NoCall, NoCall
<1> QED
  BY <1>1, <1>2, <1>3

LEMMA RemoveMaps ==
  ASSUME RBInv
  PROVE  /\ FindSuccessor \/ SuccessorLeft \/ RemoveColor => UNCHANGED Set!vars
         /\ RemoveOne \/ RemoveTwo => Set!Next \/ UNCHANGED Set!vars
         /\ RemoveColorEnds => Set!Next
<1>1. ASSUME FindSuccessor \/ SuccessorLeft PROVE UNCHANGED Set!vars
  <2>1. UNCHANGED <<call, ret, tree>>
    BY <1>1 DEF FindSuccessor, SuccessorLeft, Goto
  <2>2. Members' = Members
    BY <2>1 DEF Members, Contents
  <2> QED
    BY <2>1, <2>2, Stutter
<1>2. ASSUME RemoveColor PROVE UNCHANGED Set!vars
  <2>1. UNCHANGED <<call, ret>>
    BY <1>2 DEF RemoveColor, Goto
  <2>2. Members' = Members
    BY <1>2, <2>1, RemoveColorKeeps DEF Members
  <2> QED
    BY <2>1, <2>2, Stutter
<1>3. ASSUME RemoveOne \/ RemoveTwo PROVE Set!Next \/ UNCHANGED Set!vars
  <2>1. pc \in {"remove", "successor"} /\ \E color, n, p : Recolor(color, n, p)
    BY <1>3 DEF RemoveOne, RemoveTwo
  <2>2. /\ call.op = "remove" /\ call.arg \in Contents /\ Members = Contents
        /\ Contents' = Contents \ {call.arg}
    BY <1>3, <2>1, MembersAre, RemoveOneKeeps, RemoveTwoKeeps
  <2>3. CASE Return(call.arg)
    <3>1. Members' = Members \ {call.arg} /\ call' = NoCall /\ ret' = call.arg
      BY <2>2, <2>3, ReturnMembers
    <3>2. Set!Remove
      BY <2>2, <3>1 DEF Set!Remove
    <3> QED
      BY <3>1, <3>2 DEF Set!Next, Set!Return, Set!NoCall, NoCall
  <2>4. CASE UNCHANGED <<call, ret>>
    <3>1. Members' = Contents' \cup {call.arg}
      BY <2>2, <2>4 DEF Members
    <3> QED
      BY <2>2, <2>4, <3>1, Stutter
  <2> QED
    BY <2>1, <2>3, <2>4 DEF Recolor, Goto
<1>4. ASSUME RemoveColorEnds PROVE Set!Next
  <2>1. pc = "remove_color" /\ Return(call.arg)
    BY <1>4 DEF RemoveColorEnds
  <2>2. /\ call.op = "remove" /\ call.arg \notin Contents /\ Members = Contents \cup {call.arg}
        /\ Contents' = Contents
    BY <1>4, <2>1, MembersAre, RemoveColorEndsKeeps
  <2>3. Members' = Members \ {call.arg} /\ call' = NoCall /\ ret' = call.arg
    BY <2>1, <2>2, ReturnMembers
  <2>4. Set!Remove
    BY <2>2, <2>3 DEF Set!Remove
  <2> QED
    BY <2>3, <2>4 DEF Set!Next, Set!Return, Set!NoCall, NoCall
<1> QED
  BY <1>1, <1>2, <1>3, <1>4

\* Each iteration of RB_INSERT, RB_REMOVE, RB_FIND and RB_MIN is a step of the
\* ordered set that NtyScheduler has in the place of sched->sleeping and
\* sched->waiting, or one its user does not see: a duplicate is refused and
\* returned, no other node is lost or found, RB_MIN is a least key.  It is
\* ImplementsOrderedSet but for the return of every call.
THEOREM ActsAsOrderedSet == Spec => Set!Init /\ [][Set!Next]_(Set!vars)
<1>1. Init => Set!Init
  <2> SUFFICES ASSUME Init PROVE Set!Init
    OBVIOUS
  <2>1. pc = "idle" /\ call = NoCall /\ ret = NULL /\ tree.root = NULL
    BY DEF Init, Empty
  <2>2. Members = Contents
    BY <2>1, InitInv, MembersAre
  <2>3. Contents = {}
    BY <2>1, InitInv DEF RBInv, TreeOK, Shape, Downs, Contents, Under
  <2> QED
    BY <2>1, <2>2, <2>3 DEF Set!Init, Set!NoCall, NoCall
<1>2. RBInv /\ [Next]_vars => [Set!Next]_(Set!vars)
  <2> SUFFICES ASSUME RBInv, [Next]_vars PROVE Set!Next \/ UNCHANGED Set!vars
    OBVIOUS
  <2>1. CASE Call
    BY <2>1, CallMaps
  <2>2. CASE Step
    BY <2>2, WalkMaps, WalkEndsMaps, InsertMaps, RemoveMaps DEF Step
  <2>3. CASE UNCHANGED vars
    <3>1. Members' = Members
      BY <2>3 DEF vars, Members, Contents
    <3> QED
      BY <2>3, <3>1, Stutter DEF vars
  <2> QED
    BY <2>1, <2>2, <2>3 DEF Next
<1> QED
  BY <1>1, <1>2, Invariance, PTL DEF Spec

-----------------------------------------------------------------------------
(* RB_NEXT, RB_PREV and RB_NFIND *)

\* v is the first of the nodes B on the way to side s, NULL when there is none
First(s, B, v) == IF v = NULL THEN B = {} ELSE v \in B /\ \A o \in B : o = v \/ Beside(s, o, v)

\* There is one first node
LEMMA FirstUnique ==
  ASSUME NEW s \in Sides, NEW B, B \subseteq Node, NEW u, NEW v, First(s, B, u), First(s, B, v)
  PROVE  u = v
<1>1. CASE u = NULL \/ v = NULL
  BY <1>1 DEF First
<1>2. CASE u # NULL /\ v # NULL /\ u # v
  <2>1. u \in Node /\ v \in Node /\ Beside(s, u, v) /\ Beside(s, v, u)
    BY <1>2 DEF First
  <2> QED
    BY <2>1, BesideOrder
<1> QED
  BY <1>1, <1>2

\* The last node going down on side s: a step of the loop
LEMMA EdgeStep ==
  ASSUME NEW t, NEW D, Shape(t, D), NEW s \in Sides, NEW m \in Node
  PROVE  /\ t.kid[s][m] = NULL => First(Other(s), D[m], m)
         /\ \A v : t.kid[s][m] # NULL /\ First(Other(s), D[t.kid[s][m]], v) => First(Other(s), D[m], v)
<1> DEFINE o == Other(s)
           k == t.kid[s][m]
           l == t.kid[o][m]
<1>1. o \in Sides /\ NULL \notin Node /\ D[NULL] = {}
  BY KeyAssumption DEF Sides, Other, Shape, Downs
<1>2. /\ D[m] = {m} \cup D[k] \cup D[l] /\ D[k] \subseteq Node /\ D[l] \subseteq Node
      /\ (\A x \in D[k] : Beside(s, x, m)) /\ (\A x \in D[l] : Beside(o, x, m))
  <2>1. D[m] = {m} \cup D[k] \cup D[l]
    BY DEF Shape, Downs
  <2>2. (\A x \in D[k] : Beside(s, x, m)) /\ (\A x \in D[l] : Beside(o, x, m))
    BY <1>1 DEF Shape, Ordered
  <2> QED
    BY <1>1, <2>1, <2>2, KidFacts
<1>3. k = NULL => First(o, D[m], m)
  BY <1>1, <1>2 DEF First
<1>4. ASSUME NEW v, k # NULL, First(o, D[k], v) PROVE First(o, D[m], v)
  <2>1. k \in D[k]
    BY <1>4, KidFacts
  <2>2. v # NULL /\ v \in D[k] /\ v \in Node /\ \A x \in D[k] : x = v \/ Beside(o, x, v)
    BY <1>2, <1>4, <2>1 DEF First
  <2>3. Beside(o, m, v)
    BY <1>2, <2>2, BesideOrder
  <2>4. \A x \in D[l] : Beside(o, x, v)
    BY <1>1, <1>2, <2>2, <2>3, BesideOrder
  <2> QED
    BY <1>2, <2>2, <2>3, <2>4 DEF First
<1> QED
  BY <1>3, <1>4

\* The loop of RB_NEXT down: the first of all nodes below
LEMMA EdgeFirst ==
  ASSUME NEW t, NEW D, Shape(t, D), NEW s \in Sides, NEW n \in Node
  PROVE  First(Other(s), D[n], EdgeFrom(t, s, n))
<1> DEFINE o == Other(s)
           Eq(f) == f = [m \in Node |-> IF t.kid[s][m] = NULL THEN m ELSE f[t.kid[s][m]]]
           W == [m \in Node |-> CHOOSE v : First(o, D[m], v)]
           e == CHOOSE f : Eq(f)
<1>1. EdgeFrom(t, s, n) = e[n]
  BY DEF EdgeFrom
<1>2. o \in Sides /\ t \in Trees /\ Downs(t, D) /\ Ordered(t, D)
  BY DEF Sides, Other, Shape
<1>3. \A m \in Node : \A z \in Sides : t.kid[z][m] # NULL =>
        t.kid[z][m] \in Node /\ t.kid[z][m] \in D[m] \ {m}
  BY KidFacts
<1>4. \A m \in Node : D[m] \in SUBSET Node
  BY <1>2 DEF Downs, Ext
<1>5. \A m \in Node : \E v : First(o, D[m], v)
  <2> DEFINE B == {m \in Node : ~\E v : First(o, D[m], v)}
  <2> SUFFICES ASSUME B # {} PROVE FALSE
    OBVIOUS
  <2>1. B \in SUBSET Node
    OBVIOUS
  <2> HIDE DEF B
  <2>2. PICK m \in B : \A x \in D[m] \ {m} : x \notin B
    BY <1>2, <2>1, Lowest
  <2>3. m \in Node /\ ~\E v : First(o, D[m], v)
    BY <2>2 DEF B
  <2>4. t.kid[s][m] # NULL
    BY <2>3, EdgeStep
  <2>5. t.kid[s][m] \in Node /\ t.kid[s][m] \notin B
    BY <1>3, <2>2, <2>3, <2>4
  <2>6. PICK v : First(o, D[t.kid[s][m]], v)
    BY <2>5 DEF B
  <2> QED
    BY <2>3, <2>4, <2>6, EdgeStep
<1>6. \A m \in Node : First(o, D[m], W[m])
  BY <1>5
<1>7. Eq(W)
  <2>1. ASSUME NEW m \in Node PROVE W[m] = IF t.kid[s][m] = NULL THEN m ELSE W[t.kid[s][m]]
    <3> DEFINE w == IF t.kid[s][m] = NULL THEN m ELSE W[t.kid[s][m]]
    <3> HIDE DEF W
    <3>1. First(o, D[m], w)
      BY <1>3, <1>6, EdgeStep
    <3>2. o \in Sides /\ D[m] \subseteq Node /\ First(o, D[m], W[m])
      BY <1>2, <1>4, <1>6
    <3> HIDE DEF w
    <3>3. W[m] = w
      BY ONLY <3>1, <3>2, FirstUnique
    <3> QED
      BY ONLY <3>3 DEF w
  <2>2. W = [m \in Node |-> W[m]]
    OBVIOUS
  <2> HIDE DEF W
  <2> QED
    BY ONLY <2>1, <2>2
<1>8. Eq(e)
  <2> HIDE DEF Eq, W
  <2> QED
    BY <1>7
<1>9. \A m \in Node : First(o, D[m], e[m])
  <2> DEFINE B == {m \in Node : ~First(o, D[m], e[m])}
  <2> SUFFICES ASSUME B # {} PROVE FALSE
    OBVIOUS
  <2>1. B \in SUBSET Node
    OBVIOUS
  <2>2. \A m \in Node : e[m] = IF t.kid[s][m] = NULL THEN m ELSE e[t.kid[s][m]]
    <3> HIDE DEF e
    <3> QED
      BY <1>8
  <2> HIDE DEF B, e
  <2>3. PICK m \in B : \A x \in D[m] \ {m} : x \notin B
    BY <1>2, <2>1, Lowest
  <2>4. m \in Node /\ ~First(o, D[m], e[m])
    BY <2>3 DEF B
  <2>5. t.kid[s][m] # NULL
    BY <2>2, <2>4, EdgeStep
  <2>6. t.kid[s][m] \in Node /\ t.kid[s][m] \notin B
    BY <1>3, <2>3, <2>4, <2>5
  <2>7. First(o, D[t.kid[s][m]], e[t.kid[s][m]])
    BY <2>6 DEF B
  <2> QED
    BY <2>2, <2>4, <2>5, <2>7, EdgeStep
<1> HIDE DEF e
<1> QED
  BY <1>1, <1>9

\* What is outside a subtree is on the same side of all its nodes
LEMMA OutsideSame ==
  ASSUME NEW t, NEW D, Shape(t, D), NEW p \in D[t.root], NEW m \in D[p], NEW y \in D[t.root], y \notin D[p],
         NEW s \in Sides
  PROVE  Beside(s, y, p) <=> Beside(s, y, m)
<1> DEFINE B == {x \in Node : y \in D[x] /\ p \in D[x]}
<1>1. p \in Node /\ y \in Node /\ t.root \in Node /\ m \in Node /\ p \in D[p]
  <2>1. p \in Node /\ y \in Node /\ t.root \in Node /\ D[p] \subseteq D[t.root]
    BY InsideFacts
  <2>2. m \in D[t.root]
    BY <2>1
  <2> QED
    BY <2>1, <2>2, InsideFacts DEF Shape, Downs
<1>2. B \in SUBSET Node /\ B # {}
  BY <1>1
<1> HIDE DEF B
<1>3. PICK x \in B : \A z \in D[x] \ {x} : z \notin B
  BY <1>2, Lowest DEF Shape
<1>4. x \in Node /\ y \in D[x] /\ p \in D[x] /\ x # p
  BY <1>3 DEF B
<1>5. \A z \in D[x] : z = x \/ \E w \in Sides : z \in D[t.kid[w][x]]
  BY <1>4 DEF Shape, Downs, Sides, Other
<1>6. PICK w \in Sides : p \in D[t.kid[w][x]]
  BY <1>4, <1>5
<1>7. t.kid[w][x] # NULL
  BY <1>6 DEF Shape, Downs
<1>8. t.kid[w][x] \in Node /\ t.kid[w][x] \in D[x] /\ t.kid[w][x] # x
  BY <1>4, <1>7, KidFacts
<1>9. D[p] \subseteq D[t.kid[w][x]]
  BY <1>1, <1>6, <1>8 DEF Shape, Downs
<1>10. Beside(w, m, x) /\ Beside(w, p, x)
  BY <1>1, <1>4, <1>6, <1>9 DEF Shape, Ordered
<1>11. y \notin D[t.kid[w][x]]
  BY <1>1, <1>3, <1>6, <1>8 DEF B
<1>12. CASE y = x
  BY <1>1, <1>10, <1>12, KeyAssumption DEF Beside, Sides
<1>13. CASE y # x
  <2>1. PICK z \in Sides : y \in D[t.kid[z][x]]
    BY <1>4, <1>5, <1>13
  <2>2. z # w /\ Beside(z, y, x)
    BY <1>4, <1>11, <2>1 DEF Shape, Ordered
  <2> QED
    BY <1>1, <1>4, <1>10, <2>2, KeyAssumption DEF Beside, Sides
<1> QED
  BY <1>12, <1>13

\* The nodes on side s of all that is below m
Beyond(t, D, s, m) == {o \in D[t.root] \ D[m] : m \in D[t.root] /\ Beside(s, o, m)}

\* Up until m is on the other side: a step of the loop
LEMMA ClimbStep ==
  ASSUME NEW t, NEW D, Shape(t, D), NEW s \in Sides, NEW m \in Node, NEW p, p = t.parent[m]
  PROVE  /\ p = NULL => Beyond(t, D, s, m) = {}
         /\ p # NULL /\ t.kid[s][p] = m => Beyond(t, D, s, m) = Beyond(t, D, s, p)
         /\ p # NULL /\ t.kid[s][p] # m => First(s, Beyond(t, D, s, m), p)
<1> DEFINE o == Other(s)
<1>1. o \in Sides /\ NULL \notin Node /\ (\A z \in Sides : z = s \/ z = o)
  BY KeyAssumption DEF Sides, Other
<1>2. CASE p = NULL
  <2>p. ParentOf(t, D, m)
    BY OneParent
  <2>1. m \in D[t.root] => m = t.root
    BY <1>2, <2>p DEF ParentOf
  <2>2. ASSUME NEW x \in Beyond(t, D, s, m) PROVE FALSE
    BY ONLY <2>1, <2>2 DEF Beyond
  <2> QED
    BY <1>2, <2>2
<1>3. CASE p # NULL
  <2>1. /\ p \in Node /\ SideOf(t, p, m) \in Sides /\ t.kid[SideOf(t, p, m)][p] = m /\ m \in D[p]
        /\ D[m] \subseteq D[p] /\ p \notin D[m] /\ m \in D[t.root] /\ p \in D[t.root]
    BY <1>3, ParentFacts
  <2>2. \A x \in D[t.root] : x \in Node
    BY InsideFacts
  <2>3. \A x \in D[t.root] \ D[p] : Beside(s, x, p) <=> Beside(s, x, m)
    BY <2>1, OutsideSame
  <2>4. D[p] = {p} \cup D[t.kid[s][p]] \cup D[t.kid[o][p]]
    BY <2>1 DEF Shape, Downs
  <2>5. /\ \A x \in D[t.kid[s][p]] : Beside(s, x, p)
        /\ \A x \in D[t.kid[o][p]] : Beside(o, x, p)
        /\ D[t.kid[s][p]] \subseteq Node /\ D[t.kid[o][p]] \subseteq Node
    <3>1. D[t.kid[s][p]] \subseteq Node /\ D[t.kid[o][p]] \subseteq Node
      BY <1>1, <2>1, KidFacts
    <3> QED
      BY <1>1, <2>1, <3>1 DEF Shape, Ordered
  <2>6. m \in D[m]
    BY DEF Shape, Downs
  <2>7. CASE t.kid[s][p] = m
    <3>1. ASSUME NEW x \in D[p], x \notin D[m] PROVE ~Beside(s, x, m)
      <4>1. x = p \/ x \in D[t.kid[o][p]]
        BY <2>4, <2>7, <3>1
      <4>2. Beside(s, m, p)
        BY <2>5, <2>6, <2>7
      <4>3. CASE x = p
        BY <2>1, <4>2, <4>3, KeyAssumption DEF Beside
      <4>4. CASE x \in D[t.kid[o][p]]
        <5>1. Beside(o, x, p) /\ x \in Node
          BY <2>5, <4>4
        <5> QED
          BY <2>1, <4>2, <5>1, KeyAssumption DEF Beside, Other, Sides
      <4> QED
        BY <4>1, <4>3, <4>4
    <3>2. Beyond(t, D, s, m) = Beyond(t, D, s, p)
      BY <2>1, <2>3, <3>1 DEF Beyond
    <3> QED
      BY <1>3, <2>7, <3>2
  <2>8. CASE t.kid[s][p] # m
    <3>1. t.kid[o][p] = m
      BY <1>1, <2>1, <2>8
    <3>2. Beside(s, p, m)
      BY <2>1, <2>5, <2>6, <3>1, BesideOrder
    <3>3. ASSUME NEW x \in D[t.root] \ D[m], Beside(s, x, m) PROVE x = p \/ Beside(s, x, p)
      <4>1. CASE x \in D[p]
        BY <2>4, <2>5, <3>1, <3>3, <4>1
      <4>2. CASE x \notin D[p]
        BY <2>3, <3>3, <4>2
      <4> QED
        BY <4>1, <4>2
    <3>4. First(s, Beyond(t, D, s, m), p)
      BY <1>3, <2>1, <3>2, <3>3 DEF First, Beyond
    <3> QED
      BY <1>3, <2>8, <3>4
  <2> QED
    BY <2>7, <2>8
<1> QED
  BY <1>2, <1>3

\* The loop of RB_NEXT up: the first of the nodes beyond
LEMMA ClimbFirst ==
  ASSUME NEW t, NEW D, Shape(t, D), NEW s \in Sides, NEW n \in Node
  PROVE  First(s, Beyond(t, D, s, n), Climb(t, s, n))
<1> DEFINE A(m) == Beyond(t, D, s, m)
           Rule(f, m) == IF t.parent[m] = NULL THEN NULL
                         ELSE IF t.kid[s][t.parent[m]] = m THEN f[t.parent[m]] ELSE t.parent[m]
           Eq(f) == f = [m \in Node |-> Rule(f, m)]
           W == [m \in Node |-> CHOOSE v : First(s, A(m), v)]
           e == CHOOSE f : Eq(f)
<1>1. Climb(t, s, n) = e[n]
  BY DEF Climb
<1>2. t \in Trees /\ Downs(t, D) /\ Ordered(t, D)
  BY DEF Shape
<1>3. \A m \in Node : t.parent[m] # NULL => /\ t.parent[m] \in Node /\ m \in D[t.parent[m]]
                                            /\ t.parent[m] # m
  BY ParentFacts
<1>4. \A m \in Node : A(m) \in SUBSET Node
  BY InsideFacts DEF Beyond
<1>r. ASSUME NEW f, NEW m \in Node,
             t.parent[m] # NULL => First(s, A(t.parent[m]), f[t.parent[m]])
      PROVE  First(s, A(m), Rule(f, m))
  <2> DEFINE p == t.parent[m]
  <2>1. CASE p = NULL
    BY <2>1, ClimbStep DEF First
  <2>2. CASE p # NULL /\ t.kid[s][p] = m
    <3>1. A(m) = A(p)
      BY <2>2, ClimbStep
    <3> QED
      BY <1>r, <2>2, <3>1
  <2>3. CASE p # NULL /\ t.kid[s][p] # m
    BY <2>3, ClimbStep
  <2> QED
    BY <2>1, <2>2, <2>3
<1> HIDE DEF Rule, A
<1>5. \A m \in Node : \E v : First(s, A(m), v)
  <2> DEFINE B == {m \in Node : ~\E v : First(s, A(m), v)}
  <2> SUFFICES ASSUME B # {} PROVE FALSE
    OBVIOUS
  <2>1. B \in SUBSET Node
    OBVIOUS
  <2> HIDE DEF B
  <2>2. PICK m \in B : \A x \in B : m \in D[x] => x = m
    BY <1>2, <2>1, Highest
  <2>3. m \in Node /\ ~\E v : First(s, A(m), v)
    BY <2>2 DEF B
  <2>4. t.parent[m] # NULL => \E v : First(s, A(t.parent[m]), v)
    BY <1>3, <2>2, <2>3 DEF B
  <2>5. PICK v : t.parent[m] # NULL => First(s, A(t.parent[m]), v)
    BY <2>4
  <2> DEFINE f == [x \in Node |-> v]
  <2>6. t.parent[m] # NULL => First(s, A(t.parent[m]), f[t.parent[m]])
    BY <1>3, <2>3, <2>5
  <2> HIDE DEF f
  <2>7. First(s, A(m), Rule(f, m))
    BY <1>r, <2>3, <2>6
  <2> QED
    BY <2>3, <2>7
<1>6. \A m \in Node : First(s, A(m), W[m])
  BY <1>5
<1>7. Eq(W)
  <2>1. ASSUME NEW m \in Node PROVE W[m] = Rule(W, m)
    <3> HIDE DEF W
    <3>1. First(s, A(m), Rule(W, m))
      BY <1>r, <1>3, <1>6
    <3> QED
      BY <1>4, <1>6, <3>1, FirstUnique
  <2>2. W = [m \in Node |-> W[m]]
    OBVIOUS
  <2> HIDE DEF W
  <2> QED
    BY <2>1, <2>2
<1>8. Eq(e)
  <2> HIDE DEF Eq, W
  <2> QED
    BY <1>7
<1>9. \A m \in Node : First(s, A(m), e[m])
  <2> DEFINE B == {m \in Node : ~First(s, A(m), e[m])}
  <2> SUFFICES ASSUME B # {} PROVE FALSE
    OBVIOUS
  <2>1. B \in SUBSET Node
    OBVIOUS
  <2>2. \A m \in Node : e[m] = Rule(e, m)
    <3> HIDE DEF e
    <3> QED
      BY <1>8
  <2> HIDE DEF B, e
  <2>3. PICK m \in B : \A x \in B : m \in D[x] => x = m
    BY <1>2, <2>1, Highest
  <2>4. m \in Node /\ ~First(s, A(m), e[m])
    BY <2>3 DEF B
  <2>5. t.parent[m] # NULL => First(s, A(t.parent[m]), e[t.parent[m]])
    BY <1>3, <2>3, <2>4 DEF B
  <2>6. First(s, A(m), Rule(e, m))
    BY <1>r, <2>4, <2>5
  <2> QED
    BY <2>2, <2>4, <2>6
<1> HIDE DEF e
<1> QED
  BY <1>1, <1>9 DEF A

\* The nodes from m down whose keys are not below k
NotBelow(D, k, m) == {o \in D[m] : k <= Key[o]}

\* The search down for the first key not below k: a step of the recursion
LEMMA NFindStep ==
  ASSUME NEW t, NEW D, Shape(t, D), NEW k \in Int, NEW m \in Node
  PROVE  LET l == t.kid["left"][m]
             r == t.kid["right"][m]
         IN  /\ k < Key[m] => \A v : First("right", NotBelow(D, k, l), v) =>
                                First("right", NotBelow(D, k, m), IF v = NULL THEN m ELSE v)
             /\ k > Key[m] => NotBelow(D, k, m) = NotBelow(D, k, r)
             /\ k = Key[m] => First("right", NotBelow(D, k, m), m)
<1> DEFINE l == t.kid["left"][m]
           r == t.kid["right"][m]
           N(x) == NotBelow(D, k, x)
<1>1. "left" \in Sides /\ "right" \in Sides /\ Other("left") = "right" /\ NULL \notin Node
  BY KeyAssumption DEF Sides, Other
<1>2. D[m] = {m} \cup D[l] \cup D[r] /\ D[l] \subseteq Node /\ D[r] \subseteq Node
  <2>1. D[m] = {m} \cup D[l] \cup D[r]
    BY <1>1 DEF Shape, Downs
  <2> QED
    BY <1>1, <2>1, KidFacts
<1>3. (\A x \in D[l] : Key[x] < Key[m]) /\ (\A x \in D[r] : Key[m] < Key[x])
  BY <1>1 DEF Shape, Ordered, Beside
<1>4. \A x \in Node : Key[x] \in Int
  BY KeyAssumption
<1> HIDE DEF l, r
<1>5. ASSUME k < Key[m], NEW v, First("right", N(l), v)
      PROVE  First("right", N(m), IF v = NULL THEN m ELSE v)
  <2>1. m \in N(m) /\ (\A x \in N(m) : x = m \/ x \in N(l) \/ x \in D[r])
    BY <1>2, <1>4, <1>5 DEF NotBelow
  <2>2. CASE v = NULL
    BY <1>1, <1>3, <1>5, <2>1, <2>2 DEF First, Beside
  <2>3. CASE v # NULL
    <3>1. v \in N(l) /\ (\A x \in N(l) : x = v \/ Beside("right", x, v))
      BY <1>5, <2>3 DEF First
    <3>2. v \in N(m) /\ v \in D[l] /\ v \in Node
      BY <1>2, <3>1 DEF NotBelow
    <3>3. \A x \in N(m) : x = v \/ Beside("right", x, v)
      BY <1>2, <1>3, <1>4, <2>1, <3>1, <3>2 DEF Beside
    <3> QED
      BY <2>3, <3>2, <3>3 DEF First
  <2> QED
    BY <2>2, <2>3
<1>6. k > Key[m] => N(m) = N(r)
  BY <1>2, <1>3, <1>4 DEF NotBelow
<1>7. k = Key[m] => First("right", N(m), m)
  <2> SUFFICES ASSUME k = Key[m] PROVE First("right", N(m), m)
    OBVIOUS
  <2>1. m \in N(m) /\ \A x \in N(m) : x = m \/ x \in D[r]
    BY <1>2, <1>3, <1>4 DEF NotBelow
  <2> QED
    BY <1>1, <1>3, <2>1 DEF First, Beside
<1> QED
  BY <1>5, <1>6, <1>7 DEF l, r

\* RB_NFIND finds the first of the keys not below
LEMMA NFindFirst ==
  ASSUME NEW t, NEW D, Shape(t, D), NEW k \in Int
  PROVE  First("right", NotBelow(D, k, t.root), NFind(t, k))
<1> DEFINE A(m) == NotBelow(D, k, m)
           L(m) == t.kid["left"][m]
           R(m) == t.kid["right"][m]
           Rule(f, m) == IF m = NULL THEN NULL
                         ELSE IF k < Key[m] THEN IF f[L(m)] = NULL THEN m ELSE f[L(m)]
                         ELSE IF k > Key[m] THEN f[R(m)] ELSE m
           Eq(f) == f = [m \in Ext |-> Rule(f, m)]
           W == [m \in Ext |-> CHOOSE v : First("right", A(m), v)]
           e == CHOOSE f : Eq(f)
<1>1. NFind(t, k) = e[t.root]
  BY DEF NFind, Ext
<1>2. t \in Trees /\ Downs(t, D) /\ Ordered(t, D) /\ t.root \in Ext /\ "right" \in Sides
  BY DEF Shape, Trees, Sides
<1>3. \A m \in Node : L(m) \in Ext /\ R(m) \in Ext /\ (L(m) # NULL => L(m) \in Node /\ L(m) \in D[m] \ {m})
                      /\ (R(m) # NULL => R(m) \in Node /\ R(m) \in D[m] \ {m})
  BY KidFacts DEF Sides
<1>4. \A m \in Ext : A(m) \in SUBSET Node
  BY <1>2 DEF NotBelow, Downs
<1>n. First("right", A(NULL), NULL) /\ NULL \in Ext /\ NULL \notin Node
  BY <1>2, KeyAssumption DEF NotBelow, Downs, First, Ext
<1>r. ASSUME NEW f, NEW m \in Node, First("right", A(L(m)), f[L(m)]), First("right", A(R(m)), f[R(m)])
      PROVE  First("right", A(m), Rule(f, m))
  <2>0. m # NULL /\ Key[m] \in Int
    BY <1>n, KeyAssumption
  <2>1. CASE k < Key[m]
    BY <1>r, <2>0, <2>1, NFindStep
  <2>2. CASE k > Key[m]
    <3>1. A(m) = A(R(m))
      BY <2>2, NFindStep
    <3>2. Rule(f, m) = f[R(m)]
      BY <2>0, <2>2
    <3> QED
      BY <1>r, <3>1, <3>2
  <2>3. CASE k = Key[m]
    BY <2>0, <2>3, NFindStep
  <2> QED
    BY <2>0, <2>1, <2>2, <2>3
<1>s. \A f : Rule(f, NULL) = NULL
  OBVIOUS
<1> HIDE DEF Rule, A, L, R
<1>5. \A m \in Ext : \E v : First("right", A(m), v)
  <2> DEFINE B == {m \in Node : ~\E v : First("right", A(m), v)}
  <2> SUFFICES ASSUME B # {} PROVE FALSE
    BY <1>n DEF Ext
  <2>1. B \in SUBSET Node
    OBVIOUS
  <2> HIDE DEF B
  <2>2. PICK m \in B : \A x \in D[m] \ {m} : x \notin B
    BY <1>2, <2>1, Lowest
  <2>3. m \in Node /\ ~\E v : First("right", A(m), v)
    BY <2>2 DEF B
  <2>4. (\E v : First("right", A(L(m)), v)) /\ (\E v : First("right", A(R(m)), v))
    BY <1>3, <1>n, <2>2, <2>3 DEF B
  <2> DEFINE f == [x \in Ext |-> CHOOSE v : First("right", A(x), v)]
  <2>5. First("right", A(L(m)), f[L(m)]) /\ First("right", A(R(m)), f[R(m)])
    BY <1>3, <2>3, <2>4
  <2> HIDE DEF f
  <2>6. First("right", A(m), Rule(f, m))
    BY <1>r, <2>3, <2>5
  <2> QED
    BY <2>3, <2>6
<1>6. \A m \in Ext : First("right", A(m), W[m])
  BY <1>5
<1>7. Eq(W)
  <2>0. W = [m \in Ext |-> W[m]]
    OBVIOUS
  <2> HIDE DEF W
  <2>1. ASSUME NEW m \in Ext PROVE W[m] = Rule(W, m)
    <3>1. First("right", A(m), Rule(W, m))
      <4>1. CASE m = NULL
        BY <1>n, <1>s, <4>1
      <4>2. CASE m \in Node
        BY <1>r, <1>3, <1>6, <4>2
      <4> QED
        BY <4>1, <4>2 DEF Ext
    <3> QED
      BY <1>2, <1>4, <1>6, <3>1, FirstUnique
  <2> QED
    BY <2>0, <2>1
<1>8. Eq(e)
  <2> HIDE DEF Eq, W
  <2> QED
    BY <1>7
<1>9. \A m \in Ext : First("right", A(m), e[m])
  <2>0. \A m \in Ext : e[m] = Rule(e, m)
    <3> HIDE DEF e
    <3> QED
      BY <1>8
  <2> HIDE DEF e
  <2> DEFINE B == {m \in Node : ~First("right", A(m), e[m])}
  <2>n. First("right", A(NULL), e[NULL])
    BY <1>n, <1>s, <2>0
  <2> SUFFICES ASSUME B # {} PROVE FALSE
    BY <2>n DEF Ext
  <2>1. B \in SUBSET Node
    OBVIOUS
  <2> HIDE DEF B
  <2>3. PICK m \in B : \A x \in D[m] \ {m} : x \notin B
    BY <1>2, <2>1, Lowest
  <2>4. m \in Node /\ m \in Ext /\ ~First("right", A(m), e[m])
    BY <2>3 DEF B, Ext
  <2>5. First("right", A(L(m)), e[L(m)]) /\ First("right", A(R(m)), e[R(m)])
    BY <1>3, <2>n, <2>3, <2>4 DEF B
  <2>6. First("right", A(m), Rule(e, m))
    BY <1>r, <2>4, <2>5
  <2> QED
    BY <2>0, <2>4, <2>6
<1> HIDE DEF e
<1> QED
  BY <1>1, <1>2, <1>9 DEF A

\* RB_NEXT and RB_PREV go to the nearest node on their side
LEMMA NeighbourFirst ==
  ASSUME NEW t, NEW D, Shape(t, D), NEW s \in Sides, NEW n \in D[t.root]
  PROVE  First(s, {x \in D[t.root] : Beside(s, x, n)}, Neighbour(t, s, n))
<1> DEFINE o == Other(s)
           k == t.kid[s][n]
           l == t.kid[o][n]
           m == Neighbour(t, s, n)
           N == {x \in D[t.root] : Beside(s, x, n)}
<1>1. n \in Node /\ o \in Sides /\ Other(o) = s /\ D[n] \subseteq D[t.root] /\ NULL \notin Node
  BY InsideFacts, KeyAssumption DEF Sides, Other
<1>2. /\ D[n] = {n} \cup D[k] \cup D[l] /\ D[k] \subseteq Node /\ D[l] \subseteq Node
      /\ (\A x \in D[k] : Beside(s, x, n)) /\ (\A x \in D[l] : Beside(o, x, n)) /\ D[NULL] = {}
  <2>1. D[n] = {n} \cup D[k] \cup D[l] /\ D[NULL] = {}
    BY <1>1 DEF Shape, Downs
  <2>2. (\A x \in D[k] : Beside(s, x, n)) /\ (\A x \in D[l] : Beside(o, x, n))
    BY <1>1 DEF Shape, Ordered
  <2> QED
    BY <1>1, <2>1, <2>2, KidFacts
<1>3. ASSUME NEW x \in D[n], Beside(s, x, n) PROVE x \in D[k]
  <2>1. ~Beside(s, n, n)
    BY <1>1, BesideOrder
  <2>2. x \in D[l] => ~Beside(s, x, n)
    BY <1>1, <1>2, KeyAssumption DEF Beside, Other, Sides
  <2> QED
    BY <1>2, <1>3, <2>1, <2>2
<1>4. CASE k # NULL
  <2>1. m = EdgeFrom(t, o, k) /\ k \in Node /\ k \in D[k]
    BY <1>1, <1>4, KidFacts DEF Neighbour
  <2>2. First(s, D[k], m)
    BY <1>1, <2>1, EdgeFirst
  <2> HIDE DEF m
  <2>3. m # NULL /\ m \in D[k] /\ m \in D[n] /\ (\A x \in D[k] : x = m \/ Beside(s, x, m))
    BY <1>2, <2>1, <2>2 DEF First
  <2>4. m \in N
    BY <1>1, <1>2, <2>3
  <2>5. ASSUME NEW x \in N PROVE x = m \/ Beside(s, x, m)
    <3>1. CASE x \in D[n]
      BY <1>3, <2>3, <3>1
    <3>2. CASE x \notin D[n]
      BY <2>3, <3>2, OutsideSame
    <3> QED
      BY <3>1, <3>2
  <2>6. First(s, N, m)
    BY <2>3, <2>4, <2>5 DEF First
  <2> QED
    BY <2>6 DEF m
<1>5. CASE k = NULL
  <2>1. m = Climb(t, s, n)
    BY <1>5 DEF Neighbour
  <2>2. N = Beyond(t, D, s, n)
    BY <1>2, <1>3, <1>5 DEF Beyond
  <2>3. First(s, Beyond(t, D, s, n), Climb(t, s, n))
    BY <1>1, ClimbFirst
  <2> QED
    BY <2>1, <2>2, <2>3
<1> QED
  BY <1>4, <1>5

LEMMA InvIterates == RBInv => Iterates
<1> SUFFICES ASSUME RBInv PROVE Iterates
  OBVIOUS
<1> DEFINE D == Subtrees(tree)
           IsNext(n, m) ==
             Key[n] < Key[m] /\ \A o \in Contents : Key[n] < Key[o] => Key[m] <= Key[o]
           NoneBeyond(s, n) ==
             \A o \in Contents : IF s = "right" THEN Key[o] <= Key[n] ELSE Key[o] >= Key[n]
<1>1. Shape(tree, D) /\ Contents = D[tree.root]
  BY DEF RBInv, TreeOK, Contents, Under
<1>2. Contents \subseteq Node /\ NULL \notin Node /\ \A n \in Node : Key[n] \in Int
  BY <1>1, InsideFacts, KeyAssumption
<1> HIDE DEF D
<1>3. ASSUME NEW n \in Contents, NEW s \in Sides, NEW m, m = Neighbour(tree, s, n)
      PROVE  IF m = NULL THEN NoneBeyond(s, n)
             ELSE m \in Contents /\ IF s = "right" THEN IsNext(n, m) ELSE IsNext(m, n)
  <2>1. First(s, {x \in Contents : Beside(s, x, n)}, m)
    BY <1>1, <1>3, NeighbourFirst
  <2>2. CASE m = NULL
    <3>1. \A x \in Contents : ~Beside(s, x, n)
      BY <2>1, <2>2 DEF First
    <3> QED
      BY <1>2, <2>2, <3>1 DEF Beside, Sides
  <2>3. CASE m # NULL
    <3>1. m \in Contents /\ Beside(s, m, n) /\ \A x \in Contents : Beside(s, x, n) => x = m \/ Beside(s, x, m)
      BY <2>1, <2>3 DEF First
    <3>2. CASE s = "right"
      BY <1>2, <2>3, <3>1, <3>2 DEF Beside
    <3>3. CASE s = "left"
      BY <1>2, <2>3, <3>1, <3>3 DEF Beside
    <3> QED
      BY <3>2, <3>3 DEF Sides
  <2> QED
    BY <2>2, <2>3
<1>4. ASSUME NEW k \in {Key[n] : n \in Node}, NEW m, m = NFind(tree, k)
      PROVE  IF m = NULL THEN \A o \in Contents : Key[o] < k
             ELSE /\ m \in Contents /\ k <= Key[m]
                  /\ \A o \in Contents : k <= Key[o] => Key[m] <= Key[o]
  <2>1. k \in Int
    BY <1>2
  <2>2. First("right", NotBelow(D, k, tree.root), m)
    BY <1>1, <1>4, <2>1, NFindFirst
  <2>3. CASE m = NULL
    BY <1>1, <1>2, <2>1, <2>2, <2>3 DEF First, NotBelow
  <2>4. CASE m # NULL
    BY <1>1, <1>2, <2>1, <2>2, <2>4 DEF First, NotBelow, Beside
  <2> QED
    BY <2>3, <2>4
<1> QED
  BY <1>3, <1>4 DEF Iterates

\* RB_NEXT and RB_PREV go to the nearest key on their side and RB_NFIND to the
\* first that is not below the one given, in every tree that RB_INSERT and
\* RB_REMOVE can leave.
THEOREM AlwaysIterates == Spec => []Iterates
  BY Invariance, InvIterates, PTL
=============================================================================
