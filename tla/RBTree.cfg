\* Every sequence of calls from the empty and from a perfect black tree, on
\* ten nodes, two of them with the same key.
SPECIFICATION MCSpec
CONSTANTS
  NULL = NULL
  Node <- MCNode
  Key <- MCKey
  Probe <- MCProbe
INVARIANTS
  SearchTree Balanced NoNullFollowed Iterates
PROPERTY
  ImplementsOrderedSet
