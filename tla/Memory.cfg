\* Three coroutines with up to three words each, and two processes with up to
\* three readers each; an int has sixteen values.
SPECIFICATION SpecMemory
CONSTANTS
  Co = {c1, c2, c3}
  Elem = {c1, c2, c3}
  NIL = NIL
  HEAD = HEAD
  NULL = NULL
  Word = {a, b}
  Depth = 3
  ByAddress = FALSE
  Proc = {p1, p2}
  Half = 8
  MaxConn = 3
  Period = 3
  Seconds = {1, 9}
SYMMETRY Symmetry
INVARIANTS
  StackIntact Linked LastIsTail TotalExact
