\* The creator passes the address of a local.
SPECIFICATION Spec
CONSTANTS
  Co = {c1, c2}
  NIL = NIL
  Word = {a, b}
  Depth = 2
  ByAddress = TRUE
INVARIANT
  ArgumentSurvives
