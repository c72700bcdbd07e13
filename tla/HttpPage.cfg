\* cat against its comment, for pages of two pieces.  The system may stop: the
\* process can end.
SPECIFICATION Spec
CHECK_DEADLOCK FALSE
CONSTANTS
  Conn = {c1}
  MaxFds = 2
  Pieces = 2
  Size = 4
  MaxBytes = 3
INVARIANT
  WholePageSent
