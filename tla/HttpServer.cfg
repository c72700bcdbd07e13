\* Two connections, two descriptors; a buffer of three characters.  The system
\* may stop: the process can end.
SPECIFICATION FairSpec
CHECK_DEADLOCK FALSE
CONSTANTS
  Conn = {c1, c2}
  MaxFds = 2
  Pieces = 2
  Size = 4
  MaxBytes = 3
INVARIANTS
  GetLineKept PageSent
PROPERTY
  Finishes
