\* Switching and I/O: every call but the timed sleep.
SPECIFICATION Spec
CONSTANTS
  Co = {c1, c2, c3, c4}
  Fd = {f1, f2, f3}
  NIL = NIL
  IntMax = 3000
  Msecs = {1}
  Instants = {0, 3000000}
  Api = {"create", "sleep0", "renice", "detach", "poll", "socket"}
  Misuse = {}
  Signals = TRUE
SYMMETRY Symmetry
INVARIANTS
  OnePlace NothingLeft RegistrationMatchesWaiters AssertsHold
  ContextKept EofNeverQueued PassBounded
