\* Liveness of the loop over endless time; deadlines off the millisecond, past
\* a second and beyond the range of int.
SPECIFICATION EndlessSpec
CONSTANTS
  Co = {c1, c2}
  Fd = {f1, f2}
  NIL = NIL
  IntMax = 3000
  Msecs = {1, 4001}
  Instants = {0, 700, 4001000}
  Api = {"create", "sleep0", "poll", "sleep"}
  Misuse = {}
  Signals = FALSE
INVARIANT
  EpollNeverOversleeps
PROPERTIES
  TimersNotStolen ReadyRuns IoServed SleeperWakes
