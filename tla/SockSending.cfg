\* Streams and datagrams, with resets, while timers wake the callers early.
SPECIFICATION SpecSocket
CONSTANTS
  Co = {c1}
  Fd = {s1, d1}
  NIL = NIL
  IntMax = 3000
  Msecs = {1}
  Instants = {0, 1000}
  Api = {"poll", "socket", "sleep"}
  Misuse = {}
  Signals = FALSE
  Listeners = {}
  Streams = {s1}
  Dgrams = {d1}
  FromMain = {}
  Calls <- Sending
  Lengths = {1, 3}
  Cap = 2
  Errnos = {"ECONNRESET", "ECONNREFUSED"}
  OtherProcess = FALSE
SYMMETRY Symmetry
INVARIANTS
  SendExact NoSpuriousFailure AbortsOnlyOnOtherErrors
