\* The asserts on the errno of the datagram calls.
SPECIFICATION SpecSocket
CONSTANTS
  Co = {c1}
  Fd = {s1, d1}
  NIL = NIL
  IntMax = 3000
  Msecs = {}
  Instants = {0}
  Api = {"poll", "socket"}
  Misuse = {}
  Signals = FALSE
  Listeners = {}
  Streams = {s1}
  Dgrams = {d1}
  FromMain = {}
  Calls <- Sending
  Lengths = {1, 3}
  Cap = 2
  Errnos = {"ECONNREFUSED"}
  OtherProcess = FALSE
SYMMETRY Symmetry
INVARIANT
  NoAbort
