\* A listener of main shared with another process, and one of a coroutine.
SPECIFICATION FairSocket
CONSTANTS
  Co = {c1, c2}
  Fd = {l1, l2, s1}
  NIL = NIL
  IntMax = 3000
  Msecs = {}
  Instants = {0}
  Api = {"poll", "socket"}
  Misuse = {}
  Signals = FALSE
  Listeners = {l1, l2}
  Streams = {s1}
  Dgrams = {}
  FromMain = {l1}
  Calls <- Serving
  Lengths = {2}
  Cap = 1
  Errnos = {}
  OtherProcess = TRUE
INVARIANTS
  NoSpuriousFailure ThreadNeverBlocks
PROPERTY
  CallsReturn
