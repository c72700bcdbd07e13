\* Two processes that share a counter, two connections that come and go.  The
\* system may stop: a reset ends a process and with it the connections it has.
SPECIFICATION FairSpec
CHECK_DEADLOCK FALSE
CONSTANTS
  Proc = {1, 2}
  Conn = {c1, c2}
  Slots = {0, 1}
  slot <- OneSlot
  MaxFds <- Limits
  SERVER = SERVER
  NONE = NONE
INVARIANTS
  MutualExclusion EventsFresh CountExact
PROPERTIES
  QueuedIsAccepted RequestsServed
