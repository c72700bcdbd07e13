\* Two processes that share a counter, two connections that come and go.  The
\* system may stop when a process ends, with the connections it has.
SPECIFICATION FairSpec
CHECK_DEADLOCK FALSE
CONSTANTS
  Proc = {1, 2}
  Conn = {c1, c2}
  Slots = {0, 1}
  slot <- OneSlot
  MaxFds <- Limits
  MaxRequests = 2
  LISTENER = LISTENER
  NONE = NONE
INVARIANTS
  BatchFresh CountIsConnectionsLessAnswers
PROPERTIES
  QueuedIsAccepted Handled
