SPECIFICATION FairSpec
CONSTANTS
  Runs = {r1}
  Execs = {e1, e2}
  MsgTokens = {1}
  Caps = {0}
  RecursionLimit = 1
  MaxSegments = 3
  Overlap = TRUE
  Faults = {"node", "send", "delete"}
INVARIANTS NoOrphanRunning
PROPERTIES EveryRunSettles
CHECK_DEADLOCK FALSE
