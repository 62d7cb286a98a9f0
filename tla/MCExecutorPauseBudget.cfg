SPECIFICATION Spec
CONSTANTS
  Runs = {r1}
  Execs = {e1}
  MsgTokens = {1}
  Caps = {1}
  RecursionLimit = 2
  MaxSegments = 2
  Overlap = FALSE
  Faults = {}
INVARIANTS CompletedWithinBudget
CHECK_DEADLOCK FALSE
