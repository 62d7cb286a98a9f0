SPECIFICATION FairSpec
CONSTANTS
  Runs = {r1}
  Execs = {e1}
  MsgTokens = {0, 1, 2}
  Caps = {0, 1}
  RecursionLimit = 2
  MaxSegments = 3
  Overlap = FALSE
  Faults = {"node", "db", "send", "crash", "delete"}
INVARIANTS TypeOK BudgetEnforced OvershootBounded WaitingIsResumable AccountsAgree MonitorAgrees
PROPERTIES EveryExecutionReturns ImplementsLifecycle
CHECK_DEADLOCK FALSE
