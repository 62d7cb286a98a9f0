SPECIFICATION FairSpec
CONSTANTS
  wf1 = wf1
  wf2 = wf2
  Workflows = {wf1, wf2}
  First = {wf1}
  None = None
  MaxClicks = 3
  MaxRuns = 2
  MaxEvents = 2
  MaxExecs = 2
  Faults = {"call", "socket"}
INVARIANTS TypeOK OneSocket VerdictOnScreen PanelSettles SavesStayHome ReplyReachesAsker
PROPERTY RunButtonReturns
CHECK_DEADLOCK FALSE
