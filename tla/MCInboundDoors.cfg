\* Two customer bots of one workflow.
SPECIFICATION Spec
CONSTANTS
  w1 = w1
  w2 = w2
  Chats = {c1, c2}
  Workflows = {w1}
  Demo = w1
  Bindings <- TwoDoors
  Chosen <- Nobody
  DefaultBot = FALSE
  Console = FALSE
  SendFaults = FALSE
  Tasks = {t1, t2}
  MaxRuns = 1
  None = None
SYMMETRY InboundSymmetry
INVARIANT OneBotOneTalk
CHECK_DEADLOCK FALSE
