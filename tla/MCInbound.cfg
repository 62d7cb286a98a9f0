\* Chats, an approver and the console, over the bots of two workflows; sends may fail.
SPECIFICATION Spec
CONSTANTS
  w1 = w1
  w2 = w2
  Chats = {c1, c2}
  Workflows = {w1, w2}
  Demo = w1
  Bindings <- TwoShops
  Chosen <- Nobody
  DefaultBot = TRUE
  Console = TRUE
  SendFaults = TRUE
  Tasks = {t1, t2}
  MaxRuns = 1
  None = None
SYMMETRY InboundSymmetry
INVARIANTS TypeOK NoCrossWire QuestionIsTied AnswersStayInside
PROPERTY OnlyTheTagLoses
CHECK_DEADLOCK FALSE
