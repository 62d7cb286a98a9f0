SPECIFICATION FairSpec
CONSTANTS
  agent1 = agent1
  agent2 = agent2
  binding1 = binding1
  binding2 = binding2
  run1 = run1
  run2 = run2
  Agents = {agent1, agent2}
  Bindings = {binding1, binding2}
  First = {agent1, binding1}
  Runs = {run1, run2}
  None = None
  MaxClicks = 3
  Faults = {"call"}
INVARIANTS ConsoleIsEntitled ListsSettle TranscriptSettles BusyIsInFlight
PROPERTY ButtonsReturn
CHECK_DEADLOCK FALSE
