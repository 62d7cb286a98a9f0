\* A new workflow and the templates, three edits, any saves and reopenings.
SPECIFICATION Spec
CONSTANTS
  start = start
  end = end
  agent1 = agent1
  agent2 = agent2
  human = human
  route = route
  yes = yes
  no = no
  maybe = maybe
  Starts = {start}
  Ends = {end}
  Workers = {agent1, agent2}
  Plain = {human}
  Conditions = {route}
  Labels = {yes, no, maybe}
  None = None
  MaxEdits = 3
  Opened <- MCOpened
INVARIANTS TypeOK BranchesHaveEdges RoundTrip
PROPERTIES DeadDefaultIsOld
CHECK_DEADLOCK FALSE
