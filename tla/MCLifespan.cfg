SPECIFICATION FairSpec
CONSTANTS
  owner1 = owner1
  binding1 = binding1
  hourly = hourly
  daily = daily
  typo = typo
  Owners = {owner1}
  Bindings = {binding1}
  Crons = {hourly, daily}
  Bad = typo
  None = None
  Unset = Unset
  Absent = Absent
  Requests = {1, 2, 3}
  Faults = {"db", "bot", "crash"}
INVARIANTS TypeOK JobsMirrorRows BotsMirrorBindings NoStrayBot
PROPERTY ScheduleTakesEffect
CHECK_DEADLOCK FALSE
