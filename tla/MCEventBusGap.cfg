\* One execution, one client that connects while it runs, no fault.
SPECIFICATION Spec
CONSTANTS
  Emitters = {e1}
  Sessions = {s1}
  MaxEvents = 2
  Faults = {}
INVARIANT FullTimeline
CHECK_DEADLOCK FALSE
