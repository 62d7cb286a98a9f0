\* Two executions of one run, no client, no fault.
SPECIFICATION Spec
CONSTANTS
  Emitters = {e1, e2}
  Sessions = {s1}
  MaxEvents = 3
  Faults = {}
INVARIANT SeqsUnique
CHECK_DEADLOCK FALSE
