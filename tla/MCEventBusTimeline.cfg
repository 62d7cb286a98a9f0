\* One emitter, two clients, every fault.
SPECIFICATION FairSpec
CONSTANTS
  Emitters = {e1}
  Sessions = {s1, s2}
  MaxEvents = 3
  Faults = {"db", "gone", "crash"}
INVARIANTS TypeOK ReceivedInOrder
PROPERTIES ImplementsTimeline LiveDelivered
CHECK_DEADLOCK FALSE
