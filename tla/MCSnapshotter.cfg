\* Four requests: a detection, a press in its place, and two more.
SPECIFICATION FairSpec
CONSTANT
  MaxRequests = 4
INVARIANTS
  InFlightIsLatest
  PressNotReplaced
  OutcomesExplained
PROPERTIES
  ImplementsStillSlot
  SlotFreed
CHECK_DEADLOCK FALSE
