\* Three events of either kind, channels of one slot, limits of one tick.
SPECIFICATION Spec
CONSTANTS
  MaxEvents = 3
  QueueCap = 1
  MaxEventAge = 1
  ReconnectPoll = 1
  PublishTimeout = 1
  DrainTimeout = 2
  MaxCallbacks = 1
INVARIANTS
  Accounting
  HeldBounded
  PressOvertakenOnce
  NoLostWakeup
  PublishedReachedBroker
PROPERTIES
  NoLateSend
  ShutdownInTime
  ImplementsLossyFifo
