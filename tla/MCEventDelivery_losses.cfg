\* What shutdown leaves uncounted.
SPECIFICATION Spec
CONSTANTS
  MaxEvents = 2
  QueueCap = 1
  MaxEventAge = 1
  ReconnectPoll = 1
  PublishTimeout = 1
  DrainTimeout = 2
  MaxCallbacks = 1
INVARIANT
  EveryLossCounted
