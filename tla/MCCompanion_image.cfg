SPECIFICATION CompanionSpec
CONSTANTS
  MaxEvents = 2
  MaxRequests = 2
  QueueCap = 1
  MaxEventAge = 1
  ReconnectPoll = 1
  PublishTimeout = 1
  DrainTimeout = 2
  MaxCallbacks = 1
  SnapshotKinds = {"press", "human"}
INVARIANTS
  ImageAfterEvent
CHECK_DEADLOCK FALSE
