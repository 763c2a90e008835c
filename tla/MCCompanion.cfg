\* Two events, a still of the first press, limits of a tick or less.
SPECIFICATION FairCompanionSpec
CONSTANTS
  MaxEvents = 2
  QueueCap = 1
  MaxEventAge = 0
  ReconnectPoll = 1
  PublishTimeout = 1
  DrainTimeout = 1
  MaxCallbacks = 1
  SnapshotKinds = {"press"}
  MaxRequests = 1
INVARIANT
  NothingLeftBehind
PROPERTIES
  ServiceStops
  EventsSettle
CHECK_DEADLOCK FALSE
