\* A connection that comes back between Disconnect's check and the disconnect.
SPECIFICATION Spec
CONSTANTS
  MaxConnects = 1
  MaxDrops = 1
  MaxStarts = 1
INVARIANT
  LeavesOffline
CHECK_DEADLOCK FALSE
