\* Two processes, each stream connecting twice, two lost broker connections.
SPECIFICATION FairSpec
CONSTANTS
  MaxConnects = 2
  MaxDrops = 2
  MaxStarts = 2
INVARIANTS
  Converged
  DeadIsOffline
PROPERTIES
  SettlesInSteps
  RetainedFollows
CHECK_DEADLOCK FALSE
