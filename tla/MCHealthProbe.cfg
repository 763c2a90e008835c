\* Three requests at a time, a timeout of two ticks, results kept for as long.
SPECIFICATION FairSpec
CONSTANTS
  Request = {r1, r2, r3}
  ProbeTimeout = 2
  ProbeTTL = 2
PROPERTIES
  OkayIsFresh
  CameraSpared
  RecoveryShows
  EveryRequestAnswered
