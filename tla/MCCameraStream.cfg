\* A heartbeat every tick, three missed ones, callbacks of up to two ticks.
SPECIFICATION FairSpec
CONSTANTS
  IdleTimeout = 3
  Heartbeat = 1
  HandleTime = 2
  MaxInterval = 3
INVARIANTS
  NoticedInTime
  OnlyConsecutiveFailuresGrow
PROPERTIES
  TalkingNotCut
  FailuresCounted
  Reconnects
  ReturnsOnCancel
