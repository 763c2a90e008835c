\* The shortest interval that is accepted, as long as an attempt may take.
SPECIFICATION Spec
CONSTANTS
  Interval = 4
  Timeout = 4
INVARIANTS
  OneWarningPerOutage
PROPERTIES
  SentEveryInterval
  AttemptsCounted
