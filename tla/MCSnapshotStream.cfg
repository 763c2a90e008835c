\* Four events of any kind, a cooldown of two ticks.
SPECIFICATION Spec
CONSTANTS
  MaxEvents = 4
  HumanCooldown = 2
INVARIANTS
  StillOfItsEvent
PROPERTIES
  StillDeliveredIfWanted
