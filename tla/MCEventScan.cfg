\* Blocks of up to three lines, a cooldown of two ticks.
SPECIFICATION Spec
CONSTANTS
  Parts <- MCParts
  MaxIVSData = 3
  HumanCooldown = 2
INVARIANTS
  TypeOK
  PressReported
  HumanReported
  CooldownFromReport
PROPERTIES
  NothingInvented
