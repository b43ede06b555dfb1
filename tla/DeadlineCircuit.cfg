SPECIFICATION Spec
CONSTANTS
  Handles = {h1, h2}
  Plans <- DeadlinePlans
  Names <- MCNames
  Hanging <- MCHanging
  MaxFanOut = 1
  MaxStages = 1
  EventCapacity = 1
CHECK_DEADLOCK FALSE
INVARIANTS
  TerminalFailuresOpen
