SPECIFICATION Spec
CONSTANTS
  Handles = {h1}
  Plans <- StuckPlans
  Names <- MCNames
  Hanging <- MCHanging
  MaxFanOut = 2
  MaxStages = 2
  EventCapacity = 9
CHECK_DEADLOCK FALSE
INVARIANTS
  AnswerKeepsRootCause
