SPECIFICATION FairSpec
CONSTANTS
  Handles = {h1}
  Plans <- LivenessPlans
  Names <- MCNames
  Hanging <- MCHanging
  MaxFanOut = 1
  MaxStages = 2
  EventCapacity = 1
CHECK_DEADLOCK FALSE
PROPERTIES
  WaitReturns
  DetachedReaped
