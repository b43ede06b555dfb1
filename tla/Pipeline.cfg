SPECIFICATION ScopesSpec
CONSTANTS
  Handles = {1, 2}
  Plans <- AllPlans
  Names <- MCNames
  Hanging <- MCHanging
  MaxFanOut = 2
  MaxStages = 3
  EventCapacity = 9
CHECK_DEADLOCK FALSE
INVARIANTS
  TypeOK
  StructuredJoin
  PermitsConserved
  NoFailureSwallowed
  RootCauseKept
  OutputsMerged
  CancelledOnce
  AttemptsBounded
  EvidenceOfSuccess
  CircuitConsistent
PROPERTIES
  ImplementsScope
