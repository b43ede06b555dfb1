SPECIFICATION LowerSpec
CONSTANTS
  Bodies <- NoBodies
  Sources <- BlockSources
  Limits <- MCLimits
  Width = 3
CHECK_DEADLOCK FALSE
INVARIANT RunsAsWritten
