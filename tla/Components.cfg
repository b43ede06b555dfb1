SPECIFICATION Spec
CONSTANTS
  Replies <- MCReplies
  FrameCap = 1
  TokenCap = 1
  MaxEvent = 9
  Publishers = {"p1", "p2"}
  Package <- MCPackage
  Versions = {1}
  Nonces = {"n1", "n2"}
  Adders = {"a1", "a2", "a3"}
  Requirement <- MCRequirement
  Sessions <- MCSessions
  Adapters <- MCAdapters
  Supported <- MCSupported
  Routes <- MCRoutes
  Callers = {1, 2}
  Files = {1, 2}
  Packages = {"p"}
  SourceTexts = {"main", "invalid", "untyped"}
  MaxRevision = 2
  Requests <- MCRequests
  Programs <- MCPrograms
  Artifacts <- MCArtifacts
  Policies <- MCPolicies
  Functions <- MCFunctions
  Controls <- MCControls
  SourceLists <- MCSourceLists
  NoModule = 0
  Bodies <- MCBodies
  Sources <- MCSources
  Limits <- MCLimits
  Width = 3
CHECK_DEADLOCK FALSE
INVARIANTS
  TokensInOrder
  NoSilentTruncation
  OneTokenAfterCancel
  CallersAgree
  ReceiptHonoured
  AddsKept
  AnswersFresh
  ResolutionSound
  LoadedSatisfiesManifest
  BoundsExact
  RunContained
  TaskRunsAsWritten
  LinkedFaithfully
  VerifiedProgramsRun
  RunsAsWritten
  OwnedValuesDropped
PROPERTIES
  ReleasesImmutable
  SinkWakes
  InvocationEnds
