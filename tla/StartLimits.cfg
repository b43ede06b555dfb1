SPECIFICATION SandboxSpec
CONSTANTS
  Programs <- MCPrograms
  Artifacts <- MCArtifacts
  Policies <- MCPolicies
CHECK_DEADLOCK FALSE
INVARIANT RefusedGrowthTyped
