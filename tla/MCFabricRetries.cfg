CONSTANTS
  Requests = {r1, r2}
  Names = {"a", "b"}
  None = None
  Servers = {"s1", "s2"}
  Keys = {"k1", "k2"}
  Scenarios <- FabricScenarios
  InitialOutputs <- Outputs
SPECIFICATION Spec
INVARIANT
  RetriesMeanErrors
CHECK_DEADLOCK FALSE
