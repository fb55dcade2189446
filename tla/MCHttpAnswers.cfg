CONSTANTS
  Requests = {r1, r2}
  Names = {"a", "b"}
  None = None
  Servers = {"s1", "s2"}
  Keys = {"k1", "k2"}
  Scenarios <- HttpScenarios
  InitialOutputs <- Outputs
SPECIFICATION Spec
INVARIANT
  OnlyOwnAnswers
CHECK_DEADLOCK FALSE
