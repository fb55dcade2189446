CONSTANTS
  Requests = {r1, r2}
  Names = {"a", "b"}
  None = None
  Servers = {"s1", "s2"}
  Keys = {"k1", "k2"}
  Scenarios <- AllScenarios
  InitialOutputs <- Outputs
SPECIFICATION Spec
INVARIANTS
  MwTypeOK
  GetFailsOnlyAfterDel
  ObjectsAllOrNothing
  StraysOnlyIfRebound
  LeaksOnlyFromFailuresAndSql
  SqlIsCommitted
  ConnectionIsWhole
  RepeatedOnlyAfterErrors
  SelectionIsRight
  AnswersReachTheirNames
  DoneMeansWritten
  
  SequentialRequestsAreIsolated
PROPERTIES
  CountersAreTickets
  HooksEnd
CHECK_DEADLOCK FALSE
