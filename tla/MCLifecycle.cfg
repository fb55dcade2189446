SPECIFICATION FairSpec
CONSTANTS
  i1 = i1
  b1 = b1
  b2 = b2
  s1 = s1
  s2 = s2
  a1 = a1
  e1 = e1
  x1 = x1
  f1 = f1
  f2 = f2
  Zenroom = Zenroom
  Arguments = Arguments
  None = None
  Hooks <- MCHooks
  PhaseOf <- MCPhaseOf
CHECK_DEADLOCK FALSE
INVARIANTS
  TypeOK
  NoSilentFailure
  CleanReturn
  PhaseBarrier
  PhaseOrder
  FinishAfterZenroom
  ErrorIsAccurate
PROPERTIES
  CallSettles
  ImplementsContractCall
