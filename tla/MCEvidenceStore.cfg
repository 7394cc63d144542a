CONSTANTS
  c1 = c1
  c2 = c2
  g1 = g1
  None = None
  Collectors <- MCCollectors
  Gates <- MCGates
SPECIFICATION Spec
INVARIANTS TypeOK FailClosed PassOnlyAccepted NoResurrection
PROPERTIES OrphanLockStays
CHECK_DEADLOCK FALSE
