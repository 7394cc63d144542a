SPECIFICATION Spec
CONSTANTS
  RetryMax = 2
  Horizon = 4
  LeaseKeys = {k1, k2}
  Digests <- MCDigests
  BoundDigest = "bound"
  Submissions <- MCSubmissions
  Soaks <- MCSoaks
  None = None
SYMMETRY MCSymmetry
CHECK_DEADLOCK FALSE
INVARIANTS
  TypeOK
  HistoryClosed
  RetryContainable
PROPERTIES
  EvidenceAppendOnly
  ImplementsHandover
