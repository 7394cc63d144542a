SPECIFICATION WorkstationSpec
CONSTANTS
  Runs = {r1, r2}
  Instances = {i1, i2}
  Addresses = {a1, a2}
  Arns = {k1}
  None = None
  NoArn = None
  MaxSeals = 3
  Renderers = {p1, p2}
  MaxTime = 2
  SoakSamples = 2
  SoakSpacing = 1
  NoValue = NoValue
  Locks <- MCLocks
  Records <- MCRecords
  Evidences <- MCEvidences
SYMMETRY WorkstationSymmetry
CHECK_DEADLOCK FALSE
INVARIANTS
  TypeOK
  PairReal
  EnvelopeSound
  UpgradeTypeOK
  SnapshotsWhole
  StandbyFirst
PROPERTIES
  ProgressKept
