SPECIFICATION UpgradeSpec
CONSTANTS
  Renderers = {p1, p2}
  MaxTime = 2
  SoakSamples = 2
  SoakSpacing = 1
  NoValue = NoValue
  Locks <- MCLocks
  Records <- SkewRecords
  Evidences <- MCEvidences
INVARIANTS
  ApprovedSkewPasses
