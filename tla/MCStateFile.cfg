SPECIFICATION Spec
CONSTANTS
  Runs = {r1, r2, r3}
  Nobody = Nobody
SYMMETRY MCSymmetry
CHECK_DEADLOCK FALSE
INVARIANTS
  TypeOK
  PassIsDurable
  OneWinnerPerVersion
  AppliedToWhatWasSeen
  RolledBackForGood
