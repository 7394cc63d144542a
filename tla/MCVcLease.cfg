SPECIFICATION FairSpec
CONSTANTS
  Horizon = 1
  Grace = 0
  Unparseable = Unparseable
  None = None
INVARIANTS
  TypeOK
  FenceHolds
PROPERTIES
  UnleasedStops
