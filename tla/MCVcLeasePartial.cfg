SPECIFICATION Spec
CONSTANTS
  Horizon = 1
  Grace = 0
  Unparseable = Unparseable
  None = None
INVARIANTS
  IncompleteFenceStaysFailed
