SPECIFICATION Spec
CONSTANTS
  Runs = {r1, r2}
  Nobody = Nobody
CHECK_DEADLOCK FALSE
INVARIANTS
  FailLeavesDocument
