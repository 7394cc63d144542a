SPECIFICATION Spec
CONSTANTS
  Repository = Repository
  Environment = Environment
  Runs = {r1, r2}
  MaxCommits = 2
  Trees <- MCTrees
  FirstTrees = {"staged"}
  Content <- MCContent
  Dispatched <- MCDispatched
  RerunModes = {"teardown"}
SYMMETRY Symmetric
CHECK_DEADLOCK FALSE
INVARIANTS
  TypeOK
  ResumeAccepted
PROPERTIES
  OnlyPreparedDestroyed
  NoStaleConfig
  OnlyReviewedChanges
