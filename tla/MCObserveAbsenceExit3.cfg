CONSTANTS
  MinEpochs = 2
  MaxWait = 1
  MaxHead = 6
  MaxLive = 1
SPECIFICATION Spec
INVARIANTS
  ExitThreeMeansTrouble
