SPECIFICATION FairSpec
CONSTANTS
  Solutions = 2
  MaxAttempts = 2
  MaxFaults = 1
INVARIANTS
  TypeInv
  OwnVerdict
  UnsettledOnlyIfCut
  NothingPilesUp
PROPERTIES
  TaskEnds
