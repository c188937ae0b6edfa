SPECIFICATION FairSpec
CONSTANTS
  MaxCalls = 2
  MaxTasks = 2
  CpuNo = 2
  PipeCap = 1
  Sema = 1
INVARIANTS
  TypeInv
  ReturnsWhatWasTaken
  WorkdirExclusive
  ServesItsOwnCall
  NeverStuck
PROPERTIES
  ImplementsTaskPool
  CallEnds
