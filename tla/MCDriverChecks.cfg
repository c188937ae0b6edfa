SPECIFICATION FairSpec
CONSTANTS
  Prompts <- MCPrompts
  Solutions <- MCSolutions
  KnownBugs <- MCKnownBugs
  MaxLog = 3
  Cases = 2
INVARIANTS
  TypeInv
  ValidIsEarned
  RunsWhatIsStored
  JudgedByItsRun
PROPERTIES
  ImplementsPipeline
  EndsOrTests
