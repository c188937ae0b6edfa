SPECIFICATION FairSpec
CONSTANTS
  MaxIterations = 3
  MaxRounds = 2
  Iterative = TRUE
  ImproveStrategy = "ABA"
  DisableValidation = FALSE
  PossibleVerdicts <- AllVerdicts
  FatalSolutions = FALSE
INVARIANTS
  TypeInv
  HistoryIsChain
  AcceptAreLeaves
  JudgedAsValidated
PROPERTIES
  ImplementsSearch
  VerdictsAreFinal
  Terminates
