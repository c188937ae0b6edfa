SPECIFICATION FairSpec
CONSTANTS
  MaxIterations = 1
  MaxRounds = 1
  Iterative = FALSE
  ImproveStrategy = "BA"
  DisableValidation = FALSE
  PossibleVerdicts <- AllVerdicts
  FatalSolutions = TRUE
PROPERTIES
  Terminates
