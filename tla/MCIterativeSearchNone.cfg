SPECIFICATION Spec
CONSTANTS
  MaxIterations = 2
  MaxRounds = 1
  Iterative = TRUE
  ImproveStrategy = "BA"
  DisableValidation = FALSE
  PossibleVerdicts <- AllVerdicts
  FatalSolutions = FALSE
INVARIANTS
  NoneEndsTheImprovement
