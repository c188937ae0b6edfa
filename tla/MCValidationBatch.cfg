SPECIFICATION Spec
CONSTANTS
  p1 = p1
  p2 = p2
  MaxQueries = 2
  MaxSolutions = 3
  Projects <- TwoProjects
  ProjectPara = 1
INVARIANTS
  TypeInv
  OutputIsPaired
  OnlyLossesShow
PROPERTIES
  OtherBatchesUntouched
