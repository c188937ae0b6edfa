SPECIFICATION Spec
CONSTANTS
  TokenLimit = 3
  Generated <- GeneratedSets
  Answers <- AnswersToFive
INVARIANTS
  TypeInv
  GeneratedIsAsked
  SolutionIsFromAnswer
