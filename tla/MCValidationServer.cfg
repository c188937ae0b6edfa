SPECIFICATION FairSpec
CONSTANTS
  c1 = c1
  c2 = c2
  Clients <- TwoClients
  MaxPosts = 2
  MaxRestarts = 1
  TasksMayFail = TRUE
INVARIANTS
  TypeInv
  ToldTheTruth
PROPERTIES
  ImplementsTaskService
  PostedIsHandled
