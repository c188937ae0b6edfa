SPECIFICATION FairSpec
CONSTANTS
  c1 = c1
  c2 = c2
  Clients <- TwoClients
  MaxPosts = 1
  MaxRestarts = 0
  TasksMayFail = FALSE
PROPERTIES
  WaitEnds
