SPECIFICATION Spec
CONSTANTS
  r1 = r1
  r2 = r2
  p1 = p1
  t1 = t1
  t2 = t2
  t3 = t3
  Runs = {r1, r2}
  Program <- AllMain
  MaxCrashes = 1
  Preps = {p1}
  Targets = {t1, t2, t3}
  Configured = {t1, t2}
  ArgLists <- Lists
  SearchTarget = t1
INVARIANTS
  TypeInv
  UndisturbedRunIsWell
  MissingOnlyIfCut
  DoneIsPrepared
