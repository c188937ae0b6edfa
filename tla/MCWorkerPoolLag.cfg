SPECIFICATION Spec
CONSTANTS
  MaxCalls = 1
  MaxTasks = 2
  CpuNo = 2
  PipeCap = 1
  Sema = 1
INVARIANTS
  EveryTaskEvaluated
