SPECIFICATION Spec
CONSTANTS
  kMaxLevel = 2
  kDefaultLevel = 1
  MaxTasks = 4
  MaxMsgs = 1
  Msg = {m1}
INVARIANTS
  QueuesMatchFlags
  CurrentIsOnCpu
PROPERTIES
  WaitingKeepsOrder
  ImplementsPromise
  EveryTopTaskRuns
