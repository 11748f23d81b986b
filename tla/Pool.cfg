CONSTANTS
  w1 = w1
  w2 = w2
  c1 = c1
  c2 = c2
  Workers <- TwoWorkers
  Clients <- TwoClients
  Priorities = {0, 3}
  MaxTasks = 3
SPECIFICATION FairSpec
INVARIANTS TasksAccounted StartsInOrder IdleMeansDone DrainedOnExit
CHECK_DEADLOCK FALSE
PROPERTIES EveryTaskRuns StopCompletes WaitIdleReturns
