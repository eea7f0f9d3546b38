CONSTANTS
  a1 = a1
  a2 = a2
  w1 = w1
  w2 = w2
  c1 = c1
  p1 = p1
  p2 = p2
  NoProp = NoProp
  Adders <- MCAdders
  Workers <- MCWorkers
  Controllers <- MCControllers
  Props <- MCProps
  MaxTaskCount = 2
  MaxTasks <- MCMaxTasks
  CallersWait = TRUE

SPECIFICATION FairSpec

INVARIANT TypeOK
INVARIANT NothingLostOrDoubled
INVARIANT PopAssertions
INVARIANT OneThreadPerProp
INVARIANT IdleWorkerHasNothingToDo
PROPERTY TasksRunInOrder
PROPERTY EveryTaskRuns
PROPERTY AddTaskReturns
