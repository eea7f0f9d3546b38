CONSTANTS
  a1 = a1
  a2 = a2
  w1 = w1
  w2 = w2
  c1 = c1
  c2 = c2
  p1 = p1
  p2 = p2
  NoProp = NoProp
  Adders <- MCAdders
  Workers <- MCWorkers
  Controllers <- MCOneController
  Props <- MCOneProp
  MaxTaskCount = 1
  MaxTasks <- MCOneTask
  Calls <- MCResizeCalls
  ThreadNums <- MCThreadNums
  MaxVersion = 2

SPECIFICATION FairPoolSpec

PROPERTY OldThreadsEnd
