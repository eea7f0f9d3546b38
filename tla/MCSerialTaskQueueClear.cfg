CONSTANTS
  a1 = a1
  a2 = a2
  w1 = w1
  w2 = w2
  c1 = c1
  p1 = p1
  p2 = p2
  NoProp = NoProp
  Adders <- MCOneAdder
  Workers <- MCWorkers
  Controllers <- MCControllers
  Props <- MCProps
  MaxTaskCount = 1
  MaxTasks <- MCMaxTasks
  CallersWait = FALSE

SPECIFICATION Spec

INVARIANT OneThreadPerProp
