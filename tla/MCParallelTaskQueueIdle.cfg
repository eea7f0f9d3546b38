CONSTANTS
  a1 = a1
  w1 = w1
  Adders <- MCAdders
  Workers <- MCWorkers
  m_max_task_count = 2

SPECIFICATION QueueSpec
INVARIANT IdleThreadTakesTask
