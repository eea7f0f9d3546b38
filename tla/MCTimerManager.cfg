CONSTANTS
  u1 = u1
  u2 = u2
  Users <- MCUsers
  Owners <- MCOwners
  Millisecond = 2
  m_space_millsecond = 2
  Durations <- MCDurations
  Intervals <- MCIntervals
  LoopCounts <- MCLoopCounts
  MaxTimers = 2
  MaxTime = 4
  MaxStarts = 2
  MaxRounds = 1

SPECIFICATION FairSpec

INVARIANT MapsAgree
INVARIANT ArmedForFront
 
PROPERTY DueFires
CHECK_DEADLOCK FALSE
