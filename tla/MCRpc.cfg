CONSTANTS
  r1 = r1
  r2 = r2
  Requests <- MCRequests
  Size <- MCSize
  m_max_rbuffer_size = 4
  MaxLosses = 2

SPECIFICATION FairSpec

INVARIANT NothingLeftBehind
PROPERTY CallsComplete
PROPERTY EveryCallEnds
CHECK_DEADLOCK FALSE
