CONSTANTS
  x1 = x1
  MaxConn = 2
  MaxGen = 3
  MaxBreaks = 1
  Sub = {x1}
  Scenario <- Mixed
SPECIFICATION FairSpec
INVARIANT OldConnectionsClosed
PROPERTIES CloseStopsLoops 
CHECK_DEADLOCK FALSE
