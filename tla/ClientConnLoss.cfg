CONSTANTS
  x1 = x1
  MaxConn = 2
  MaxGen = 3
  MaxBreaks = 2
  Sub = {x1}
  Scenario <- Steady
SPECIFICATION Spec
INVARIANT LossIsHandled
CHECK_DEADLOCK FALSE
