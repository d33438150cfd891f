CONSTANTS
  u1 = u1
  Caller = {u1}
  MaxMsg = 2
  Cap = 2
  ChanCap = 2
  Deactivation = {}
SPECIFICATION ChanSpec
INVARIANT CancelledIsHarmless
CHECK_DEADLOCK FALSE
