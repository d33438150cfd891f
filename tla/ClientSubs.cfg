CONSTANTS
  None = None
  Restorer = Restorer
  Scenario <- CloseOrReconnect
  c1 = c1
  c2 = c2
  x1 = x1
  x2 = x2
  Caller = {c1, c2}
  Subject = {x1, x2}
  subject <- Own
  MaxRetries = 3
SPECIFICATION FairSpec
INVARIANTS TypeOK SuccessIsServed PendingHasOwner ListedHasOwner
PROPERTIES SubscribeReturns RestoreEnds
CHECK_DEADLOCK FALSE
