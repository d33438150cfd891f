SPECIFICATION FairSpec
CONSTANTS
  m1 = m1
  m2 = m2
  m3 = m3
  m4 = m4
  Call = {m1, m2, m3, m4}
  Size <- MCSize
  MaxQueuedBytes = 4
  OutCap = 2
  MaxEncoded = 3
INVARIANTS ByteAccounting BudgetRespected AcceptedExactlyOnce
PROPERTIES ImplementsOutQueue AcceptedIsWritten 
CHECK_DEADLOCK FALSE
