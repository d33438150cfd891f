SPECIFICATION PairSpec
CONSTANTS
  Segment <- MCSegment
  Starred <- MCStarred
  Arrowed <- MCArrowed
  MaxLen = 3
INVARIANTS DeliveredIsDispatched DispatchedIsSubscribed RoutersAgree
CHECK_DEADLOCK FALSE
