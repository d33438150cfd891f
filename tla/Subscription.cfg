CONSTANTS
  u1 = u1
  u2 = u2
  Caller = {u1, u2}
  MaxMsg = 5
  Cap = 2
  Deactivation = {"restore", "close"}
SPECIFICATION FairSpec
INVARIANTS MessagesAccounted CallbackInOrder UnsubscribeQuiesces
PROPERTIES UnsubscribeReturns AcceptedIsProcessed
CHECK_DEADLOCK FALSE
