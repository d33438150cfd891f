CONSTANTS
  Base = 3
  LengthBytes = 2
  SubjectBytes = 1
  MaxSubjectLen = 1
  MaxBodyLen = 5
  MaxSent = 2
  MaxBytes = 8
  Outgoing <- Messages
  Peers = {"library", "other"}
SPECIFICATION FairSpec
INVARIANTS ReceivedIsSent StreamInSync ParsersAgree
PROPERTY WrittenIsReceived
CHECK_DEADLOCK FALSE
