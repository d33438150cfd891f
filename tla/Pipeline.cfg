CONSTANTS
  stopper = stopper
  Caller = {stopper}
  MaxMsg = 2
  Cap = 1
  ChanCap = 1
  Deactivation = {"restore", "close"}
  TimestampLen = 2
  PrefixLen = 2
  PacketSizes = {0, 1}
  MaxPackets = 2
  StrayLens = {1}
  Signalled = {{"relay"}, {"forwarder"}}
SPECIFICATION PipelineSpec
INVARIANTS  ForwarderAccounted 
PROPERTIES  ReceiverStops
CHECK_DEADLOCK FALSE
