SPECIFICATION RFairSpec
CONSTANTS
  SeqNoTH = 6
  MaxSeqNo = 13
  PeerISN = 11
  RcvBufSize = 4
  PktLen = 2
  RecvModes = {"blocking", "timed", "nonblocking"}
  ReadLens = {1, 2, 3}
  MaxPkts = 5
CHECK_DEADLOCK FALSE
INVARIANTS
  DeliveredInOrder
  SlotsConsistent
  ReaderSeesData
PROPERTIES
  ReceivedIsRead
  ReleaseEnds
