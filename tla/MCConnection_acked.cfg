SPECIFICATION CSpec
CONSTANTS
  SeqNoTH = 4
  MaxSeqNo = 9
  ISN = 1
  PeerISN = 1
  PacketLimit = 3
  SndBufSize = 2
  SendLens = {1}
  SendModes = {"blocking"}
  MaxEnqueued = 3
  MaxPkts = 3
  MaxTx = 1
  RcvBufSize = 3
  PktLen = 1
  RecvModes = {"blocking"}
  ReadLens = {1, 2}
CHECK_DEADLOCK FALSE
INVARIANT AckedIsReceived
