SPECIFICATION CFairSpec
CONSTANTS
  SeqNoTH = 3
  MaxSeqNo = 7
  ISN = 7
  PeerISN = 7
  PacketLimit = 2
  SndBufSize = 2
  SendLens = {2}
  SendModes = {"blocking"}
  MaxEnqueued = 2
  MaxPkts = 2
  MaxTx = 2
  RcvBufSize = 3
  PktLen = 1
  RecvModes = {"blocking"}
  ReadLens = {2}
CHECK_DEADLOCK FALSE
INVARIANT NothingLost
PROPERTIES
  StreamRefined
  StreamDelivered
  PccInformed
