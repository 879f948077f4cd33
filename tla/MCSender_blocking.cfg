SPECIFICATION FairSpec
CONSTANTS
  SeqNoTH = 2
  MaxSeqNo = 5
  ISN = 1
  PacketLimit = 3
  SndBufSize = 3
  SendLens = {1}
  SendModes = {"blocking"}
  MaxEnqueued = 4
  MaxTx = 1
CHECK_DEADLOCK FALSE
PROPERTY SendReturns
