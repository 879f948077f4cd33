SPECIFICATION Spec
CONSTANTS
  SeqNoTH = 3
  MaxSeqNo = 7
  ISN = 6
  PacketLimit = 3
  SndBufSize = 3
  SendLens = {1}
  SendModes = {"blocking"}
  MaxEnqueued = 3
  MaxTx = 1
CHECK_DEADLOCK FALSE
INVARIANT NoExit
