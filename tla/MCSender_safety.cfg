SPECIFICATION Spec
CONSTANTS
  SeqNoTH = 3
  MaxSeqNo = 7
  ISN = 1
  PacketLimit = 2
  SndBufSize = 2
  SendLens = {1, 2}
  SendModes = {"blocking", "timed", "nonblocking"}
  MaxEnqueued = 3
  MaxTx = 2
CHECK_DEADLOCK FALSE
INVARIANTS
  TypeOK
  NoPacketForgotten
  NoStaleTimer
  PayloadAlive
  PccToldOnce
  BytesCovered
  NoExit
