SPECIFICATION StructSpec
CONSTANTS
  SeqNoTH = 7
  MaxSeqNo = 15
  LossSize = 6
  LossOrigin = 13
  LossWindow = 6
  UnitsPerQueue = 3
  GrowNum = 6
  GrowDen = 10
  MaxInUse = 3
  MaxDrift = 1
  BufUnit = 3
  AddSizes = {1, 2, 3, 4}
  MaxMsgs = 9
  MaxOverrun = 1
  Senders = {a, b, c}
  Gaps = {0, 2}
  MaxClock = 4
  PollIds = {e1, e2}
  EventSets = {{"in", "out"}}
  MaxWaiting = 2
SYMMETRY Symmetry
CHECK_DEADLOCK FALSE
INVARIANTS
  OffsetIsDistance
  CompareIsOrder
  LengthIsCount
  ListsExact
  PoolSound
  BlocksExact
  ScheduleConsistent
  ReportsExact
