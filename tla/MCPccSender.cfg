SPECIFICATION PSpec
CONSTANTS
  MinReliableRtt = 2
  GroupSizes = {1, 2}
  MaxPackets = 9
  MaxOpen = 3
CHECK_DEADLOCK FALSE
INVARIANTS
  FatesCounted
  NoIntervalStuck
  NeverThrottled
  AssertionsHold
