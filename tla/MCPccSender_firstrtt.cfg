SPECIFICATION PSpec
CONSTANTS
  MinReliableRtt = 2
  GroupSizes = {1, 2}
  MaxPackets = 4
  MaxOpen = 3
CHECK_DEADLOCK FALSE
INVARIANT SeenRttIsValid
