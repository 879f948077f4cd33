SPECIFICATION KeepSpec
CONSTANTS
  ExpTermA = 1
  ExpTermB = 150
  SYNInterval = 5
  MinExpInt = 2
  DeadCount = 16
  DeadTime = 25
  QuietTime = 49
  MaxDelay = 1
  LossModes = {FALSE}
INVARIANT LivePeerKept
CHECK_DEADLOCK FALSE
