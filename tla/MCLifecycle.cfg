SPECIFICATION LifeSpec
CONSTANTS
  MaxSocket = 3
  MaxApp = 2
  Ports = {80}
  Peers = {p1}
  BackLog = 1
  MaxUses = 1
  Clients = {"c1"}
  ConnectModes = {"blocking", "nonblocking"}
  QueueLimit = 1
  StoreLimit = 1
  MaxMinute = 1
  ExpTermA = 1
  ExpTermB = 1
  SYNInterval = 1
  MinExpInt = 2
  DeadCount = 4
  DeadTime = 7
  QuietTime = 14
  MaxDelay = 1
  LossModes = {TRUE, FALSE}
CHECK_DEADLOCK FALSE
INVARIANTS
  NoDangling
  OneConnectionPerPeer
  ConnectedAtBothEnds
  DeadOnlyAfterSilence
PROPERTIES
  ClosedIsFreed
  ConnectEnds
  SilentPeerDetected
