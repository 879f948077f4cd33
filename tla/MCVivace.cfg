SPECIFICATION VSpec
CONSTANTS
  InitialRate = 1140
  MinSendingRate = 500
  MinRateChange = 500
  PrimaryGroups = 3
  ScavengerGroups = 2
  UtilityTag = "Hybrid"
  HybridRate = 1000
  RttGains = {1, 8}
  RawChanges = {0, 700, 5000}
  MaxDecisions = 7
CHECK_DEADLOCK FALSE
INVARIANTS
  CentralRateKept
  GroupsComparable
  RateFloor
PROPERTY ModesRefined
