SPECIFICATION FairSpec
CONSTANTS
  Node = {n1, n2}
  NoNode = NoNode
  MaxConnections = 2
  MaxMessages = 1
  MaxFaults = 1
INVARIANTS TypeOK LatestOwns StationShown
PROPERTIES EndIsFinal StaleCloses
CHECK_DEADLOCK FALSE
