SPECIFICATION FairSpec
CONSTANTS
  Setup = {"a", "b", "c"}
  SetupsAtOnce = 1
  Daemon = {"d1", "d2"}
  AtOnce = 2
  MaxKill = 3
  None = "none"
INVARIANTS
  ConfigWhole
  RowsOpen
  ServingReachable
PROPERTIES
  StartServes
  StopEnds
CHECK_DEADLOCK FALSE
