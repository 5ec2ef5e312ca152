CONSTANTS
  MaxEvents = 5
  WorldSize = 2
  Configs <- MCConfigs
SPECIFICATION FairSpec
CHECK_DEADLOCK FALSE
INVARIANTS
  EveryEventOnce
  RaisesOnlyWhenTooFew
PROPERTIES
  UpdateEnds
