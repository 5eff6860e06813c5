SPECIFICATION FairSpec
CONSTANTS
  Absent = Absent
  Generated = Generated
  NotBuilt = NotBuilt
  Unreadable = Unreadable
  Stores <- AllStores
PROPERTY
  ReloadTakesEffect
CHECK_DEADLOCK FALSE
