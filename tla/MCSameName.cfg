SPECIFICATION Spec
CONSTANTS
  Absent = Absent
  Generated = Generated
  NotBuilt = NotBuilt
  Unreadable = Unreadable
  Stores <- SameName
INVARIANT
  OwnCache
CHECK_DEADLOCK FALSE
