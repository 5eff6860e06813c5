SPECIFICATION LoaderFairSpec
CONSTANTS
  Absent = Absent
  Unparsable = Unparsable
  NoFile = NoFile
  IntRange = 1048576
  Loads = {l1}
  Files = {f1, f2}
  Texts <- AllTexts
  MaxEdits = 1
INVARIANTS
  NoFileLost
  QuietLoadIsSnapshot
  LoaderTypeOK
  EmptySectionIsDefault
  DataPlaneCanRun
PROPERTIES
  LoadEnds
CHECK_DEADLOCK FALSE
