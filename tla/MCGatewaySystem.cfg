SPECIFICATION SystemSpec
CONSTANTS
  Absent = Absent
  Unparsable = Unparsable
  NoFile = NoFile
  NotBuilt = NotBuilt
  Unreadable = Unreadable
  Generated = Generated
  IntRange = 1048576
  Startup = main
  Loads = {main, r1}
  Files = {f1, f2, f3}
  Texts <- SomeTexts
  MaxEdits = 1
SYMMETRY FileSymmetry
INVARIANT
  ListedPolicyGuards
PROPERTY
  ImplementsProcess
CHECK_DEADLOCK FALSE
