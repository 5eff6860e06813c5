SPECIFICATION FairSpec
CONSTANTS
  Absent = Absent
  Unparsable = Unparsable
  NoFile = NoFile
  IntRange = 1048576
  Startup = main
  Loads = {main, r1, r2}
  Files = {f1, f2}
  Texts <- TwoTexts
  MaxEdits = 1
INVARIANTS
  TypeOK
  LastReloadWins
  CurrentIsComplete
  ReloadApplies
PROPERTIES
  EveryRequestEnds
  EveryReloadAnswered
CHECK_DEADLOCK FALSE
