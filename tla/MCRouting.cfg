SPECIFICATION Spec
CONSTANTS
  Absent = Absent
  Invalid = Invalid
  Configs <- AllConfigs
  Hosts = {"h1", "h2", "h3"}
  Paths <- PathSet
  Methods = {"GET", "POST"}
  Language <- Meaning
INVARIANTS
  MostSpecificRule
  RightService
  HostReadsBack
  HostNamesKnownTarget
CHECK_DEADLOCK FALSE
