SPECIFICATION Spec
CONSTANTS
  Absent = Absent
  Invalid = Invalid
  Configs <- PrefixConfig
  Hosts = {"h1", "h2", "h3"}
  Paths <- PathSet
  Methods = {"GET", "POST"}
  Language <- Meaning
INVARIANT
  HostNamesTarget
CHECK_DEADLOCK FALSE
