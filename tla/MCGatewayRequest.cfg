SPECIFICATION FairSpec
CONSTANTS
  Absent = Absent
  Generated = Generated
  NoMsg = NoMsg
  Requests = {r1}
  Routes <- AllRoutes
  Messages <- AllMessages
  StoreOutcomes = {"allow", "deny", "throw"}
  MaxChunks = 2
INVARIANTS
  TypeOK
  BlockedNeverProxied
  ProxiedOnlyIfVerified
  ResponseWellFormed
  CompleteMeansWhole
  DanglesOnlyAfterError
  ForwardedFaithfully
  SinglePolicyRejectsOnlyBadTokens
PROPERTIES
  RefinesProxy
  ClientsFreed
  RequestsEnd
CHECK_DEADLOCK FALSE
