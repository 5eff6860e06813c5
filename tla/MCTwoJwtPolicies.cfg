SPECIFICATION Spec
CONSTANTS
  Absent = Absent
  Generated = Generated
  NoMsg = NoMsg
  Requests = {r1}
  Routes <- TwoPolicyRoutes
  Messages <- FewMessages
  StoreOutcomes = {"allow"}
  MaxChunks = 1
INVARIANT
  RejectsOnlyBadTokens
CHECK_DEADLOCK FALSE
