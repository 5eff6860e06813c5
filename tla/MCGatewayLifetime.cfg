SPECIFICATION Spec
CONSTANTS
  Absent = Absent
  Generated = Generated
  NoMsg = NoMsg
  Requests = {r1}
  Routes <- FewRoutes
  Messages <- FewMessages
  StoreOutcomes = {"allow"}
  MaxChunks = 1
INVARIANT
  DownstreamOutlivesClient
CHECK_DEADLOCK FALSE
