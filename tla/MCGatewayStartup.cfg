SPECIFICATION StartupFairSpec
CONSTANTS
  Absent = Absent
  Generated = Generated
  NotBuilt = NotBuilt
  Unreadable = Unreadable
  Stores <- AllStores
  Uris <- AllUris
  Text <- AllText
  Answers <- SomeAnswers
  Blank = Blank
  NoBody = NoBody
  MaxRead = 3
INVARIANTS
  TypeOK
  EveryJwtPolicyAdds
  ChainsGuarded
  LastOfNameCached
  FetchTypeOK
  NoLeak
  BodyFaithful
  AcceptedExactly
PROPERTIES
  ShutsDown
  StartsUp
CHECK_DEADLOCK FALSE
