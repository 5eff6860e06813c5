SPECIFICATION FetchSpec
CONSTANTS
  Uris <- AllUris
  Text <- AllText
  Answers <- SomeAnswers
  Blank = Blank
  NoBody = NoBody
  MaxRead = 3
INVARIANT
  BrokenGetThrows
CHECK_DEADLOCK FALSE
