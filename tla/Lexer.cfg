SPECIFICATION FairSpec
CONSTANTS
  Sources <- AllSources
  Modes <- ModesOfAll
  MaxResets = 1
  MaxReread = 3
INVARIANTS
  TypeOK
  TokensInOrder
  GapsAreTrivia
  LongestTaken
  UnmistakableMatches
  UndocumentedReconstructs
PROPERTIES
  ReadTerminates
  StrictTerminates
CHECK_DEADLOCK FALSE
