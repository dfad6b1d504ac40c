SPECIFICATION Spec
CONSTANTS
  Letters <- MCLetters
  Numerals <- MCNumerals
  kPlatformMaxFrames = 6
  kBufSize = 8
  OtherParsers <- MCOtherParsers
  CommandLines <- MCCommandLines
  QueueSize = 3
  kWidth = 3
  kSteps = 5
  kEtaHistory = 2
  IsDebug = TRUE
  Stacks <- MCStacks
  FaultArgs = 1
INVARIANTS
  TypeOK
  ParsedAgrees
  ResultAgrees
  RefsAlive
PROPERTIES
  FaultReported
