SPECIFICATION Spec
CONSTANTS
  Nodes <- MCNodes
  TempNodes <- MCTempNodes
  MaxFaults = 1
  kBufSize = 2
  UseAvx2 = TRUE
  kBlock = 4
  Source <- MCSource
  Backup <- MCBackup
  Samples <- MCSamples
  Texts <- MCTexts
  CodePoints <- MCCodePoints
  Sequences <- MCSequences
  DirectoryPaths <- MCDirectoryPaths
  TextPaths <- MCTextPaths
  Delimiters <- MCDelimiters
  NestSizes <- MCNestSizes
  MaxCalls <- MCMaxCalls
  MaxFiles = 2
  MaxTemps = 2
INVARIANTS
  TypeOK
  TempFilesAccounted
  TextsRecompose
  DecodesUtf8
  StreamLineInFile
PROPERTIES
  CompressKeepsData
  DirectoriesCreated
\* The program may stop calling at any time.
CHECK_DEADLOCK FALSE
