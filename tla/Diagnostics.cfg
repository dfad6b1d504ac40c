SPECIFICATION Spec
CONSTANTS
  Keys <- MCKeys
  Texts <- MCTexts
  kDefault = "en_us"
  Unlisted = "none"
  kMaxFallbacks = 4
  kMaxLineDistance = 3
  ResultSlots = {"init", "tokens", "parsed", "spare"}
  VoidSlots = {"init", "spare"}
  Sources <- MCSources
  VirtualFiles <- MCVirtualFiles
  FirstLabels <- MCFirstLabels
  Labels <- MCLabels
  PlainLabels <- MCPlainLabels
  Notes <- MCNotes
  Headers <- MCHeaders
  ErrorLabels <- MCErrorLabels
  Configs <- MCConfigs
  MaxLabels = 3
  MaxEntries = 3
  MaxPayloads = 3
  MaxCalls = 11
  MaxErrors = 2
INVARIANTS
  LabelsRendered
  EntriesKept
  PayloadsOwned
\* The program may stop calling at any time.
CHECK_DEADLOCK FALSE
