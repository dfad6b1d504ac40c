SPECIFICATION FairSpec
CONSTANTS
  Sources <- Unknown
  Modes <- ModesOfUnknown
  MaxResets = 0
  MaxReread = 0
PROPERTIES
  Terminates
CHECK_DEADLOCK FALSE
