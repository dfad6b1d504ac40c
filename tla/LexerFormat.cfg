SPECIFICATION Spec
CONSTANTS
  Sources <- Documented
  Modes <- ModesOfDocumented
  MaxResets = 0
  MaxReread = 0
INVARIANTS
  FormatReconstructs
CHECK_DEADLOCK FALSE
