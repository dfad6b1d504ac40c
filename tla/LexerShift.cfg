SPECIFICATION Spec
CONSTANTS
  Sources <- Shifts
  Modes <- ModesOfShifts
  MaxResets = 0
  MaxReread = 0
INVARIANTS
  LongestMatch
CHECK_DEADLOCK FALSE
