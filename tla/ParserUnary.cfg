SPECIFICATION Spec
CONSTANTS
  Sources <- Negations
  Strict = {FALSE}
  MaxGoals = 60
INVARIANT RewindsToOperator
CHECK_DEADLOCK FALSE
