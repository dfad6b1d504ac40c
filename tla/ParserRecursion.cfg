SPECIFICATION FairSpec
CONSTANTS
  Sources <- ForLoops
  Strict = {FALSE}
  MaxGoals = 60
PROPERTY ParseReturns
CHECK_DEADLOCK FALSE
