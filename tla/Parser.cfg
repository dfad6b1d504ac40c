SPECIFICATION FairSpec
CONSTANTS
  Sources <- AllSources
  Strict = {TRUE, FALSE}
  MaxGoals = 60
INVARIANTS
  TypeOK
  ErrorsAdvance
  NodesAreForest
  PrecedenceRespected
  OutcomeIsKnown
  AcceptedIsBalanced
PROPERTIES
  ParseReturns
CHECK_DEADLOCK FALSE
