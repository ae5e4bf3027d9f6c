\* Small plans, costs that cross the limit at any node or never.
SPECIFICATION Spec
CONSTANTS
  Texts <- MCTexts
  Norm <- MCNorm
  MaxDrafts = 1
  CallCosts = {1}
  MaxRounds = 3
  MaxDebugAttempts = 2
  MaxCost = 16
  MaxRepeats = 3
CHECK_DEADLOCK FALSE
INVARIANTS
  WithinRecursionLimit
PROPERTIES
  Terminates
