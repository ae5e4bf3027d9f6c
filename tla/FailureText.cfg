\* The error text of a degraded run against what its executions did.
SPECIFICATION SafeSpec
CONSTANTS
  Texts <- MCTexts
  Norm <- MCNorm
  MaxDrafts = 1
  CallCosts = {1}
  MaxRounds = 3
  MaxDebugAttempts = 1
  MaxCost = 20
  MaxRepeats = 3
CHECK_DEADLOCK FALSE
INVARIANTS
  FailedMeansNoSuccess
