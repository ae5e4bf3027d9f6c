\* should_terminate's docstring against run_precise, which never calls it.
SPECIFICATION SafeSpec
CONSTANTS
  Texts <- MCTexts
  Norm <- MCNorm
  MaxDrafts = 1
  CallCosts = {1}
  MaxRounds = 3
  MaxDebugAttempts = 1
  MaxCost = 4
  MaxRepeats = 3
CHECK_DEADLOCK FALSE
INVARIANTS
  StopsBeforeNextRound
