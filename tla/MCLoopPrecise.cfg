\* Three rounds, so two backtracks or extensions and a plan after each; one
\* debug attempt per round; the cost limit is reachable in the third round.
SPECIFICATION SafeSpec
CONSTANTS
  Texts <- MCTexts
  Norm <- MCNorm
  MaxDrafts = 2
  CallCosts = {1}
  MaxRounds = 3
  MaxDebugAttempts = 1
  MaxCost = 11
  MaxRepeats = 2
CHECK_DEADLOCK FALSE
INVARIANTS
  TypeOK
  IndexNamesOneStep
  ResumesFromMatchingPair
  CheckpointsBelongToActiveSteps
  AbandonedAccountsForSuperseded
  CrashExitSpentBudget
  RoundArmUnreachable
PROPERTIES
  PlanHistoryKept
  ImplementsLifecycle
