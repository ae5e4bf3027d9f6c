\* Nobody ends the session from elsewhere and the profile is always read.
SPECIFICATION SessionSpec
CONSTANTS
  MaxRevokes = 0
  MaxFailures = 0
INVARIANT ResetLinkOpensForm
CHECK_DEADLOCK FALSE
