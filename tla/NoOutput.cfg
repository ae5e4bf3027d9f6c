\* The page as it is opened at any moment of the run, without fairness.
SPECIFICATION RunViewSpec
CONSTANTS
  RunStates <- MCRunStates
  Panes = {"output"}
  MaxPolls = 2
INVARIANT NoOutputMeansNone
CHECK_DEADLOCK FALSE
