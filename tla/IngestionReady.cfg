\* The file table's badge against what a task counted as analyzed.
SPECIFICATION SafeSpec
CONSTANTS
  Files = {f1, f2}
  Requests = {r1, r2}
  None = None
CHECK_DEADLOCK FALSE
INVARIANTS
  AnalyzedIsReady
