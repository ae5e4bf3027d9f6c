\* The clean-up's comment against a second ingestion within the minute of grace.
SPECIFICATION SafeSpec
CONSTANTS
  Files = {f1, f2}
  Requests = {r1, r2}
  None = None
CHECK_DEADLOCK FALSE
INVARIANTS
  PollableWhileRunning
