SPECIFICATION StreamLive
CONSTANTS
  Log <- MCLog
  Runs = {1, 2}
  MaxGaps = 1
  MaxDrops = 2
  MaxFetches = 1
INVARIANTS
  StreamTypeOK
  StoreIsReplay
PROPERTY
  CompleteIsFlushed
CHECK_DEADLOCK FALSE
