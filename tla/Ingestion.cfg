\* Two requests whose tasks may share a record or replace each other's, over
\* two files that come and go.
SPECIFICATION Spec
CONSTANTS
  Files = {f1, f2}
  Requests = {r1, r2}
  None = None
CHECK_DEADLOCK FALSE
INVARIANTS
  TypeOK
  CountsAreAttempts
  EntryIsOwned
PROPERTIES
  RecordRemoved
  TasksEnd
