\* Three sub-questions over two gap rounds: a generator answer can cross the
\* cap in the first pass or in either gap round; children of one or two rounds.
SPECIFICATION Spec
CONSTANTS
  MaxDrafts = 2
  MaxSubQuestions = 3
  MaxGapRounds = 2
  MaxRounds = 2
CHECK_DEADLOCK FALSE
INVARIANTS
  TypeOK
  OneChildEach
  DoneIsBacked
  ReportIsComplete
PROPERTIES
  AnswersKept
  Terminates
