SPECIFICATION ServiceSpec
CONSTANTS
  t1 = t1
  t2 = t2
  Calls = {t1, t2}
  Paths = {1, 2, 3}
  Batches <- TwoBatches
  Limit = 2
  Messages = {t2}
  MaxRetries = 1
  MaxBatches = 1
  MaxCrashes = 1
  Life = 2
  Buffer = 1
  Nobody = Nobody
  Nothing = Nothing
\* the system stops when every task ended
CHECK_DEADLOCK FALSE
INVARIANTS
  ServiceTypeOK
  AnswerExact
  TokenLasts
  CommentsCounted
PROPERTIES
  TasksEnd
  SourceKept
