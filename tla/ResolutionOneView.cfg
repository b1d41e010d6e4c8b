SPECIFICATION Spec

CONSTANTS
  va = va
  vb = vb
  p1 = p1
  p2 = p2
  p3 = p3
  imports = imports
  callers = callers
  tests = tests
  entryPoints = entryPoints
  None = None
  Own <- OwnFile
  Row <- RowOf
  Matches <- Found
  Size <- UnitSize
  Views = {va}
  Reqs = {imports, callers, tests, entryPoints}
  Symbols = {callers, tests}
  Paths = {p1, p2, p3}
  Undecodable = {p3}
  Fallback = FALSE
  MaxFiles = 3
  MaxBytes = 3
  MaxRequests = 3
  BatchSize = 1
  FetchErrors = TRUE
  Omissions = FALSE
  IndexErrors = FALSE
  MaxRestarts = 1

INVARIANTS
  AnswerSound
