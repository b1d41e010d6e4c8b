SPECIFICATION Spec

CONSTANTS
  va = va
  vb = vb
  p1 = p1
  p2 = p2
  p3 = p3
  imports = imports
  callers = callers
  tests = tests
  entryPoints = entryPoints
  None = None
  Own <- OwnFile
  Row <- RowOf
  Matches <- Found
  Size <- UnitSize
  Views = {va, vb}
  Reqs = {imports, callers}
  Symbols = {callers}
  Paths = {p1, p2, p3}
  Undecodable = {p3}
  Fallback = TRUE
  MaxFiles = 1
  MaxBytes = 2
  MaxRequests = 1
  BatchSize = 2
  FetchErrors = FALSE
  Omissions = FALSE
  IndexErrors = FALSE
  MaxRestarts = 1

SYMMETRY Peers

INVARIANTS
  TypeOK
  OutcomeSound
  AnswerBacked
PROPERTIES
  ScopeSpec
