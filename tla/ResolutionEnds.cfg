SPECIFICATION Spec

CONSTANTS
  va = va
  vb = vb
  p1 = p1
  p2 = p2
  p3 = p3
  imports = imports
  callers = callers
  tests = tests
  entryPoints = entryPoints
  None = None
  Own <- OwnFile
  Row <- RowOf
  Matches <- Found
  Size <- UnitSize
  Views = {va, vb}
  Reqs = {entryPoints}
  Symbols = {}
  Paths = {p1, p2, p3}
  Undecodable = {p3}
  Fallback = TRUE
  MaxFiles = 1
  MaxBytes = 2
  MaxRequests = 2
  BatchSize = 2
  FetchErrors = TRUE
  Omissions = TRUE
  IndexErrors = TRUE
  MaxRestarts = 0

PROPERTIES
  QueryEnds
