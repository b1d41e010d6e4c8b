SPECIFICATION Spec

CONSTANTS
  ta = ta
  tb = tb
  tc = tc
  base = base
  head = head
  other = other
  f = f
  g = g
  h = h
  a1 = a1
  b0 = b0
  b1 = b1
  b2 = b2
  c0 = c0
  d0 = d0
  None = None
  Unresolved = Unresolved
  Tasks = {ta, tb, tc}
  Versions = {base, head, other}
  Paths = {1, 2, 3, 4}
  Names = {f, g, h}
  Blobs = {a1, b0, b1, b2, c0, d0}
  Base <- BaseOf
  Head <- HeadOf
  Diff <- DiffOf
  Tree <- Commits
  Defs <- DefsOf
  Uses <- UsesOf
  Undecodable = {d0}
  FetchErrors = TRUE
  BatchSize = 1
  MaxRuns = 4

INVARIANTS
  TypeOK
  ContextOfView
  RowsOfVersion
  OverlayHasHead
PROPERTIES
  RowsStay

\* with every bound used up all tasks are idle for good
CHECK_DEADLOCK FALSE
