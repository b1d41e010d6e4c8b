SPECIFICATION Spec

CONSTANTS
  h1 = h1
  h2 = h2
  i1 = i1
  i2 = i2
  v1 = v1
  v2 = v2
  p1 = p1
  p2 = p2
  b1 = b1
  b2 = b2
  b3 = b3
  f = f
  g = g
  k = k
  None = None
  Unresolved = Unresolved
  Hosts = {h1}
  Indexers = {i1}
  Host <- HostOne
  Versions = {v1}
  Paths = {p1, p2}
  Idents = {f, g, k}
  Blobs = {b1, b2, b3}
  Content <- Single
  Facts <- SmallFacts
  ParseErrors = TRUE
  StorageErrors = FALSE
  Reservations = FALSE
  ConcurrentRuns = FALSE
  MaxRuns = 3
  MaxStarts = 2
  MaxId = 6

INVARIANTS
  IndexedHasFacts

\* the processes may all be down for good, with every bound used up
CHECK_DEADLOCK FALSE
