SPECIFICATION AnalysisSpec
CONSTANTS
  sf = sf
  sg = sg
  sh = sh
  sk = sk
  sy = sy
  sz = sz
  pf = pf
  pg = pg
  ph = ph
  pk = pk
  pz = pz
  nf = nf
  ng = ng
  nh = nh
  nk = nk
  ny = ny
  nz = nz
  fa = fa
  fb = fb
  fc = fc
  fd = fd
  fe = fe
  none = none
  None = none
  span1 = span1
  span2 = span2
  get = get
  put = put
  path = path
  other = other
  store = store
  event = event
  Numbers <- MCNumbers
  Nodes <- MCNumbers
  Names <- MCNames
  Files <- MCFiles
  Spans = {span1, span2}
  Visibilities = {"public", "private"}
  Routes <- MCRoutes
  Methods = {get, put}
  Paths = {path, other}
  Get = get
  Targets = {store, event}
  Surfaces = {store, event}
  Stores = {store}
  Events = {event}
  MaxDepth = 2
  MaxVisited = 5
  DataNames = {nh}
  Publishes <- MCPublishes
  Consumes <- MCConsumes
  CategoryOf <- MCCategoryOf
  Top = 3
  MinFan = 2
  MinGap = 3
  MinGroup = 3
  MinSurprise = 5
  MaxInternal = 5
  Noise = {fb}
  BaseOf <- MCBaseOf
  KnownMethods = {get, put}
  KnownKinds = {"validation_gap"}
  MaxEndpoints = 2
  MaxPerFile = 2
  Pulls <- MCPulls
INVARIANTS
  AnalysisTypeOK
  ChangePatches
  ImpactSound
  ImpactComplete
  CallersFound
  EndpointsListed
  ClaimsJustified
  DiscoveriesKept
  ChangesTold
  EndpointsTold
  IndicesResolve
PROPERTY Ends
CHECK_DEADLOCK FALSE
