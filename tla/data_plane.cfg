SPECIFICATION LiveSpec
CONSTANTS
  A = A
  B = B
  C = C
  p = p
  q = q
  None = None
  NoValue = NoValue
  Pool = {p, q}
  Token = {A, B, C}
  PairOf <- MCPairOf
  Bridges = {}
  Whitelist = {A, B, C}
  DefaultRoute <- Cycle
  Routes <- MCRoutes
  Polled = {}
  TTL = 1
  Threads = 2
  FetchId = {0, 1}
  MaxPushes = 2
  MaxSteps = 1
  MaxRetargets = 1
  MaxHung = 1
  MaxFailed = 1
  MaxSlow = 1
  Contents <- MCContents
  MaxViews = 2
INVARIANT WorkerSurvives
PROPERTIES NeverOlder WorkerCatchesUp
