SPECIFICATION LiveLifecycle
CONSTANTS
  R = R
  A1 = A1
  A2 = A2
  A3 = A3
  A4 = A4
  A5 = A5
  P = P
  E = E
  l2 = l2
  l5 = l5
  T = T
  U = U
  V = V
  W = W
  AnchorRef = AnchorRef
  Block = {R, A1, A2, A3, A4, A5}
  Pool = {P}
  Emitter = {E}
  Log = {l2, l5}
  Token = {T, U, V, W}
  EmitterOf <- MCEmitterOf
  LogPool <- MCLogPool
  LogIndex <- MCLogIndex
  Absolute = {l2, l5}
  StartAnchor = R
  StartNumber = 0
  MaxPending = 3
  SeedCap = 2
  SeedWindow <- OneSeed
  Trunk <- MCTrunk
  LogsOf <- MCLogsOf
  Streamable <- MCLogsOf
  BasePools = {}
  Tracked = {P}
  ValidPools = {P}
  NoMetadata = {}
  BornIn <- MCBornIn
  TokensOf <- MCTokensOf
  KnownTokens = {U, V, W}
  Manager = {}
  CanonTip = A5
  HeadClaims <- Announcements
  Finalized = {A2, A3, A4}
  MaxStaged = 1
  SettleDepth = 1
  SeedChunk = 1
  RequestTTL = 1
  FaultKinds = {"fail", "lose", "notfound", "timeout"}
  MaxFaults = 1
  MaxGhosts = 1
  FinalityDepth = 1
  Margin = 2
  Stride = 1
  FirstHeads = {A2, A3}
  Later = {A4, A5}
  MaxBuffered = 2
  Routes <- MCRoutes
  Bridges <- MCBridges
  Decimals <- MCDecimals
  BookEntry <- MCBookEntry
  MinWeight = 1
  Entry = 1000
  WeightScale = 100
  PipsDenominator = 1000
INVARIANTS LifecycleTypeOK PlanJudgedFairly
PROPERTIES BufferSurvives OptimizerCatchesUp WindowBounded
