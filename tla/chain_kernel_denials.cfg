SPECIFICATION LiveSpec
CONSTANTS
  R = R
  A1 = A1
  A2 = A2
  A3 = A3
  A4 = A4
  C1 = C1
  C2 = C2
  F = F
  P = P
  Q = Q
  EP = EP
  EQ = EQ
  l1 = l1
  l2 = l2
  l3 = l3
  l4 = l4
  l5 = l5
  l6 = l6
  T = T
  AnchorRef = AnchorRef
  Block = {R, A1, A2, A3}
  Pool = {Q}
  Emitter = {EP, EQ}
  Log = {l4}
  Token = {}
  EmitterOf <- MCEmitterOf
  LogPool <- MCLogPool
  LogIndex <- MCLogIndex
  Absolute <- MCAbsolute
  StartAnchor = R
  StartNumber = 0
  MaxPending = 3
  SeedCap = 2
  SeedWindow = {}
  Trunk <- MCTrunk
  LogsOf <- MCLogsOf
  Streamable <- MCLogsOf
  BasePools = {}
  Tracked = {}
  ValidPools = {Q}
  NoMetadata = {}
  BornIn <- MCBornIn
  TokensOf <- MCTokensOf
  KnownTokens = {}
  Manager = {EQ}
  CanonTip = A3
  HeadClaims <- SelfParentAnnounced
  Finalized = {A1}
  MaxStaged = 1
  SettleDepth = 0
  SeedChunk = 1
  RequestTTL = 1
  FaultKinds = {"notfound", "fail", "garbage", "timeout"}
  MaxFaults = 2
  MaxGhosts = 1
INVARIANTS InFlightDistinct
PROPERTIES GapsClose
