SPECIFICATION Spec
CONSTANTS
  R = R
  A1 = A1
  A2 = A2
  A3 = A3
  A4 = A4
  C1 = C1
  C2 = C2
  F = F
  P = P
  Q = Q
  EP = EP
  EQ = EQ
  l1 = l1
  l2 = l2
  l3 = l3
  l4 = l4
  l5 = l5
  l6 = l6
  T = T
  AnchorRef = AnchorRef
  Block = {R, A1, A2, C1, C2}
  Pool = {P}
  Emitter = {EP, EQ}
  Log = {l6}
  Token = {}
  EmitterOf <- MCEmitterOf
  LogPool <- MCLogPool
  LogIndex <- MCLogIndex
  Absolute <- MCAbsolute
  StartAnchor = A1
  StartNumber = 1
  MaxPending = 3
  SeedCap = 2
  SeedWindow = {}
  Trunk <- MCTrunk
  LogsOf <- MCLogsOf
  Streamable <- MCLogsOf
  BasePools = {}
  Tracked = {P}
  ValidPools = {P}
  NoMetadata = {}
  BornIn <- MCBornIn
  TokensOf <- MCTokensOf
  KnownTokens = {}
  Manager = {}
  CanonTip = C2
  HeadClaims <- ForksAnnounced
  Finalized = {C2}
  MaxStaged = 1
  SettleDepth = 1
  SeedChunk = 1
  RequestTTL = 1
  FaultKinds = {"notfound", "lose"}
  MaxFaults = 1
  MaxGhosts = 1
INVARIANT StagedOnlyAbsent
PROPERTIES ReinitOnlyOnProof
