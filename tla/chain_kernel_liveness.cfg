SPECIFICATION LiveSpec
CONSTANTS
  R = R
  A1 = A1
  A2 = A2
  A3 = A3
  A4 = A4
  C1 = C1
  C2 = C2
  F = F
  P = P
  Q = Q
  EP = EP
  EQ = EQ
  l1 = l1
  l2 = l2
  l3 = l3
  l4 = l4
  l5 = l5
  l6 = l6
  T = T
  AnchorRef = AnchorRef
  Block = {R, A1, A2, A3, A4, F}
  Pool = {P, Q}
  Emitter = {EP, EQ}
  Log = {l2, l4, l5}
  Token = {}
  EmitterOf <- MCEmitterOf
  LogPool <- MCLogPool
  LogIndex <- MCLogIndex
  Absolute <- MCAbsolute
  StartAnchor = R
  StartNumber = 0
  MaxPending = 3
  SeedCap = 2
  SeedWindow <- BridgedSeeds
  Trunk <- MCTrunk
  LogsOf <- MCLogsOf
  Streamable <- Mistagged
  BasePools = {}
  Tracked = {P}
  ValidPools = {P, Q}
  NoMetadata = {}
  BornIn <- MCBornIn
  TokensOf <- MCTokensOf
  KnownTokens = {}
  Manager = {}
  CanonTip = A4
  HeadClaims <- A4Announced
  Finalized = {A1, A3}
  MaxStaged = 1
  SettleDepth = 1
  SeedChunk = 1
  RequestTTL = 1
  FaultKinds = {"lose", "fail", "regress"}
  MaxFaults = 2
  MaxGhosts = 0
INVARIANTS GapsRequested CompleteIsAuthoritative
PROPERTIES FinalityReached PoolsSeeded ImplementsLedger
