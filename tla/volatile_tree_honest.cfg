SPECIFICATION Spec
CONSTANTS
  R = R
  A1 = A1
  A2 = A2
  A3 = A3
  A4 = A4
  B2 = B2
  F = F
  P = P
  Q = Q
  EP = EP
  EQ = EQ
  l1 = l1
  l2 = l2
  l3 = l3
  l4 = l4
  l5 = l5
  AnchorRef = AnchorRef
  Block = {R, A1, A2, A3, A4, B2, F}
  Pool = {P, Q}
  Emitter = {EP, EQ}
  Log = {l1, l2, l3, l4, l5}
  EmitterOf <- MCEmitterOf
  LogPool <- MCLogPool
  LogIndex <- MCLogIndex
  Absolute <- MCAbsolute
  StartAnchor = R
  StartNumber = 0
  MaxPending = 2
  SeedCap = 2
  HeaderClaims <- HonestClaims
  SeedWindow <- BridgedSeeds
  Trunk <- MCTrunk
  LogsOf <- MCLogsOf
  Streamable <- MCStreamable
  BasePools = {P}
INVARIANTS TypeOK ProjectionExact
PROPERTIES LogLadder FinalizationGate ImplementsLedger
