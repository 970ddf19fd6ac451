SPECIFICATION Spec
CONSTANTS
  R = R
  A1 = A1
  A2 = A2
  A3 = A3
  A4 = A4
  B2 = B2
  F = F
  P = P
  Q = Q
  EP = EP
  EQ = EQ
  l1 = l1
  l2 = l2
  l3 = l3
  l4 = l4
  l5 = l5
  AnchorRef = AnchorRef
  Block = {R, A1, A2, A3, B2, F}
  Pool = {P, Q}
  Emitter = {EP, EQ}
  Log = {l1, l2, l3, l4, l5}
  EmitterOf <- MCEmitterOf
  LogPool <- MCLogPool
  LogIndex <- MCLogIndex
  Absolute <- MCAbsolute
  StartAnchor = R
  StartNumber = 0
  MaxPending = 2
  SeedCap = 1
  HeaderClaims <- AnyClaims
  SeedWindow <- BareSeeds
  Trunk <- MCTrunk
  LogsOf <- NoLogs
  Streamable <- NoLogs
  BasePools = {P}
INVARIANTS TreeInv ConnectedIffReachesAnchor PendingBounded
PROPERTIES ReanchorKeepsCanonical
