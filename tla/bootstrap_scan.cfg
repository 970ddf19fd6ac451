SPECIFICATION LiveSpec
CONSTANTS
  R = R
  A1 = A1
  A2 = A2
  A3 = A3
  A4 = A4
  A5 = A5
  A6 = A6
  B4 = B4
  B5 = B5
  P = P
  Q = Q
  Block = {R, A1, A2, A3, A4, A5, A6, B4, B5}
  Root = R
  Parent <- MCParent
  Number <- MCNumber
  Pool = {P, Q}
  PoolsOf <- MCPoolsOf
  ValidPools = {P}
  CachedPools = {Q}
  FirstTip = A3
  Drift = 2
  TipTrim = 2
  Deadline = 3
  RequestTTL = 2
  Chunk = 2
INVARIANTS SeedIsTrue SeedLinksToAnchor AwaitsItsAnswer
PROPERTY BootstrapEnds
CHECK_DEADLOCK FALSE
