SPECIFICATION LiveSpec
CONSTANTS
  A = A
  B = B
  C = C
  p = p
  q = q
  r = r
  Pool = {p, r}
  Token = {A, B}
  PairOf <- MCPairOf
  ValidPools = {p}
  MaxProbes = 2
  MaxCrashes = 1
  MaxFaults = 2
INVARIANT NothingForgotten
PROPERTIES ImplementsView TradedPoolsServed
