\* Two or three bids with every combination of three prices one cent apart,
\* three penalties and two distances; the largest tie-break is K - 1.
CONSTANTS
  K = 8
  WStar = 3
  WDist = 1
  Prices = {10, 11, 12}
  Penalties = {0, 1, 2}
  Distances = {0, 1}
  MaxDriverBids = 3
  Grid = 4
  SignIters = 1
  Circuits <- SmallCircuits
SPECIFICATION Spec
INVARIANTS
  BestSoFar
  CheapestWins
  LedgerHolds
  MaskIsPlain
  CircuitPicksWinner
CHECK_DEADLOCK FALSE
