\* The claim that a held winner is excluded from a new search.
CONSTANTS
  root = root
  mid = mid
  near = near
  far = far
  s1 = s1
  s2 = s2
  k1 = k1
  k2 = k2
  e1 = e1
  e2 = e2
  s12 = s12
  none = none
  n2 = n2
  Cells = {root, mid, near, far}
  NoCell = NoCell
  ParentOf <- MCParentOf
  Resolution <- MCResolution
  NoOffer = NoOffer
  Conns = {c1, c2}
  SessionIds = {s1, s2, s12}
  Drivers = {d1, d2}
  PKs = {k1}
  Ciphertexts = {e1, e2}
  Nonces = {none, n2}
  Bytes <- MCBytes
  OfferIds = {i1}
  MaxHeld = 1
  TTL = 1
  OpenRequests <- MCOpens
  BidRequests <- NoRequests
  MaskRequests = {}
  OfferRequests <- MCOffers
  GridRequests <- MCArrivals
  MaxOpens = 2
  MaxBids = 0
  MaxTime = 0
SPECIFICATION MCAnySpec
PROPERTIES
  WinnerExcludedFromResearch
CHECK_DEADLOCK FALSE
