\* Riders who open two session ids with two keys three times while drivers
\* move; bids and masks of a session that is opened twice; offers of a session
\* that is opened twice, two ids for a pool of one.
CONSTANTS
  root = root
  mid = mid
  near = near
  far = far
  s1 = s1
  s2 = s2
  k1 = k1
  k2 = k2
  e1 = e1
  e2 = e2
  s12 = s12
  none = none
  n2 = n2
  Cells = {root, mid, near, far}
  NoCell = NoCell
  ParentOf <- MCParentOf
  Resolution <- MCResolution
  NoOffer = NoOffer
  Conns = {c1, c2}
  SessionIds = {s1, s2, s12}
  Drivers = {d1, d2}
  PKs = {k1, k2}
  Ciphertexts = {e1, e2}
  Nonces = {none, n2}
  Bytes <- MCBytes
  OfferIds = {i1, i2}
  MaxHeld = 1
  TTL = 1
  OpenRequests <- MCOpens
  BidRequests <- MCBids
  MaskRequests = {s1}
  OfferRequests <- MCOffers
  GridRequests <- MCGrid
  MaxOpens = 3
  MaxBids = 3
  MaxTime = 3
SYMMETRY MCSymmetry
SPECIFICATION MCSpec
INVARIANTS
  TypeOK
  MasksNameBidders
  BidsSignedForTheirSession
  InviteIsTheLatest
  InviteIsUsable
  TightestCellServes
PROPERTIES
  PoolsKeepPromise
