\* A pool of two offers, three ids, two drivers. Nobody is obliged to call; the
\* sweeper and the clock run.
CONSTANTS
  OfferIds = {i1, i2, i3}
  Drivers = {d1, d2}
  NoOffer = NoOffer
  MaxHeld = 2
  TTL = 3
  SweepPeriod = 2
  Slack = 1
  MaxTime = 9
SPECIFICATION FairSpec
INVARIANTS
  AtMostMaxHeld
  ExpiredSoonGone
PROPERTIES
  KeepsPromise
  OffersRunOut
