\* Three rides with three drivers: failures at every call.
CONSTANTS
  NumDrivers = 3
  TriggerCap = 2
  MaxBlocked = 2
  MaxLoops = 3
SPECIFICATION FairSpec
INVARIANTS
  CandidatesBidUnderTheKey
  AuctionHasItsBids
  BidsInDriverOrder
  ClicksQueue
PROPERTIES
  RidesGoOn
CHECK_DEADLOCK FALSE
