\* The claim that the offer on hold is the winner's.
CONSTANTS
  NumDrivers = 3
  TriggerCap = 1
  MaxBlocked = 1
  MaxLoops = 2
SPECIFICATION Spec
INVARIANTS
  HeldOfferIsTheWinners
CHECK_DEADLOCK FALSE
