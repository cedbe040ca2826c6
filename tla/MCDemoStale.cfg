\* The claim that no stale invite is used.
CONSTANTS
  NumDrivers = 3
  TriggerCap = 1
  MaxBlocked = 1
  MaxLoops = 2
SPECIFICATION Spec
INVARIANTS
  NoStaleInviteUsed
CHECK_DEADLOCK FALSE
