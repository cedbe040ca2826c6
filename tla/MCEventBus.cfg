\* Two dashboards, channels of two events, five events; only the bus itself has
\* to move.
CONSTANTS
  Subs = {d1, d2}
  BufSize = 2
  MaxEvents = 5
SPECIFICATION FairSpec
INVARIANTS
  StreamsInOrder
  NobodySkipped
  MissedOnlyWhenFull
PROPERTIES
  BusKeepsGoing
CHECK_DEADLOCK FALSE
