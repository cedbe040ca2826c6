\* Six nodes, every kind of one-way tag, closures, jams, slices, fast roads.
CONSTANTS
  Points <- MCPoints
  Origin <- MCOrigin
  Distance <- MCDistance
  ClassOf <- MCClassOf
  Implicit = {"motorway"}
  DefaultPace <- MCDefaultPace
  Inf <- MCInf
  Problems <- MCProblems
  TopPace = 16
  Maps <- MCMaps
  Coords <- MCCoords
  Regions <- MCRegions
  Requests <- MCRequests
SPECIFICATION FairSpec
INVARIANTS
  FastestRoute
  Certified
  RouteHoldsInRegion
PROPERTIES
  SettledForGood
  Finishes
CHECK_DEADLOCK FALSE
