\* The claim that the heuristic never overestimates.
CONSTANTS
  Points <- MCPoints
  Origin <- MCOrigin
  Distance <- MCDistance
  ClassOf <- MCClassOf
  Implicit = {"motorway"}
  DefaultPace <- MCDefaultPace
  Inf <- MCInf
  Problems <- MCProblems
  TopPace = 16
  Maps <- MCMaps
  Coords <- MCCoords
  Regions <- MCRegions
  Requests <- MCRequests
SPECIFICATION Spec
INVARIANTS
  MinimumTime
CHECK_DEADLOCK FALSE
