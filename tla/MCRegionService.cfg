\* Two road numbers, closures that come and go, a service that fails.
CONSTANTS
  Points <- MCPoints
  Origin = 0
  Distance <- MCDistance
  ClassOf <- MCClassOf
  Implicit = {"motorway"}
  DefaultPace <- MCDefaultPace
  Inf <- MCInf
  Region <- MCRegion
  Refs <- MCRefs
  Midway <- MCMidway
  Radius = 1
  MaxSets = 2
  MaxNodes = 2
  Clients = {c1}
  Sites = {2}
  Hours = {4, 7, 16}
  Requests <- MCRequests
SPECIFICATION FairSpec
INVARIANTS
  MetricOnlySlows
PROPERTIES
  ClosuresAreFaithful
  ClosuresCatchUp
