---------------------------- MODULE RegionRoutes ----------------------------
(***************************************************************************)
(* What a client does with what the server hands out: it searches a route  *)
(* in a slice of the region, a graph made of OpenStreetMap's ways, under   *)
(* a metric that was made for the whole region.                            *)
(***************************************************************************)
EXTENDS RouteSearch

CONSTANTS
  Maps,    \* name -> the ways of a map
  Coords,  \* where the nodes of the maps are
  Regions, \* map -> the graph made of it
  Requests \* problem -> [map, metric, keep, from, to]

InSlice(r) ==
  LET slice == Slice(Regions[r.map], r.keep)
  IN  [graph |-> slice, weight |-> Customize(slice, r.metric), from |-> r.from, to |-> r.to]

(* The same question to the region. *)
InRegion(r) ==
  [graph |-> Regions[r.map], weight |-> Customize(Regions[r.map], r.metric),
   from |-> r.from, to |-> r.to]

IsWay(w) ==
  w.nodes \in Seq(Int) /\ w.oneway \in {"yes", "reverse", "no", "other"} /\ w.roundabout \in BOOLEAN

ASSUME MapsAssumption ==
  /\ \A m \in DOMAIN Maps :
       Maps[m] \in Seq(ToSet(Maps[m])) /\ \A w \in ToSet(Maps[m]) : IsWay(w)
  /\ Regions = [m \in DOMAIN Maps |-> ParsePBF(Maps[m], Coords)]

(* What RouteSearch asks of its problems, of the whole regions too. *)
ASSUME RequestsAssumption ==
  /\ Problems = [n \in DOMAIN Requests |-> InSlice(Requests[n])]
  /\ \A n \in DOMAIN Requests : Requests[n].map \in DOMAIN Maps /\ IsProblem(InRegion(Requests[n]))
-----------------------------------------------------------------------------
(* What the tags of a way allow, by first principles: along its nodes      *)
(* unless it is tagged the other way round, and against them unless it is  *)
(* one-way.                                                                *)
Allowed(w, a, b) ==
  \E i \in 1 .. Len(w.nodes) - 1 :
    \/ <<a, b>> = <<w.nodes[i], w.nodes[i + 1]>> /\ w.oneway # "reverse"
    \/ /\ <<b, a>> = <<w.nodes[i], w.nodes[i + 1]>>
       /\ w.oneway = "other" => ~(w.highway \in Implicit \/ w.roundabout)
       /\ w.oneway # "yes"

RegionAnswers == LET all == Requests IN [n \in DOMAIN all |-> Answers(InRegion(all[n]))]

(* A route that a client finds in its slice of the region keeps to the     *)
(* one-way rules as the map's ways are tagged, to drivable ways and to     *)
(* open roads, and is a route of the whole region that takes the same time *)
(* there: what is served in a slice, with a metric that was made for the   *)
(* whole, is honest.                                                       *)
RouteHoldsInRegion ==
  at = "found" =>
    LET r == Requests[name] IN
      /\ \A k \in 1 .. Len(path) - 1 :
           /\ <<path[k], path[k + 1]>> \notin r.metric.closed
           /\ \E w \in ToSet(Maps[r.map]) : IsDrivable(w) /\ Allowed(w, path[k], path[k + 1])
      /\ Answer \in RegionAnswers[name]
=============================================================================
