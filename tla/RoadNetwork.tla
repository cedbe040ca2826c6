---------------------------- MODULE RoadNetwork ----------------------------
(***************************************************************************)
(* The road graph of package routing: built from OpenStreetMap's ways      *)
(* (osm.go), cut into slices for clients (region.go) and weighted with a   *)
(* live metric (customize.go).                                             *)
(*                                                                         *)
(* A pace is the time per distance: the smaller, the faster.  Multipliers  *)
(* of a metric are percentages.                                            *)
(***************************************************************************)
EXTENDS Integers, FiniteSets, SequencesExt

CONSTANTS
  Points,      \* coordinates
  Origin,      \* the coordinates 0, 0 of a node that is not there
  Distance,    \* <<point, point>> -> DistM
  ClassOf,     \* highway tag -> road class, for the drivable ones
  Implicit,    \* the highways that are one-way unless tagged otherwise
  DefaultPace, \* road class -> pace of DefaultSpeedKmh
  Inf          \* the weight of a road nobody can take

ASSUME DistanceAssumption ==
  /\ Origin \in Points
  /\ Distance \in [Points \X Points -> Nat]
  /\ \A x, y, z \in Points : Distance[x, z] <= Distance[x, y] + Distance[y, z]
  /\ \A x \in Points : Distance[x, x] = 0

ASSUME InfAssumption == Inf \notin Nat
-----------------------------------------------------------------------------
(* scanWays: drivable ways only; the oneway tag, if it is one the code     *)
(* knows, decides, and else the kind of road does; the nodes of a way that *)
(* is one-way against its own direction are turned round.  A pace of 0     *)
(* stands for a maxspeed that is missing or no number.                     *)
IsOneway(w) ==
  \/ w.oneway \in {"yes", "reverse"}
  \/ w.oneway = "other" /\ (w.highway \in Implicit \/ w.roundabout)

(* Slip: a way that is one-way against its direction is not turned. *)
WayRecSlip(w) ==
  [nodes |-> w.nodes, class |-> ClassOf[w.highway], oneway |-> IsOneway(w),
   ref |-> w.ref, pace |-> w.pace]

WayRec(w) ==
  [nodes  |-> IF w.oneway = "reverse" THEN Reverse(w.nodes) ELSE w.nodes,
   class  |-> ClassOf[w.highway], oneway |-> IsOneway(w), ref |-> w.ref, pace |-> w.pace]

(* AddEdge: a road between two nodes of the graph and, unless one-way, the *)
(* one back.                                                               *)
EdgeOf(w, from, to, coords) ==
  [from |-> from, to |-> to, len |-> Distance[coords[from], coords[to]],
   class |-> w.class, ref |-> w.ref,
   pace |-> IF w.pace = 0 THEN DefaultPace[w.class] ELSE w.pace]

Segment(w, a, b, coords) ==
  IF {a, b} \subseteq DOMAIN coords
  THEN <<EdgeOf(w, a, b, coords)>> \o (IF w.oneway THEN <<>> ELSE <<EdgeOf(w, b, a, coords)>>)
  ELSE <<>>

Segments(w, coords) ==
  FlattenSeq([i \in 1 .. Len(w.nodes) - 1 |-> Segment(w, w.nodes[i], w.nodes[i + 1], coords)])

IsDrivable(w) == w.highway \in DOMAIN ClassOf

(* The graph of the drivable ways: where its nodes are, and its edges in   *)
(* the order of creation.                                                  *)
ParsePBF(ways, coords) ==
  LET drive == {k \in DOMAIN ways : IsDrivable(ways[k])}
      used  == UNION {ToSet(ways[k].nodes) : k \in drive}
  IN  [at    |-> [n \in used \cap DOMAIN coords |-> coords[n]],
       edges |-> FlattenSeq([k \in DOMAIN ways |->
                   IF k \in drive THEN Segments(WayRec(ways[k]), coords) ELSE <<>>])]

(* The part of a graph between the nodes in keep. *)
Slice(g, keep) ==
  LET kept(e) == {e.from, e.to} \subseteq keep
  IN  [at    |-> [n \in DOMAIN g.at \cap keep |-> g.at[n]],
       edges |-> FlattenSeq([i \in DOMAIN g.edges |->
                               IF kept(g.edges[i]) THEN <<g.edges[i]>> ELSE <<>>])]

Place(g, n) == IF n \in DOMAIN g.at THEN g.at[n] ELSE Origin
-----------------------------------------------------------------------------
(* A metric: multipliers for classes and for single roads, which come      *)
(* first, and the closed roads.                                            *)
Key(e) == <<e.from, e.to>>

Mult(m, e) ==
  IF Key(e) \in DOMAIN m.edgeMult THEN m.edgeMult[Key(e)]
  ELSE IF e.class \in DOMAIN m.classMult THEN m.classMult[e.class]
  ELSE 100

BaseWeight(e) == e.len * e.pace

(* Slip: closures are not looked at. *)
CustomizeSlip(g, m) ==
  [i \in DOMAIN g.edges |->
     LET e == g.edges[i] IN
       IF Mult(m, e) <= 0 THEN Inf ELSE (BaseWeight(e) * 100) \div Mult(m, e)]

(* The time every road takes now. *)
Customize(g, m) ==
  [i \in DOMAIN g.edges |->
     LET e == g.edges[i] IN
       IF Key(e) \in m.closed \/ Mult(m, e) <= 0 THEN Inf
       ELSE (BaseWeight(e) * 100) \div Mult(m, e)]
=============================================================================
