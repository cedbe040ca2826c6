--------------------------- MODULE MCRouteSearch ---------------------------
(* Routes over small maps: a road of two-way segments, a motorway that is  *)
(* longer and faster, a street with every kind of one-way tag, and a path  *)
(* nobody may drive on.  Nodes 2 and 5 are at the same place, node 6 is in *)
(* no way, and node 7 has no coordinates.  The last map has a motorway by  *)
(* node 6 that is tagged with 172 km/h.  A pace of p is 2240 / p km/h.     *)
EXTENDS RegionRoutes, TLC

MCPoints == (0 .. 3) \X (0 .. 2)
MCOrigin == <<0, 0>>
MCInf == -1

Gap(x, y) == IF x < y THEN y - x ELSE x - y
Apart == [pq \in MCPoints \X MCPoints |->
                 Gap(pq[1][1], pq[2][1]) + Gap(pq[1][2], pq[2][2])]
MCDistance == Apart

MCClassOf == [motorway |-> "fast", primary |-> "main", residential |-> "local"]
MCDefaultPace == [fast |-> 16, main |-> 32, local |-> 64]

MCCoords ==
  1 :> <<0, 1>> @@ 2 :> <<2, 1>> @@ 3 :> <<3, 1>> @@ 4 :> <<3, 2>> @@ 5 :> <<2, 1>> @@ 6 :> <<1, 0>>

OsmWay(nodes, highway, oneway, roundabout, pace) ==
  [nodes |-> nodes, highway |-> highway, oneway |-> oneway,
   roundabout |-> roundabout, ref |-> "A17", pace |-> pace]

Ways(tag, round) ==
  << OsmWay(<<1, 2, 3>>, "primary", "other", FALSE, 0),
     OsmWay(<<1, 4, 3>>, "motorway", "other", FALSE, 0),
     OsmWay(<<1, 3>>, "footway", "no", FALSE, 0),
     OsmWay(<<2, 5, 4>>, "residential", tag, round, 48),
     OsmWay(<<2, 7, 4>>, "residential", "no", FALSE, 16) >>

FastWays ==
  << OsmWay(<<1, 6, 2, 4>>, "motorway", "other", FALSE, 13),
     OsmWay(<<1, 2>>, "primary", "other", FALSE, 27),
     OsmWay(<<1, 4>>, "primary", "other", FALSE, 20),
     OsmWay(<<2, 3>>, "residential", "other", FALSE, 0) >>

TagList == << <<"yes", FALSE>>, <<"reverse", FALSE>>, <<"no", TRUE>>, <<"other", FALSE>>, <<"other", TRUE>> >>

Metric(closed, class, edge) == [closed |-> closed, classMult |-> class, edgeMult |-> edge]
Jam == [fast |-> 40]
Jams == <<1, 4>> :> 100 @@ <<1, 2>> :> 0
Queue == <<1, 4>> :> 30 @@ <<4, 3>> :> 10
MetricList ==
  << Metric({}, <<>>, <<>>), Metric({}, Jam, <<>>), Metric({}, Jam, Jams), Metric({<<2, 3>>}, <<>>, Queue),
     Metric({<<1, 4>>}, <<>>, <<>>), Metric({<<2, 3>>, <<4, 5>>}, Jam, <<>>),
     Metric({<<2, 3>>, <<1, 4>>}, <<>>, <<>>), Metric({<<5, 4>>}, Jam, Jams) >>

Region == 1 .. 6
KeepList == << Region, Region \ {5}, Region \ {3} >>

(* Which tag, which metric, which slice, from where and to where. *)
Tasks == (1 .. 6) \X (1 .. 8) \X (1 .. 3) \X {1, 2, 5, 6} \X {3, 4, 6}

(* "@@ <<>>" makes TLC evaluate a table once. *)
MCMaps     == [m \in 1 .. 5 |-> Ways(TagList[m][1], TagList[m][2])] @@ 6 :> FastWays
MCRegions  == [m \in 1 .. 6 |-> ParsePBF(MCMaps[m], MCCoords)] @@ <<>>
MCRequests ==
  [t \in Tasks |-> [map |-> t[1], metric |-> MetricList[t[2]], keep |-> KeepList[t[3]],
                    from |-> t[4], to |-> t[5]]] @@ <<>>

SlicesOf(graphs) ==
  [x \in (1 .. 6) \X (1 .. 3) |-> Slice(graphs[x[1]], KeepList[x[2]])] @@ <<>>

ProblemsOf(slices) ==
  [t \in Tasks |-> [graph  |-> slices[t[1], t[3]],
                    weight |-> Customize(slices[t[1], t[3]], MetricList[t[2]]) @@ <<>>,
                    from   |-> t[4], to |-> t[5]]] @@ <<>>

(* The slices are bound so that TLC evaluates them once. *)
Tables ==
  UNION {{ProblemsOf(slices) : slices \in {SlicesOf(graphs)}} : graphs \in {MCRegions}}
MCProblems == CHOOSE table \in Tables : TRUE
=============================================================================
