------------------------------ MODULE Movement ------------------------------
(***************************************************************************)
(* Actors that follow tracks over the road graph (movement.Actor), and the *)
(* trips the engine sends them on.  Lengths, times and positions are whole *)
(* numbers of some small unit; a length below 1e-6 m is no length.  The    *)
(* search for a trip is AStar's, which is taken to find a fastest path     *)
(* here, as it does if no road is above 140 km/h.                          *)
(***************************************************************************)
EXTENDS Integers, FiniteSetsExt, SequencesExt

CONSTANTS
  Nodes,         \* the ids of the graph's nodes
  Length,        \* directed road <<from, to>> -> the distance of its ends
  Edges,         \* directed road -> its edges in the graph, in their order
  Dt,            \* the time a tick stands for
  Fallback,      \* the distance of a tick at 13.9 m/s
  CellAt(_, _, _) \* the base cell at an offset along <<from, to>>

Roads == DOMAIN Length

(* Parallel edges differ in the time they take, from Customize without     *)
(* closures.  In a tick an edge that takes time is driven for a unit at    *)
(* least.                                                                  *)
ASSUME GraphAssumption ==
  /\ Nodes \subseteq Int /\ IsFiniteSet(Nodes)
  /\ Roads \subseteq Nodes \X Nodes
  /\ Length \in [Roads -> Nat]
  /\ Edges \in [Roads -> Seq([len : Nat, time : Nat]) \ {<<>>}]
  /\ Dt \in Nat /\ Fallback \in Nat \ {0}
  /\ \A r \in Roads : \A k \in DOMAIN Edges[r] : Dt * Edges[r][k].len >= Edges[r][k].time

(* The start of a road is where its first node is. *)
ASSUME CellAtAssumption == \A r \in Roads : CellAt(r[1], r[2], 0) = CellAt(r[1], r[1], 0)

NewActor(track) == [track |-> track, seg |-> 1, off |-> 0]

(* Road s of a track; the road an actor is on, and the end of its track. *)
Stretch(a, s) == <<a.track[s], a.track[s + 1]>>
Road(a) == Stretch(a, a.seg)
End(a)  == a.track[Len(a.track)]

Arrived(a) == a.seg >= Len(a.track)

(* Slip: an edge that takes no time is driven at no speed. *)
EdgeSpeedSlip(a) ==
  IF Arrived(a) THEN 0
  ELSE LET e == Edges[Road(a)][1] IN IF e.time = 0 THEN 0 ELSE (Dt * e.len) \div e.time

(* The distance of a tick: the speed is that of the road the actor is on   *)
(* when the tick begins, also for the roads it goes on to.  Of parallel    *)
(* edges the first that takes time decides, although the trip's search     *)
(* took the fastest.                                                       *)
EdgeSpeed(a) ==
  IF Arrived(a) THEN 0
  ELSE LET edges == Edges[Road(a)]
           timed == {k \in DOMAIN edges : edges[k].time > 0}
       IN IF timed = {} THEN Fallback
          ELSE (Dt * edges[Min(timed)].len) \div edges[Min(timed)].time

(* A road of an actor's track, or its end, and a distance from there. *)
Ahead(a) == (1 .. Len(a.track)) \X Nat

(* Slip: an actor that gets exactly to the end of a road stays on it. *)
AdvanceSlip(a, dist) ==
  LET On[x \in Ahead(a)] ==
        IF x[1] = Len(a.track) THEN [a EXCEPT !.seg = x[1], !.off = 0]
        ELSE LET len == Length[Stretch(a, x[1])]
             IN IF x[2] > 0 /\ x[2] > len THEN On[<<x[1] + 1, x[2] - len>>]
                ELSE [a EXCEPT !.seg = x[1], !.off = x[2]]
  IN On[<<a.seg, a.off + dist>>]

(* Advance: forward along the track, and no further than its end.  At      *)
(* <<s, d>>, On is the actor d ahead of the start of the track's road s.   *)
(* A road of no length is crossed at once, but not by an actor whose tick  *)
(* is used up at its start.                                                *)
Advance(a, dist) ==
  LET On[x \in Ahead(a)] ==
        IF x[1] = Len(a.track) THEN [a EXCEPT !.seg = x[1], !.off = 0]
        ELSE LET len == Length[Stretch(a, x[1])]
             IN IF x[2] > 0 /\ x[2] >= len THEN On[<<x[1] + 1, x[2] - len>>]
                ELSE [a EXCEPT !.seg = x[1], !.off = x[2]]
  IN On[<<a.seg, a.off + dist>>]

Cell(a) == IF Arrived(a) THEN CellAt(End(a), End(a), 0)
           ELSE CellAt(a.track[a.seg], a.track[a.seg + 1], a.off)
-----------------------------------------------------------------------------
RoadTime(r) == Min({e.time : e \in ToSet(Edges[r])})

TravelTime(p) == MapThenSumSet(LAMBDA i : RoadTime(<<p[i], p[i + 1]>>), 1 .. Len(p) - 1)

(* What AStar returns for two nodes: a path that takes the least time. *)
AStar(m, n) ==
  LET paths == {p \in SeqOf(Nodes, Cardinality(Nodes)) :
                  /\ Len(p) > 1 /\ p[1] = m /\ Last(p) = n /\ IsInjective(p)
                  /\ \A i \in 1 .. Len(p) - 1 : <<p[i], p[i + 1]>> \in Roads}
  IN {p \in paths : \A q \in paths : TravelTime(p) <= TravelTime(q)}

Trips == UNION {AStar(m, n) : m \in Nodes, n \in Nodes}

(* roam: a trip from where the actor is on its track, or none, when none   *)
(* of the eight targets drawn is another node that can be reached.  A trip *)
(* to where the actor already is is drawn again.                           *)
Roam(a) == {a} \cup {NewActor(p) : p \in {t \in Trips : t[1] = a.track[a.seg]}}

(* Engine.Add: a new actor at its start node, with a first trip. *)
Added(start) == Roam(NewActor(<<start>>))
=============================================================================
