------------------------- MODULE RouteSearchProofs -------------------------
(***************************************************************************)
(* Theorems about AStar, for every graph, every customized metric and      *)
(* every pair of nodes, and about the routes clients find in slices.  What *)
(* holds only as long as no road is faster than the heuristic's top speed  *)
(* says so (InBounds).                                                     *)
(***************************************************************************)
EXTENDS RegionRoutes, FiniteSetTheorems, WellFoundedInduction, TLAPS

InBounds == Admissible(q)

(* The search is under way or over, and there was something to search. *)
Begun == at # "start" /\ q.from # q.to /\ q.to \in DOMAIN q.graph.at

Phases ==
  /\ at = "start" => gScore = <<>> /\ prevEdge = <<>> /\ seen = {} /\ pending = {}
  /\ at \in {"start", "search"} => dur = 0
  /\ at \in {"search", "back"} => Begun
  /\ at = "found" => Begun \/ (q.from = q.to /\ dur = 0)
  /\ at = "none" => q.from # q.to /\ (Begun \/ q.to \notin DOMAIN q.graph.at)
  /\ at # "search" => pending = {}

(* The start is at time 0 and the first node expanded; the target is never *)
(* expanded.                                                               *)
Scores ==
  Begun =>
    /\ q.from \in DOMAIN gScore /\ gScore[q.from] = 0
    /\ seen \subseteq DOMAIN gScore /\ q.to \notin seen
    /\ q.from \in seen \/ (at = "search" /\ seen = {} /\ pending = {} /\ DOMAIN gScore = {q.from})

(* What a road of an expanded node leads to is scored, and, as long as no  *)
(* score of an expanded node falls, no worse than along that road.         *)
Relaxed ==
  Begun =>
    \A i \in DOMAIN Edges \ pending :
      IsOpen(i) /\ Edges[i].from \in seen =>
        /\ Edges[i].to \in DOMAIN gScore
        /\ InBounds => gScore[Edges[i].to] <= gScore[Edges[i].from] + Weights[i]

(* Every node that is scored and not expanded waits in the heap with its   *)
(* score; an item's score may be out of date, but only upwards, and in     *)
(* bounds no expanded node's is above it.                                  *)
Rank(n) == gScore[n] + Heuristic(n)

Heap ==
  at = "search" =>
    /\ \A n \in DOMAIN gScore \ seen : [node |-> n, f |-> Rank(n)] \in open
    /\ \A o \in open :
         /\ o.node \in DOMAIN gScore
         /\ Rank(o.node) <= o.f
         /\ InBounds => \A s \in seen : Rank(s) <= o.f

(* The node being expanded is, in bounds, the last of them. *)
Expanding ==
  pending # {} =>
    /\ cur \in seen
    /\ \A i \in pending : Edges[i].from = cur
    /\ InBounds => \A s \in seen : Rank(s) <= Rank(cur)

(* The last road of every node but the start comes from an expanded node.  *)
(* It accounted for the node's score when it was noted; that node's own    *)
(* score may have fallen since, out of bounds.                             *)
LastRoads ==
  Begun =>
    /\ DOMAIN prevEdge = DOMAIN gScore \ {q.from}
    /\ \A n \in DOMAIN prevEdge :
         LET i == prevEdge[n] IN
           /\ Edges[i].to = n /\ Edges[i].from \in seen /\ IsOpen(i)
           /\ gScore[Edges[i].from] + Weights[i] <= gScore[n]
           /\ InBounds => gScore[n] = gScore[Edges[i].from] + Weights[i]

(* When the target has left the heap, it is before the nodes that are not  *)
(* expanded, and in bounds behind the others.                              *)
Cut ==
  at \in {"back", "found"} /\ Begun =>
    /\ q.to \in DOMAIN gScore
    /\ \A n \in DOMAIN gScore \ seen : gScore[q.to] <= Rank(n)
    /\ InBounds => \A s \in seen : Rank(s) <= gScore[q.to]

(* What has been read back and what is left add up to the target's score,  *)
(* in bounds.                                                              *)
ReadBack ==
  /\ at = "back" => /\ cur = q.to \/ cur \in seen
                    /\ InBounds => dur + gScore[cur] = gScore[q.to]
  /\ at = "found" /\ Begun /\ InBounds => dur = gScore[q.to]

(* When the heap is empty, every node that was scored was expanded. *)
Spent == at = "none" /\ Begun => seen = DOMAIN gScore

IInv ==
  /\ TypeOK /\ Phases /\ Scores /\ Relaxed /\ Heap /\ Expanding
  /\ LastRoads /\ Cut /\ ReadBack /\ Spent
-----------------------------------------------------------------------------
LEMMA Scaled ==
  \A t, a, b, c \in Nat : a <= b + c => t * a <= t * b + t * c
  <1>1. SUFFICES ASSUME NEW t \in Nat, NEW a \in Nat, NEW b \in Nat, NEW c \in Nat, a <= b + c
                 PROVE  t * a <= t * b + t * c
    OBVIOUS
  <1>2. PICK d \in Nat : b + c = a + d
    <2>1. (b + c) - a \in Nat /\ b + c = a + ((b + c) - a)
      BY <1>1
    <2>2. QED
      BY <2>1
  <1>3. t * (b + c) = t * b + t * c /\ t * (a + d) = t * a + t * d /\ t * d \in Nat /\ t * a \in Nat
    OBVIOUS
  <1>4. QED
    BY <1>2, <1>3

(* Heuristics are naturals, 0 at the target, and in bounds consistent:     *)
(* along an open road the heuristic falls by no more than the road takes.  *)
(* This is the triangle inequality and the bound on the speed of roads.    *)
LEMMA Consistency ==
  ASSUME name \in DOMAIN Problems
  PROVE  /\ \A n : Heuristic(n) \in Nat
         /\ Heuristic(q.to) = 0
         /\ \A i \in DOMAIN Edges :
              /\ i \in Nat
              /\ Edges[i].from \in Nodes /\ Edges[i].to \in Nodes
              /\ Edges[i].to \in DOMAIN q.graph.at
              /\ Edges[i].from \in DOMAIN q.graph.at
              /\ Edges[i].len \in Nat
              /\ IsOpen(i) => /\ Weights[i] \in Nat
                              /\ InBounds => Heuristic(Edges[i].from)
                                               <= Weights[i] + Heuristic(Edges[i].to)
  <1>1. IsProblem(q)
    BY ProblemsAssumption DEF q
  <1>2. \A n : Place(q.graph, n) \in Points
    BY <1>1, DistanceAssumption DEF IsProblem, Place
  <1>3. ASSUME NEW n
        PROVE  /\ Heuristic(n) \in Nat
               /\ Heuristic(n) = TopPace * Distance[Place(q.graph, n), Place(q.graph, q.to)]
    <2>1. PICK d : d = Distance[Place(q.graph, n), Place(q.graph, q.to)]
      OBVIOUS
    <2>2. d \in Nat
      BY <1>2, <2>1, DistanceAssumption
    <2>3. TopPace * d \in Nat
      BY <2>2, TopPaceAssumption
    <2>4. Heuristic(n) = TopPace * d
      BY <2>1 DEF Heuristic
    <2>5. QED
      BY <2>1, <2>3, <2>4
  <1>4. Heuristic(q.to) = 0
    <2>1. Distance[Place(q.graph, q.to), Place(q.graph, q.to)] = 0
      BY <1>2, DistanceAssumption
    <2>2. Heuristic(q.to) = TopPace * 0
      BY <2>1 DEF Heuristic
    <2>3. QED
      BY <2>2, TopPaceAssumption
  <1>5. ASSUME NEW i \in DOMAIN Edges
        PROVE  /\ i \in Nat
               /\ Edges[i].to \in DOMAIN q.graph.at
               /\ Edges[i].from \in DOMAIN q.graph.at
               /\ Edges[i].len \in Nat
    BY <1>1 DEF IsProblem, Edges
  <1>6. ASSUME NEW i \in DOMAIN Edges, IsOpen(i)
        PROVE  Weights[i] \in Nat
    BY <1>1, <1>6 DEF IsProblem, Edges, Weights, IsOpen
  <1>7. ASSUME NEW i \in DOMAIN Edges, IsOpen(i), InBounds
        PROVE  Heuristic(Edges[i].from) <= Weights[i] + Heuristic(Edges[i].to)
    <2> DEFINE x == Place(q.graph, Edges[i].from)
               y == Place(q.graph, Edges[i].to)
               z == Place(q.graph, q.to)
    <2>1. x = q.graph.at[Edges[i].from] /\ y = q.graph.at[Edges[i].to]
      BY <1>5 DEF Place
    <2>2. TopPace * Distance[x, y] <= Weights[i]
      BY <1>7, <2>1 DEF InBounds, Admissible, Edges, Weights, IsOpen
    <2>3. x \in Points /\ y \in Points /\ z \in Points
      BY <1>2
    <2>4. /\ Heuristic(Edges[i].from) = TopPace * Distance[x, z]
          /\ Heuristic(Edges[i].to) = TopPace * Distance[y, z]
      BY <1>3
    <2> HIDE DEF x, y, z
    <2>5. PICK xz, xy, yz : xz = Distance[x, z] /\ xy = Distance[x, y] /\ yz = Distance[y, z]
      OBVIOUS
    <2>6. xz \in Nat /\ xy \in Nat /\ yz \in Nat /\ xz <= xy + yz
      BY <2>3, <2>5, DistanceAssumption
    <2>7. TopPace * xz <= TopPace * xy + TopPace * yz
      BY <2>6, Scaled, TopPaceAssumption
    <2>8. PICK a, b, c, w : a = TopPace * xz /\ b = TopPace * xy /\ c = TopPace * yz /\ w = Weights[i]
      OBVIOUS
    <2>9. a \in Nat /\ b \in Nat /\ c \in Nat /\ w \in Nat
      BY <1>6, <1>7, <2>6, <2>8, TopPaceAssumption
    <2>10. a <= w + c
      <3>1. a <= b + c /\ b <= w
        BY <2>2, <2>5, <2>7, <2>8
      <3>2. QED
        BY <2>9, <3>1
    <2>11. QED
      BY <2>4, <2>5, <2>8, <2>10
  <1>8. QED
    BY <1>3, <1>4, <1>5, <1>6, <1>7 DEF Nodes

(* The problem stays the same, and everything that is read off it. *)
LEMMA SameProblem ==
  ASSUME name' = name
  PROVE  /\ q' = q /\ Edges' = Edges /\ Weights' = Weights /\ Nodes' = Nodes
         /\ \A n : Heuristic(n)' = Heuristic(n)
         /\ \A i : IsOpen(i)' <=> IsOpen(i)
         /\ InBounds' <=> InBounds
  BY DEF q, Edges, Weights, Nodes, Heuristic, IsOpen, InBounds, Admissible

(* The invariant holds initially. *)
LEMMA InitIInv == Init => IInv
  <1> SUFFICES ASSUME Init PROVE IInv
    OBVIOUS
  <1>1. TypeOK
    BY DEF Init, TypeOK, Nodes, Items
  <1>2. ~Begun /\ Phases
    BY DEF Init, Begun, Phases
  <1>3. QED
    BY <1>1, <1>2 DEF Init, IInv, Scores, Relaxed, Heap, Expanding, LastRoads, Cut,
                      ReadBack, Spent, Begun

LEMMA PutType ==
  ASSUME NEW S, NEW T, NEW f \in [S -> T], NEW k, NEW v \in T
  PROVE  Put(f, k, v) \in [S \cup {k} -> T]
  BY DEF Put
-----------------------------------------------------------------------------
(* Every step preserves the invariant. *)
LEMMA StartAtTargetStep == ASSUME IInv, StartAtTarget PROVE IInv'
  <1> USE DEF StartAtTarget
  <1>1. name' = name
    OBVIOUS
  <1>2. /\ q' = q /\ Nodes' = Nodes /\ Edges' = Edges /\ (InBounds' <=> InBounds)
    BY <1>1, SameProblem
  <1>3. TypeOK'
    BY <1>2 DEF IInv, TypeOK, Items, Nodes
  <1>4. ~Begun' /\ Phases'
    BY <1>2 DEF IInv, Begun, Phases
  <1>5. QED
    BY <1>2, <1>3, <1>4 DEF IInv, Phases, Scores, Relaxed, Heap, Expanding, LastRoads,
                            Cut, ReadBack, Spent

LEMMA StartNoTargetStep == ASSUME IInv, StartNoTarget PROVE IInv'
  <1> USE DEF StartNoTarget
  <1>1. name' = name
    BY DEF result
  <1>2. /\ q' = q /\ Nodes' = Nodes /\ Edges' = Edges /\ (InBounds' <=> InBounds)
    BY <1>1, SameProblem
  <1>3. TypeOK'
    BY <1>2 DEF IInv, TypeOK, Items, result
  <1>4. ~Begun' /\ Phases'
    BY <1>2 DEF IInv, Begun, Phases, result
  <1>5. QED
    BY <1>2, <1>3, <1>4 DEF IInv, Phases, Scores, Relaxed, Heap, Expanding, LastRoads,
                            Cut, ReadBack, Spent

LEMMA StartStep == ASSUME IInv, Start PROVE IInv'
  <1> USE DEF Start, result
  <1>1. name' = name /\ name \in DOMAIN Problems
    BY DEF IInv, TypeOK
  <1>2. /\ q' = q /\ Nodes' = Nodes /\ Edges' = Edges
        /\ \A n : Heuristic(n)' = Heuristic(n)
        /\ InBounds' <=> InBounds
        /\ \A n : Heuristic(n) \in Nat
    BY <1>1, SameProblem, Consistency
  <1>3. /\ seen = {} /\ pending = {} /\ prevEdge = <<>> /\ dur = 0 /\ q.from \in Nodes
        /\ DOMAIN prevEdge = {}
    BY DEF IInv, Phases, Nodes
  <1>4. gScore' \in [{q.from} -> Nat] /\ gScore'[q.from] = 0 /\ DOMAIN gScore' = {q.from}
    OBVIOUS
  <1>5. TypeOK'
    BY <1>2, <1>3, <1>4 DEF IInv, TypeOK, Items
  <1>6. Begun' /\ Phases'
    BY <1>2, <1>3 DEF IInv, Begun, Phases
  <1>7. Heap'
    BY <1>2, <1>3, <1>4 DEF Heap, Rank
  <1>8. QED
    BY <1>2, <1>3, <1>4, <1>5, <1>6, <1>7
       DEF IInv, Scores, Relaxed, Expanding, LastRoads, Cut, ReadBack, Spent

(* What every item that leaves the heap is worth, and what that says. *)
LEMMA PopFacts ==
  ASSUME IInv, NEW o \in open, Pop(o)
  PROVE  /\ Begun /\ pending = {} /\ dur = 0
         /\ o.node \in DOMAIN gScore /\ DOMAIN gScore \subseteq Nodes
         /\ \A n \in DOMAIN gScore : gScore[n] \in Nat /\ Rank(n) \in Nat
         /\ \A x \in open : x.f \in Nat
         /\ Rank(o.node) <= o.f
         /\ InBounds => \A s \in seen : Rank(s) <= o.f
         /\ \A n \in DOMAIN gScore \ seen : o.f <= Rank(n)
  <1>1. at = "search" /\ Begun /\ pending = {} /\ dur = 0
    BY DEF Pop, IInv, Phases
  <1>2. \A n \in DOMAIN gScore : gScore[n] \in Nat /\ Rank(n) \in Nat
    BY Consistency DEF IInv, TypeOK, Rank
  <1>3. \A x \in open : x.f \in Nat
    BY DEF IInv, TypeOK, Items
  <1>4. /\ o.node \in DOMAIN gScore
        /\ Rank(o.node) <= o.f
        /\ InBounds => \A s \in seen : Rank(s) <= o.f
    BY <1>1 DEF IInv, Heap
  <1>5. ASSUME NEW n \in DOMAIN gScore \ seen PROVE o.f <= Rank(n)
    <2>1. [node |-> n, f |-> Rank(n)] \in open
      BY <1>1 DEF IInv, Heap
    <2>2. QED
      BY <2>1 DEF Pop
  <1>6. QED
    BY <1>1, <1>2, <1>3, <1>4, <1>5 DEF IInv, TypeOK

LEMMA PopTargetStep == ASSUME IInv, NEW o \in open, PopTarget(o) PROVE IInv'
  <1> USE DEF PopTarget, result
  <1>1. name' = name /\ name \in DOMAIN Problems /\ Pop(o)
    BY DEF IInv, TypeOK
  <1>2. /\ q' = q /\ Nodes' = Nodes /\ Edges' = Edges /\ Weights' = Weights
        /\ \A n : Heuristic(n)' = Heuristic(n)
        /\ InBounds' <=> InBounds
        /\ \A n : Heuristic(n) \in Nat
        /\ \A i : IsOpen(i)' <=> IsOpen(i)
        /\ Heuristic(q.to) = 0
    BY <1>1, SameProblem, Consistency
  <1>3. /\ Begun /\ pending = {} /\ dur = 0
        /\ q.to \in DOMAIN gScore /\ DOMAIN gScore \subseteq Nodes
        /\ \A n \in DOMAIN gScore : gScore[n] \in Nat /\ Rank(n) \in Nat
        /\ o.f \in Nat
        /\ Rank(q.to) <= o.f
        /\ InBounds => \A s \in seen : Rank(s) <= o.f
        /\ \A n \in DOMAIN gScore \ seen : o.f <= Rank(n)
    BY <1>1, PopFacts
  <1>4. /\ Rank(q.to) = gScore[q.to]
        /\ \A n : Rank(n)' = Rank(n)
    BY <1>2, <1>3 DEF Rank
  <1>5. q.to \notin seen /\ q.from \in seen /\ seen \subseteq DOMAIN gScore /\ q.from # q.to
    BY <1>3 DEF IInv, Scores, Begun
  <1>6. TypeOK'
    BY <1>2, <1>3 DEF IInv, TypeOK, Items, Pop
  <1>7. Begun' /\ Phases'
    BY <1>2, <1>3 DEF IInv, Begun, Phases
  <1>8. Scores' /\ Relaxed' /\ LastRoads'
    BY <1>2, <1>3, <1>5, <1>7 DEF IInv, Scores, Relaxed, LastRoads
  <1>9. Cut'
    BY <1>2, <1>3, <1>4, <1>5 DEF Cut
  <1>10. ReadBack'
    BY <1>2, <1>3 DEF ReadBack
  <1>11. QED
    BY <1>3, <1>6, <1>7, <1>8, <1>9, <1>10 DEF IInv, Heap, Expanding, Spent

LEMMA PopSeenStep == ASSUME IInv, NEW o \in open, PopSeen(o) PROVE IInv'
  <1> USE DEF PopSeen, Pop, result
  <1>1. name' = name /\ name \in DOMAIN Problems
    BY DEF IInv, TypeOK
  <1>2. /\ q' = q /\ Nodes' = Nodes /\ Edges' = Edges /\ Weights' = Weights
        /\ \A n : Heuristic(n)' = Heuristic(n)
        /\ InBounds' <=> InBounds
        /\ \A i : IsOpen(i)' <=> IsOpen(i)
    BY <1>1, SameProblem
  <1>3. (\A n : Rank(n)' = Rank(n)) /\ (Begun' <=> Begun)
    BY <1>2 DEF Rank, Begun
  <1>4. TypeOK' /\ Phases'
    BY <1>2, <1>3 DEF IInv, TypeOK, Items, Phases
  <1>5. Heap'
    BY <1>2, <1>3 DEF IInv, Heap
  <1>6. Scores' /\ Relaxed' /\ LastRoads'
    BY <1>2, <1>3 DEF IInv, Scores, Relaxed, LastRoads
  <1>7. QED
    BY <1>3, <1>4, <1>5, <1>6 DEF IInv, Expanding, Cut, ReadBack, Spent

LEMMA PopNewStep == ASSUME IInv, NEW o \in open, PopNew(o) PROVE IInv'
  <1> USE DEF PopNew, result
  <1>1. name' = name /\ name \in DOMAIN Problems /\ Pop(o) /\ open' = open \ {o} /\ at = "search"
    BY DEF IInv, TypeOK, Pop
  <1>2. /\ q' = q /\ Nodes' = Nodes /\ Edges' = Edges /\ Weights' = Weights
        /\ \A n : Heuristic(n)' = Heuristic(n)
        /\ InBounds' <=> InBounds
        /\ \A i : IsOpen(i)' <=> IsOpen(i)
    BY <1>1, SameProblem
  <1>3. /\ Begun /\ pending = {} /\ dur = 0
        /\ o.node \in DOMAIN gScore /\ DOMAIN gScore \subseteq Nodes
        /\ \A n \in DOMAIN gScore : gScore[n] \in Nat /\ Rank(n) \in Nat
        /\ \A x \in open : x.f \in Nat
        /\ Rank(o.node) <= o.f
        /\ InBounds => \A s \in seen : Rank(s) <= o.f
        /\ \A n \in DOMAIN gScore \ seen : o.f <= Rank(n)
    BY <1>1, PopFacts
  <1>4. (\A n : Rank(n)' = Rank(n)) /\ (Begun' <=> Begun)
    BY <1>2 DEF Rank, Begun
  <1>5. TypeOK' /\ Phases'
    BY <1>1, <1>2, <1>3, <1>4 DEF IInv, TypeOK, Items, Phases, Adj
  <1>6. Scores'
    BY <1>1, <1>2, <1>3, <1>4 DEF IInv, Scores, Begun
  <1>7. seen \subseteq DOMAIN gScore
    BY <1>3 DEF IInv, Scores
  <1>8. Relaxed'
    BY <1>2, <1>3, <1>4 DEF IInv, Relaxed, Adj
  <1>9. Heap'
    <2>1. ASSUME NEW n \in DOMAIN gScore \ seen' PROVE [node |-> n, f |-> Rank(n)] \in open'
      BY <1>1 DEF IInv, Heap
    <2>2. ASSUME NEW x \in open'
          PROVE  /\ x.node \in DOMAIN gScore /\ Rank(x.node) <= x.f
                 /\ InBounds => \A s \in seen' : Rank(s) <= x.f
      <3>1. x \in open /\ o.f <= x.f
        BY <1>1 DEF Pop
      <3>2. Rank(o.node) <= x.f
        BY <1>3, <3>1
      <3>3. QED
        BY <1>1, <3>1, <3>2 DEF IInv, Heap
    <2>3. QED
      BY <1>2, <1>4, <2>1, <2>2 DEF Heap
  <1>10. Expanding'
    <2>1. o.f <= Rank(o.node)
      BY <1>3
    <2>2. InBounds => \A s \in seen' : Rank(s) <= Rank(o.node)
      BY <1>3, <1>7, <2>1
    <2>3. QED
      BY <1>2, <1>4, <2>2 DEF Expanding, Adj
  <1>11. LastRoads'
    BY <1>2, <1>4 DEF IInv, LastRoads
  <1>12. QED
    BY <1>1, <1>5, <1>6, <1>8, <1>9, <1>10, <1>11 DEF IInv, Cut, ReadBack, Spent

(* What is known of a pending road and of the score it offers. *)
LEMMA PendingFacts ==
  ASSUME IInv, NEW i \in pending
  PROVE  /\ at = "search" /\ Begun /\ i \in DOMAIN Edges
         /\ Edges[i].from = cur /\ cur \in seen /\ q.from \in seen
         /\ seen \subseteq DOMAIN gScore /\ DOMAIN gScore \subseteq Nodes
         /\ gScore \in [DOMAIN gScore -> Nat]
         /\ \A n \in DOMAIN gScore : gScore[n] \in Nat /\ Rank(n) \in Nat
         /\ InBounds => \A s \in seen : Rank(s) <= Rank(cur)
         /\ Edges[i].to \in Nodes
         /\ IsOpen(i) => Weights[i] \in Nat
         /\ IsOpen(i) /\ InBounds =>
              /\ Rank(cur) <= gScore[cur] + Weights[i] + Heuristic(Edges[i].to)
              /\ \A s \in seen : s = Edges[i].to => gScore[s] <= gScore[cur] + Weights[i]
  <1>1. /\ at = "search" /\ Begun /\ i \in DOMAIN Edges
        /\ Edges[i].from = cur /\ cur \in seen
        /\ InBounds => \A s \in seen : Rank(s) <= Rank(cur)
        /\ DOMAIN gScore \subseteq Nodes /\ gScore \in [DOMAIN gScore -> Nat]
        /\ name \in DOMAIN Problems
    BY DEF IInv, TypeOK, Phases, Expanding
  <1>2. q.from \in seen /\ seen \subseteq DOMAIN gScore
    BY <1>1 DEF IInv, Scores
  <1>3. \A n \in DOMAIN gScore : gScore[n] \in Nat /\ Heuristic(n) \in Nat /\ Rank(n) \in Nat
    BY <1>1, Consistency DEF Rank
  <1>4. Edges[i].to \in Nodes
    BY <1>1, Consistency
  <1>5. IsOpen(i) => Weights[i] \in Nat
    BY <1>1, Consistency
  <1>6. ASSUME IsOpen(i), InBounds
        PROVE  /\ Rank(cur) <= gScore[cur] + Weights[i] + Heuristic(Edges[i].to)
               /\ \A s \in seen : s = Edges[i].to => gScore[s] <= gScore[cur] + Weights[i]
    <2>1. /\ Weights[i] \in Nat /\ Heuristic(Edges[i].to) \in Nat
          /\ Heuristic(cur) <= Weights[i] + Heuristic(Edges[i].to)
      BY <1>1, <1>6, Consistency
    <2>2. /\ cur \in DOMAIN gScore /\ Rank(cur) = gScore[cur] + Heuristic(cur)
      BY <1>1, <1>2 DEF Rank
    <2>3. Rank(cur) <= gScore[cur] + Weights[i] + Heuristic(Edges[i].to)
      BY <1>3, <2>1, <2>2
    <2>4. ASSUME NEW s \in seen, s = Edges[i].to PROVE gScore[s] <= gScore[cur] + Weights[i]
      <3>1. Rank(s) = gScore[s] + Heuristic(Edges[i].to) /\ Rank(s) <= Rank(cur)
        BY <1>1, <1>6, <2>4 DEF Rank
      <3>2. s \in DOMAIN gScore
        BY <1>2
      <3>3. QED
        BY <1>3, <2>1, <2>2, <2>3, <3>1, <3>2
    <2>5. QED
      BY <2>3, <2>4
  <1>7. QED
    BY <1>1, <1>2, <1>3, <1>4, <1>5, <1>6

(* A road that is relaxed for nothing: it is closed or offers no better    *)
(* score, so that its end has been scored as well as the road would.       *)
LEMMA RelaxNothing ==
  ASSUME IInv, NEW i \in pending, Relax(i),
         ~(IsOpen(i) /\ Better(Edges[i].to, gScore[cur] + Weights[i]))
  PROVE  IInv'
  <1> USE DEF Relax, result
  <1>1. /\ name' = name /\ name \in DOMAIN Problems /\ at = "search" /\ pending' = pending \ {i}
        /\ UNCHANGED <<at, gScore, prevEdge, open, seen, cur, path, dist, dur>>
    BY DEF IInv, TypeOK
  <1>2. /\ q' = q /\ Nodes' = Nodes /\ Edges' = Edges /\ Weights' = Weights
        /\ \A n : Heuristic(n)' = Heuristic(n)
        /\ InBounds' <=> InBounds
        /\ \A j : IsOpen(j)' <=> IsOpen(j)
    BY <1>1, SameProblem
  <1>3. (\A n : Rank(n)' = Rank(n)) /\ (Begun' <=> Begun)
    BY <1>1, <1>2 DEF Rank, Begun
  <1>4. /\ Begun /\ Edges[i].from = cur /\ cur \in seen /\ q.from \in seen
        /\ seen \subseteq DOMAIN gScore
        /\ \A n \in DOMAIN gScore : gScore[n] \in Nat
        /\ IsOpen(i) => Weights[i] \in Nat
    BY PendingFacts
  <1>5. IsOpen(i) => /\ Edges[i].to \in DOMAIN gScore
                    /\ gScore[Edges[i].to] <= gScore[cur] + Weights[i]
    BY <1>4 DEF Better
  <1>6. TypeOK' /\ Phases'
    BY <1>1, <1>2, <1>3 DEF IInv, TypeOK, Items, Phases
  <1>7. Scores' /\ LastRoads'
    BY <1>1, <1>2, <1>3, <1>4 DEF IInv, Scores, LastRoads
  <1>8. Relaxed'
    BY <1>1, <1>2, <1>3, <1>4, <1>5 DEF IInv, Relaxed
  <1>9. Heap' /\ Expanding'
    BY <1>1, <1>2, <1>3 DEF IInv, Heap, Expanding
  <1>10. QED
    BY <1>1, <1>6, <1>7, <1>8, <1>9 DEF IInv, Cut, ReadBack, Spent

(* A road that leads to its end sooner: the end is neither the start nor   *)
(* where the road begins, since no road takes less than no time; in bounds *)
(* it has not been expanded.                                               *)
LEMMA RelaxBetter ==
  ASSUME IInv, NEW i \in pending, Relax(i),
         IsOpen(i), Better(Edges[i].to, gScore[cur] + Weights[i])
  PROVE  IInv' /\ (InBounds => \A n \in seen : gScore'[n] = gScore[n])
  <1>0. PICK v, cand : v = Edges[i].to /\ cand = gScore[cur] + Weights[i]
    OBVIOUS
  <1>1. /\ name' = name /\ name \in DOMAIN Problems /\ at = "search" /\ pending' = pending \ {i}
        /\ UNCHANGED <<at, seen, cur, path, dist, dur>>
        /\ gScore' = Put(gScore, v, cand)
        /\ prevEdge' = Put(prevEdge, v, i)
        /\ open' = open \cup {[node |-> v, f |-> cand + Heuristic(v)]}
    BY <1>0 DEF IInv, TypeOK, Relax, result
  <1>2. /\ q' = q /\ Nodes' = Nodes /\ Edges' = Edges /\ Weights' = Weights
        /\ \A n : Heuristic(n)' = Heuristic(n)
        /\ InBounds' <=> InBounds
        /\ \A n : Heuristic(n) \in Nat
        /\ \A j : IsOpen(j)' <=> IsOpen(j)
    BY <1>1, SameProblem, Consistency
  <1>3. Begun' <=> Begun
    BY <1>1, <1>2 DEF Begun
  <1>4. /\ Begun /\ i \in DOMAIN Edges
        /\ Edges[i].from = cur /\ cur \in seen /\ q.from \in seen
        /\ seen \subseteq DOMAIN gScore /\ DOMAIN gScore \subseteq Nodes
        /\ gScore \in [DOMAIN gScore -> Nat]
        /\ \A n \in DOMAIN gScore : gScore[n] \in Nat /\ Rank(n) \in Nat
        /\ InBounds => \A s \in seen : Rank(s) <= Rank(cur)
        /\ v \in Nodes
        /\ Weights[i] \in Nat
        /\ InBounds => /\ Rank(cur) <= cand + Heuristic(v)
                       /\ \A s \in seen : s = v => gScore[s] <= cand
    BY <1>0, PendingFacts
  <1>5. cand \in Nat
    BY <1>0, <1>4
  <1>6. InBounds => v \notin seen
    BY <1>0, <1>4, <1>5 DEF Better
  <1>7. v # q.from /\ v # cur
    <2>1. gScore[q.from] = 0 /\ q.from \in DOMAIN gScore
      BY <1>4 DEF IInv, Scores
    <2>2. gScore[cur] <= cand /\ cur \in DOMAIN gScore
      BY <1>0, <1>4
    <2>3. QED
      BY <1>0, <1>4, <1>5, <2>1, <2>2 DEF Better
  <1>8. /\ DOMAIN gScore' = DOMAIN gScore \cup {v}
        /\ gScore'[v] = cand
        /\ \A n \in DOMAIN gScore : n # v => gScore'[n] = gScore[n]
        /\ gScore' \in [DOMAIN gScore \cup {v} -> Nat]
    <2>1. Put(gScore, v, cand) \in [DOMAIN gScore \cup {v} -> Nat]
      BY <1>4, <1>5, PutType
    <2>2. QED
      BY <1>1, <2>1 DEF Put
  <1>9. /\ DOMAIN prevEdge' = DOMAIN prevEdge \cup {v}
        /\ prevEdge'[v] = i
        /\ \A n \in DOMAIN prevEdge : n # v => prevEdge'[n] = prevEdge[n]
        /\ prevEdge' \in [DOMAIN prevEdge \cup {v} -> DOMAIN Edges]
    <2>1. prevEdge \in [DOMAIN prevEdge -> DOMAIN Edges]
      BY DEF IInv, TypeOK
    <2>2. Put(prevEdge, v, i) \in [DOMAIN prevEdge \cup {v} -> DOMAIN Edges]
      BY <1>4, <2>1, PutType
    <2>3. QED
      BY <1>1, <2>2 DEF Put
  <1>10. /\ InBounds => \A n \in seen : gScore'[n] = gScore[n]
         /\ \A n \in DOMAIN gScore : gScore'[n] <= gScore[n] /\ gScore'[n] \in Nat
         /\ gScore'[cur] = gScore[cur]
    <2>1. InBounds => \A n \in seen : gScore'[n] = gScore[n]
      BY <1>4, <1>6, <1>8
    <2>2. v \in DOMAIN gScore => cand <= gScore[v]
      BY <1>0, <1>4, <1>5 DEF Better
    <2>3. gScore'[cur] = gScore[cur]
      BY <1>4, <1>7, <1>8
    <2>4. QED
      BY <1>4, <1>5, <1>8, <2>1, <2>2, <2>3
  <1>11. /\ Rank(v)' = cand + Heuristic(v)
         /\ \A n \in DOMAIN gScore : n # v => Rank(n)' = Rank(n)
         /\ \A n \in DOMAIN gScore : Rank(n)' \in Nat /\ Rank(n)' <= Rank(n)
    BY <1>2, <1>4, <1>5, <1>8, <1>10 DEF Rank
  <1>12. TypeOK'
    <2>1. open' \subseteq Items'
      BY <1>1, <1>2, <1>4, <1>5 DEF IInv, TypeOK, Items
    <2>2. QED
      BY <1>1, <1>2, <1>4, <1>8, <1>9, <2>1 DEF IInv, TypeOK
  <1>13. Phases'
    BY <1>1, <1>2, <1>3 DEF IInv, Phases
  <1>14. Scores'
    BY <1>1, <1>2, <1>3, <1>4, <1>7, <1>8 DEF IInv, Scores
  <1>15. Relaxed'
    <2> SUFFICES ASSUME NEW j \in DOMAIN Edges \ pending', IsOpen(j), Edges[j].from \in seen
                 PROVE  /\ Edges[j].to \in DOMAIN gScore'
                        /\ InBounds =>
                             gScore'[Edges[j].to] <= gScore'[Edges[j].from] + Weights[j]
      BY <1>1, <1>2 DEF Relaxed
    <2>1. InBounds => gScore'[Edges[j].from] = gScore[Edges[j].from]
      BY <1>10
    <2>2. CASE j = i
      BY <1>0, <1>4, <1>5, <1>8, <1>10, <2>2
    <2>3. CASE j # i
      <3>1. /\ Edges[j].to \in DOMAIN gScore
            /\ InBounds => gScore[Edges[j].to] <= gScore[Edges[j].from] + Weights[j]
        BY <1>1, <1>4, <2>3 DEF IInv, Relaxed
      <3>2. Weights[j] \in Nat /\ gScore[Edges[j].from] \in Nat /\ gScore[Edges[j].to] \in Nat
        BY <1>1, <1>4, <3>1, Consistency
      <3>3. gScore'[Edges[j].to] <= gScore[Edges[j].to] /\ gScore'[Edges[j].to] \in Nat
        BY <1>10, <3>1
      <3>4. QED
        BY <1>8, <2>1, <3>1, <3>2, <3>3
    <2>4. QED
      BY <2>2, <2>3
  <1>16. Heap'
    <2>1. ASSUME NEW n \in DOMAIN gScore' \ seen PROVE [node |-> n, f |-> Rank(n)'] \in open'
      <3>1. CASE n = v
        BY <1>1, <1>11, <3>1
      <3>2. CASE n # v
        BY <1>1, <1>8, <1>11, <3>2 DEF IInv, Heap
      <3>3. QED
        BY <3>1, <3>2
    <2>2. ASSUME InBounds PROVE \A s \in seen : Rank(s)' = Rank(s) /\ Rank(s) <= cand + Heuristic(v)
      <3>1. \A s \in seen : Rank(s)' = Rank(s) /\ Rank(s) \in Nat
        BY <1>4, <1>6, <1>11, <2>2
      <3>2. \A s \in seen : Rank(s) <= Rank(cur)
        BY <1>4, <2>2
      <3>3. Rank(cur) \in Nat /\ Rank(cur) <= cand + Heuristic(v) /\ cand + Heuristic(v) \in Nat
        BY <1>2, <1>4, <1>5, <2>2
      <3>4. QED
        BY <3>1, <3>2, <3>3
    <2>3. ASSUME NEW x \in open'
          PROVE  /\ x.node \in DOMAIN gScore' /\ Rank(x.node)' <= x.f
                 /\ InBounds => \A s \in seen : Rank(s)' <= x.f
      <3>1. CASE x = [node |-> v, f |-> cand + Heuristic(v)]
        <4>1. x.node = v /\ x.f = cand + Heuristic(v) /\ x.f \in Nat
          BY <1>2, <1>5, <3>1
        <4>2. Rank(x.node)' = x.f
          BY <1>11, <4>1
        <4>3. QED
          BY <1>8, <2>2, <4>1, <4>2
      <3>2. CASE x \in open
        <4>1. /\ x.node \in DOMAIN gScore /\ Rank(x.node) <= x.f /\ x.f \in Nat
              /\ InBounds => \A s \in seen : Rank(s) <= x.f
          BY <1>1, <3>2 DEF IInv, Heap, TypeOK, Items
        <4>2. Rank(x.node)' <= x.f
          <5>1. Rank(x.node)' \in Nat /\ Rank(x.node)' <= Rank(x.node) /\ Rank(x.node) \in Nat
            BY <1>4, <1>11, <4>1
          <5>2. QED
            BY <4>1, <5>1
        <4>3. QED
          BY <1>8, <2>2, <4>1, <4>2
      <3>3. QED
        BY <1>1, <3>1, <3>2
    <2>4. QED
      BY <1>1, <1>2, <2>1, <2>3 DEF Heap
  <1>17. Expanding'
    BY <1>1, <1>2, <1>4, <1>6, <1>7, <1>11 DEF IInv, Expanding
  <1>18. LastRoads'
    <2>1. DOMAIN prevEdge' = DOMAIN gScore' \ {q.from}
      BY <1>4, <1>7, <1>8, <1>9 DEF IInv, LastRoads
    <2>2. ASSUME NEW n \in DOMAIN prevEdge'
          PROVE  LET m == Edges[prevEdge'[n]].from IN
                 /\ Edges[prevEdge'[n]].to = n /\ m \in seen /\ IsOpen(prevEdge'[n])
                 /\ gScore'[m] + Weights[prevEdge'[n]] <= gScore'[n]
                 /\ InBounds => gScore'[n] = gScore'[m] + Weights[prevEdge'[n]]
      <3>1. CASE n = v
        <4>1. prevEdge'[n] = i /\ gScore'[n] = cand /\ cand = gScore'[cur] + Weights[i]
          BY <1>0, <1>8, <1>9, <1>10, <3>1
        <4>2. QED
          BY <1>0, <1>4, <1>5, <3>1, <4>1
      <3>2. CASE n # v
        <4>1. n \in DOMAIN prevEdge /\ prevEdge'[n] = prevEdge[n]
          BY <1>9, <3>2
        <4>2. PICK j, m : j = prevEdge[n] /\ m = Edges[j].from
          OBVIOUS
        <4>3. /\ Edges[j].to = n /\ m \in seen /\ IsOpen(j)
              /\ gScore[m] + Weights[j] <= gScore[n]
              /\ InBounds => gScore[n] = gScore[m] + Weights[j]
              /\ n \in DOMAIN gScore /\ j \in DOMAIN Edges
          BY <1>4, <4>1, <4>2 DEF IInv, LastRoads, TypeOK
        <4>4. gScore'[n] = gScore[n] /\ gScore[n] \in Nat
          BY <1>4, <1>8, <3>2, <4>3
        <4>5. /\ gScore'[m] <= gScore[m] /\ gScore'[m] \in Nat /\ gScore[m] \in Nat
              /\ InBounds => gScore'[m] = gScore[m]
          BY <1>4, <1>10, <4>3
        <4>6. Weights[j] \in Nat
          BY <1>1, <4>3, Consistency
        <4>7. gScore'[m] + Weights[j] <= gScore'[n]
          BY <4>3, <4>4, <4>5, <4>6
        <4>8. QED
          BY <4>1, <4>2, <4>3, <4>4, <4>5, <4>7
      <3>3. QED
        BY <3>1, <3>2
    <2>3. QED
      BY <1>1, <1>2, <2>1, <2>2 DEF LastRoads
  <1>19. QED
    BY <1>1, <1>10, <1>12, <1>13, <1>14, <1>15, <1>16, <1>17, <1>18
       DEF IInv, Cut, ReadBack, Spent

LEMMA RelaxStep == ASSUME IInv, NEW i \in pending, Relax(i) PROVE IInv'
  BY RelaxNothing, RelaxBetter

LEMMA ExhaustedStep == ASSUME IInv, Exhausted PROVE IInv'
  <1> USE DEF Exhausted, result
  <1>1. name' = name /\ at = "search" /\ Begun /\ pending = {} /\ open = {}
    BY DEF IInv, Phases
  <1>2. /\ q' = q /\ Nodes' = Nodes /\ Edges' = Edges /\ Weights' = Weights
        /\ InBounds' <=> InBounds
        /\ \A i : IsOpen(i)' <=> IsOpen(i)
    BY <1>1, SameProblem
  <1>3. Begun'
    BY <1>1, <1>2 DEF Begun
  <1>4. seen = DOMAIN gScore /\ q.from \in seen
    <2>1. \A n \in DOMAIN gScore \ seen : [node |-> n, f |-> Rank(n)] \in open
      BY <1>1 DEF IInv, Heap
    <2>2. QED
      BY <1>1, <2>1 DEF IInv, Scores
  <1>5. TypeOK' /\ Phases'
    BY <1>1, <1>2, <1>3 DEF IInv, TypeOK, Items, Phases, Begun
  <1>6. Scores' /\ Relaxed' /\ LastRoads' /\ Spent'
    BY <1>1, <1>2, <1>3, <1>4 DEF IInv, Scores, Relaxed, LastRoads, Spent
  <1>7. QED
    BY <1>1, <1>5, <1>6 DEF IInv, Heap, Expanding, Cut, ReadBack

LEMMA BackStep == ASSUME IInv, Back PROVE IInv'
  <1> USE DEF Back
  <1>1. /\ name' = name /\ name \in DOMAIN Problems /\ at = "back" /\ Begun /\ pending = {}
        /\ UNCHANGED <<at, gScore, prevEdge, open, seen, pending>>
    BY DEF IInv, TypeOK, Phases
  <1>2. /\ q' = q /\ Nodes' = Nodes /\ Edges' = Edges /\ Weights' = Weights
        /\ \A n : Heuristic(n)' = Heuristic(n)
        /\ InBounds' <=> InBounds
        /\ \A i : IsOpen(i)' <=> IsOpen(i)
    BY <1>1, SameProblem
  <1>3. (\A n : Rank(n)' = Rank(n)) /\ Begun'
    BY <1>1, <1>2 DEF Rank, Begun
  <1>4. PICK i : i = prevEdge[cur]
    OBVIOUS
  <1>5. /\ i \in DOMAIN Edges /\ Edges[i].from \in seen /\ Edges[i].to = cur /\ IsOpen(i)
        /\ InBounds => gScore[cur] = gScore[Edges[i].from] + Weights[i]
        /\ gScore[Edges[i].from] \in Nat /\ Edges[i].from \in Nodes
        /\ Weights[i] \in Nat /\ Edges[i].len \in Nat
    <2>1. cur \in DOMAIN gScore \ {q.from}
      BY <1>1 DEF IInv, ReadBack, Cut, Scores
    <2>2. /\ i \in DOMAIN Edges /\ Edges[i].from \in seen /\ Edges[i].to = cur /\ IsOpen(i)
          /\ InBounds => gScore[cur] = gScore[Edges[i].from] + Weights[i]
      BY <1>1, <1>4, <2>1 DEF IInv, LastRoads, TypeOK
    <2>3. Edges[i].from \in DOMAIN gScore
      BY <1>1, <2>2 DEF IInv, Scores
    <2>4. QED
      BY <1>1, <2>2, <2>3, Consistency DEF IInv, TypeOK
  <1>6. /\ cur' = Edges[i].from /\ path' = <<cur>> \o path
        /\ dist' = dist + Edges[i].len /\ dur' = dur + Weights[i]
    BY <1>4
  <1>7. TypeOK'
    <2>1. cur \in Nodes /\ path \in Seq(Nodes) /\ dist \in Nat /\ dur \in Nat
      BY DEF IInv, TypeOK
    <2>2. path' \in Seq(Nodes)
      BY <1>6, <2>1
    <2>3. dist' \in Nat /\ dur' \in Nat
      BY <1>5, <1>6, <2>1
    <2>4. QED
      BY <1>1, <1>2, <1>5, <1>6, <2>2, <2>3 DEF IInv, TypeOK, Items
  <1>8. Phases' /\ Scores' /\ Relaxed' /\ LastRoads' /\ Cut'
    BY <1>1, <1>2, <1>3 DEF IInv, Phases, Scores, Relaxed, LastRoads, Cut
  <1>9. ReadBack'
    <2>1. (InBounds => dur + gScore[cur] = gScore[q.to]) /\ dur \in Nat
      BY <1>1 DEF IInv, ReadBack, TypeOK
    <2>2. InBounds => dur' + gScore[cur'] = gScore[q.to]
      BY <1>5, <1>6, <2>1
    <2>3. QED
      BY <1>1, <1>2, <1>5, <1>6, <2>2 DEF ReadBack
  <1>10. QED
    BY <1>1, <1>7, <1>8, <1>9 DEF IInv, Heap, Expanding, Spent

LEMMA ReconstructedStep == ASSUME IInv, Reconstructed PROVE IInv'
  <1> USE DEF Reconstructed
  <1>1. name' = name /\ at = "back" /\ Begun /\ pending = {} /\ cur = q.from
    BY DEF IInv, Phases
  <1>2. /\ q' = q /\ Nodes' = Nodes /\ Edges' = Edges /\ Weights' = Weights
        /\ \A n : Heuristic(n)' = Heuristic(n)
        /\ InBounds' <=> InBounds
        /\ \A i : IsOpen(i)' <=> IsOpen(i)
    BY <1>1, SameProblem
  <1>3. (\A n : Rank(n)' = Rank(n)) /\ Begun'
    BY <1>1, <1>2 DEF Rank, Begun
  <1>4. TypeOK'
    <2>1. path' \in Seq(Nodes)
      BY DEF IInv, TypeOK
    <2>2. QED
      BY <1>1, <1>2, <2>1 DEF IInv, TypeOK, Items
  <1>5. Phases' /\ Scores' /\ Relaxed' /\ LastRoads' /\ Cut'
    BY <1>1, <1>2, <1>3 DEF IInv, Phases, Scores, Relaxed, LastRoads, Cut
  <1>6. ReadBack'
    <2>1. (InBounds => dur + gScore[q.from] = gScore[q.to]) /\ gScore[q.from] = 0 /\ dur \in Nat
      BY <1>1 DEF IInv, ReadBack, Scores, TypeOK
    <2>2. InBounds => dur = gScore[q.to]
      BY <2>1
    <2>3. QED
      BY <1>2, <2>2 DEF ReadBack
  <1>7. QED
    BY <1>1, <1>4, <1>5, <1>6 DEF IInv, Heap, Expanding, Spent

LEMMA StutterStep == ASSUME IInv, UNCHANGED vars PROVE IInv'
  <1>1. name' = name /\ UNCHANGED <<at, gScore, prevEdge, open, seen, cur, pending, path, dist, dur>>
    BY DEF vars
  <1>2. /\ q' = q /\ Nodes' = Nodes /\ Edges' = Edges /\ Weights' = Weights
        /\ \A n : Heuristic(n)' = Heuristic(n)
        /\ InBounds' <=> InBounds
        /\ \A i : IsOpen(i)' <=> IsOpen(i)
    BY <1>1, SameProblem
  <1>3. (\A n : Rank(n)' = Rank(n)) /\ (Begun' <=> Begun)
    BY <1>1, <1>2 DEF Rank, Begun
  <1>4. QED
    BY <1>1, <1>2, <1>3 DEF IInv, TypeOK, Items, Phases, Scores, Relaxed, Heap, Expanding,
                            LastRoads, Cut, ReadBack, Spent

LEMMA NextIInv == IInv /\ [Next]_vars => IInv'
  <1> SUFFICES ASSUME IInv, [Next]_vars PROVE IInv'
    OBVIOUS
  <1>1. CASE StartAtTarget
    BY <1>1, StartAtTargetStep
  <1>2. CASE StartNoTarget
    BY <1>2, StartNoTargetStep
  <1>3. CASE Start
    BY <1>3, StartStep
  <1>4. ASSUME NEW o \in open, PopTarget(o) \/ PopSeen(o) \/ PopNew(o) PROVE IInv'
    BY <1>4, PopTargetStep, PopSeenStep, PopNewStep
  <1>5. ASSUME NEW i \in pending, Relax(i) PROVE IInv'
    BY <1>5, RelaxStep
  <1>6. CASE Exhausted
    BY <1>6, ExhaustedStep
  <1>7. CASE Back
    BY <1>7, BackStep
  <1>8. CASE Reconstructed
    BY <1>8, ReconstructedStep
  <1>9. CASE UNCHANGED vars
    BY <1>9, StutterStep
  <1>10. QED
    BY <1>1, <1>2, <1>3, <1>4, <1>5, <1>6, <1>7, <1>8, <1>9 DEF Next

LEMMA SpecIInv == Spec => []IInv
  BY InitIInv, NextIInv, PTL DEF Spec
-----------------------------------------------------------------------------
(* The state of the search stays well formed. *)
THEOREM TypeCorrect == Spec => []TypeOK
  <1>1. IInv => TypeOK
    BY DEF IInv
  <1>2. QED
    BY <1>1, SpecIInv, PTL

(* What AStar answers is right, on every graph and with every metric: if   *)
(* no road is faster than the heuristic's top speed, the time of the route *)
(* is a potential's difference that no route can undercut; and when there  *)
(* is no answer, no road leads out of a set of nodes that the target is    *)
(* not in.                                                                 *)
LEMMA IInvCertified == IInv => Certified
  <1> SUFFICES ASSUME IInv PROVE Certified
    OBVIOUS
  <1>1. name \in DOMAIN Problems /\ gScore \in [DOMAIN gScore -> Nat]
    BY DEF IInv, TypeOK
  <1>2. at = "found" /\ q.from = q.to => dur = 0
    BY DEF IInv, Phases, Begun
  <1>3. ASSUME at = "found", q.from # q.to, InBounds
        PROVE  /\ Potential(q.from) = 0
               /\ Potential(q.to) = dur
               /\ \A i \in DOMAIN Edges :
                    IsOpen(i) => Potential(Edges[i].to) <= Potential(Edges[i].from) + Weights[i]
    <2>1. /\ Begun /\ pending = {} /\ q.to \notin seen /\ q.from \in seen
          /\ q.to \in DOMAIN gScore /\ dur = gScore[q.to] /\ gScore[q.from] = 0
          /\ seen \subseteq DOMAIN gScore
      BY <1>3 DEF IInv, Phases, Scores, Cut, ReadBack
    <2>2. \A n \in DOMAIN gScore : gScore[n] \in Nat
      BY <1>1
    <2>3. Potential(q.from) = 0 /\ Potential(q.to) = dur
      BY <1>1, <2>1, <2>2, Consistency DEF Potential
    <2>4. ASSUME NEW i \in DOMAIN Edges, IsOpen(i)
          PROVE  Potential(Edges[i].to) <= Potential(Edges[i].from) + Weights[i]
      <3>1. PICK a, b, w, t, ha, hb :
              /\ a = Edges[i].from /\ b = Edges[i].to /\ w = Weights[i] /\ t = gScore[q.to]
              /\ ha = Heuristic(Edges[i].from) /\ hb = Heuristic(Edges[i].to)
        OBVIOUS
      <3>2. w \in Nat /\ t \in Nat /\ ha \in Nat /\ hb \in Nat /\ ha <= w + hb
        BY <1>1, <1>3, <2>1, <2>2, <2>4, <3>1, Consistency
      <3>3. /\ Potential(a) = IF a \in seen THEN gScore[a] ELSE t - ha
            /\ Potential(b) = IF b \in seen THEN gScore[b] ELSE t - hb
        BY <3>1 DEF Potential
      <3>4. CASE a \in seen /\ b \in seen
        BY <1>3, <2>1, <2>4, <3>1, <3>3, <3>4 DEF IInv, Relaxed
      <3>5. CASE a \in seen /\ b \notin seen
        <4>1. b \in DOMAIN gScore /\ gScore[b] <= gScore[a] + w /\ gScore[a] \in Nat /\ gScore[b] \in Nat
          BY <1>3, <2>1, <2>2, <2>4, <3>1, <3>5 DEF IInv, Relaxed
        <4>2. t <= gScore[b] + hb
          BY <1>3, <2>1, <3>1, <3>5, <4>1 DEF IInv, Cut, Rank
        <4>3. t - hb <= gScore[a] + w
          BY <3>2, <4>1, <4>2
        <4>4. QED
          BY <3>1, <3>3, <3>5, <4>3
      <3>6. CASE a \notin seen /\ b \in seen
        <4>1. gScore[b] + hb <= t /\ gScore[b] \in Nat
          BY <1>3, <2>1, <2>2, <3>1, <3>6 DEF IInv, Cut, Rank
        <4>2. gScore[b] <= (t - ha) + w
          BY <3>2, <4>1
        <4>3. QED
          BY <3>1, <3>3, <3>6, <4>2
      <3>7. CASE a \notin seen /\ b \notin seen
        <4>1. t - hb <= (t - ha) + w
          BY <3>2
        <4>2. QED
          BY <3>1, <3>3, <3>7, <4>1
      <3>8. QED
        BY <3>4, <3>5, <3>6, <3>7
    <2>5. QED
      BY <2>3, <2>4
  <1>4. ASSUME at = "none", q.to \in DOMAIN q.graph.at
        PROVE  /\ q.from \in seen /\ q.to \notin seen
               /\ \A i \in DOMAIN Edges :
                    IsOpen(i) /\ Edges[i].from \in seen => Edges[i].to \in seen
    <2>1. Begun /\ pending = {} /\ seen = DOMAIN gScore
      BY <1>4 DEF IInv, Phases, Spent
    <2>2. q.from \in seen /\ q.to \notin seen
      BY <2>1 DEF IInv, Scores
    <2>3. QED
      BY <2>1, <2>2 DEF IInv, Relaxed
  <1>5. QED
    BY <1>2, <1>3, <1>4 DEF Certified, InBounds

THEOREM AnswersAreCertified == Spec => []Certified
  BY IInvCertified, SpecIInv, PTL

(* No step improves the score of a node that was expanded, if no road is   *)
(* faster than the heuristic's top speed.                                  *)
THEOREM ExpandedForGood == Spec => SettledForGood
  <1>1. IInv /\ [Next]_vars => [\A n \in seen : gScore'[n] = gScore[n] \/ ~Admissible(q)]_vars
    <2> SUFFICES ASSUME IInv, Next PROVE \A n \in seen : gScore'[n] = gScore[n] \/ ~Admissible(q)
      OBVIOUS
    <2>1. CASE Start
      BY <2>1 DEF Start, IInv, Phases
    <2>2. ASSUME NEW i \in pending, Relax(i) PROVE \A n \in seen : gScore'[n] = gScore[n] \/ ~Admissible(q)
      <3>1. CASE IsOpen(i) /\ Better(Edges[i].to, gScore[cur] + Weights[i])
        BY <2>2, <3>1, RelaxBetter DEF InBounds
      <3>2. CASE ~(IsOpen(i) /\ Better(Edges[i].to, gScore[cur] + Weights[i]))
        BY <2>2, <3>2 DEF Relax
      <3>3. QED
        BY <3>1, <3>2
    <2>3. CASE gScore' = gScore
      BY <2>3
    <2>4. Next => Start \/ (\E i \in pending : Relax(i)) \/ gScore' = gScore
      BY DEF Next, StartAtTarget, StartNoTarget, PopTarget, PopSeen, PopNew, Exhausted,
             Back, Reconstructed
    <2>5. QED
      BY <2>1, <2>2, <2>3, <2>4
  <1>2. QED
    BY <1>1, SpecIInv, PTL DEF Spec, SettledForGood
-----------------------------------------------------------------------------
(* Induction.  The library's theorems on it take an operator; these state  *)
(* it of sets and functions, which the provers can instantiate.            *)
LEMMA Least ==
  ASSUME NEW T, T \subseteq Nat, T # {}
  PROVE  \E n \in T : \A m \in T : n <= m
<1> DEFINE R == OpToRel(<, Nat)
<1>1. IsWellFoundedOn(R, Nat)
  BY NatLessThanWellFounded
<1>2. PICK n \in T : \A m \in T : <<m, n>> \notin R
  <2> HIDE DEF R
  <2> QED BY <1>1, WFMin, Zenon
<1>3. \A m \in T : ~(m < n)
  BY <1>2 DEF OpToRel
<1> QED BY <1>3

LEMMA Induction ==
  ASSUME NEW T, 0 \in T, \A n \in Nat : n \in T => n + 1 \in T
  PROVE  \A n \in Nat : n \in T
  <1> SUFFICES ASSUME NEW k \in Nat, k \notin T PROVE FALSE
    OBVIOUS
  <1>1. PICK n \in Nat \ T : \A m \in Nat \ T : n <= m
    <2>1. Nat \ T # {}
      OBVIOUS
    <2>2. QED
      BY <2>1, Least
  <1>2. n - 1 \in Nat /\ n - 1 \notin Nat \ T
    BY <1>1
  <1>3. QED
    BY <1>1, <1>2

(* f counts n steps from f0.                                               *)
Iterates(f, S, f0, step, n) ==
  /\ f \in [0 .. n -> S]
  /\ f[0] = f0
  /\ \A k \in 1 .. n : f[k] = step[<<k, f[k - 1]>>]

LEMMA Iteration ==
  ASSUME NEW S, NEW f0 \in S, NEW step \in [Nat \X S -> S], NEW n \in Nat
  PROVE  \E f : Iterates(f, S, f0, step, n)
  <1> DEFINE T == {k \in Nat : \E f : Iterates(f, S, f0, step, k)}
  <1>1. 0 \in T
    <2>1. Iterates([k \in 0 .. 0 |-> f0], S, f0, step, 0)
      BY DEF Iterates
    <2>2. QED
      BY <2>1
  <1>2. ASSUME NEW k \in Nat, k \in T PROVE k + 1 \in T
    <2>1. PICK f : Iterates(f, S, f0, step, k)
      BY <1>2
    <2> DEFINE g == [j \in 0 .. k + 1 |-> IF j <= k THEN f[j] ELSE step[<<k + 1, f[k]>>]]
    <2>2. step[<<k + 1, f[k]>>] \in S
      BY <2>1 DEF Iterates
    <2>3. \A j \in 0 .. k : g[j] = f[j] /\ f[j] \in S
      BY <2>1 DEF Iterates
    <2>4. g[k + 1] = step[<<k + 1, f[k]>>]
      OBVIOUS
    <2>5. g \in [0 .. k + 1 -> S]
      <3>1. \A j \in 0 .. k + 1 : j \in 0 .. k \/ j = k + 1
        OBVIOUS
      <3>2. \A j \in 0 .. k + 1 : g[j] \in S
        <4> HIDE DEF g
        <4>1. QED
          BY <2>2, <2>3, <2>4, <3>1
      <3>3. QED
        BY <3>2
    <2>6. ASSUME NEW j \in 1 .. k + 1 PROVE g[j] = step[<<j, g[j - 1]>>]
      <3>1. j - 1 \in 0 .. k /\ g[j - 1] = f[j - 1]
        BY <2>3
      <3> HIDE DEF g
      <3>2. CASE j = k + 1
        <4>1. j - 1 = k
          BY <3>2
        <4>2. QED
          BY <2>4, <3>1, <3>2, <4>1
      <3>3. CASE j # k + 1
        <4>1. j \in 1 .. k
          BY <3>3
        <4>2. QED
          BY <2>1, <2>3, <3>1, <4>1 DEF Iterates
      <3>4. QED
        BY <3>2, <3>3
    <2>7. g[0] = f0
      BY <2>1, <2>3 DEF Iterates
    <2> HIDE DEF g
    <2>8. QED
      BY <2>5, <2>6, <2>7 DEF Iterates
  <1>3. n \in T
    <2> HIDE DEF T
    <2>1. QED
      BY <1>1, <1>2, Induction
  <1>4. QED
    BY <1>3

(* The ways there are, of a problem p. *)
NodesOf(p)    == DOMAIN p.graph.at \cup {p.to}
RecordsOf(p)  == [path : Seq(NodesOf(p)) \ {<<>>}, dist : Nat, dur : Nat]
Count(p)      == Cardinality(DOMAIN p.graph.at)
Arriving(p)   == [path |-> <<p.to>>, dist |-> 0, dur |-> 0]
Further(p, s) == UNION {{r} \cup Longer(p, r) : r \in s}

LEMMA Prefixed ==
  ASSUME NEW S, NEW x \in S, NEW s \in Seq(S)
  PROVE  /\ <<x>> \o s \in Seq(S) /\ <<x>> \o s # <<>> /\ (<<x>> \o s)[1] = x
         /\ Len(<<x>> \o s) = Len(s) + 1 /\ Len(s) \in Nat
         /\ ToSet(<<x>> \o s) = {x} \cup ToSet(s)
  <1>1. /\ <<x>> \o s \in Seq(S) /\ (<<x>> \o s)[1] = x
        /\ Len(<<x>> \o s) = Len(s) + 1 /\ Len(s) \in Nat
        /\ \A i \in 1 .. Len(s) : (<<x>> \o s)[i + 1] = s[i]
    OBVIOUS
  <1>2. PICK t : t = <<x>> \o s
    OBVIOUS
  <1>3. /\ t \in Seq(S) /\ t[1] = x /\ Len(t) = Len(s) + 1 /\ DOMAIN t = 1 .. Len(s) + 1
        /\ DOMAIN s = 1 .. Len(s) /\ \A i \in 1 .. Len(s) : t[i + 1] = s[i]
    BY <1>1, <1>2
  <1>4. \A y : y \in ToSet(t) => y \in {x} \cup ToSet(s)
    <2>1. SUFFICES ASSUME NEW i \in DOMAIN t, i # 1 PROVE t[i] \in ToSet(s)
      BY <1>3 DEF ToSet
    <2>2. i - 1 \in 1 .. Len(s) /\ (i - 1) + 1 = i
      BY <1>1, <1>3, <2>1
    <2>3. t[i] = s[i - 1]
      BY <1>3, <2>2
    <2>4. QED
      BY <1>3, <2>2, <2>3 DEF ToSet
  <1>5. \A y : y \in {x} \cup ToSet(s) => y \in ToSet(t)
    <2>1. x \in ToSet(t)
      BY <1>1, <1>3 DEF ToSet
    <2>2. ASSUME NEW i \in DOMAIN s PROVE s[i] \in ToSet(t)
      <3>1. i + 1 \in DOMAIN t /\ t[i + 1] = s[i]
        BY <1>1, <1>3
      <3>2. QED
        BY <3>1 DEF ToSet
    <2>3. QED
      BY <2>1, <2>2 DEF ToSet
  <1>6. ToSet(t) = {x} \cup ToSet(s)
    BY <1>4, <1>5
  <1>7. t # <<>>
    BY <1>1, <1>3
  <1>8. QED
    BY <1>1, <1>2, <1>6, <1>7

(* A way to the target and the road before it. *)
LEMMA LongerIs ==
  ASSUME NEW p, IsProblem(p), NEW r \in RecordsOf(p), NEW t \in Longer(p, r)
  PROVE  /\ t \in RecordsOf(p)
         /\ \E j \in DOMAIN p.graph.edges :
              /\ p.weight[j] # Inf /\ p.weight[j] \in Nat
              /\ p.graph.edges[j].to = r.path[1] /\ p.graph.edges[j].from = t.path[1]
              /\ p.graph.edges[j].from \in DOMAIN p.graph.at
              /\ t.dur = r.dur + p.weight[j]
  <1>1. PICK j \in DOMAIN p.graph.edges :
          /\ p.weight[j] # Inf /\ p.graph.edges[j].to = r.path[1]
          /\ t = [path |-> <<p.graph.edges[j].from>> \o r.path,
                  dist |-> r.dist + p.graph.edges[j].len, dur |-> r.dur + p.weight[j]]
    BY DEF Longer
  <1>2. /\ p.graph.edges[j].from \in DOMAIN p.graph.at /\ p.graph.edges[j].len \in Nat
        /\ p.weight[j] \in Nat
    BY <1>1 DEF IsProblem
  <1>3. r.path \in Seq(NodesOf(p)) /\ r.dist \in Nat /\ r.dur \in Nat
    BY DEF RecordsOf
  <1>4. PICK x, s, d, e : /\ x = p.graph.edges[j].from /\ s = <<x>> \o r.path
                          /\ d = r.dist + p.graph.edges[j].len /\ e = r.dur + p.weight[j]
    OBVIOUS
  <1>5. x \in NodesOf(p)
    BY <1>2, <1>4 DEF NodesOf
  <1>6. s \in Seq(NodesOf(p)) /\ s # <<>> /\ s[1] = x
    BY <1>3, <1>4, <1>5, Prefixed
  <1>7. d \in Nat /\ e \in Nat
    BY <1>2, <1>3, <1>4
  <1>8. t = [path |-> s, dist |-> d, dur |-> e]
    BY <1>1, <1>4
  <1>9. t \in RecordsOf(p) /\ t.path[1] = x /\ t.dur = e
    BY <1>6, <1>7, <1>8 DEF RecordsOf
  <1>10. QED
    BY <1>1, <1>2, <1>4, <1>9

LEMMA WaysAre ==
  ASSUME NEW p, IsProblem(p)
  PROVE  /\ Count(p) \in Nat
         /\ WaysThere(p)[0] = {Arriving(p)}
         /\ \A k \in 0 .. Count(p) : WaysThere(p)[k] \subseteq RecordsOf(p)
         /\ \A k \in Nat : k + 1 <= Count(p) => WaysThere(p)[k + 1] = Further(p, WaysThere(p)[k])
  <1> DEFINE K == Count(p)
             S == SUBSET RecordsOf(p)
             step == [x \in Nat \X S |-> Further(p, x[2])]
             Recurses(f) == f = [k \in 0 .. K |-> IF k = 0 THEN {Arriving(p)} ELSE Further(p, f[k - 1])]
  <1>1. K \in Nat
    BY FS_CardinalityType DEF Count, IsProblem
  <1>2. {Arriving(p)} \in S
    <2>1. <<p.to>> \in Seq(NodesOf(p)) /\ <<p.to>> # <<>>
      BY DEF NodesOf
    <2>2. QED
      BY <2>1 DEF Arriving, RecordsOf
  <1>3. \A s \in S : Further(p, s) \in S
    <2>1. SUFFICES ASSUME NEW s \in S, NEW r \in s, NEW t \in Longer(p, r) PROVE t \in RecordsOf(p)
      BY DEF Further
    <2>2. QED
      BY <2>1, LongerIs
  <1>4. step \in [Nat \X S -> S]
    BY <1>3
  <1>5. \E f : Iterates(f, S, {Arriving(p)}, step, K)
    <2> HIDE DEF K, S, step
    <2>1. QED
      BY <1>1, <1>2, <1>4, Iteration
  <1>6. \A f : Iterates(f, S, {Arriving(p)}, step, K) => Recurses(f)
    <2>1. SUFFICES ASSUME NEW f, Iterates(f, S, {Arriving(p)}, step, K) PROVE Recurses(f)
      OBVIOUS
    <2>2. f \in [0 .. K -> S] /\ f[0] = {Arriving(p)} /\ \A k \in 1 .. K : f[k] = step[<<k, f[k - 1]>>]
      BY <2>1 DEF Iterates
    <2> HIDE DEF K, S
    <2>3. ASSUME NEW k \in 1 .. K PROVE f[k] = Further(p, f[k - 1])
      <3>1. k \in Nat /\ f[k - 1] \in S
        BY <1>1, <2>2
      <3>2. QED
        BY <2>2, <3>1
    <2>4. f = [k \in 0 .. K |-> IF k = 0 THEN {Arriving(p)} ELSE Further(p, f[k - 1])]
      BY <1>1, <2>2, <2>3
    <2>5. QED
      BY <2>4
  <1>7. \E f : Recurses(f)
    BY <1>5, <1>6
  <1>8. Recurses(WaysThere(p))
    BY <1>7 DEF WaysThere, Arriving, Further, Count
  <1> HIDE DEF S, step, K
  <1>9. PICK g : g = WaysThere(p)
    OBVIOUS
  <1>10. g = [k \in 0 .. K |-> IF k = 0 THEN {Arriving(p)} ELSE Further(p, g[k - 1])]
    BY <1>8, <1>9
  <1>11. g[0] = {Arriving(p)}
    BY <1>1, <1>10
  <1>12. \A k \in Nat : k + 1 <= K => g[k + 1] = Further(p, g[k])
    <2>1. SUFFICES ASSUME NEW k \in Nat, k + 1 <= K PROVE g[k + 1] = Further(p, g[k])
      OBVIOUS
    <2>2. k + 1 \in 0 .. K /\ k + 1 # 0 /\ (k + 1) - 1 = k
      BY <1>1, <2>1
    <2>3. g[k + 1] = Further(p, g[(k + 1) - 1])
      BY <1>10, <2>2
    <2>4. QED
      BY <2>2, <2>3
  <1>13. \A k \in 0 .. K : g[k] \subseteq RecordsOf(p)
    <2> DEFINE T == {k \in Nat : k <= K => g[k] \in S}
    <2>1. 0 \in T
      BY <1>2, <1>11
    <2>2. ASSUME NEW k \in Nat, k \in T PROVE k + 1 \in T
      BY <1>1, <1>3, <1>12, <2>2
    <2>3. \A k \in Nat : k \in T
      <3> HIDE DEF T
      <3>1. QED
        BY <2>1, <2>2, Induction
    <2>4. QED
      BY <1>1, <2>3 DEF S
  <1>14. QED
    BY <1>1, <1>9, <1>11, <1>12, <1>13 DEF K

(* What fewer roads can do, more can. *)
LEMMA WaysGrow ==
  ASSUME NEW p, IsProblem(p), NEW k \in Nat, k <= Count(p)
  PROVE  WaysThere(p)[k] \subseteq WaysThere(p)[Count(p)]
  <1> DEFINE K == Count(p)
             T == {j \in Nat : k + j <= K => WaysThere(p)[k] \subseteq WaysThere(p)[k + j]}
  <1>1. K \in Nat
    BY WaysAre
  <1>2. 0 \in T
    OBVIOUS
  <1>3. ASSUME NEW j \in Nat, j \in T PROVE j + 1 \in T
    <2>1. SUFFICES ASSUME k + (j + 1) <= K PROVE WaysThere(p)[k] \subseteq WaysThere(p)[k + (j + 1)]
      OBVIOUS
    <2>2. PICK i : i = k + j
      OBVIOUS
    <2>3. i \in Nat /\ i + 1 = k + (j + 1) /\ i <= K /\ i + 1 <= K
      BY <1>1, <2>1, <2>2
    <2>4. WaysThere(p)[i + 1] = Further(p, WaysThere(p)[i])
      BY <2>3, WaysAre
    <2>5. WaysThere(p)[k] \subseteq WaysThere(p)[i]
      BY <1>3, <2>2, <2>3
    <2>6. QED
      BY <2>3, <2>4, <2>5 DEF Further
  <1>4. \A j \in Nat : j \in T
    <2> HIDE DEF T
    <2>1. QED
      BY <1>2, <1>3, Induction
  <1>5. PICK j \in Nat : k + j = K
    <2>1. K - k \in Nat /\ k + (K - k) = K
      BY <1>1
    <2>2. QED
      BY <2>1
  <1>6. k + j <= K => WaysThere(p)[k] \subseteq WaysThere(p)[k + j]
    BY <1>4
  <1>7. QED
    BY <1>1, <1>5, <1>6

(* No way is faster than a potential lets it be. *)
LEMMA PotentialBounds ==
  ASSUME NEW p, IsProblem(p), NEW pot \in [NodesOf(p) -> Int],
         \A j \in DOMAIN p.graph.edges :
           p.weight[j] # Inf =>
             pot[p.graph.edges[j].to] <= pot[p.graph.edges[j].from] + p.weight[j],
         NEW w \in WaysThere(p)[Count(p)]
  PROVE  pot[p.to] <= pot[w.path[1]] + w.dur
  <1> DEFINE Bounded(r) == pot[p.to] <= pot[r.path[1]] + r.dur
             T == {k \in Nat : k <= Count(p) => \A r \in WaysThere(p)[k] : Bounded(r)}
  <1>1. Count(p) \in Nat
    BY WaysAre
  <1>2. 0 \in T
    <2>1. p.to \in NodesOf(p) /\ pot[p.to] \in Int
      BY DEF NodesOf
    <2>2. Arriving(p).path[1] = p.to /\ Arriving(p).dur = 0
      BY DEF Arriving
    <2>3. Bounded(Arriving(p))
      BY <2>1, <2>2
    <2>4. QED
      BY <2>3, WaysAre
  <1>3. ASSUME NEW k \in Nat, k \in T PROVE k + 1 \in T
    <2>1. SUFFICES ASSUME k + 1 <= Count(p), NEW t \in WaysThere(p)[k + 1] PROVE Bounded(t)
      OBVIOUS
    <2>2. /\ k \in 0 .. Count(p) /\ k <= Count(p)
          /\ \A r \in WaysThere(p)[k] : Bounded(r) /\ r \in RecordsOf(p)
      <3>1. k \in 0 .. Count(p) /\ k <= Count(p)
        BY <1>1, <2>1
      <3>2. QED
        BY <1>3, <3>1, WaysAre
    <2>3. t \in WaysThere(p)[k] \/ \E r \in WaysThere(p)[k] : t \in Longer(p, r)
      BY <2>1, WaysAre DEF Further
    <2>4. ASSUME NEW r \in WaysThere(p)[k], t \in Longer(p, r) PROVE Bounded(t)
      <3>1. r \in RecordsOf(p)
        BY <2>2
      <3>2. PICK j \in DOMAIN p.graph.edges :
              /\ p.weight[j] # Inf /\ p.weight[j] \in Nat
              /\ p.graph.edges[j].to = r.path[1] /\ p.graph.edges[j].from = t.path[1]
              /\ p.graph.edges[j].from \in DOMAIN p.graph.at
              /\ t.dur = r.dur + p.weight[j]
        BY <2>4, <3>1, LongerIs
      <3>3. PICK a, b, c, x, d, e : /\ a = pot[p.to] /\ b = pot[r.path[1]] /\ c = pot[t.path[1]]
                                    /\ x = p.weight[j] /\ d = r.dur /\ e = t.dur
        OBVIOUS
      <3>4. a \in Int /\ b \in Int /\ c \in Int
        <4>1. p.to \in NodesOf(p) /\ t.path[1] \in NodesOf(p)
          BY <3>2 DEF NodesOf
        <4>2. r.path[1] \in NodesOf(p)
          BY <3>1 DEF RecordsOf
        <4>3. QED
          BY <3>3, <4>1, <4>2
      <3>5. x \in Nat /\ d \in Nat /\ e = d + x
        BY <3>1, <3>2, <3>3 DEF RecordsOf
      <3>6. b <= c + x /\ a <= b + d
        BY <2>2, <3>2, <3>3
      <3>7. a <= c + e
        BY <3>4, <3>5, <3>6
      <3>8. QED
        BY <3>3, <3>7
    <2>5. QED
      BY <2>2, <2>3, <2>4
  <1>4. \A k \in Nat : k \in T
    <2> HIDE DEF T
    <2>1. QED
      BY <1>2, <1>3, Induction
  <1>5. QED
    BY <1>1, <1>4

(* No way leads out of a set of nodes that no open road leaves. *)
LEMMA CutStops ==
  ASSUME NEW p, IsProblem(p), NEW C, p.to \notin C,
         \A j \in DOMAIN p.graph.edges :
           p.weight[j] # Inf /\ p.graph.edges[j].from \in C => p.graph.edges[j].to \in C,
         NEW w \in WaysThere(p)[Count(p)]
  PROVE  w.path[1] \notin C
  <1> DEFINE T == {k \in Nat : k <= Count(p) => \A r \in WaysThere(p)[k] : r.path[1] \notin C}
  <1>1. Count(p) \in Nat
    BY WaysAre
  <1>2. 0 \in T
    <2>1. Arriving(p).path[1] = p.to
      BY DEF Arriving
    <2>2. QED
      BY <2>1, WaysAre
  <1>3. ASSUME NEW k \in Nat, k \in T PROVE k + 1 \in T
    <2>1. SUFFICES ASSUME k + 1 <= Count(p), NEW t \in WaysThere(p)[k + 1] PROVE t.path[1] \notin C
      OBVIOUS
    <2>2. k \in 0 .. Count(p) /\ k <= Count(p)
      BY <1>1, <2>1
    <2>3. \A r \in WaysThere(p)[k] : r.path[1] \notin C /\ r \in RecordsOf(p)
      BY <1>3, <2>2, WaysAre
    <2>4. t \in WaysThere(p)[k] \/ \E r \in WaysThere(p)[k] : t \in Longer(p, r)
      BY <2>1, WaysAre DEF Further
    <2>5. QED
      BY <2>3, <2>4, LongerIs
  <1>4. \A k \in Nat : k \in T
    <2> HIDE DEF T
    <2>1. QED
      BY <1>2, <1>3, Induction
  <1>5. QED
    BY <1>1, <1>4
-----------------------------------------------------------------------------
(* The node that a node's last road comes from. *)
Prev(n) == Edges[prevEdge[n]].from

(* The last roads make no circle: of any expanded nodes that are not the   *)
(* start, one was reached from elsewhere.                                  *)
NoCircle ==
  \A S \in SUBSET (seen \ {q.from}) : S # {} => \E n \in S : Prev(n) \notin S

(* What has been read back, with the node being read back before it, is a  *)
(* way to the target along last roads, and does not come by that node.     *)
Trail ==
  /\ cur = q.to => path = <<>>
  /\ cur \notin ToSet(path)
  /\ \A n \in ToSet(path) :
       n # q.from /\ n \in seen \cup {q.to} /\ Prev(n) \in ToSet(path) \cup {cur}
  /\ ToSet(path) \subseteq DOMAIN q.graph.at /\ Cardinality(ToSet(path)) = Len(path)
  /\ [path |-> <<cur>> \o path, dist |-> dist, dur |-> dur] \in WaysThere(q)[Len(path)]

Routed ==
  /\ at \in {"start", "search"} => path = <<>> /\ dist = 0
  /\ Begun => NoCircle
  /\ at = "back" => Trail
  /\ at = "found" => Answer \in Answers(q)

LEMMA ProblemIs ==
  ASSUME name \in DOMAIN Problems
  PROVE  /\ IsProblem(q) /\ IsFiniteSet(DOMAIN q.graph.at)
         /\ WaysThere(q)[0] = {Arriving(q)} /\ WaysThere(q)[0] \subseteq WaysThere(q)[Count(q)]
  <1>1. IsProblem(q)
    BY ProblemsAssumption DEF q
  <1>2. Count(q) \in Nat
    BY <1>1, WaysAre
  <1>3. 0 \in Nat /\ 0 <= Count(q)
    BY <1>2
  <1>4. WaysThere(q)[0] \subseteq WaysThere(q)[Count(q)]
    BY <1>1, <1>3, WaysGrow
  <1>5. QED
    BY <1>1, <1>4, WaysAre DEF IsProblem

LEMMA NoTrailYet ==
  /\ ToSet(<<>>) = {} /\ Cardinality({}) = 0 /\ Len(<<>>) = 0
  /\ \A x : <<x>> \o <<>> = <<x>>
  BY FS_EmptySet DEF ToSet

LEMMA RoutedInit == Init => Routed
  BY DEF Init, Routed, Begun

LEMMA RoutedStart ==
  ASSUME IInv, Routed, StartAtTarget \/ StartNoTarget \/ Start
  PROVE  Routed'
  <1>1. /\ name' = name /\ name \in DOMAIN Problems /\ at = "start" /\ path = <<>> /\ dist = 0 /\ dur = 0
        /\ seen' = {}
    BY DEF IInv, TypeOK, Phases, Routed, StartAtTarget, StartNoTarget, Start, result
  <1>2. q' = q
    BY <1>1, SameProblem
  <1>3. CASE StartAtTarget
    <2>1. Answer' = [path |-> <<q.from>>, dist |-> 0, dur |-> 0] /\ q.from = q.to
      BY <1>1, <1>3 DEF StartAtTarget, Answer
    <2>2. Answer' = Arriving(q)
      BY <2>1 DEF Arriving
    <2>3. Arriving(q) \in WaysThere(q)[Count(q)] /\ Arriving(q).path[1] = q.from
      BY <1>1, <2>1, ProblemIs DEF Arriving
    <2>4. Arriving(q) \in Answers(q)
      BY <2>3 DEF Answers, Count
    <2>5. Answers(q)' = Answers(q)
      BY <1>2 DEF Answers, WaysThere, Longer
    <2>6. ~Begun' /\ at' = "found"
      BY <1>2, <1>3 DEF StartAtTarget, Begun
    <2>7. QED
      BY <2>2, <2>4, <2>5, <2>6 DEF Routed
  <1>4. CASE StartNoTarget
    BY <1>2, <1>4 DEF StartNoTarget, Begun, Routed
  <1>5. CASE Start
    <2>1. at' = "search" /\ path' = <<>> /\ dist' = 0
      BY <1>1, <1>5 DEF Start, result
    <2>2. NoCircle'
      BY <1>1 DEF NoCircle
    <2>3. QED
      BY <2>1, <2>2 DEF Routed
  <1>6. QED
    BY <1>3, <1>4, <1>5

(* Where a last road comes from was expanded before. *)
LEMMA PrevSeen ==
  ASSUME IInv, Begun, NEW n \in DOMAIN gScore \ {q.from}
  PROVE  Prev(n) \in seen
  BY DEF IInv, LastRoads, Prev

LEMMA RoutedPop ==
  ASSUME IInv, Routed, NEW o \in open, PopTarget(o) \/ PopSeen(o) \/ PopNew(o)
  PROVE  Routed'
  <1>1. /\ name' = name /\ name \in DOMAIN Problems /\ at = "search" /\ Begun /\ Pop(o)
        /\ prevEdge' = prevEdge /\ path = <<>> /\ path' = path /\ dist = 0 /\ dist' = dist
        /\ dur = 0 /\ dur' = dur
    BY DEF IInv, TypeOK, Phases, Routed, PopTarget, PopSeen, PopNew, Pop, result
  <1>2. q' = q /\ Edges' = Edges
    BY <1>1, SameProblem
  <1>3. \A n : Prev(n)' = Prev(n)
    BY <1>1, <1>2 DEF Prev
  <1>4. CASE PopTarget(o)
    <2>1. at' = "back" /\ cur' = q.to /\ seen' = seen
      BY <1>4 DEF PopTarget
    <2>2. NoCircle'
      BY <1>1, <1>2, <1>3, <2>1 DEF Routed, NoCircle
    <2>3. [path |-> <<cur'>> \o path', dist |-> dist', dur |-> dur'] = Arriving(q)
      BY <1>1, <2>1, NoTrailYet DEF Arriving
    <2>4. WaysThere(q)[0] = {Arriving(q)} /\ WaysThere(q)' = WaysThere(q)
      <3>1. WaysThere(q)[0] = {Arriving(q)}
        BY <1>1, ProblemIs
      <3>2. WaysThere(q)' = WaysThere(q)
        BY <1>2 DEF WaysThere, Longer
      <3>3. QED
        BY <3>1, <3>2
    <2>5. Trail'
      BY <1>1, <1>2, <2>1, <2>3, <2>4, NoTrailYet DEF Trail
    <2>6. QED
      BY <1>2, <2>1, <2>2, <2>5 DEF Routed
  <1>5. CASE PopSeen(o)
    <2>1. at' = "search" /\ seen' = seen
      BY <1>1, <1>5 DEF PopSeen
    <2>2. NoCircle'
      BY <1>1, <1>2, <1>3, <2>1 DEF Routed, NoCircle
    <2>3. QED
      BY <1>1, <2>1, <2>2 DEF Routed
  <1>6. CASE PopNew(o)
    <2>1. at' = "search" /\ seen' = seen \cup {o.node} /\ o.node \notin seen
      BY <1>1, <1>6 DEF PopNew
    <2>2. o.node \in DOMAIN gScore /\ seen \subseteq DOMAIN gScore
      BY <1>1, PopFacts DEF IInv, Scores
    <2>3. ASSUME NEW S \in SUBSET ((seen \cup {o.node}) \ {q.from}), S # {}
          PROVE  \E n \in S : Prev(n) \notin S
      <3>1. \A n \in S : Prev(n) \in seen /\ Prev(n) # o.node
        BY <1>1, <2>1, <2>2, PrevSeen
      <3>2. CASE S \ {o.node} = {}
        BY <2>3, <3>1, <3>2
      <3>3. CASE S \ {o.node} # {}
        <4>1. PICK n \in S \ {o.node} : Prev(n) \notin S \ {o.node}
          BY <1>1, <3>3 DEF Routed, NoCircle
        <4>2. QED
          BY <3>1, <4>1
      <3>4. QED
        BY <3>2, <3>3
    <2>4. NoCircle'
      BY <1>2, <1>3, <2>1, <2>3 DEF NoCircle
    <2>5. QED
      BY <1>1, <2>1, <2>4 DEF Routed
  <1>7. QED
    BY <1>4, <1>5, <1>6

(* The road that is noted closes no circle: each of its nodes was reached  *)
(* no later than the next, so that the road's end, which was reached later *)
(* than where it begins, cannot be on the way there.                       *)
LEMMA RoutedRelax == ASSUME IInv, Routed, NEW i \in pending, Relax(i) PROVE Routed'
  <1>1. /\ name' = name /\ at = "search" /\ at' = at /\ seen' = seen /\ Begun /\ path' = path /\ dist' = dist
        /\ name \in DOMAIN Problems /\ NoCircle
    BY DEF IInv, TypeOK, Phases, Relax, Routed, result
  <1>2. q' = q /\ Edges' = Edges
    BY <1>1, SameProblem
  <1>3. CASE ~(IsOpen(i) /\ Better(Edges[i].to, gScore[cur] + Weights[i]))
    <2>1. \A n : Prev(n)' = Prev(n)
      BY <1>2, <1>3 DEF Relax, Prev
    <2>2. NoCircle'
      BY <1>1, <1>2, <2>1 DEF NoCircle
    <2>3. QED
      BY <1>1, <2>2 DEF Routed
  <1>4. CASE IsOpen(i) /\ Better(Edges[i].to, gScore[cur] + Weights[i])
    <2>1. PICK v, cand : v = Edges[i].to /\ cand = gScore[cur] + Weights[i]
      OBVIOUS
    <2>2. /\ prevEdge' = Put(prevEdge, v, i)
          /\ v \in DOMAIN gScore => cand < gScore[v]
      BY <1>4, <2>1 DEF Relax, Better
    <2>3. /\ Edges[i].from = cur /\ seen \subseteq DOMAIN gScore
          /\ \A n \in DOMAIN gScore : gScore[n] \in Nat
          /\ cur \in DOMAIN gScore /\ Weights[i] \in Nat /\ gScore[cur] <= cand
      BY <1>4, <2>1, PendingFacts
    <2>4. ASSUME NEW n \in seen \ {q.from} PROVE /\ Prev(n) \in DOMAIN gScore
                                                 /\ gScore[Prev(n)] <= gScore[n]
      <3>1. PICK j, m : j = prevEdge[n] /\ m = Edges[j].from
        OBVIOUS
      <3>2. j \in DOMAIN Edges /\ IsOpen(j) /\ m \in seen /\ gScore[m] + Weights[j] <= gScore[n]
        BY <1>1, <2>3, <3>1 DEF IInv, LastRoads, TypeOK
      <3>3. Weights[j] \in Nat /\ gScore[m] \in Nat /\ gScore[n] \in Nat
        BY <1>1, <2>3, <3>2, Consistency
      <3>4. gScore[m] <= gScore[n]
        BY <3>2, <3>3
      <3>5. QED
        BY <2>3, <3>1, <3>2, <3>4 DEF Prev
    <2>5. /\ \A n \in seen \ {q.from} : n # v => Prev(n)' = Prev(n)
          /\ Prev(v)' = cur
      <3>1. \A n \in seen \ {q.from} : n \in DOMAIN prevEdge
        BY <1>1, <2>3 DEF IInv, LastRoads
      <3>2. prevEdge'[v] = i /\ \A n \in seen \ {q.from} : n # v => prevEdge'[n] = prevEdge[n]
        BY <2>2, <3>1 DEF Put
      <3>3. QED
        BY <1>2, <2>3, <3>2 DEF Prev
    <2>6. ASSUME NEW S \in SUBSET (seen \ {q.from}), S # {}, \A n \in S : Prev(n)' \in S
          PROVE  FALSE
      <3>1. CASE v \notin S
        <4>1. \A n \in S : Prev(n) \in S
          BY <2>5, <2>6, <3>1
        <4>2. QED
          BY <1>1, <2>6, <4>1 DEF NoCircle
      <3>2. CASE v \in S
        <4>1. PICK R : R = {m \in S : gScore[m] < gScore[v]}
          OBVIOUS
        <4>2. cur \in S /\ cand < gScore[v] /\ gScore[v] \in Nat /\ gScore[cur] \in Nat
          BY <2>2, <2>3, <2>5, <2>6, <3>2
        <4>3. cand \in Nat /\ gScore[cur] <= cand
          BY <2>1, <2>3, <4>2
        <4>4. cur \in R
          BY <4>1, <4>2, <4>3
        <4>5. ASSUME NEW m \in R PROVE Prev(m) \in R
          <5>1. m \in S /\ gScore[m] < gScore[v] /\ gScore[m] \in Nat /\ m # v
            BY <2>3, <4>1, <4>2
          <5>2. Prev(m) \in S
            BY <2>5, <2>6, <5>1
          <5>3. gScore[Prev(m)] <= gScore[m] /\ gScore[Prev(m)] \in Nat
            BY <2>3, <2>4, <5>1
          <5>4. QED
            BY <4>1, <4>2, <5>1, <5>2, <5>3
        <4>6. R \in SUBSET (seen \ {q.from}) /\ R # {}
          BY <4>1, <4>4
        <4>7. QED
          BY <1>1, <4>5, <4>6 DEF NoCircle
      <3>3. QED
        BY <3>1, <3>2
    <2>7. NoCircle'
      BY <1>1, <1>2, <2>6 DEF NoCircle
    <2>8. QED
      BY <1>1, <2>7 DEF Routed
  <1>5. QED
    BY <1>3, <1>4

(* What has been read back is no longer than the graph has nodes. *)
LEMMA TrailIsShort ==
  ASSUME name \in DOMAIN Problems, NEW P \in SUBSET DOMAIN q.graph.at
  PROVE  IsFiniteSet(P) /\ Cardinality(P) \in Nat /\ Cardinality(P) <= Count(q) /\ Count(q) \in Nat
  BY ProblemIs, FS_Subset, FS_CardinalityType DEF Count

LEMMA RoutedBack == ASSUME IInv, Routed, Back PROVE Routed'
  <1>1. /\ name' = name /\ name \in DOMAIN Problems /\ at = "back" /\ at' = at /\ Begun /\ cur # q.from
        /\ UNCHANGED <<prevEdge, seen>> /\ path \in Seq(Nodes) /\ cur \in Nodes
    BY DEF IInv, TypeOK, Phases, Back
  <1>2. q' = q /\ Edges' = Edges /\ Weights' = Weights
    BY <1>1, SameProblem
  <1>3. PICK i, e : i = prevEdge[cur] /\ e = Prev(cur)
    OBVIOUS
  <1>4. /\ i \in DOMAIN Edges /\ e = Edges[i].from /\ Edges[i].to = cur /\ IsOpen(i)
        /\ e \in seen /\ e \in DOMAIN q.graph.at /\ cur \in DOMAIN q.graph.at
        /\ cur' = e /\ path' = <<cur>> \o path
        /\ dist' = dist + Edges[i].len /\ dur' = dur + Weights[i]
    <2>1. cur \in DOMAIN gScore \ {q.from}
      BY <1>1 DEF IInv, ReadBack, Cut, Scores
    <2>2. i \in DOMAIN Edges /\ e \in seen /\ Edges[i].to = cur /\ IsOpen(i) /\ e = Edges[i].from
      BY <1>1, <1>3, <2>1 DEF IInv, LastRoads, TypeOK, Prev
    <2>3. QED
      BY <1>1, <1>3, <2>2, Consistency DEF Back
  <1>5. Trail /\ NoCircle
    BY <1>1 DEF Routed
  <1>6. PICK P : P = ToSet(path) \cup {cur}
    OBVIOUS
  <1>7. q.to \notin seen /\ seen \subseteq DOMAIN gScore /\ (cur = q.to \/ cur \in seen)
    BY <1>1 DEF IInv, Scores, ReadBack
  <1>8. e \notin P
    <2>1. SUFFICES ASSUME e \in P PROVE FALSE
      OBVIOUS
    <2>2. PICK S : S = P \ {q.to}
      OBVIOUS
    <2>3. S \in SUBSET (seen \ {q.from}) /\ e \in S
      BY <1>1, <1>4, <1>5, <1>6, <1>7, <2>1, <2>2 DEF Trail
    <2>4. \A n \in S : Prev(n) \in seen
      BY <1>1, <1>7, <2>3, PrevSeen
    <2>5. \A n \in S : Prev(n) \in P
      BY <1>3, <1>5, <1>6, <2>1, <2>2 DEF Trail
    <2>6. \A n \in S : Prev(n) \in S
      BY <1>7, <2>2, <2>4, <2>5
    <2>7. QED
      BY <1>5, <2>3, <2>6 DEF NoCircle
  <1>9. /\ ToSet(path') = P /\ Len(path') = Len(path) + 1 /\ Len(path) \in Nat
        /\ path'[1] = cur
    BY <1>1, <1>4, <1>6, Prefixed
  <1>10. P \subseteq DOMAIN q.graph.at /\ Cardinality(P) = Len(path')
    <2>1. ToSet(path) \subseteq DOMAIN q.graph.at /\ cur \notin ToSet(path) /\ Cardinality(ToSet(path)) = Len(path)
      BY <1>5 DEF Trail
    <2>2. IsFiniteSet(ToSet(path))
      BY <1>1, <2>1, TrailIsShort
    <2>3. Cardinality(P) = Cardinality(ToSet(path)) + 1
      BY <1>6, <2>1, <2>2, FS_AddElement
    <2>4. QED
      BY <1>4, <1>6, <1>9, <2>1, <2>3
  <1>11. Len(path) + 1 <= Count(q)
    BY <1>1, <1>9, <1>10, TrailIsShort
  <1>12. [path |-> <<e>> \o path', dist |-> dist', dur |-> dur'] \in WaysThere(q)[Len(path')]
    <2>1. PICK r : r = [path |-> path', dist |-> dist, dur |-> dur]
      OBVIOUS
    <2>2. r \in WaysThere(q)[Len(path)] /\ r.path = path' /\ r.dist = dist /\ r.dur = dur
      BY <1>4, <1>5, <2>1 DEF Trail
    <2>3. /\ i \in DOMAIN q.graph.edges /\ q.weight[i] # Inf
          /\ q.graph.edges[i].to = r.path[1] /\ q.graph.edges[i].from \notin ToSet(r.path)
      BY <1>4, <1>8, <1>9, <2>2 DEF Edges, Weights, IsOpen
    <2>4. [path |-> <<q.graph.edges[i].from>> \o r.path, dist |-> r.dist + q.graph.edges[i].len,
           dur |-> r.dur + q.weight[i]] \in Longer(q, r)
      BY <2>3 DEF Longer
    <2>5. [path |-> <<e>> \o path', dist |-> dist', dur |-> dur'] \in Longer(q, r)
      BY <1>4, <2>2, <2>4 DEF Edges, Weights
    <2>6. WaysThere(q)[Len(path) + 1] = Further(q, WaysThere(q)[Len(path)])
      BY <1>1, <1>9, <1>11, WaysAre, ProblemIs
    <2>7. QED
      BY <1>9, <2>2, <2>5, <2>6 DEF Further
  <1>13. WaysThere(q)' = WaysThere(q)
    BY <1>2 DEF WaysThere, Longer
  <1>14. \A n : Prev(n)' = Prev(n)
    BY <1>1, <1>2 DEF Prev
  <1>15. Trail'
    <2>1. ASSUME NEW n \in P PROVE n # q.from /\ n \in seen \cup {q.to} /\ Prev(n) \in P \cup {e}
      BY <1>1, <1>3, <1>5, <1>6, <1>7 DEF Trail
    <2>2. e # q.to
      BY <1>4, <1>7
    <2>3. QED
      BY <1>1, <1>2, <1>4, <1>8, <1>9, <1>10, <1>12, <1>13, <1>14, <2>1, <2>2 DEF Trail
  <1>16. NoCircle'
    BY <1>1, <1>2, <1>5, <1>14 DEF NoCircle
  <1>17. QED
    BY <1>1, <1>15, <1>16 DEF Routed

LEMMA RoutedReconstructed == ASSUME IInv, Routed, Reconstructed PROVE Routed'
  <1>1. /\ name' = name /\ name \in DOMAIN Problems /\ at = "back" /\ at' = "found" /\ Begun
        /\ cur = q.from /\ UNCHANGED <<prevEdge, seen>> /\ path' = <<cur>> \o path
        /\ dist' = dist /\ dur' = dur /\ path \in Seq(Nodes) /\ cur \in Nodes
    BY DEF IInv, TypeOK, Phases, Reconstructed
  <1>2. q' = q /\ Edges' = Edges
    BY <1>1, SameProblem
  <1>3. Answer' \in WaysThere(q)[Len(path)] /\ Answer'.path = path'
    BY <1>1 DEF Routed, Trail, Answer
  <1>4. Len(path) \in Nat /\ Len(path) <= Count(q)
    <2>1. ToSet(path) \in SUBSET DOMAIN q.graph.at /\ Cardinality(ToSet(path)) = Len(path)
      BY <1>1 DEF Routed, Trail
    <2>2. QED
      BY <1>1, <2>1, TrailIsShort
  <1>5. Answer' \in WaysThere(q)[Count(q)]
    BY <1>1, <1>3, <1>4, WaysGrow, ProblemIs
  <1>6. path'[1] = q.from
    BY <1>1, Prefixed
  <1>7. Answer' \in Answers(q)
    BY <1>3, <1>5, <1>6 DEF Answers, Count
  <1>8. Answers(q)' = Answers(q)
    BY <1>2 DEF Answers, WaysThere, Longer
  <1>9. NoCircle'
    <2>1. \A n : Prev(n)' = Prev(n)
      BY <1>1, <1>2 DEF Prev
    <2>2. QED
      BY <1>1, <1>2, <2>1 DEF Routed, NoCircle
  <1>10. QED
    BY <1>1, <1>7, <1>8, <1>9 DEF Routed

LEMMA RoutedElse == ASSUME IInv, Routed, Exhausted \/ UNCHANGED vars PROVE Routed'
  <1>1. /\ name' = name /\ UNCHANGED <<prevEdge, seen, cur, path, dist, dur>>
        /\ at' = "none" \/ at' = at
    BY DEF Exhausted, vars, result
  <1>2. q' = q /\ Edges' = Edges
    BY <1>1, SameProblem
  <1>3. (\A n : Prev(n)' = Prev(n)) /\ WaysThere(q)' = WaysThere(q) /\ Answers(q)' = Answers(q)
    BY <1>1, <1>2 DEF Prev, Answers, WaysThere, Longer
  <1>4. Begun' => Begun
    BY <1>2 DEF Exhausted, vars, IInv, Phases, Begun
  <1>5. Begun' => NoCircle'
    BY <1>1, <1>2, <1>3, <1>4 DEF Routed, NoCircle
  <1>6. Trail => Trail'
    BY <1>1, <1>2, <1>3 DEF Trail
  <1>7. Answer' = Answer
    BY <1>1 DEF Answer
  <1>8. QED
    BY <1>1, <1>3, <1>5, <1>6, <1>7 DEF Routed

LEMMA NextRouted == IInv /\ Routed /\ [Next]_vars => Routed'
  BY RoutedStart, RoutedPop, RoutedRelax, RoutedBack, RoutedReconstructed, RoutedElse DEF Next

LEMMA SpecRouted == Spec => []Routed
  BY RoutedInit, NextRouted, SpecIInv, PTL DEF Spec

(* AStar answers with a route and with that route's own length and time,   *)
(* and answers "none" only when there is none, on every graph and with     *)
(* every metric; and with a fastest route if no road is faster than the    *)
(* heuristic's top speed.                                                  *)
THEOREM RoutesAreFastest == Spec => []FastestRoute
  <1>1. IInv /\ Routed => FastestRoute
    <2> SUFFICES ASSUME IInv, Routed PROVE FastestRoute
      OBVIOUS
    <2>1. name \in DOMAIN Problems /\ gScore \in [DOMAIN gScore -> Nat] /\ Certified /\ dur \in Nat
      BY IInvCertified DEF IInv, TypeOK
    <2>2. AnswersOf[name] = Answers(q) /\ IsProblem(q)
      BY <2>1, ProblemIs DEF AnswersOf, q
    <2>3. \A j \in DOMAIN q.graph.edges :
            /\ q.graph.edges[j].from \in DOMAIN q.graph.at /\ q.graph.edges[j].to \in DOMAIN q.graph.at
      BY <2>2 DEF IsProblem
    <2>4. ASSUME NEW a \in Answers(q)
          PROVE  /\ a \in WaysThere(q)[Count(q)] /\ a.path[1] = q.from /\ a.dur \in Nat
                 /\ q.from \in NodesOf(q)
      <3>1. a \in WaysThere(q)[Count(q)] /\ a.path[1] = q.from
        BY <2>4 DEF Answers, Count
      <3>2. Count(q) \in Nat
        BY <2>2, WaysAre
      <3>3. Count(q) \in 0 .. Count(q)
        BY <3>2
      <3>4. a \in RecordsOf(q)
        BY <2>2, <3>1, <3>3, WaysAre
      <3>5. a.path \in Seq(NodesOf(q)) /\ a.path # <<>> /\ a.dur \in Nat
        BY <3>4 DEF RecordsOf
      <3>6. QED
        BY <3>1, <3>5
    <2>5. ASSUME at = "found", Admissible(q), NEW a \in Answers(q) PROVE dur <= a.dur
      <3>1. CASE q.from = q.to
        BY <2>1, <2>4, <2>5, <3>1 DEF Certified
      <3>2. CASE q.from # q.to
        <4>1. /\ Potential(q.from) = 0 /\ Potential(q.to) = dur
              /\ \A i \in DOMAIN Edges :
                   IsOpen(i) => Potential(Edges[i].to) <= Potential(Edges[i].from) + Weights[i]
          BY <2>1, <2>5, <3>2 DEF Certified
        <4>2. \A n : Potential(n) \in Int
          <5>1. Begun
            BY <2>5, <3>2 DEF IInv, Phases
          <5>2. q.to \in DOMAIN gScore /\ seen \subseteq DOMAIN gScore
            BY <2>5, <5>1 DEF IInv, Scores, Cut
          <5>3. \A n \in DOMAIN gScore : gScore[n] \in Nat
            BY <2>1
          <5>4. \A n : Heuristic(n) \in Nat
            BY <2>1, Consistency
          <5>5. QED
            BY <5>2, <5>3, <5>4 DEF Potential
        <4>3. PICK pot : pot = [n \in NodesOf(q) |-> Potential(n)]
          OBVIOUS
        <4>4. pot \in [NodesOf(q) -> Int] /\ \A n \in NodesOf(q) : pot[n] = Potential(n)
          BY <4>2, <4>3
        <4>5. \A j \in DOMAIN q.graph.edges :
                q.weight[j] # Inf =>
                  pot[q.graph.edges[j].to] <= pot[q.graph.edges[j].from] + q.weight[j]
          BY <2>3, <4>1, <4>4 DEF Edges, Weights, IsOpen, NodesOf
        <4>6. a \in WaysThere(q)[Count(q)] /\ a.path[1] = q.from
          BY <2>4, <2>5
        <4>7. pot[q.to] <= pot[a.path[1]] + a.dur
          BY <2>2, <4>4, <4>5, <4>6, PotentialBounds
        <4>8. q.from \in NodesOf(q) /\ q.to \in NodesOf(q)
          BY <2>4, <2>5 DEF NodesOf
        <4>9. QED
          BY <2>4, <2>5, <4>1, <4>4, <4>6, <4>7, <4>8
      <3>3. QED
        BY <3>1, <3>2
    <2>6. ASSUME at = "none", NEW a \in Answers(q) PROVE FALSE
      <3>1. q.from # q.to
        BY <2>6 DEF IInv, Phases, Begun
      <3>2. CASE q.to \in DOMAIN q.graph.at
        <4>1. /\ q.from \in seen /\ q.to \notin seen
              /\ \A j \in DOMAIN q.graph.edges :
                   q.weight[j] # Inf /\ q.graph.edges[j].from \in seen => q.graph.edges[j].to \in seen
          BY <2>1, <2>6, <3>2 DEF Certified, Edges, Weights, IsOpen
        <4>2. a.path[1] \notin seen
          BY <2>2, <2>4, <2>6, <4>1, CutStops
        <4>3. QED
          BY <2>4, <2>6, <4>1, <4>2
      <3>3. CASE q.to \notin DOMAIN q.graph.at
        <4>1. PICK C : C = (DOMAIN q.graph.at \cup {q.from}) \ {q.to}
          OBVIOUS
        <4>2. \A j \in DOMAIN q.graph.edges : q.graph.edges[j].to \in C
          BY <2>3, <3>3, <4>1
        <4>3. q.to \notin C
          BY <4>1
        <4>4. a.path[1] \notin C
          BY <2>2, <2>4, <2>6, <4>2, <4>3, CutStops
        <4>5. QED
          BY <2>4, <2>6, <3>1, <4>1, <4>4
      <3>4. QED
        BY <3>2, <3>3
    <2>7. QED
      BY <2>2, <2>5, <2>6 DEF FastestRoute, Routed
  <1>2. QED
    BY <1>1, SpecIInv, SpecRouted, PTL
-----------------------------------------------------------------------------
(* Sequences of sequences, one after the other. *)
LEMMA FlattenType ==
  ASSUME NEW E, NEW s \in Seq(Seq(E))
  PROVE  FlattenSeq(s) \in Seq(E)
  <1> DEFINE n == Len(s)
             S == Seq(E)
             step == [x \in Nat \X S |->
                        IF x[1] \in 1 .. n THEN IF x[1] = 1 THEN s[1] ELSE x[2] \o s[x[1]] ELSE x[2]]
             Recurses(f) == f = [i \in 1 .. n |-> IF i = 1 THEN s[i] ELSE f[i - 1] \o s[i]]
  <1>1. CASE n = 0
    <2>1. FlattenSeq(s) = s /\ s = <<>>
      BY <1>1 DEF FlattenSeq
    <2>2. QED
      BY <2>1
  <1>2. CASE n # 0
    <2>1. n \in Nat /\ \A i \in 1 .. n : s[i] \in S
      OBVIOUS
    <2>2. \A x \in Nat \X S : step[x] \in S
      <3>1. SUFFICES ASSUME NEW k \in Nat, NEW t \in S PROVE step[<<k, t>>] \in S
        OBVIOUS
      <3>2. step[<<k, t>>] = IF k \in 1 .. n THEN IF k = 1 THEN s[1] ELSE t \o s[k] ELSE t
        OBVIOUS
      <3>3. \A u \in S : t \o u \in S
        OBVIOUS
      <3> HIDE DEF S, step, n
      <3>4. QED
        BY <2>1, <3>1, <3>2, <3>3
    <2>3. step \in [Nat \X S -> S]
      BY <2>2
    <2>4. <<>> \in S
      OBVIOUS
    <2>5. PICK g : Iterates(g, S, <<>>, step, n)
      <3> HIDE DEF n, S, step
      <3>1. QED
        BY <2>1, <2>3, <2>4, Iteration
    <2>6. \A k \in 1 .. n : g[k] \in S /\ g[k - 1] \in S /\ g[k] = step[<<k, g[k - 1]>>]
      <3> HIDE DEF n, S, step
      <3>1. QED
        BY <2>1, <2>5 DEF Iterates
    <2>7. \A k \in 1 .. n : g[k] = IF k = 1 THEN s[k] ELSE g[k - 1] \o s[k]
      <3>1. SUFFICES ASSUME NEW k \in 1 .. n PROVE g[k] = IF k = 1 THEN s[k] ELSE g[k - 1] \o s[k]
        OBVIOUS
      <3>2. k \in Nat /\ g[k - 1] \in S /\ g[k] = step[<<k, g[k - 1]>>]
        <4> HIDE DEF step, S
        <4>1. QED
          BY <2>1, <2>6
      <3>3. step[<<k, g[k - 1]>>] = IF k = 1 THEN s[1] ELSE g[k - 1] \o s[k]
        BY <3>2
      <3>4. QED
        BY <3>2, <3>3
    <2> DEFINE h == [k \in 1 .. n |-> g[k]]
    <2>8. Recurses(h)
      <3>1. ASSUME NEW k \in 1 .. n PROVE h[k] = IF k = 1 THEN s[k] ELSE h[k - 1] \o s[k]
        <4>1. k # 1 => k - 1 \in 1 .. n
          BY <2>1
        <4>2. h[k] = g[k] /\ (k # 1 => h[k - 1] = g[k - 1])
          BY <4>1
        <4>3. QED
          BY <2>7, <4>2
      <3>2. QED
        BY <3>1
    <2>9. \E f : Recurses(f)
      BY <2>8
    <2>10. FlattenSeq(s) = (CHOOSE f : Recurses(f))[n]
      BY <1>2 DEF FlattenSeq
    <2>11. PICK f : f = (CHOOSE f1 : Recurses(f1))
      OBVIOUS
    <2>12. Recurses(f)
      BY <2>9, <2>11
    <2> DEFINE T == {k \in Nat : k + 1 <= n => f[k + 1] \in S}
    <2>13. 0 \in T
      <3>1. 1 \in 1 .. n
        BY <1>2, <2>1
      <3>2. f[1] = s[1]
        BY <2>12, <3>1
      <3>3. QED
        BY <2>1, <3>1, <3>2
    <2>14. ASSUME NEW k \in Nat, k \in T PROVE k + 1 \in T
      <3>1. SUFFICES ASSUME (k + 1) + 1 <= n PROVE f[(k + 1) + 1] \in S
        OBVIOUS
      <3>2. PICK j : j = (k + 1) + 1
        OBVIOUS
      <3>3. j \in 1 .. n /\ j # 1 /\ j - 1 = k + 1 /\ k + 1 <= n
        BY <2>1, <3>1, <3>2
      <3>4. f[j] = f[j - 1] \o s[j]
        BY <2>12, <3>3
      <3>5. f[j - 1] \in S /\ s[j] \in S
        BY <2>1, <2>14, <3>3
      <3>6. QED
        BY <3>2, <3>4, <3>5
    <2>15. \A k \in Nat : k \in T
      <3> HIDE DEF T
      <3>1. QED
        BY <2>13, <2>14, Induction
    <2>16. n - 1 \in Nat /\ (n - 1) + 1 = n
      BY <1>2, <2>1
    <2>17. f[n] \in S
      BY <2>15, <2>16
    <2>18. QED
      BY <2>10, <2>11, <2>17
  <1>3. QED
    BY <1>1, <1>2

(* A road of a way may be driven as its tags say. *)
LEMMA RoadsAreAllowed ==
  ASSUME NEW w, IsWay(w), NEW i \in 1 .. Len(WayRec(w).nodes) - 1,
         NEW a, NEW b, a = WayRec(w).nodes[i], b = WayRec(w).nodes[i + 1]
  PROVE  Allowed(w, a, b) /\ (~WayRec(w).oneway => Allowed(w, b, a))
  <1>1. /\ w.nodes \in Seq(Int) /\ w.oneway \in {"yes", "reverse", "no", "other"}
        /\ w.roundabout \in BOOLEAN
    BY DEF IsWay
  <1>2. CASE w.oneway = "reverse"
    <2>1. PICK n, s : n = Len(w.nodes) /\ s = Reverse(w.nodes)
      OBVIOUS
    <2>2. n \in Nat /\ s = [j \in 1 .. n |-> w.nodes[(n - j) + 1]]
      BY <1>1, <2>1 DEF Reverse
    <2>3. WayRec(w).nodes = s /\ WayRec(w).oneway
      BY <1>2, <2>1 DEF WayRec, IsOneway
    <2>4. Len(s) = n
      BY <2>2
    <2>5. i \in 1 .. n - 1 /\ i \in 1 .. n /\ i + 1 \in 1 .. n
      BY <2>2, <2>3, <2>4
    <2>6. PICK j : j = n - i
      OBVIOUS
    <2>7. j \in 1 .. n - 1 /\ (n - i) + 1 = j + 1 /\ (n - (i + 1)) + 1 = j
      BY <2>2, <2>5, <2>6
    <2>8. a = w.nodes[j + 1] /\ b = w.nodes[j]
      BY <2>2, <2>3, <2>5, <2>7
    <2>9. Allowed(w, a, b)
      BY <1>2, <2>1, <2>7, <2>8 DEF Allowed
    <2>10. QED
      BY <2>3, <2>9
  <1>3. CASE w.oneway # "reverse"
    <2>1. WayRec(w).nodes = w.nodes /\ WayRec(w).oneway = IsOneway(w)
      BY <1>3 DEF WayRec
    <2>2. Allowed(w, a, b)
      BY <1>3, <2>1 DEF Allowed
    <2>3. ~IsOneway(w) => Allowed(w, b, a)
      BY <2>1 DEF Allowed, IsOneway
    <2>4. QED
      BY <2>1, <2>2, <2>3
  <1>4. QED
    BY <1>2, <1>3

(* The roads that the ways of a map have. *)
Drivable(m) == {w \in ToSet(Maps[m]) : IsDrivable(w)}

Roads(m) ==
  {e \in {EdgeOf(WayRec(w), a, b, Coords) : w \in Drivable(m), a \in DOMAIN Coords, b \in DOMAIN Coords} :
     \E w \in Drivable(m) : Allowed(w, e.from, e.to)}

LEMMA RegionOfRoads ==
  ASSUME NEW m \in DOMAIN Maps
  PROVE  Regions[m].edges \in Seq(Roads(m))
  <1> DEFINE ways == Maps[m]
             E == Roads(m)
  <1>1. ways \in Seq(ToSet(ways)) /\ \A w \in ToSet(ways) : IsWay(w)
    BY MapsAssumption
  <1>2. ASSUME NEW w \in ToSet(ways), IsDrivable(w), NEW a \in DOMAIN Coords, NEW b \in DOMAIN Coords,
               Allowed(w, a, b)
        PROVE  EdgeOf(WayRec(w), a, b, Coords) \in E
    <2>1. PICK e : e = EdgeOf(WayRec(w), a, b, Coords)
      OBVIOUS
    <2>2. e.from = a /\ e.to = b
      BY <2>1 DEF EdgeOf
    <2>3. w \in Drivable(m)
      BY <1>2 DEF Drivable
    <2>4. e \in {EdgeOf(WayRec(v), x, y, Coords) : v \in Drivable(m), x \in DOMAIN Coords, y \in DOMAIN Coords}
      BY <1>2, <2>1, <2>3
    <2>5. e \in Roads(m)
      BY <1>2, <2>2, <2>3, <2>4 DEF Roads
    <2>6. QED
      BY <2>1, <2>5
  <1> HIDE DEF E
  <1>3. ASSUME NEW w \in ToSet(ways), IsDrivable(w) PROVE Segments(WayRec(w), Coords) \in Seq(E)
    <2>1. PICK rec : rec = WayRec(w)
      OBVIOUS
    <2>2. ASSUME NEW i \in 1 .. Len(rec.nodes) - 1
          PROVE  Segment(rec, rec.nodes[i], rec.nodes[i + 1], Coords) \in Seq(E)
      <3>1. PICK a, b : a = rec.nodes[i] /\ b = rec.nodes[i + 1]
        OBVIOUS
      <3>2. Allowed(w, a, b) /\ (~rec.oneway => Allowed(w, b, a))
        BY <1>1, <2>1, <3>1, RoadsAreAllowed
      <3>3. CASE {a, b} \subseteq DOMAIN Coords
        <4>1. EdgeOf(rec, a, b, Coords) \in E
          BY <1>2, <1>3, <2>1, <3>2, <3>3
        <4>2. ~rec.oneway => EdgeOf(rec, b, a, Coords) \in E
          BY <1>2, <1>3, <2>1, <3>2, <3>3
        <4>3. PICK t, u : t = EdgeOf(rec, a, b, Coords) /\ u = EdgeOf(rec, b, a, Coords)
          OBVIOUS
        <4>4. <<t>> \o (IF rec.oneway THEN <<>> ELSE <<u>>) \in Seq(E)
          BY <4>1, <4>2, <4>3
        <4>5. QED
          BY <3>1, <3>3, <4>3, <4>4 DEF Segment
      <3>4. CASE ~({a, b} \subseteq DOMAIN Coords)
        BY <3>1, <3>4 DEF Segment
      <3>5. QED
        BY <3>3, <3>4
    <2>3. Len(rec.nodes) \in Nat
      <3>1. w.nodes \in Seq(Int)
        BY <1>1 DEF IsWay
      <3>2. rec.nodes = w.nodes \/ rec.nodes = Reverse(w.nodes)
        BY <2>1 DEF WayRec
      <3>3. QED
        BY <3>1, <3>2 DEF Reverse
    <2>4. PICK s : s = [i \in 1 .. Len(rec.nodes) - 1 |->
                          Segment(rec, rec.nodes[i], rec.nodes[i + 1], Coords)]
      OBVIOUS
    <2>5. s \in Seq(Seq(E))
      <3>1. PICK k : k = Len(rec.nodes) - 1
        OBVIOUS
      <3>2. k \in Int /\ s \in [1 .. k -> Seq(E)]
        BY <2>2, <2>3, <2>4, <3>1
      <3>3. CASE k \in Nat
        BY <3>2, <3>3
      <3>4. CASE k \notin Nat
        <4>1. 1 .. k = 1 .. 0
          BY <3>2, <3>4
        <4>2. s \in [1 .. 0 -> Seq(E)]
          BY <3>2, <4>1
        <4>3. QED
          BY <4>2
      <3>5. QED
        BY <3>3, <3>4
    <2>6. FlattenSeq(s) \in Seq(E)
      BY <2>5, FlattenType
    <2>7. QED
      BY <2>1, <2>4, <2>6 DEF Segments
  <1>4. PICK s : s = [k \in DOMAIN ways |->
                        IF k \in {x \in DOMAIN ways : IsDrivable(ways[x])}
                        THEN Segments(WayRec(ways[k]), Coords) ELSE <<>>]
    OBVIOUS
  <1>5. s \in Seq(Seq(E))
    <2>1. Len(ways) \in Nat /\ DOMAIN ways = 1 .. Len(ways)
      BY <1>1
    <2>2. \A k \in DOMAIN ways : ways[k] \in ToSet(ways)
      BY DEF ToSet
    <2>3. ASSUME NEW k \in DOMAIN ways PROVE s[k] \in Seq(E)
      BY <1>3, <1>4, <2>2
    <2>4. s \in [1 .. Len(ways) -> Seq(E)]
      BY <1>4, <2>1, <2>3
    <2>5. QED
      BY <2>1, <2>4
  <1>6. FlattenSeq(s) \in Seq(E)
    BY <1>5, FlattenType
  <1>7. Regions[m].edges = FlattenSeq(s)
    BY <1>4, MapsAssumption DEF ParsePBF
  <1>8. QED
    BY <1>6, <1>7 DEF E

(* What a slice has of the roads of its graph. *)
LEMMA SliceOfRoads ==
  ASSUME NEW E, NEW g, g.edges \in Seq(E), NEW keep
  PROVE  Slice(g, keep).edges \in Seq(ToSet(g.edges)) /\ DOMAIN Slice(g, keep).at \subseteq DOMAIN g.at
  <1>1. PICK es, T : es = g.edges /\ T = ToSet(es)
    OBVIOUS
  <1>2. es \in Seq(E) /\ Len(es) \in Nat /\ DOMAIN es = 1 .. Len(es) /\ \A i \in DOMAIN es : es[i] \in T
    BY <1>1 DEF ToSet
  <1>3. PICK s : s = [i \in DOMAIN es |-> IF {es[i].from, es[i].to} \subseteq keep THEN <<es[i]>> ELSE <<>>]
    OBVIOUS
  <1>4. s \in Seq(Seq(T))
    <2>1. \A i \in DOMAIN es : s[i] \in Seq(T)
      BY <1>2, <1>3
    <2>2. s \in [1 .. Len(es) -> Seq(T)]
      BY <1>2, <1>3, <2>1
    <2>3. QED
      BY <1>2, <2>2
  <1>5. FlattenSeq(s) \in Seq(T)
    BY <1>4, FlattenType
  <1>6. QED
    BY <1>1, <1>3, <1>5 DEF Slice

LEMMA RoadsOfSlice ==
  ASSUME NEW n \in DOMAIN Requests
  PROVE  LET p == Problems[n]
             u == InRegion(Requests[n])
         IN  /\ IsProblem(p) /\ IsProblem(u) /\ p.from = u.from /\ p.to = u.to
             /\ DOMAIN p.graph.at \subseteq DOMAIN u.graph.at
             /\ u.graph = Regions[Requests[n].map]
             /\ \A j \in DOMAIN p.graph.edges : \E i \in DOMAIN u.graph.edges :
                  /\ p.graph.edges[j] = u.graph.edges[i] /\ p.weight[j] = u.weight[i]
                  /\ p.weight[j] # Inf => Key(p.graph.edges[j]) \notin Requests[n].metric.closed
  <1>1. PICK r, g, m : r = Requests[n] /\ g = Regions[r.map] /\ m = r.metric
    OBVIOUS
  <1>2. PICK s : s = Slice(g, r.keep)
    OBVIOUS
  <1>3. PICK p, u : p = Problems[n] /\ u = InRegion(r)
    OBVIOUS
  <1>4. n \in DOMAIN Problems /\ p = InSlice(r) /\ r.map \in DOMAIN Maps /\ IsProblem(u)
    BY <1>1, <1>3, RequestsAssumption
  <1>5. IsProblem(p)
    BY <1>3, <1>4, ProblemsAssumption
  <1>6. p.graph = s /\ p.weight = Customize(s, m) /\ p.from = r.from /\ p.to = r.to
    BY <1>1, <1>2, <1>4 DEF InSlice
  <1>7. u.graph = g /\ u.weight = Customize(g, m) /\ u.from = r.from /\ u.to = r.to
    BY <1>1, <1>3 DEF InRegion
  <1>8. g.edges \in Seq(Roads(r.map))
    BY <1>1, <1>4, RegionOfRoads
  <1>9. s.edges \in Seq(ToSet(g.edges)) /\ DOMAIN s.at \subseteq DOMAIN g.at
    BY <1>2, <1>8, SliceOfRoads
  <1>10. ASSUME NEW j \in DOMAIN s.edges
         PROVE  \E i \in DOMAIN g.edges :
                  /\ s.edges[j] = g.edges[i] /\ Customize(s, m)[j] = Customize(g, m)[i]
                  /\ Customize(s, m)[j] # Inf => Key(s.edges[j]) \notin m.closed
    <2>1. s.edges[j] \in ToSet(g.edges)
      BY <1>9
    <2>2. PICK i \in DOMAIN g.edges : s.edges[j] = g.edges[i]
      BY <2>1 DEF ToSet
    <2>3. PICK e : e = s.edges[j]
      OBVIOUS
    <2>4. Customize(s, m)[j] = IF Key(e) \in m.closed \/ Mult(m, e) <= 0 THEN Inf
                               ELSE (BaseWeight(e) * 100) \div Mult(m, e)
      BY <2>3 DEF Customize
    <2>5. Customize(g, m)[i] = IF Key(e) \in m.closed \/ Mult(m, e) <= 0 THEN Inf
                               ELSE (BaseWeight(e) * 100) \div Mult(m, e)
      BY <2>2, <2>3 DEF Customize
    <2>6. QED
      BY <2>2, <2>3, <2>4, <2>5
  <1>11. QED
    BY <1>1, <1>3, <1>4, <1>5, <1>6, <1>7, <1>9, <1>10

(* A route of the slice is a route of the region. *)
LEMMA SliceAnswersHold ==
  ASSUME NEW n \in DOMAIN Requests
  PROVE  Answers(Problems[n]) \subseteq Answers(InRegion(Requests[n]))
  <1>1. PICK p, u : p = Problems[n] /\ u = InRegion(Requests[n])
    OBVIOUS
  <1>2. /\ IsProblem(p) /\ IsProblem(u) /\ p.from = u.from /\ p.to = u.to
        /\ DOMAIN p.graph.at \subseteq DOMAIN u.graph.at
        /\ \A j \in DOMAIN p.graph.edges : \E i \in DOMAIN u.graph.edges :
             p.graph.edges[j] = u.graph.edges[i] /\ p.weight[j] = u.weight[i]
    BY <1>1, RoadsOfSlice
  <1>3. Count(p) \in Nat /\ Count(u) \in Nat /\ Count(p) <= Count(u)
    <2>1. IsFiniteSet(DOMAIN u.graph.at)
      BY <1>2 DEF IsProblem
    <2>2. QED
      BY <1>2, <2>1, WaysAre, FS_Subset DEF Count
  <1>4. \A r : Longer(p, r) \subseteq Longer(u, r)
    <2>1. SUFFICES ASSUME NEW r, NEW t \in Longer(p, r) PROVE t \in Longer(u, r)
      OBVIOUS
    <2>2. PICK j \in DOMAIN p.graph.edges :
            /\ p.weight[j] # Inf /\ p.graph.edges[j].to = r.path[1]
            /\ p.graph.edges[j].from \notin ToSet(r.path)
            /\ t = [path |-> <<p.graph.edges[j].from>> \o r.path,
                    dist |-> r.dist + p.graph.edges[j].len, dur |-> r.dur + p.weight[j]]
      BY <2>1 DEF Longer
    <2>3. PICK i \in DOMAIN u.graph.edges :
            p.graph.edges[j] = u.graph.edges[i] /\ p.weight[j] = u.weight[i]
      BY <1>2
    <2>4. QED
      BY <2>2, <2>3 DEF Longer
  <1> DEFINE T == {k \in Nat : k <= Count(p) => WaysThere(p)[k] \subseteq WaysThere(u)[k]}
  <1>5. 0 \in T
    <2>1. Arriving(p) = Arriving(u)
      BY <1>2 DEF Arriving
    <2>2. QED
      BY <1>2, <2>1, WaysAre
  <1>6. ASSUME NEW k \in Nat, k \in T PROVE k + 1 \in T
    <2>1. SUFFICES ASSUME k + 1 <= Count(p) PROVE WaysThere(p)[k + 1] \subseteq WaysThere(u)[k + 1]
      OBVIOUS
    <2>2. k + 1 <= Count(u) /\ k <= Count(p)
      BY <1>3, <2>1
    <2>3. WaysThere(p)[k] \subseteq WaysThere(u)[k]
      BY <1>6, <2>2
    <2>4. WaysThere(p)[k + 1] = Further(p, WaysThere(p)[k])
      BY <1>2, <2>1, WaysAre
    <2>5. WaysThere(u)[k + 1] = Further(u, WaysThere(u)[k])
      BY <1>2, <2>2, WaysAre
    <2>6. Further(p, WaysThere(p)[k]) \subseteq Further(u, WaysThere(u)[k])
      BY <1>4, <2>3 DEF Further
    <2>7. QED
      BY <2>4, <2>5, <2>6
  <1>7. \A k \in Nat : k \in T
    <2> HIDE DEF T
    <2>1. QED
      BY <1>5, <1>6, Induction
  <1>8. WaysThere(p)[Count(p)] \subseteq WaysThere(u)[Count(p)]
    BY <1>3, <1>7
  <1>9. WaysThere(u)[Count(p)] \subseteq WaysThere(u)[Count(u)]
    BY <1>2, <1>3, WaysGrow
  <1>10. QED
    BY <1>1, <1>2, <1>8, <1>9 DEF Answers, Count

(* An answer goes along open roads. *)
LEMMA AnswersUseRoads ==
  ASSUME NEW p, IsProblem(p), NEW w \in Answers(p), NEW k \in 1 .. Len(w.path) - 1
  PROVE  \E j \in DOMAIN p.graph.edges :
           /\ p.weight[j] # Inf
           /\ p.graph.edges[j].from = w.path[k] /\ p.graph.edges[j].to = w.path[k + 1]
  <1> DEFINE Along(a, b) == \E j \in DOMAIN p.graph.edges :
               p.weight[j] # Inf /\ p.graph.edges[j].from = a /\ p.graph.edges[j].to = b
             IsRoute(r) == \A i \in 1 .. Len(r.path) - 1 : Along(r.path[i], r.path[i + 1])
             T == {i \in Nat : i <= Count(p) => \A r \in WaysThere(p)[i] : IsRoute(r)}
  <1>1. Count(p) \in Nat
    BY WaysAre
  <1>2. 0 \in T
    <2>1. Arriving(p).path = <<p.to>> /\ Len(<<p.to>>) = 1
      BY DEF Arriving
    <2>2. IsRoute(Arriving(p))
      BY <2>1
    <2>3. WaysThere(p)[0] = {Arriving(p)}
      BY WaysAre
    <2> HIDE DEF IsRoute
    <2>4. QED
      BY <2>2, <2>3
  <1>3. ASSUME NEW i \in Nat, i \in T PROVE i + 1 \in T
    <2>1. SUFFICES ASSUME i + 1 <= Count(p), NEW t \in WaysThere(p)[i + 1] PROVE IsRoute(t)
      OBVIOUS
    <2>2. i \in 0 .. Count(p) /\ i <= Count(p)
      BY <1>1, <2>1
    <2>3. \A r \in WaysThere(p)[i] : IsRoute(r) /\ r \in RecordsOf(p)
      BY <1>3, <2>2, WaysAre
    <2>4. t \in WaysThere(p)[i] \/ \E r \in WaysThere(p)[i] : t \in Longer(p, r)
      BY <2>1, WaysAre DEF Further
    <2>5. ASSUME NEW r \in WaysThere(p)[i], t \in Longer(p, r) PROVE IsRoute(t)
      <3>1. PICK j \in DOMAIN p.graph.edges :
              /\ p.weight[j] # Inf /\ p.graph.edges[j].to = r.path[1]
              /\ t = [path |-> <<p.graph.edges[j].from>> \o r.path,
                      dist |-> r.dist + p.graph.edges[j].len, dur |-> r.dur + p.weight[j]]
        BY <2>5 DEF Longer
      <3>2. PICK x, s : x = p.graph.edges[j].from /\ s = r.path
        OBVIOUS
      <3>3. r \in RecordsOf(p) /\ IsRoute(r)
        BY <2>3
      <3>4. s \in Seq(NodesOf(p)) /\ s # <<>>
        BY <3>2, <3>3 DEF RecordsOf
      <3>5. x \in NodesOf(p)
        BY <3>2 DEF IsProblem, NodesOf
      <3>6. PICK v : v = <<x>> \o s
        OBVIOUS
      <3>7. /\ t.path = v /\ v[1] = x /\ Len(v) = Len(s) + 1 /\ Len(s) \in Nat
            /\ \A b \in 1 .. Len(s) : v[b + 1] = s[b]
        BY <3>1, <3>2, <3>4, <3>5, <3>6
      <3>8. Along(x, s[1]) /\ Len(s) >= 1
        BY <3>1, <3>2, <3>4
      <3>9. \A b \in 1 .. Len(s) - 1 : Along(s[b], s[b + 1])
        BY <3>2, <3>3
      <3> HIDE DEF Along
      <3>10. ASSUME NEW b \in 1 .. Len(v) - 1 PROVE Along(v[b], v[b + 1])
        <4>1. CASE b = 1
          BY <3>7, <3>8, <4>1
        <4>2. CASE b # 1
          <5>1. PICK c : c = b - 1
            OBVIOUS
          <5>2. c \in 1 .. Len(s) - 1 /\ c \in 1 .. Len(s) /\ b \in 1 .. Len(s) /\ b = c + 1
            BY <3>7, <4>2, <5>1
          <5>3. v[b] = s[c] /\ v[b + 1] = s[c + 1]
            BY <3>7, <5>2
          <5>4. QED
            BY <3>9, <5>2, <5>3
        <4>3. QED
          BY <4>1, <4>2
      <3>11. QED
        BY <3>7, <3>10
    <2>6. QED
      BY <2>3, <2>4, <2>5
  <1>4. \A i \in Nat : i \in T
    <2> HIDE DEF T
    <2>1. QED
      BY <1>2, <1>3, Induction
  <1>5. IsRoute(w)
    BY <1>1, <1>4 DEF Answers, Count
  <1>6. QED
    BY <1>5

(* A route found in a slice, under a metric made for the whole region, can *)
(* be driven: along drivable ways, as their tags allow, on roads that are  *)
(* not closed; and it is a route of the region of the same time.           *)
THEOREM RoutesHold == Spec => []RouteHoldsInRegion
  <1>1. IInv /\ Routed => RouteHoldsInRegion
    <2> SUFFICES ASSUME IInv, Routed, at = "found" PROVE RouteHoldsInRegion
      BY DEF RouteHoldsInRegion
    <2>1. PICK r, p, u : r = Requests[name] /\ p = Problems[name] /\ u = InRegion(r)
      OBVIOUS
    <2>2. name \in DOMAIN Requests /\ q = p /\ Answer \in Answers(p)
      <3>1. name \in DOMAIN Problems
        BY DEF IInv, TypeOK
      <3>2. name \in DOMAIN Requests
        BY <3>1, RequestsAssumption
      <3>3. QED
        BY <2>1, <3>2 DEF Routed, q
    <2>3. /\ IsProblem(p) /\ r.map \in DOMAIN Maps /\ u.graph = Regions[r.map]
          /\ \A j \in DOMAIN p.graph.edges : \E i \in DOMAIN u.graph.edges :
               /\ p.graph.edges[j] = u.graph.edges[i]
               /\ p.weight[j] # Inf => Key(p.graph.edges[j]) \notin r.metric.closed
      <3>1. r.map \in DOMAIN Maps
        BY <2>1, <2>2, RequestsAssumption
      <3>2. QED
        BY <2>1, <2>2, <3>1, RoadsOfSlice
    <2>4. u.graph.edges \in Seq(Roads(r.map))
      BY <2>3, RegionOfRoads
    <2>5. Answer \in RegionAnswers[name]
      <3>1. RegionAnswers[name] = Answers(u)
        BY <2>1, <2>2 DEF RegionAnswers
      <3>2. Answers(p) \subseteq Answers(u)
        BY <2>1, <2>2, SliceAnswersHold
      <3>3. QED
        BY <2>2, <3>1, <3>2
    <2>6. ASSUME NEW k \in 1 .. Len(path) - 1
          PROVE  /\ <<path[k], path[k + 1]>> \notin r.metric.closed
                 /\ \E w \in ToSet(Maps[r.map]) : IsDrivable(w) /\ Allowed(w, path[k], path[k + 1])
      <3>1. PICK a, b : a = path[k] /\ b = path[k + 1]
        OBVIOUS
      <3>2. Answer.path = path
        BY DEF Answer
      <3>3. PICK j \in DOMAIN p.graph.edges :
              p.weight[j] # Inf /\ p.graph.edges[j].from = a /\ p.graph.edges[j].to = b
        BY <2>2, <2>3, <3>1, <3>2, AnswersUseRoads
      <3>4. PICK i \in DOMAIN u.graph.edges :
              /\ p.graph.edges[j] = u.graph.edges[i]
              /\ p.weight[j] # Inf => Key(p.graph.edges[j]) \notin r.metric.closed
        BY <2>3
      <3>5. u.graph.edges[i] \in Roads(r.map)
        BY <2>4
      <3>6. PICK w \in Drivable(r.map) : Allowed(w, a, b)
        BY <3>3, <3>4, <3>5 DEF Roads
      <3>7. QED
        BY <3>1, <3>3, <3>4, <3>6 DEF Key, Drivable
    <2>7. QED
      BY <2>1, <2>5, <2>6 DEF RouteHoldsInRegion
  <1>2. QED
    BY <1>1, SpecIInv, SpecRouted, PTL
=============================================================================
