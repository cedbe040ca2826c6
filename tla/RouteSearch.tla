---------------------------- MODULE RouteSearch ----------------------------
(***************************************************************************)
(* AStar (astar.go): the search for a fastest route from one node to       *)
(* another, a step for every node that leaves the heap, for every road     *)
(* that is relaxed and for every road of the route when it is read back.   *)
(*                                                                         *)
(* The heap is a set of items: whenever a node is pushed again its score   *)
(* has become smaller, so that no two items are equal.  Items with equal   *)
(* scores leave the heap in any order.                                     *)
(***************************************************************************)
EXTENDS RoadNetwork

CONSTANTS
  Problems, \* what clients search: name -> [graph, weight, from, to]
  TopPace   \* the pace of maxGraphSpeedMps, 140 km/h

IsProblem(p) ==
  LET g == p.graph IN
    /\ IsFiniteSet(DOMAIN g.at) /\ \A n \in DOMAIN g.at : g.at[n] \in Points
    /\ DOMAIN g.edges \subseteq Nat
    /\ \A i \in DOMAIN g.edges :
         /\ {g.edges[i].from, g.edges[i].to} \subseteq DOMAIN g.at
         /\ g.edges[i].len \in Nat
    /\ p.weight \in [DOMAIN g.edges -> Nat \cup {Inf}]

(* No open road is faster than the heuristic's top speed.  Nothing in the  *)
(* code sees to that: a maxspeed is taken as it is tagged.                 *)
Admissible(p) ==
  LET g == p.graph IN
    \A i \in DOMAIN g.edges :
      p.weight[i] # Inf =>
        TopPace * Distance[g.at[g.edges[i].from], g.at[g.edges[i].to]] <= p.weight[i]

VARIABLES
  name,     \* which problem
  at,       \* where the program is: start, search, back, found or none
  gScore,   \* node -> the time of the fastest route to it so far
  prevEdge, \* node -> the last road of that route
  open,     \* the heap: [node, f]
  seen,     \* the nodes expanded
  cur,      \* the node being expanded, or the node being read back
  pending,  \* the roads from it that are still to be relaxed
  path, dist, dur \* the route read back so far

vars == <<name, at, gScore, prevEdge, open, seen, cur, pending, path, dist, dur>>
result == <<path, dist, dur>>

q       == Problems[name]
Edges   == q.graph.edges
Weights == q.weight
Adj(n)  == {i \in DOMAIN Edges : Edges[i].from = n}

IsOpen(i) == Weights[i] # Inf

(* The straight line to the target at top speed.  Slip: at half of it. *)
HeuristicSlip(n) == 2 * TopPace * Distance[Place(q.graph, n), Place(q.graph, q.to)]

Heuristic(n) == TopPace * Distance[Place(q.graph, n), Place(q.graph, q.to)]

(* f with the value v at k, added if need be. *)
Put(f, k, v) == [x \in DOMAIN f \cup {k} |-> IF x = k THEN v ELSE f[x]]

Init ==
  /\ name \in DOMAIN Problems
  /\ at = "start"
  /\ gScore = <<>> /\ prevEdge = <<>>
  /\ open = {} /\ seen = {} /\ pending = {}
  /\ cur = q.from
  /\ path = <<>> /\ dist = 0 /\ dur = 0
-----------------------------------------------------------------------------
(* from = to, also when the graph has no such node. *)
StartAtTarget ==
  /\ at = "start" /\ q.from = q.to
  /\ at' = "found"
  /\ path' = <<q.from>>
  /\ UNCHANGED <<name, gScore, prevEdge, open, seen, cur, pending, dist, dur>>

StartNoTarget ==
  /\ at = "start" /\ q.from # q.to /\ q.to \notin DOMAIN q.graph.at
  /\ at' = "none"
  /\ UNCHANGED <<name, gScore, prevEdge, open, seen, cur, pending, result>>

Start ==
  /\ at = "start" /\ q.from # q.to /\ q.to \in DOMAIN q.graph.at
  /\ at' = "search"
  /\ gScore' = [n \in {q.from} |-> 0]
  /\ open' = {[node |-> q.from, f |-> Heuristic(q.from)]}
  /\ UNCHANGED <<name, prevEdge, seen, cur, pending, result>>

(* Slip: the items leave the heap in any order. *)
PopSlip(o) ==
  /\ at = "search" /\ pending = {}
  /\ open' = open \ {o}

(* Slip: the item is looked at and stays. *)
PeekSlip(o) ==
  /\ at = "search" /\ pending = {}
  /\ \A x \in open : o.f <= x.f
  /\ UNCHANGED open

(* heap.Pop: an item with a least score. *)
Pop(o) ==
  /\ at = "search" /\ pending = {}
  /\ \A x \in open : o.f <= x.f
  /\ open' = open \ {o}

PopTarget(o) ==
  /\ Pop(o) /\ o.node = q.to
  /\ at' = "back"
  /\ cur' = q.to
  /\ UNCHANGED <<name, gScore, prevEdge, seen, pending, result>>

PopSeen(o) ==
  /\ Pop(o) /\ o.node # q.to /\ o.node \in seen
  /\ UNCHANGED <<name, at, gScore, prevEdge, seen, cur, pending, result>>

PopNew(o) ==
  /\ Pop(o) /\ o.node # q.to /\ o.node \notin seen
  /\ seen' = seen \cup {o.node}
  /\ cur' = o.node
  /\ pending' = Adj(o.node)
  /\ UNCHANGED <<name, at, gScore, prevEdge, result>>

Better(n, cand) == n \in DOMAIN gScore => cand < gScore[n]

(* The first of the pending roads: closed ones are passed over, and one    *)
(* that leads to its end sooner than the routes so far is noted.  Slip: it *)
(* is noted only if nothing led to its end before.                         *)
RelaxSlip(i) ==
  /\ at = "search" /\ i \in pending /\ \A j \in pending : i <= j
  /\ pending' = pending \ {i}
  /\ LET n == Edges[i].to
         cand == gScore[cur] + Weights[i]
     IN IF IsOpen(i) /\ n \notin DOMAIN gScore
        THEN /\ gScore' = Put(gScore, n, cand)
             /\ prevEdge' = Put(prevEdge, n, i)
             /\ open' = open \cup {[node |-> n, f |-> cand + Heuristic(n)]}
        ELSE UNCHANGED <<gScore, prevEdge, open>>
  /\ UNCHANGED <<name, at, seen, cur, result>>

Relax(i) ==
  /\ at = "search" /\ i \in pending /\ \A j \in pending : i <= j
  /\ pending' = pending \ {i}
  /\ LET n == Edges[i].to
         cand == gScore[cur] + Weights[i]
     IN IF IsOpen(i) /\ Better(n, cand)
        THEN /\ gScore' = Put(gScore, n, cand)
             /\ prevEdge' = Put(prevEdge, n, i)
             /\ open' = open \cup {[node |-> n, f |-> cand + Heuristic(n)]}
        ELSE UNCHANGED <<gScore, prevEdge, open>>
  /\ UNCHANGED <<name, at, seen, cur, result>>

Exhausted ==
  /\ at = "search" /\ pending = {} /\ open = {}
  /\ at' = "none"
  /\ UNCHANGED <<name, gScore, prevEdge, open, seen, cur, pending, result>>

(* reconstruct: back along the last roads to where the route began. *)
Back ==
  /\ at = "back" /\ cur # q.from
  /\ LET i == prevEdge[cur]
     IN /\ cur' = Edges[i].from
        /\ path' = <<cur>> \o path
        /\ dist' = dist + Edges[i].len
        /\ dur' = dur + Weights[i]
  /\ UNCHANGED <<name, at, gScore, prevEdge, open, seen, pending>>

Reconstructed ==
  /\ at = "back" /\ cur = q.from
  /\ at' = "found"
  /\ path' = <<cur>> \o path
  /\ UNCHANGED <<name, gScore, prevEdge, open, seen, cur, pending, dist, dur>>

Next ==
  \/ StartAtTarget \/ StartNoTarget \/ Start
  \/ \E o \in open : PopTarget(o) \/ PopSeen(o) \/ PopNew(o)
  \/ \E i \in pending : Relax(i)
  \/ Exhausted
  \/ Back \/ Reconstructed

Spec == Init /\ [][Next]_vars

(* A call runs on until it returns. *)
FairSpec == Spec /\ WF_vars(Next)
-----------------------------------------------------------------------------
ASSUME TopPaceAssumption == TopPace \in Nat

ASSUME ProblemsAssumption == \A p \in DOMAIN Problems : IsProblem(Problems[p])

Nodes == DOMAIN q.graph.at \cup {q.from}
Items == [node : Nodes, f : Nat]

TypeOK ==
  /\ name \in DOMAIN Problems
  /\ at \in {"start", "search", "back", "found", "none"}
  /\ DOMAIN gScore \subseteq Nodes /\ gScore \in [DOMAIN gScore -> Nat]
  /\ DOMAIN prevEdge \subseteq Nodes /\ prevEdge \in [DOMAIN prevEdge -> DOMAIN Edges]
  /\ open \subseteq Items
  /\ seen \subseteq Nodes
  /\ cur \in Nodes
  /\ pending \subseteq DOMAIN Edges
  /\ path \in Seq(Nodes)
  /\ dist \in Nat /\ dur \in Nat

(* A certificate that the answer is right, which can be read off what the  *)
(* search leaves behind.  On success, if no road is faster than top speed, *)
(* a potential that starts at 0, grows along no open road by more than the *)
(* road takes, and is the answer's time at the target: no route can be     *)
(* faster.  On failure, at whatever speeds, a set of nodes that has the    *)
(* start in it and the target not, and that no open road leaves.           *)
Potential(n) == IF n \in seen THEN gScore[n] ELSE gScore[q.to] - Heuristic(n)

Certified ==
  /\ at = "found" /\ q.from = q.to => dur = 0
  /\ at = "found" /\ q.from # q.to /\ Admissible(q) =>
       /\ Potential(q.from) = 0
       /\ Potential(q.to) = dur
       /\ \A i \in DOMAIN Edges :
            IsOpen(i) => Potential(Edges[i].to) <= Potential(Edges[i].from) + Weights[i]
  /\ at = "none" /\ q.to \in DOMAIN q.graph.at =>
       /\ q.from \in seen /\ q.to \notin seen
       /\ \A i \in DOMAIN Edges : IsOpen(i) /\ Edges[i].from \in seen => Edges[i].to \in seen

(* The answers there may be, by first principles: all ways to go along     *)
(* open roads from the start to the target without coming by a node twice, *)
(* with how far and how long they are.  They are found from the target     *)
(* backwards, a road at a time.                                            *)
Longer(p, r) ==
  LET edges == p.graph.edges IN
    {[path |-> <<edges[j].from>> \o r.path, dist |-> r.dist + edges[j].len,
      dur |-> r.dur + p.weight[j]] :
       j \in {x \in DOMAIN edges : /\ p.weight[x] # Inf /\ edges[x].to = r.path[1]
                                  /\ edges[x].from \notin ToSet(r.path)}}

WaysThere(p) ==
  LET Of[k \in 0 .. Cardinality(DOMAIN p.graph.at)] ==
        IF k = 0 THEN {[path |-> <<p.to>>, dist |-> 0, dur |-> 0]}
        ELSE UNION {{r} \cup Longer(p, r) : r \in Of[k - 1]}
  IN  Of

Answers(p) == {r \in WaysThere(p)[Cardinality(DOMAIN p.graph.at)] : r.path[1] = p.from}

AnswersOf == LET all == Problems IN [n \in DOMAIN all |-> Answers(all[n])]

Answer == [path |-> path, dist |-> dist, dur |-> dur]

(* The answer is a route with that route's own length and time, and it is  *)
(* "none" only if there is none, at whatever speeds; and no other route is *)
(* faster, if no road is faster than top speed.                            *)
FastestRoute ==
  /\ at = "found" =>
       /\ Answer \in AnswersOf[name]
       /\ Admissible(q) => \A a \in AnswersOf[name] : dur <= a.dur
  /\ at = "none" => AnswersOf[name] = {}

(* A node that was expanded never gets a better score, if no road is       *)
(* faster than top speed: its roads were relaxed for good.                 *)
SettledForGood == [][\A n \in seen : gScore'[n] = gScore[n] \/ ~Admissible(q)]_vars

(* The search ends, and so does the reading back: the last roads make no   *)
(* circle, although the score of an expanded node may still fall when      *)
(* there are faster roads.                                                 *)
Finishes == <>(at \in {"found", "none"})
-----------------------------------------------------------------------------
(* What the repository says of the program, and the program does not do.   *)

(* "AStar finds the minimum-time path from->to" (astar.go:11), since its   *)
(* heuristic is "admissible: never overestimates" (astar.go:8).            *)
MinimumTime == at = "found" => \A a \in AnswersOf[name] : dur <= a.dur
=============================================================================
