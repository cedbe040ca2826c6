--------------------------- MODULE RegionService ---------------------------
(***************************************************************************)
(* The routing side of the server program: main (cmd/server) loads the     *)
(* region, starts the poller of road closures (traffic/closure_poll.go)    *)
(* and installs the region, and the handlers of routing_handlers.go serve  *)
(* the region, slices of it and the live metric, while closures come and   *)
(* go and the service that reports them fails and recovers.                *)
(*                                                                         *)
(* The clock is not a variable: a request for the metric reads any hour.   *)
(***************************************************************************)
EXTENDS RoadNetwork

CONSTANTS
  Region,   \* the graph in the region file
  Refs,     \* the road numbers polled, in their order
  Midway,   \* <<point, point>> -> the point half way
  Radius,   \* radiusM
  MaxSets,  \* node sets in a request for slices
  MaxNodes, \* nodes in one of them
  Clients,
  Hours,    \* the hours at which the metric is asked for
  Sites,    \* external: where roads are closed
  Requests  \* external: the requests for slices, sequences of node sequences

Classes == {"motorway", "trunk", "primary", "secondary", "tertiary", "local"}

ASSUME RegionAssumption ==
  /\ \A n \in DOMAIN Region.at : Region.at[n] \in Points
  /\ Region.edges \in Seq([from : DOMAIN Region.at, to : DOMAIN Region.at, len : Nat,
                           class : Classes, ref : STRING,
                           pace : Nat \ {0}])
  /\ \A i \in DOMAIN Region.edges :
       Region.edges[i].len =
         Distance[Region.at[Region.edges[i].from], Region.at[Region.edges[i].to]]

ASSUME HoursAssumption == Hours \subseteq 0 .. 23

ASSUME RefsAssumption == Refs \in Seq(STRING) /\ Sites \subseteq Points

ASSUME MidwayAssumption == Midway \in [Points \X Points -> Points]

VARIABLES
  file,      \* -region: "none" given, one that cannot be read ("bad"), "good"
  autobahn,  \* -autobahn is given
  main,      \* where main is: load, wire, install, serve or fatal
  installed, \* SetRegion was called
  poller,    \* off, fetch or wait (for the ticker)
  turn,      \* the index of the ref that is fetched next
  acc,       \* the poll's closed set so far
  closed,    \* the closed set published last
  world,     \* external: ref -> the points where it is reported closed
  api,       \* external: "up", or "down": no answer, or one that lists nothing
  asked,     \* client -> the hour its request for the metric read, or NotAsked
  answer     \* client -> the answer to its last request, or NoAnswer

program == <<file, autobahn, main, installed, poller, turn, acc, closed, world, api, asked, answer>>

(* History: for the poll under way and for the one published last, the     *)
(* closures reported at some time in it, and those due: reported all the   *)
(* time it ran, under a number whose fetch did not fail.                   *)
VARIABLES window, published

vars == <<program, window, published>>

Keys == {Key(Region.edges[i]) : i \in DOMAIN Region.edges}
NotAsked == -1
NoAnswer == [status |-> 0]

(* MatchClosures: the roads of that number whose middle is near a point.   *)
MatchClosures(pts, ref) ==
  {Key(e) : e \in {x \in ToSet(Region.edges) :
     /\ x.ref = ref
     /\ \E p \in pts : Distance[Midway[Place(Region, x.from), Place(Region, x.to)], p] <= Radius}}

(* SimulatedProvider.Metric and CombinedProvider.Metric.  Slip: traffic    *)
(* flows faster than free at night.                                        *)
Highway == {"motorway", "trunk"}

CityPercent(h) ==
  CASE h \in 7 .. 9 -> 55 [] h \in 16 .. 18 -> 50 [] h >= 22 \/ h < 5 -> 100 [] OTHER -> 85
HighwayPercentSlip(h) ==
  CASE h \in 7 .. 9 -> 80 [] h \in 16 .. 18 -> 75 [] h >= 22 \/ h < 5 -> 110 [] OTHER -> 95
HighwayPercent(h) ==
  CASE h \in 7 .. 9 -> 80 [] h \in 16 .. 18 -> 75 [] h >= 22 \/ h < 5 -> 100 [] OTHER -> 95

MetricAt(h, shut) ==
  [classMult |-> [c \in Classes |-> IF c \in Highway THEN HighwayPercent(h) ELSE CityPercent(h)],
   edgeMult |-> <<>>, closed |-> shut]

Reported == UNION {{r} \X MatchClosures(world[r], r) : r \in ToSet(Refs)}

NewWindow(reported) == [some |-> reported, due |-> reported]

Init ==
  /\ file \in {"none", "bad", "good"} /\ autobahn \in BOOLEAN
  /\ main = "load" /\ installed = FALSE
  /\ poller = "off" /\ turn = 1 /\ acc = {} /\ closed = {}
  /\ world = [r \in ToSet(Refs) |-> {}] /\ api = "up"
  /\ asked = [c \in Clients |-> NotAsked]
  /\ answer = [c \in Clients |-> NoAnswer]
  /\ window = NewWindow({}) /\ published = NewWindow({})
-----------------------------------------------------------------------------
(* main, until it listens. *)
Load ==
  /\ main = "load"
  /\ main' = CASE file = "none" -> "serve" [] file = "bad" -> "fatal" [] file = "good" -> "wire"
  /\ UNCHANGED <<file, autobahn, installed, poller, turn, acc, closed, world, api, asked, answer>>

StartPoller ==
  /\ main = "wire"
  /\ main' = "install"
  /\ poller' = IF autobahn THEN "fetch" ELSE "off"
  /\ UNCHANGED <<file, autobahn, installed, turn, acc, closed, world, api, asked, answer>>

SetRegion ==
  /\ main = "install"
  /\ main' = "serve" /\ installed' = TRUE
  /\ UNCHANGED <<file, autobahn, poller, turn, acc, closed, world, api, asked, answer>>
-----------------------------------------------------------------------------
(* poll: a ref that cannot be fetched is passed over, and the JSON of an   *)
(* error page, whose status nobody looks at, is taken for an empty list.   *)
(* Slip: the poll ends at a ref that cannot be fetched.                    *)
FetchSlip ==
  /\ poller = "fetch" /\ turn <= Len(Refs)
  /\ IF api = "up"
     THEN /\ turn' = turn + 1
          /\ acc' = acc \cup MatchClosures(world[Refs[turn]], Refs[turn])
     ELSE turn' = Len(Refs) + 1 /\ acc' = acc
  /\ UNCHANGED <<file, autobahn, main, installed, poller, closed, world, api, asked, answer>>

Fetch ==
  /\ poller = "fetch" /\ turn <= Len(Refs)
  /\ turn' = turn + 1
  /\ acc' = IF api = "up" THEN acc \cup MatchClosures(world[Refs[turn]], Refs[turn]) ELSE acc
  /\ UNCHANGED <<file, autobahn, main, installed, poller, closed, world, api, asked, answer>>

(* Slip: the poller is gone after its first poll. *)
PublishSlip ==
  /\ poller = "fetch" /\ turn > Len(Refs)
  /\ closed' = acc
  /\ poller' = "off" /\ turn' = 1 /\ acc' = {}
  /\ UNCHANGED <<file, autobahn, main, installed, world, api, asked, answer>>

Publish ==
  /\ poller = "fetch" /\ turn > Len(Refs)
  /\ closed' = acc
  /\ poller' = "wait" /\ turn' = 1 /\ acc' = {}
  /\ UNCHANGED <<file, autobahn, main, installed, world, api, asked, answer>>

(* The ticker ticks: a new poll, from an empty set. *)
Tick ==
  /\ poller = "wait"
  /\ poller' = "fetch"
  /\ UNCHANGED <<file, autobahn, main, installed, turn, acc, closed, world, api, asked, answer>>
-----------------------------------------------------------------------------
(* The handlers.  Those for the region and for slices read what SetRegion  *)
(* installed, and answer.                                                  *)
Serving(c) == main = "serve" /\ asked[c] = NotAsked

Answer(c, a) ==
  /\ answer' = [answer EXCEPT ![c] = a]
  /\ UNCHANGED <<file, autobahn, main, installed, poller, turn, acc, closed, world, api>>

HandleRegion(c) ==
  /\ Serving(c)
  /\ Answer(c, IF installed THEN [status |-> 200, region |-> Region] ELSE [status |-> 503])
  /\ UNCHANGED asked

(* The limits come before the question whether there is a region. *)
HandleSlices(c, sets) ==
  /\ Serving(c)
  /\ Answer(c, IF Len(sets) > MaxSets \/ \E k \in DOMAIN sets : Len(sets[k]) > MaxNodes
               THEN [status |-> 400]
               ELSE IF ~installed THEN [status |-> 503]
               ELSE [status |-> 200, slices |-> [k \in DOMAIN sets |-> Slice(Region, ToSet(sets[k]))]])
  /\ UNCHANGED asked

(* handleCustomization: the provider, the hour, and then the copy of the   *)
(* closed set, which the poller may replace in between.                    *)
NoProvider(c) ==
  /\ Serving(c) /\ ~installed
  /\ Answer(c, [status |-> 503])
  /\ UNCHANGED asked

AskMetric(c, h) ==
  /\ Serving(c) /\ installed
  /\ asked' = [asked EXCEPT ![c] = h]
  /\ Answer(c, NoAnswer)

AnswerMetric(c) ==
  /\ asked[c] \in Hours
  /\ Answer(c, [status |-> 200, metric |-> MetricAt(asked[c], closed)])
  /\ asked' = [asked EXCEPT ![c] = NotAsked]
-----------------------------------------------------------------------------
(* External: roads are closed and opened; the service fails and recovers.  *)
ReportClosures(r, pts) ==
  /\ world' = [world EXCEPT ![r] = pts]
  /\ UNCHANGED <<file, autobahn, main, installed, poller, turn, acc, closed, api, asked, answer>>

ApiTurns(s) ==
  /\ api' = s
  /\ UNCHANGED <<file, autobahn, main, installed, poller, turn, acc, closed, world, asked, answer>>
-----------------------------------------------------------------------------
Track ==
  /\ published' = IF poller = "fetch" /\ poller' # "fetch" THEN window ELSE published
  /\ window' =
       IF poller' # "fetch" THEN NewWindow({})
       ELSE IF poller # "fetch" THEN NewWindow(Reported')
       ELSE [some |-> window.some \cup Reported',
             due  |-> {p \in window.due \cap Reported' :
                         turn' # turn /\ api # "up" => p[1] # Refs[turn]}]

Step ==
  \/ Load \/ StartPoller \/ SetRegion
  \/ Fetch \/ Publish \/ Tick
  \/ \E c \in Clients :
       \/ HandleRegion(c) \/ NoProvider(c) \/ AnswerMetric(c)
       \/ \E sets \in Requests : HandleSlices(c, sets)
       \/ \E h \in Hours : AskMetric(c, h)
  \/ \E r \in ToSet(Refs) : \E pts \in SUBSET Sites : ReportClosures(r, pts)
  \/ \E s \in {"up", "down"} : ApiTurns(s)

Next == Step /\ Track

Spec == Init /\ [][Next]_vars

(* main runs, the poller's goroutine is scheduled and a fetch ends, if not *)
(* with an answer then by the client's timeout; the ticker ticks.          *)
FairSpec == Spec /\ WF_vars((Load \/ StartPoller \/ SetRegion) /\ Track)
                 /\ WF_vars((Fetch \/ Publish \/ Tick) /\ Track)
-----------------------------------------------------------------------------
Metrics == [classMult : [Classes -> 1 .. 100], edgeMult : {<<>>}, closed : SUBSET Keys]

TypeOK ==
  /\ file \in {"none", "bad", "good"} /\ autobahn \in BOOLEAN
  /\ main \in {"load", "wire", "install", "serve", "fatal"} /\ installed \in BOOLEAN
  /\ poller \in {"off", "fetch", "wait"} /\ turn \in 1 .. Len(Refs) + 1
  /\ acc \subseteq Keys /\ closed \subseteq Keys
  /\ world \in [ToSet(Refs) -> SUBSET Sites] /\ api \in {"up", "down"}
  /\ asked \in [Clients -> Hours \cup {NotAsked}]
  /\ \A c \in Clients : "metric" \in DOMAIN answer[c] => answer[c].metric \in Metrics

(* A* relies on a bound of all speeds (astar.go:9).  Whatever the hour and *)
(* the closures, a metric that the server has answered makes no road of    *)
(* the region faster than it is tagged, or by default: if the region keeps *)
(* the bound, so do all its metrics.                                       *)
MetricOnlySlows ==
  \A c \in Clients : "metric" \in DOMAIN answer[c] =>
    \A i \in DOMAIN Region.edges :
      LET w == Customize(Region, answer[c].metric)[i]
      IN  w # Inf => BaseWeight(Region.edges[i]) <= w

(* The closures of an answered metric are those of one whole poll, the     *)
(* last one: nothing is closed that was not reported while it ran, and     *)
(* everything that was reported all the time it ran is, except under a     *)
(* number whose own fetch failed.  One number that fails takes no other    *)
(* number's closures away.                                                 *)
Faithful(shut, w) ==
  /\ shut \subseteq {p[2] : p \in w.some}
  /\ {p[2] : p \in w.due} \subseteq shut

ClosuresAreFaithful ==
  [][\A c \in Clients :
       asked[c] \in Hours /\ asked'[c] = NotAsked =>
         Faithful(answer'[c].metric.closed, published)]_vars

(* Once the closures stay as they are and the service stays up, the        *)
(* server's set becomes theirs and stays so, whatever failed before.       *)
ClosuresCatchUp ==
  \A w \in [ToSet(Refs) -> SUBSET Sites] :
    file = "good" /\ autobahn /\ <>[](world = w /\ api = "up") =>
      <>[](closed = UNION {MatchClosures(w[r], r) : r \in ToSet(Refs)})
=============================================================================
