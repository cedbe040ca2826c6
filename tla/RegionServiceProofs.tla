------------------------ MODULE RegionServiceProofs ------------------------
(***************************************************************************)
(* The routing service, for every region, with roads of any speed, every   *)
(* list of road numbers, every place where roads are closed and every      *)
(* number of clients.                                                      *)
(***************************************************************************)
EXTENDS RegionService, TLAPS

Pairs == ToSet(Refs) \X Keys
Windows == [some : SUBSET Pairs, due : SUBSET Pairs]

(* What the poll under way has found so far: nothing that was not          *)
(* reported, and, of the numbers it has come past, all that is due.        *)
PollOnTrack ==
  /\ poller = "fetch" =>
       /\ window.due \subseteq Reported /\ Reported \subseteq window.some
       /\ acc \subseteq {p[2] : p \in window.some}
       /\ \A p \in window.due : \A i \in 1 .. turn - 1 : p[1] = Refs[i] => p[2] \in acc
  /\ poller # "fetch" => acc = {} /\ turn = 1

(* The poller starts after the region is read. *)
OffAtFirst == main \in {"load", "wire"} => poller = "off"

Answered ==
  /\ answer = [c \in Clients |-> answer[c]]
  /\ \A c \in Clients : "metric" \in DOMAIN answer[c] => answer[c].metric \in Metrics

IInv ==
  /\ TypeOK
  /\ window \in Windows /\ published \in Windows
  /\ PollOnTrack /\ OffAtFirst
  /\ Answered
  /\ Faithful(closed, published)

(* Products grow with their second factor. *)
LEMMA Times == \A a, b, c \in Nat : a <= b => c * a <= c * b
<1> SUFFICES ASSUME NEW a \in Nat, NEW b \in Nat, NEW c \in Nat, a <= b PROVE c * a <= c * b
  OBVIOUS
<1>1. b - a \in Nat /\ c * (b - a) \in Nat /\ c * a \in Nat
  OBVIOUS
<1>2. c * b = c * a + c * (b - a)
  OBVIOUS
<1> QED BY <1>1, <1>2

(* A multiplier of at most 100 per cent takes no time off a road. *)
LEMMA NoFaster ==
  ASSUME NEW b \in Nat, NEW m \in 1 .. 100
  PROVE  b <= (b * 100) \div m /\ (b * 100) \div m \in Int
<1>1. PICK x \in Int : x = (b * 100) \div m /\ b * 100 < m * x + m /\ m * x <= b * 100
  OBVIOUS
<1>2. x \in Nat
  BY <1>1
<1>3. b <= x
  <2>1. SUFFICES ASSUME x + 1 <= b PROVE FALSE
    BY <1>2
  <2>2. m * (x + 1) <= m * b
    BY <2>1, <1>2, Times
  <2>3. b * m <= b * 100
    BY Times
  <2> QED BY <1>1, <1>2, <2>2, <2>3
<1> QED BY <1>1, <1>3

(* A closed road is a road of the region. *)
LEMMA ClosuresAreRoads ==
  ASSUME NEW pts, NEW ref
  PROVE  MatchClosures(pts, ref) \subseteq Keys
BY DEF MatchClosures, Keys, ToSet

LEMMA ReportedType == Reported \subseteq Pairs
BY ClosuresAreRoads DEF Reported, Pairs

(* The server's multipliers are percentages of at most 100. *)
LEMMA MetricType ==
  ASSUME NEW h \in Hours, NEW shut \in SUBSET Keys
  PROVE  MetricAt(h, shut) \in Metrics
<1>1. HighwayPercent(h) \in 1 .. 100 /\ CityPercent(h) \in 1 .. 100
  BY HoursAssumption DEF HighwayPercent, CityPercent
<1> QED BY <1>1 DEF MetricAt, Metrics

LEMMA Roads ==
  ASSUME NEW i \in DOMAIN Region.edges
  PROVE  LET e == Region.edges[i] IN BaseWeight(e) \in Nat /\ e.class \in Classes
<1> DEFINE R == [from : DOMAIN Region.at, to : DOMAIN Region.at, len : Nat,
                 class : Classes, ref : STRING, pace : Nat \ {0}]
<1>1. Region.edges \in Seq(R)
  BY RegionAssumption
<1> HIDE DEF R
<1>2. PICK e \in R : e = Region.edges[i]
  BY <1>1
<1>3. e.len \in Nat /\ e.pace \in Nat /\ e.class \in Classes
  BY DEF R
<1>4. BaseWeight(e) \in Nat
  BY <1>3 DEF BaseWeight
<1> QED BY <1>2, <1>3, <1>4

(* Under a metric the server answers, every road takes at least the time   *)
(* it takes without one.                                                   *)
LEMMA ServedSlows ==
  ASSUME NEW m \in Metrics, NEW i \in DOMAIN Region.edges,
         Customize(Region, m)[i] # Inf
  PROVE  BaseWeight(Region.edges[i]) <= Customize(Region, m)[i]
<1> DEFINE e == Region.edges[i]
<1>1. BaseWeight(e) \in Nat /\ e.class \in Classes
  BY Roads
<1>2. Mult(m, e) \in 1 .. 100
  <2>1. Key(e) \notin DOMAIN m.edgeMult
    BY DEF Metrics
  <2> QED BY <2>1, <1>1 DEF Mult, Metrics
<1>3. Customize(Region, m)[i] = (BaseWeight(e) * 100) \div Mult(m, e)
  BY DEF Customize
<1>4. BaseWeight(e) <= (BaseWeight(e) * 100) \div Mult(m, e)
  BY <1>1, <1>2, NoFaster
<1> QED BY <1>3, <1>4

LEMMA OnlySlows == Answered => MetricOnlySlows
<1> SUFFICES ASSUME Answered, NEW c \in Clients, "metric" \in DOMAIN answer[c],
                    NEW i \in DOMAIN Region.edges,
                    Customize(Region, answer[c].metric)[i] # Inf
             PROVE  BaseWeight(Region.edges[i]) <= Customize(Region, answer[c].metric)[i]
  BY DEF MetricOnlySlows
<1>1. answer[c].metric \in Metrics
  BY DEF Answered
<1> QED BY <1>1, ServedSlows
-----------------------------------------------------------------------------
LEMMA InitStep == Init => IInv
<1> SUFFICES ASSUME Init PROVE IInv
  OBVIOUS
<1>1. TypeOK
  <2>1. turn \in 1 .. Len(Refs) + 1
    BY RefsAssumption DEF Init
  <2>2. /\ file \in {"none", "bad", "good"} /\ autobahn \in BOOLEAN
        /\ main = "load" /\ installed = FALSE /\ poller = "off" /\ acc = {} /\ closed = {}
        /\ api = "up"
    BY DEF Init
  <2>3. world \in [ToSet(Refs) -> SUBSET Sites] /\ asked \in [Clients -> Hours \cup {NotAsked}]
    BY DEF Init
  <2>4. \A c \in Clients : "metric" \notin DOMAIN answer[c]
    BY DEF Init, NoAnswer
  <2> QED BY <2>1, <2>2, <2>3, <2>4 DEF TypeOK
<1>2. window \in Windows /\ published \in Windows
  BY DEF Init, NewWindow, Windows
<1>3. PollOnTrack /\ OffAtFirst
  BY DEF Init, PollOnTrack, OffAtFirst
<1>4. Answered
  BY DEF Init, Answered, NoAnswer
<1>5. Faithful(closed, published)
  BY DEF Init, Faithful, NewWindow
<1> QED BY <1>1, <1>2, <1>3, <1>4, <1>5 DEF IInv

(* What a step outside the poller leaves alone. *)
Elsewhere == UNCHANGED <<poller, turn, acc, closed>>

LEMMA StepKinds ==
  ASSUME Step
  PROVE  \/ Elsewhere \/ StartPoller \/ Fetch \/ Publish \/ Tick
BY DEF Step, Elsewhere, Load, SetRegion, HandleRegion, NoProvider, AnswerMetric,
       HandleSlices, AskMetric, Answer, ReportClosures, ApiTurns

LEMMA AnswersStep ==
  ASSUME IInv, Step
  PROVE  Answered'
<1>1. CASE UNCHANGED answer
  BY <1>1 DEF IInv, Answered
<1>2. CASE \E c \in Clients : AnswerMetric(c)
  <2>1. PICK c \in Clients : AnswerMetric(c)
    BY <1>2
  <2>2. MetricAt(asked[c], closed) \in Metrics
    BY <2>1, MetricType DEF AnswerMetric, IInv, TypeOK
  <2> QED BY <2>1, <2>2 DEF IInv, TypeOK, Answered, AnswerMetric, Answer
<1>3. ASSUME NEW c \in Clients, NEW a, "metric" \notin DOMAIN a,
             answer' = [answer EXCEPT ![c] = a]
      PROVE  Answered'
  BY <1>3 DEF IInv, Answered
<1>4. ASSUME NEW c \in Clients, HandleRegion(c) PROVE Answered'
  <2> DEFINE a == IF installed THEN [status |-> 200, region |-> Region] ELSE [status |-> 503]
  <2>1. "metric" \notin DOMAIN a
    OBVIOUS
  <2>2. answer' = [answer EXCEPT ![c] = a]
    BY <1>4 DEF HandleRegion, Answer
  <2> HIDE DEF a
  <2> QED BY <1>3, <2>1, <2>2
<1>5. ASSUME NEW c \in Clients, NoProvider(c) PROVE Answered'
  <2> DEFINE a == [status |-> 503]
  <2>1. "metric" \notin DOMAIN a
    OBVIOUS
  <2>2. answer' = [answer EXCEPT ![c] = a]
    BY <1>5 DEF NoProvider, Answer
  <2> HIDE DEF a
  <2> QED BY <1>3, <2>1, <2>2
<1>6. ASSUME NEW c \in Clients, NEW sets \in Requests, HandleSlices(c, sets) PROVE Answered'
  <2> DEFINE a == IF Len(sets) > MaxSets \/ \E k \in DOMAIN sets : Len(sets[k]) > MaxNodes
                   THEN [status |-> 400]
                   ELSE IF ~installed THEN [status |-> 503]
                   ELSE [status |-> 200,
                         slices |-> [k \in DOMAIN sets |-> Slice(Region, ToSet(sets[k]))]]
  <2>1. "metric" \notin DOMAIN a
    OBVIOUS
  <2>2. answer' = [answer EXCEPT ![c] = a]
    BY <1>6 DEF HandleSlices, Answer
  <2> HIDE DEF a
  <2> QED BY <1>3, <2>1, <2>2
<1>7. ASSUME NEW c \in Clients, NEW h \in Hours, AskMetric(c, h) PROVE Answered'
  <2> DEFINE a == [status |-> 0]
  <2>1. "metric" \notin DOMAIN a
    OBVIOUS
  <2>2. answer' = [answer EXCEPT ![c] = a]
    BY <1>7 DEF AskMetric, Answer, NoAnswer
  <2> HIDE DEF a
  <2> QED BY <1>3, <2>1, <2>2
<1> QED BY <1>1, <1>2, <1>4, <1>5, <1>6, <1>7 DEF Step, Load, StartPoller, SetRegion, Fetch, Publish, Tick,
           ReportClosures, ApiTurns

(* The types of all but the answers. *)
PlainType ==
  /\ file \in {"none", "bad", "good"} /\ autobahn \in BOOLEAN
  /\ main \in {"load", "wire", "install", "serve", "fatal"} /\ installed \in BOOLEAN
  /\ poller \in {"off", "fetch", "wait"} /\ turn \in 1 .. Len(Refs) + 1
  /\ acc \subseteq Keys /\ closed \subseteq Keys
  /\ world \in [ToSet(Refs) -> SUBSET Sites] /\ api \in {"up", "down"}
  /\ asked \in [Clients -> Hours \cup {NotAsked}]

LEMMA TypeStep ==
  ASSUME IInv, Step
  PROVE  TypeOK'
<1>1. PlainType /\ Len(Refs) \in Nat
  BY RefsAssumption DEF IInv, TypeOK, PlainType
<1>2. PlainType'
  <2>1. CASE Load
    BY <1>1, <2>1 DEF Load, PlainType
  <2>2. CASE StartPoller
    BY <1>1, <2>2 DEF StartPoller, PlainType
  <2>3. CASE SetRegion
    BY <1>1, <2>3 DEF SetRegion, PlainType
  <2>4. CASE Fetch
    <3>1. MatchClosures(world[Refs[turn]], Refs[turn]) \subseteq Keys
      BY ClosuresAreRoads
    <3>2. acc' \subseteq Keys
      BY <1>1, <2>4, <3>1 DEF Fetch, PlainType
    <3>3. turn' \in 1 .. Len(Refs) + 1
      BY <1>1, <2>4 DEF Fetch, PlainType
    <3> QED BY <1>1, <2>4, <3>2, <3>3 DEF Fetch, PlainType
  <2>5. CASE Publish
    BY <1>1, <2>5 DEF Publish, PlainType
  <2>6. CASE Tick
    BY <1>1, <2>6 DEF Tick, PlainType
  <2>7. ASSUME NEW c \in Clients, NEW h \in Hours \cup {NotAsked},
               UNCHANGED <<file, autobahn, main, installed, poller, turn, acc, closed, world, api>>,
               asked' = asked \/ asked' = [asked EXCEPT ![c] = h]
        PROVE  PlainType'
    BY <1>1, <2>7 DEF PlainType
  <2>8. ASSUME NEW c \in Clients, HandleRegion(c) \/ NoProvider(c) \/ AnswerMetric(c)
        PROVE  PlainType'
    BY <2>7, <2>8 DEF HandleRegion, NoProvider, AnswerMetric, Answer
  <2>9. ASSUME NEW c \in Clients, NEW sets \in Requests, HandleSlices(c, sets)
        PROVE  PlainType'
    BY <1>1, <2>9 DEF HandleSlices, Answer, PlainType
  <2>10. ASSUME NEW c \in Clients, NEW h \in Hours, AskMetric(c, h)
         PROVE  PlainType'
    BY <2>7, <2>10 DEF AskMetric, Answer
  <2>11. ASSUME NEW r \in ToSet(Refs), NEW pts \in SUBSET Sites, ReportClosures(r, pts)
         PROVE  PlainType'
    BY <1>1, <2>11 DEF ReportClosures, PlainType
  <2>12. ASSUME NEW a \in {"up", "down"}, ApiTurns(a)
         PROVE  PlainType'
    BY <1>1, <2>12 DEF ApiTurns, PlainType
  <2> QED BY <2>1, <2>2, <2>3, <2>4, <2>5, <2>6, <2>8, <2>9, <2>10, <2>11, <2>12 DEF Step
<1>3. Answered'
  BY AnswersStep
<1> QED BY <1>2, <1>3 DEF TypeOK, PlainType, Answered

LEMMA WindowsStep ==
  ASSUME IInv, Track
  PROVE  window' \in Windows /\ published' \in Windows
<1>1. Reported' \subseteq Pairs
  BY ClosuresAreRoads DEF Reported, Pairs
<1> QED BY <1>1 DEF IInv, Track, NewWindow, Windows

LEMMA OffStep ==
  ASSUME IInv, Step
  PROVE  OffAtFirst'
BY DEF IInv, OffAtFirst, Step, Load, StartPoller, SetRegion, Fetch, Publish, Tick,
       HandleRegion, NoProvider, AnswerMetric, HandleSlices, AskMetric, Answer,
       ReportClosures, ApiTurns

(* A poll's findings keep to its window, whoever takes the next step. *)
LEMMA PollStep ==
  ASSUME IInv, Step, Track
  PROVE  PollOnTrack'
<1>1. CASE poller' # "fetch"
  <2>1. acc' = {} /\ turn' = 1
    BY <1>1, StepKinds DEF IInv, PollOnTrack, OffAtFirst, Elsewhere, StartPoller, Fetch, Publish, Tick
  <2> QED BY <1>1, <2>1 DEF PollOnTrack
<1>2. CASE poller # "fetch" /\ poller' = "fetch"
  <2>1. window' = [some |-> Reported', due |-> Reported']
    BY <1>2 DEF Track, NewWindow
  <2>2. acc' = {} /\ turn' = 1
    BY <1>2, StepKinds DEF IInv, PollOnTrack, OffAtFirst, Elsewhere, StartPoller, Fetch, Publish, Tick
  <2> QED BY <1>2, <2>1, <2>2 DEF PollOnTrack
<1>3. CASE poller = "fetch" /\ poller' = "fetch"
  <2> DEFINE lost(p) == turn' # turn /\ api # "up" /\ p[1] = Refs[turn]
  <2>1. /\ window'.some = window.some \cup Reported'
        /\ window'.due = {p \in window.due \cap Reported' : ~lost(p)}
    BY <1>3 DEF Track
  <2>2. /\ window.due \subseteq Reported /\ Reported \subseteq window.some
        /\ acc \subseteq {p[2] : p \in window.some}
        /\ \A p \in window.due : \A i \in 1 .. turn - 1 : p[1] = Refs[i] => p[2] \in acc
    BY <1>3 DEF IInv, PollOnTrack
  <2>3. CASE Elsewhere
    <3>1. turn' = turn /\ acc' = acc
      BY <2>3 DEF Elsewhere
    <3> QED BY <1>3, <2>1, <2>2, <3>1 DEF PollOnTrack
  <2>4. CASE Fetch
    <3>1. turn' = turn + 1 /\ turn \in 1 .. Len(Refs) /\ Len(Refs) \in Nat
      BY <2>4, RefsAssumption DEF Fetch, IInv, TypeOK
    <3>2. Reported' = Reported
      BY <2>4 DEF Fetch, Reported
    <3>3. acc' \subseteq {p[2] : p \in window'.some}
      <4>1. SUFFICES ASSUME NEW k \in acc', k \notin acc
                     PROVE  <<Refs[turn], k>> \in Reported
        <5>1. {p[2] : p \in window.some} \subseteq {p[2] : p \in window'.some}
          BY <2>1
        <5>2. \A k : <<Refs[turn], k>> \in Reported => k \in {p[2] : p \in window'.some}
          BY <2>1, <3>2
        <5> QED BY <2>2, <5>1, <5>2
      <4>2. k \in MatchClosures(world[Refs[turn]], Refs[turn])
        BY <2>4, <4>1 DEF Fetch
      <4>3. Refs[turn] \in ToSet(Refs)
        BY <3>1, RefsAssumption DEF ToSet
      <4>4. <<Refs[turn], k>> \in {Refs[turn]} \X MatchClosures(world[Refs[turn]], Refs[turn])
        BY <4>2
      <4> QED BY <4>3, <4>4 DEF Reported
    <3>4. ASSUME NEW p \in window'.due, NEW i \in 1 .. turn' - 1, p[1] = Refs[i]
          PROVE  p[2] \in acc'
      <4>1. p \in window.due /\ p \in Reported /\ ~lost(p)
        BY <2>1, <3>2
      <4>2. CASE i \in 1 .. turn - 1
        BY <2>2, <2>4, <3>4, <4>1, <4>2 DEF Fetch
      <4>3. CASE i = turn
        <5>1. api = "up"
          BY <3>1, <3>4, <4>1, <4>3
        <5>2. acc' = acc \cup MatchClosures(world[Refs[turn]], Refs[turn])
          BY <2>4, <5>1 DEF Fetch
        <5>3. PICK r \in ToSet(Refs) : p \in {r} \X MatchClosures(world[r], r)
          BY <4>1 DEF Reported
        <5>4. p[1] = r /\ p[2] \in MatchClosures(world[r], r)
          BY <5>3
        <5> QED BY <3>4, <4>3, <5>2, <5>4
      <4> QED BY <3>1, <4>2, <4>3
    <3>5. window'.due \subseteq Reported' /\ Reported' \subseteq window'.some
      BY <2>1
    <3> QED BY <1>3, <3>3, <3>4, <3>5 DEF PollOnTrack
  <2> QED BY <1>3, <2>3, <2>4, StepKinds DEF StartPoller, Publish, Tick, IInv, OffAtFirst
<1> QED BY <1>1, <1>2, <1>3

(* What is published keeps to the window of its poll. *)
LEMMA FaithStep ==
  ASSUME IInv, Step, Track
  PROVE  Faithful(closed, published)'
<1>1. CASE Publish
  <2>1. closed' = acc /\ published' = window /\ poller = "fetch" /\ turn > Len(Refs)
    BY <1>1 DEF Publish, Track
  <2>2. /\ window.due \subseteq Reported
        /\ acc \subseteq {p[2] : p \in window.some}
        /\ \A p \in window.due : \A i \in 1 .. turn - 1 : p[1] = Refs[i] => p[2] \in acc
    BY <2>1 DEF IInv, PollOnTrack
  <2>3. ASSUME NEW p \in window.due PROVE p[2] \in acc
    <3>1. p[1] \in ToSet(Refs)
      BY DEF IInv, Windows, Pairs
    <3>2. PICK i \in 1 .. Len(Refs) : p[1] = Refs[i]
      BY <3>1, RefsAssumption DEF ToSet
    <3>3. i \in 1 .. turn - 1
      BY <2>1, RefsAssumption DEF IInv, TypeOK
    <3> QED BY <2>2, <3>2, <3>3
  <2> QED BY <2>1, <2>2, <2>3 DEF Faithful
<1>2. CASE closed' = closed /\ published' = published
  BY <1>2 DEF IInv, Faithful
<1>3. CASE ~Publish
  <2>1. closed' = closed
    BY <1>3, StepKinds DEF Elsewhere, StartPoller, Fetch, Tick
  <2>2. published' = published
    BY <1>3, StepKinds DEF Track, Elsewhere, StartPoller, Fetch, Tick, IInv, OffAtFirst
  <2> QED BY <1>2, <2>1, <2>2
<1> QED BY <1>1, <1>3

LEMMA NextStep == IInv /\ [Next]_vars => IInv'
<1>1. ASSUME IInv, Next PROVE IInv'
  BY <1>1, TypeStep, WindowsStep, PollStep, OffStep, AnswersStep, FaithStep DEF Next, IInv
<1>2. ASSUME IInv, UNCHANGED vars PROVE IInv'
  BY <1>2 DEF vars, program, IInv, TypeOK, PollOnTrack, OffAtFirst, Answered, Faithful, Reported
<1> QED BY <1>1, <1>2

LEMMA Invariance == Spec => []IInv
<1> QED BY InitStep, NextStep, PTL DEF Spec

(* The types of the service: its metrics' multipliers are percentages of   *)
(* at most 100, and what they close are roads of the region.               *)
THEOREM TypeCorrect == Spec => []TypeOK
<1>1. IInv => TypeOK
  BY DEF IInv
<1> QED BY <1>1, Invariance, PTL

(* The server never answers a metric under which a road takes less time    *)
(* than at its own speed, so that A*'s bound is the region's own matter.   *)
THEOREM ServedMetricsOnlySlow == Spec => []MetricOnlySlows
<1>1. IInv => MetricOnlySlows
  BY OnlySlows DEF IInv
<1> QED BY <1>1, Invariance, PTL

(* The closures of every answered metric are those of the last whole poll. *)
THEOREM ServedClosuresAreFaithful == Spec => ClosuresAreFaithful
<1>1. IInv /\ [Next]_vars =>
        [\A c \in Clients : asked[c] \in Hours /\ asked'[c] = NotAsked =>
             Faithful(answer'[c].metric.closed, published)]_vars
  <2> SUFFICES ASSUME IInv, Next, NEW c \in Clients, asked[c] \in Hours, asked'[c] = NotAsked
               PROVE  Faithful(answer'[c].metric.closed, published)
    OBVIOUS
  <2>1. asked[c] # NotAsked
    BY HoursAssumption DEF NotAsked
  <2>2. AnswerMetric(c)
    BY <2>1 DEF Next, Step, Load, StartPoller, SetRegion, Fetch, Publish, Tick, Serving,
       HandleRegion, NoProvider, AnswerMetric, HandleSlices, AskMetric, Answer,
       ReportClosures, ApiTurns, IInv, TypeOK
  <2>3. answer'[c] = [status |-> 200, metric |-> MetricAt(asked[c], closed)]
    BY <2>2 DEF AnswerMetric, Answer, IInv, Answered
  <2>4. answer'[c].metric.closed = closed
    BY <2>3 DEF MetricAt
  <2> QED BY <2>4 DEF IInv
<1> QED BY <1>1, Invariance, PTL DEF Spec, ClosuresAreFaithful
=============================================================================
