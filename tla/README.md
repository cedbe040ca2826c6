# Verification of the ride server

TLA+ models of the ride-hailing server in this repository, of the programs that drive it and of
the algorithms it is built on, the TLC runs that check them on small instances, and theorems that
TLAPS proves for every instance.

    tlc -workers 2 -config MCRideServer.cfg MCRideServer   # one run; PROJECT.json lists them all
    tlapm OfferPoolProofs.tla                                # one module of proofs

## 1. The system

A rider generates a CKKS key pair and opens a session; the server finds drivers near her coarse
cell and leaves each an invite. A driver who likes the offer encrypts his price under the rider's
key, signs the ciphertext and submits it. The server ranks the encrypted bids blindly and hands
back one encrypted mask per bid; the rider decrypts them, and the highest is the winner. Up to
three winners of a session are held as offers, which run out unless she accepts one.

| Component | State | Operations | Interacts with |
|---|---|---|---|
| offer pool (`internal/offerpool`) | map id -> offer with expiry, under `p.mu` | Hold, Held, Accept, Cancel, Excluded, sweeper goroutine | called by the server, one per session |
| registry and grid (`internal/discovery`) | map pseudonym -> cell, under its lock | SetCell, Remove, Discover, Widen | called by the server |
| server (`internal/server`) | maps of sessions, pools and invites under `rs.mu`, artifact store | the HTTP handlers | everything above and the session |
| session (`internal/session`) | rider's key, list of bids, under `s.mu` | SubmitBid, RunBlindAuction, BidCount, PseudonymAt | called by the server; rating store |
| auction (`internal/auction`) | none | BuildKey, SignBid, Verify, VerifyWinner, RunAuction | ARES-core (external) does the encryption |
| rating (`internal/rating`) | map identity -> mean and count | Record, StarNorm | read by SubmitBid |
| ghosts (`internal/ghost`) | key pair of the rider | DecideBid, EncryptSignSubmit, Keygen, OpenSession, Winner | HTTP client of the server |
| demo (`cmd/demo`) | drivers, the trigger channel | one ride after the other, a phase per click | ghosts, server, bus |
| dashboard bus (`internal/dashboard`) | channel in, channel per subscriber | Emit, broadcast, Subscribe, Unsubscribe, SSE handler | fed by the demo, read by browsers |
| traffic (`internal/traffic`) | cached set of closed edges | poll, Closed, Metric | Autobahn API (external), routing handlers |
| routing (`internal/routing`) | graph, built once | Customize, AStar, Slice, Serialize | traffic, movement |
| movement (`internal/movement`) | actors on tracks, last cells | Add, SetTarget, Tick, SetWeights | routing; calls back on a change of cell |
| ghost fleet (`cmd/ghostfleet`) | engine, drivers | tick, push cells, poll invites, bid | movement, ghosts, server |
| circuit (`internal/fhe`) | none | Eval over encrypted keys | calibration tests only |
| OSM import (`internal/routing/osm.go`) | none | scanWays, BuildGraph | makes the region file the server loads |
| server program (`cmd/server`) | none | load the region, start the poller, install the region, listen | routing, traffic, server |
| clients | none of their own | SDK stubs | |

What is hard here:

* **Interleaving and stale pointers.** No handler holds a lock for its whole length. It looks a
  session or a pool up under `rs.mu`, lets go, and uses what it found, while another request opens
  the same session id again and replaces it.
* **Time.** Offers expire by the wall clock, but only a sweeper goroutine and one query look at it;
  `Held` and `sweep` even disagree at the instant of the expiry.
* **Failure and lost answers.** Clients count what they believe the server has. Every call of the
  demo may fail, and a submission may fail after the server took it.
* **Indexes.** A mask's index, a bid's index and a driver's index are used for one another.
* **Numeric edges.** One cent must outrank every tie-break; widening must stop before the grid ends.
* **Lost and forgotten pushes.** A ghost's cell is pushed once, when it changes; a lost push and a server
  that restarts with an empty memory are made good only by the next change.
* **Bounded channels.** The bus drops rather than blocks, in two stages; the demo's trigger channel
  blocks and never drops.
* **A feed that fails in parts.** A poll of closures starts from nothing, skips a road that it cannot
  fetch, and is read by requests while the next poll runs.
* **Algorithms that rest on a premise.** A* finds the fastest route only while no road is faster than
  its heuristic thinks, which nothing enforces; the circuit is right only while its depth is the one the scheme was set up for.

What makes each part correct: a pool never exceeds its capacity, never loses a standing offer and
never keeps an expired one long; discovery returns the drivers of the tightest cell that serves;
masks keep naming their bidders and only bids that their drivers signed
count; a driver's invite is
the latest and usable; the winner is a lowest price, in the clear and through the circuit; a route keeps to
the one-way rules and is a fastest one, if no road is above 140 km/h; a metric has the closures of one whole poll; every dashboard sees an ordered stream, and no
dashboard holds up another.

## 2. Modules

Definitions keep the names of the source where TLA+ allows. A definition that ends in `Slip` is not
part of the model: it is the definition next to it with a plausible mistake, kept to show which
property notices that mistake.

| Module | Models | State and actions |
|---|---|---|
| `OfferPoolOps` | methods of `offerpool.Pool` as operators on its table | the Go map is a function from ids to offers or `NoOffer` |
| `OfferPool` | one pool, its sweeper and the clock | `held`, `now`, `nextSweep`; one action per method, `Sweep`, `Tick` |
| `OfferPromise` | what a pool promises (abstract) | offers are granted, taken, withdrawn, or lapse |
| `Discovery` | `SetCell`, `Remove`, `Widen`, `contains`, `Discover` over a tree of cells | constants and operators |
| `RideServer` | the server's handlers, with sessions, pools and registry | heaps of session objects and pools, maps of indexes into them, `call[c]` is what goroutine `c` is doing |
| `BlindAuction` | the key, the masks' order and the rider's scan | bids, position of the scan, best so far |
| `ArgminCircuit` | `ArgminCircuit.Eval`, its helpers, `Expected` and the plain reference | operators; a ciphertext is a level and exact fractions in slots |
| `SealedAuction` | the auction with the circuit that makes its masks | the variables and steps of `BlindAuction`; the vectors the keys may be normalised to, and their masks |
| `DemoLoop` | the demo against the server, and its trigger channel | one action per call, ride after ride, `Take` for every `<-trigger`; `Click` for the handler that sends |
| `EventBus` | `dashboard.Bus` | channels as sequences; `broadcast` is four actions with the read lock |
| `Movement` | `movement.Actor` and the trips of the engine | constants and operators |
| `GhostFleet` | the fleet's main loop, the engine's ticks, and what the server knows of the ghosts | one action per turn of a ghost: added, driven, polled, bidding; the server is opened a session, goes out of reach, restarts |
| `RoadNetwork` | `scanWays` and `BuildGraph`, in one operator `ParsePBF`, `AddEdge`, `Slice`, `Customize` | constants and operators: from ways with tags to a graph, to a slice, to weights |
| `RouteSearch` | `AStar` and `reconstruct` | scores, heap, expanded nodes; one action per node that leaves the heap, per road relaxed, per road read back |
| `RegionRoutes` | what a client does with its answers from the server: a route in a slice of the region made of a map | the variables and steps of `RouteSearch`; its problems are given by maps and requests |
| `RegionService` | `cmd/server`'s main, `ClosurePoller`, the metric, the handlers of `/region`, `/slices`, `/customization` | main's and the poller's place, the poll so far, the published set, each client's request; the world's closures and the API's health |
| `OfferPoolProofs`, `BlindAuctionProofs`, `RouteSearchProofs`, `RegionServiceProofs`, `EventBusProofs`, `DemoLoopProofs`, `RideServerProofs`, `GhostFleetProofs` | theorems | |

`RideServer` composes `OfferPoolOps` and `Discovery`; `OfferPool` and `RideServer` are both shown to
do what `OfferPromise` says. `DemoLoop` is a client of what `RideServer` keeps between calls (invites
and bids); as it is the only client and calls one at a time, each call is one step there. `RouteSearch`
and `RegionService` are built on `RoadNetwork`: the server makes graphs, slices and metrics, and clients
search them (the server never runs a query, `roadclass.go:3`). What joins the two is the premise of the
heuristic, that no road is faster than 140 km/h: `RegionService` shows that no metric served makes a road faster
than the region has it (`MetricOnlySlows`); `RouteSearch` says which of its claims need the premise (`Admissible`)
and which hold without it. `RegionRoutes` makes those weights, and the graphs they are for, from a map's ways, a
slice and a metric of the whole region. `SealedAuction` joins the auction and the circuit by the keys, of which it
assumes only that whoever normalises them keeps their order.

How steps were cut: an action is what the code does between letting go of one lock and taking the
next. The pool's methods hold `p.mu` throughout and are one action each. `/session/open` is three
(fetch the key; discover; publish under `rs.mu`), `/session/bid` three, `/session/{id}/masks` three,
`/offer/*` two, `/customization` two (the provider and the hour; then the copy of the closed set), a
poll one per road and one that publishes. A call that is refused before it changed anything is a stutter. `replies` in
`RideServer`, `got`, `missed` in `EventBus`, `owed` in `DemoLoop` and `window`, `published` in
`RegionService` are history variables.

Abstractions: artifacts are their handles (the store is content-addressed); a signature is the key that
made it and the session id, ciphertext and nonce it was made over, and `Verify` compares digests, which
are the bytes of the three with nothing between them (`signing.go:22-28`; the hash is taken to be without
collisions), so that a signature over other strings with the same bytes is taken; encryption is left out except that a bid remembers the session of its key (`DemoLoop`);
H3 is a tree of cells given by `ParentOf` and `Resolution`, or, where ghosts move, a function from
places to cells; positions and times of ghosts are whole numbers; a road may have no length, parallel edges, and
edges that take no time; and the route search is represented by its result, a fastest path (`RouteSearch` shows
that it is one where no road is above 140 km/h). In `RoadNetwork` a speed is given by its pace, the time
per unit of distance; `TopPace` is that of the heuristic's 140 km/h; `scanNodes` and the file's parser are the function from ids to coordinates. Weights are whole
numbers, so that a metric's division is rounded down; a multiplier of at most 100 per cent still never
speeds a road up. A failed request to the Autobahn API and one that answers an error page are the same: the
code takes neither for a closure. The auction's homomorphic score is the order of the plaintext keys, as
ARES-core promises (external); the circuit of package `fhe` is modelled by its arithmetic without noise.

## 3. Runs

| Run | Checks | Bounds and why they suffice |
|---|---|---|
| `offer_pool` | `AtMostMaxHeld`, `ExpiredSoonGone`, `KeepsPromise`, `OffersRunOut` | three ids for two places, so that the pool is full with one waiting; a life of 3 and a period of 2, so that offers expire on and between ticks; the clock goes to 9, enough for four ticks |
| `ride_server` | `TypeOK`, `MasksNameBidders`, `BidsSignedForTheirSession`, `InviteIsTheLatest`, `InviteIsUsable`, `TightestCellServes`, `PoolsKeepPromise` | two goroutines are enough for every race of two handlers. The clients of a behaviour do one of four things (below the table) |
| `ride_research` | `WinnerExcludedFromResearch` (violated) | finding, below |
| `blind_auction` | `BestSoFar`, `CheapestWins`, `LedgerHolds`, `MaskIsPlain`, `CircuitPicksWinner` | two or three bids, prices one cent apart, tie-breaks up to K - 1, the largest that `BuildKey`'s invariant allows; every normalisation of the keys to quarters; the ledger for cohorts of two to five, which has both odd and even trees, degrees 3 and 9, and no iterations to two, as far as fractions fit in TLC's 32 bits |
| `demo_loop` | `CandidatesBidUnderTheKey`, `AuctionHasItsBids`, `BidsInDriverOrder`, `ClicksQueue`, `RidesGoOn` | three drivers and three rides: an invite can be two rides old; the answer to an opening or a bid may get lost after the server did its part; a channel of two with two clicks waiting for room: it fills, and more than one waits |
| `demo_stale_invite`, `demo_wrong_winner` | `NoStaleInviteUsed`, `HeldOfferIsTheWinners` (violated) | findings, below |
| `event_bus` | `StreamsInOrder`, `NobodySkipped`, `MissedOnlyWhenFull`, `BusKeepsGoing` | two dashboards, channels of two and five events: both stages overflow |
| `ghost_fleet` | `TypeOK`, `RegisteredWhereItIs`, `BidsFollowInvites`, `NoJump`, `GhostsArrive`, `InvitesAnswered`, `RoundsGoOn` | a ghost that drives and one off the graph; a slow road and its faster parallel edge, a motorway and a road of no length, which a tick ends on, at the end of, or beyond; a session at the least price accepted and one a cent below |
| `route_search` | `FastestRoute`, `Certified`, `RouteHoldsInRegion`, `SettledForGood`, `Finishes` | 1,728 problems: a map with five one-way tags, and one with a motorway tagged with 172 km/h, eight metrics (closed roads, jams, roads at no speed), three slices, starts and targets on and off the graph. They have two nodes in one place, a node without coordinates, roads of no length, parallel routes and ties |
| `route_too_fast` | `MinimumTime` (violated) | finding, below |
| `region_service` | `MetricOnlySlows`, `ClosuresAreFaithful`, `ClosuresCatchUp` | two road numbers, so that one fails while the other answers; parallel roads; one place of closure near all roads; three hours of the day with different speeds; one client, since requests share nothing but what they read |

Every module with variables of its own has one type invariant, which is a theorem (`TypeCorrect`); `ride_server`
and `ghost_fleet` also check it. Every invariant in the table that passes is a theorem as well (section 4).

In `ride_server` the clients of a behaviour do one of four things: riders open two session ids with two keys three
times, while drivers move and leave, and in every state every query from every cell of three resolutions, with up
to one widening more than the cell has ancestors, is answered; or one session is opened twice and gets three bids,
so that one can arrive after a snapshot of two; or it gets bids with signatures of all sorts: for it, for another
session, by another key, and over the same bytes divided otherwise between id, ciphertext and nonce; or two offers
compete for a pool of one with a life of 1 and a clock to 3. Each handler thus meets every other it shares state with.

What the properties leave out on purpose, because the code does it: `RegisteredWhereItIs` excuses a ghost whose last
push was lost or that the server forgot in a restart, and says that nothing else makes its cell wrong;
`ClosuresAreFaithful` excuses the closures of a road whose request failed in that poll; `PoolsKeepPromise` holds of a
pool that no session id leads to any more, and does not say that the rider can still get at an offer acknowledged
there. `/region` and `/slices` are modelled with their limits, but no property is about their answers in
`RegionService`; that what is found in a slice holds in the region is `RouteHoldsInRegion`.

Deadlock is checked where the model goes on for ever within its bounds (`offer_pool`,
`ghost_fleet`, `ride_server`, `region_service`); it is switched off where the system really stops (an
auction is decided, a search has returned, the demo's bounded rides are over, every dashboard has gone) and in runs that look for a counterexample.
Symmetry is used for goroutines and drivers in safety runs only.

Bounds are in the guards and are named: `MaxTime`, `MaxOpens`, `MaxBids`, `MaxDriverBids`,
`MaxLoops`, `MaxBlocked`, `MaxEvents`. `Many` is no bound: a ghost's bids are counted up to it and more are the same to
the model.

**Fairness.** `OfferPool`: weak fairness of `Tick` and `Sweep` - the clock advances, and the goroutine
that `New` starts ranges over a ticker and is scheduled. No client is assumed to call anything.
`OfferPool` also assumes that a tick is served before the next one is due (`Slack < SweepPeriod`); this
is the only assumption on the scheduler that safety rests on. `EventBus`: weak fairness of the
broadcasting goroutine, which never waits for a subscriber; dashboards need not read. `DemoLoop`: weak
fairness of the loop's next step (HTTP calls return, with or without an error) and of `Click`: the user
keeps clicking, which is what the demo waits for. `RouteSearch`: a call runs on until it returns.
`RegionService`: weak fairness of main, and of the poller, whose goroutine is scheduled, whose fetches end by
the client's ten seconds if not with an answer, and whose ticker ticks. Nothing is assumed of the API or
of clients; `ClosuresCatchUp` speaks of the runs in which the API stays up from some time on. `GhostFleet`: weak fairness of the main loop, which a ticker wakes and whose HTTP calls
return, with or without an answer. That they do is an assumption, here and of the demo: `client.go` sets no
timeout, so that a server that takes a request and never answers would stall the fleet. Nothing else is assumed of
the server; `InvitesAnswered` speaks of the runs in which it stays in
reach from some time on.

**Findings.** What a document or comment says and the code does not do:

* `ride_research`: the pool is documented to exclude a held winner from a new search
  (`pool.go:1-2`); no handler asks `Excluded`.
* `demo_stale_invite`: a driver who is no candidate of this session still has an older invite, and the
  demo submits his bid to this session, encrypted under the other one's key.
* `demo_wrong_winner`: the demo uses the winning bid's index as a driver's index (`demo/main.go:236`);
  when a driver before the winner did not bid, another driver is announced and held.
* `route_too_fast`: the heuristic of A* is documented never to overestimate (`astar.go:8`) and A* to find the
  minimum-time path (`astar.go:11`); a `maxspeed` tag above 140 km/h is taken as it is (`osm.go:121`), and then a
  route is answered that takes 80 units of time where the motorway's way takes 78.

A fifth one needs no run, since the first step shows it: the fleet uses a number below the count of the nodes as a
node's id (`ghostfleet/main.go:71`), but ids are OpenStreetMap's. A ghost on an unknown id stands at the coordinates
0, 0 for ever, registered there; `ghost_fleet` has such a ghost.

One comment is wrong in a way that no run can single out, since what it concludes is right:
`argmin_circuit.go:78` says that ties resolve to the lowest index as in the homomorphic step. They do in
`Expected`, but the circuit gives tied slots equal masks (`step(0)` is one half on either side), and only the
rider's scan, which keeps the first of the highest, decides for the lowest. `CircuitPicksWinner` checks the
two together.

## 4. Proofs

`OfferPoolProofs` proves, for all ids, drivers, capacities, lives, periods and delays:

* `TypeCorrect` and `HeldBounded`: the capacity holds. `AtMostMaxHeld` is inductive with `TypeOK`; the
  work is in the cardinalities, since a Hold may replace the offer under its own id.
* `ExpiredGoneInTime`: `ExpiredSoonGone` is not inductive, because it says nothing of when the sweeper
  runs next. The invariant `SweeperInv` adds that the clock is at most `Slack` past the next tick and
  that no offer in the map expired before the last sweep; with these, an expired offer is at most one
  period and one delay old.
* `PoolKeepsPromise`: initial states map to initial states and every step of the pool to a step of
  `OfferPromise` or a stutter; the clock's step needs `SweeperInv`.

`BlindAuctionProofs` proves, for every number of bids and all weights whose tie-break stays below K:
`TypeCorrect`; `BestSoFarHolds`, the loop invariant of the scan over the masks; and `CheapestBidWins`:
the winner has a lowest price, among those a best tie-break, among those the earliest bid. The lemma
`KeyIsLexicographic` is `BuildKey`'s documented invariant put to use: a cent outranks every tie-break.

It also proves three theorems about the circuit, for every cohort and every number of compositions:

* `LedgerKept`: `Eval` uses the levels its depth ledger says (`DepthIsLedger`), for both sign polynomials. Each
  composition of the sign costs what one Horner evaluation does, and the product tree is as deep as the
  logarithm says, because a round of `Pairs` halves the factors and rounds up (`CoverHalves`, `TreeLevel`).
* `MaskFaithful`: a slot of the mask is the plain product of steps over the other keys, times a unit that all
  slots share. A factor of a slot is the plain factor on the circuit's denominator (`FactorIs`), one that pads
  a row is the neutral one, and a tree of pairs has the product of its leaves (`PairedProduct`, `TreeProduct`).
* `CircuitAgrees`: the rider's scan of the mask finds a lowest key, and of several the earliest. The cubic
  rises on the interval it maps into itself (`CubicRises`, `CubicStays`), so composing it rises too, and a slot
  with a lower key has a greater factor against every other key (`StepRises`, `LowestOutweighs`). Tied slots
  get equal masks, and the scan keeps the first.

The last two are about the cubic, as the run and the properties are: the other polynomial of `signCoeffs` is
checked for its depth only.

`RouteSearchProofs` proves, for every graph whose straight lines obey the triangle inequality, every start and
target and all weights; the premise that no road is faster than the heuristic's top speed (`Admissible`) is a
hypothesis of those parts only that need it:

* `TypeCorrect`, and `ExpandedForGood`, under the premise: a node that was expanded is never bettered. The inductive
  invariant `IInv` says that the roads of expanded nodes are relaxed but for the pending ones, that every scored node
  that is not expanded has an item with its score, and, under the premise, that every expanded node's score plus
  heuristic is at most that of any item in the heap.
* `AnswersAreCertified`: with none comes a set of nodes that holds the start, not the target, and that no open road
  leaves; with an answer comes, under the premise, a potential that no open road overtakes, 0 at the start and the
  answer's time at the target.
* `RoutesAreFastest`: the answer is one of those that brute force finds and, under the premise, none of them is
  faster. A second invariant, `Routed`, says why reading back ends in a route: the last roads of the expanded nodes
  make no circle (`NoCircle`), and what was read so far is a way to the target that does not come by the next node
  (`Trail`). `NoCircle` needs no premise: if an expanded node was bettered and its new last road closed a circle,
  those nodes on it with scores below the node's old one would have made a circle before. That nothing is faster
  follows from the certificate along every route, one road at a time (`PotentialBounds`), and that nothing is missed
  from the cut (`CutStops`).
* `RoutesHold`: a route found in a slice is a route of the whole region, of the same time, along drivable ways as
  they are tagged and on open roads, for all maps, slices and metrics. Every road of a region is an allowed step
  of a drivable way (`RoadsAreAllowed`, `RegionOfRoads`), every road of a slice is one of the region with the same
  weight (`RoadsOfSlice`), so every answer in a slice is one in the region (`SliceAnswersHold`) and goes along such
  roads (`AnswersUseRoads`). All this at whatever speeds.

`RegionServiceProofs` proves, for every region, list of roads, set of clients and requests: `TypeCorrect`;
`ServedMetricsOnlySlow`, for regions at any speeds: whether the premise of A* holds is the region's own matter; and
`ServedClosuresAreFaithful`. The last is
about a poll and the answer to a request, which are many steps apart; its invariant ties the poll's set so far
to what was reported since it began, for the roads fetched already, and the published set to the last whole
poll.

`EventBusProofs` proves, for any dashboards, capacity and number of events: `TypeCorrect`; `OrderHolds`, a
stream is in order and repeats nothing, since events pass the bus in a line (what waits comes after the
event in hand, what a dashboard was offered before it); `NobodyIsSkipped`, for which the invariant accounts
for every event that one dashboard was offered and another was not: the other came later, has gone before, or
has its turn in the round still to come; and `MissesOnlyWhenBehind`.

`DemoLoopProofs` proves, for any number of drivers, rides and clicks: `TypeCorrect`; `CandidatesUseTheKey`
(the invariant: every candidate has exactly the session's invite, and opening a session comes before its first
bid); `TwoBidsToScore` (never more bids counted than stored); `BidsAreInOrder` (bid k is driver k's or a
later one's, by at most the number of drivers passed over, which is 0 when all bid); `ClicksAreKept`.

`RideServerProofs` proves, for any number of goroutines and all session ids, drivers, artifacts, requests, grids,
capacities and lives: `TypeCorrect`, which says that no handler's pointer dangles; `MasksKeepTheirBidders`;
`BidsAreSigned`, for any bytes of ids, ciphertexts and nonces: the key signed the same bytes, and these very three
if ids, and nonces, are of one length; `InvitesAreTheLatest`; `InvitesAreUsable`; and `PoolsKeepTheirPromise`. The invariant is about
what a goroutine carries from one of its steps to the next, while others run (`Carries`): a rider's key was in
the store when her request began, and the store only grows; the bids a handler makes masks for are what its
session object began with, and objects only gain bids. The heaps of sessions and of pools grow together
(`Paired`), so that an invite's session has a pool. The refinement is proved of the k-th pool for every k
(`StepKeepsPromise`): a call on one pool is a step of its promise and a stutter of the others'; the runs check
the first two. `QueriesServedWell` is about discovery, for every finite tree of cells and every registry: by
induction over the cells on the way up, the loop of `Discover` ends at the first one that has enough drivers or at
the last it may ask, and finds there who is in it (`FinalCellIs`); `Widen` is asked past the root only when the
request allows it and no cell served. What the registry's drivers are counted in, the cells below a cell, is
proved to be those whose way up comes by it (`SubtreeIs`).

`GhostFleetProofs` proves, for any fleet, region, grid, sessions and prices: `GhostsAreWhereRegistered`, by an
invariant over the ghosts the loop has added so far, and `BidsAreInvited`, which remembers why a ghost is about
to bid. It assumes that a road's start is where its first node is (`CellAtAssumption`; `LatLng` interpolates).
`TypeCorrect` and `GhostsNeverJump` say where a tick may leave a ghost. They rest on `AdvanceIs`: whatever the speed,
`Advance` lands on the actor's own track, no road back, short of the end of the road it stands on unless the track
ends there, over roads of no length too, whatever the times of their edges. `NoJump` compares two places on a track, so the invariant `Travels` says that every placed ghost is on
its track, and `Moves` that a step takes it where `Advance` or a new trip does.

**Recursion.** `Advance`, `Ancestor`, `FinalCell`, `WaysThere` and most of the circuit are recursive functions, and the
induction theorems of the library cannot be used with the installed provers. The proof modules state induction
over a set of numbers instead (`Least`, `Induction`), derived from the well-foundedness of the naturals. A function
that satisfies a recursion exists by `Iteration` (`AdvanceExists` for `Advance`); what an operator computes is read
off such a function, and the indexes for which a claim about its values holds form a set of numbers, which
`Induction` shows to be all of them. Each of the four modules that need these few lemmas states them for itself.

**Assumptions.** The proofs rest on the modules' named assumptions only, which TLC evaluates in the runs. Besides those
named above: the grid and the graphs are finite; the roads of a map join nodes by number and carry one of four
kinds of `oneway` tag (`MapsAssumption`); the circuit gets two keys or more, since `Eval` refuses fewer
(`CircuitsAssumption`), and a
normalised key is a fraction of `Grid` (`GridAssumption`); ids, ciphertexts and nonces are told apart by their bytes
(`BytesAssumption`); and where an edge takes time, a tick drives a unit of distance at least (`GraphAssumption`).

**Only model-checked** are the liveness properties, which are out of the prover's reach: `OffersRunOut`, `RidesGoOn`,
`BusKeepsGoing`, `GhostsArrive`, `InvitesAnswered`, `RoundsGoOn`, `Finishes` and `ClosuresCatchUp`; and, of course, the
four runs that show a violation.

## 5. Plan

1. Done: offer pool, discovery, server, auction and circuit, demo, bus, ghost fleet, closure feed with the
   routing handlers, route search; every invariant and action property that a passing run checks is a theorem.
2. Left, and worth doing if the code grows that way: ratings, once they change an auction other than by the
   penalty; the composition of `DemoLoop` with `RideServer`, once a second client runs beside the demo.

Not modelled, and why: the noise of the homomorphic arithmetic (external library); ratings (a lock and a
formula over means; the auction takes the penalty as an input); the HTML page and flags (nothing that
interacts); that bids have no ceiling although the auction has one, and that a session with one bid is never
scored (both are in the models, as the code has them, and no document says otherwise); the JSON field names
of requests; memory that is never freed (replaced pools keep their sweepers, sessions are never removed: the
models keep them too, but no property is about it).
