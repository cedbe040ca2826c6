--------------------------- MODULE GhostFleetProofs ---------------------------
(***************************************************************************)
(* Theorems about the ghost fleet, for any number of ghosts, any region,   *)
(* grid, sessions and prices, and a server that goes out of reach and      *)
(* restarts whenever it likes.                                             *)
(***************************************************************************)
EXTENDS GhostFleet, FiniteSetTheorems, SequenceTheorems, WellFoundedInduction, TLAPS

(* Every table has the ghosts for its keys, and an invite is to a session. *)
Keyed ==
  /\ actors = [d \in Ghosts |-> actors[d]] /\ lastCell = [d \in Ghosts |-> lastCell[d]]
  /\ registry = [d \in Ghosts |-> registry[d]]
  /\ at \in Turns
  /\ missed \subseteq Ghosts
  /\ invites \in [Ghosts -> Sids \cup {None}]
  /\ bids \in [Sids -> [Ghosts -> 0 .. Many]]

(* The ghosts that the loop has added.                                     *)
Placed(d) == at.stage = "add" => d < at.ghost

(* The engine's last cell of a ghost that is placed is where it is, and    *)
(* the server's, unless the server lost the push.                          *)
Followed ==
  \A d \in Ghosts :
    /\ actors[d] # None => Placed(d)
    /\ Placed(d) => /\ lastCell[d] = Cell(actors[d])
                    /\ d \notin missed => registry[d] = lastCell[d]

(* An invite was made, and so was the one that a ghost is bidding on, at a *)
(* price that it accepts.                                                  *)
Invited ==
  /\ \A d \in Ghosts : invites[d] # None => <<invites[d], d>> \in asked
  /\ at.stage = "bid" => <<at.session, at.ghost>> \in asked /\ DecideBid(at.session)

IInv == Keyed /\ Followed /\ Invited /\ BidsFollowInvites
-----------------------------------------------------------------------------
(* A turn of the loop is of a ghost, and a bid for a session.              *)
LEMMA TurnTypes ==
  ASSUME at \in Turns
  PROVE  /\ at.stage \in {"add", "tick", "poll", "bid"}
         /\ at.stage \in {"add", "poll", "bid"} => at.ghost \in Ghosts
         /\ at.stage = "tick" => at.due \subseteq Ghosts
         /\ at.stage = "bid" => at.session \in Sids
BY DEF Turns, Add, Tick, Poll, Bid

LEMMA FirstTurn == 0 \in Ghosts /\ Ghosts # {} /\ Ghosts \subseteq Nat
BY FleetAssumption DEF Ghosts

LEMMA TickIsTurn ==
  ASSUME NEW due \in SUBSET Ghosts, due # {}
  PROVE  Tick(due) \in Turns /\ Tick(due).stage = "tick"
<1>1. due \in (SUBSET Ghosts) \ {{}}
  OBVIOUS
<1>2. Tick(due) \in {Tick(e) : e \in (SUBSET Ghosts) \ {{}}}
  BY <1>1
<1>3. Tick(due).stage = "tick"
  BY DEF Tick
<1> QED
  BY <1>2, <1>3 DEF Turns

(* The turns that end a ghost's part in the polls.                         *)
LEMMA AfterPollIsTurn ==
  ASSUME NEW i \in Ghosts, AfterPoll(i)
  PROVE  at' \in Turns /\ at'.stage \in {"poll", "tick"}
<1>1. CASE i + 1 < N
  <2>1. i + 1 \in Ghosts /\ at' = Poll(i + 1)
    BY <1>1, FleetAssumption DEF Ghosts, AfterPoll
  <2> QED
    BY <2>1 DEF Turns, Poll
<1>2. CASE ~(i + 1 < N)
  <2>1. at' = Tick(Ghosts) /\ Ghosts # {}
    BY <1>2, FirstTurn DEF AfterPoll
  <2> QED
    BY <2>1, TickIsTurn
<1> QED
  BY <1>1, <1>2

(* A new ghost may have a first trip already, but is where it started.     *)
LEMMA AddedStandsAtItsStart ==
  ASSUME NEW n, NEW b \in Added(n)
  PROVE  Cell(b) = Cell(NewActor(<<n>>))
<1> DEFINE a == NewActor(<<n>>)
<1>1. a.track = <<n>> /\ a.seg = 1 /\ a.off = 0 /\ Len(a.track) = 1 /\ a.track[1] = n
  BY DEF NewActor
<1>2. Cell(a) = CellAt(n, n, 0)
  BY <1>1 DEF Cell, Arrived, End
<1>3. ASSUME NEW p \in Trips, p[1] = n PROVE Cell(NewActor(p)) = CellAt(n, n, 0)
  <2>1. PICK m1 \in Nodes, m2 \in Nodes : p \in AStar(m1, m2)
    BY <1>3 DEF Trips
  <2>2. /\ p \in SeqOf(Nodes, Cardinality(Nodes)) /\ Len(p) > 1
        /\ \A i \in 1 .. Len(p) - 1 : <<p[i], p[i + 1]>> \in Roads
    BY <2>1 DEF AStar
  <2>3. Len(p) \in Nat
    BY <2>2 DEF SeqOf
  <2>4. <<p[1], p[2]>> \in Roads
    BY <2>2, <2>3
  <2>5. CellAt(p[1], p[2], 0) = CellAt(p[1], p[1], 0)
    BY <2>4, CellAtAssumption
  <2>6. /\ NewActor(p).track = p /\ NewActor(p).seg = 1 /\ NewActor(p).off = 0
        /\ ~Arrived(NewActor(p))
    BY <2>2, <2>3 DEF NewActor, Arrived
  <2> QED
    BY <1>3, <2>5, <2>6 DEF Cell
<1>4. b = a \/ \E p \in Trips : p[1] = n /\ b = NewActor(p)
  BY <1>1 DEF Added, Roam
<1> QED
  BY <1>2, <1>3, <1>4
-----------------------------------------------------------------------------
(* What a push does to what the server knows of the ghost's cell.          *)
LEMMA Pushing ==
  ASSUME Keyed, NEW d \in Ghosts, NEW c, PushGrid(d, c)
  PROVE  /\ registry' = [e \in Ghosts |-> registry'[e]]
         /\ missed' \subseteq Ghosts
         /\ d \notin missed' => registry'[d] = c
         /\ \A e \in Ghosts \ {d} : registry'[e] = registry[e] /\ (e \in missed' <=> e \in missed)
<1>1. CASE up
  <2>1. registry' = [registry EXCEPT ![d] = c] /\ missed' = missed \ {d}
    BY <1>1 DEF PushGrid
  <2> QED
    BY <2>1 DEF Keyed
<1>2. CASE ~up
  BY <1>2 DEF PushGrid, Keyed
<1> QED
  BY <1>1, <1>2

LEMMA Adding == ASSUME IInv, AddGhost PROVE IInv'
<1> PICK d \in Ghosts : d = at.ghost
  BY TurnTypes DEF AddGhost, IInv, Keyed
<1> PICK c : c = Cell(NewActor(<<StartNode(d)>>))
  OBVIOUS
<1>1. d = at.ghost /\ at.stage = "add" /\ PushGrid(d, c) /\ Keyed
  BY DEF AddGhost, IInv
<1>2. PICK b \in Added(StartNode(d)) : actors' = [actors EXCEPT ![d] = b]
  BY DEF AddGhost
<1>3. lastCell' = [lastCell EXCEPT ![d] = c]
  BY DEF AddGhost
<1>4. at' \in Turns /\ at'.stage # "bid" /\ \A e \in Ghosts : Placed(e)' <=> (Placed(e) \/ e = d)
  <2>1. CASE d + 1 < N
    <3>1. d + 1 \in Ghosts /\ at' = Add(d + 1)
      BY <1>1, <2>1, FleetAssumption DEF Ghosts, AddGhost
    <3>2. at' \in Turns /\ at'.stage = "add" /\ at'.ghost = d + 1
      BY <3>1 DEF Turns, Add
    <3> QED
      BY <1>1, <3>2, FleetAssumption DEF Placed, Ghosts
  <2>2. CASE ~(d + 1 < N)
    <3>1. at' = Tick(Ghosts) /\ Ghosts # {}
      BY <2>2, FirstTurn DEF AddGhost
    <3>2. at' \in Turns /\ at'.stage = "tick"
      BY <3>1, TickIsTurn
    <3> QED
      BY <1>1, <2>2, <3>2, FleetAssumption DEF Placed, Ghosts
  <2> QED
    BY <2>1, <2>2
<1>5. /\ actors' = [e \in Ghosts |-> actors'[e]] /\ actors'[d] = b
      /\ lastCell' = [e \in Ghosts |-> lastCell'[e]] /\ lastCell'[d] = c
      /\ \A e \in Ghosts \ {d} : actors'[e] = actors[e] /\ lastCell'[e] = lastCell[e]
  BY <1>1, <1>2, <1>3 DEF Keyed
<1>6. Cell(b) = c
  BY <1>2, AddedStandsAtItsStart
<1>7. Keyed'
  BY <1>1, <1>4, <1>5, Pushing DEF Keyed, AddGhost
<1>8. Followed'
  <2>1. ASSUME NEW e \in Ghosts, e # d
        PROVE  /\ actors'[e] # None => Placed(e)'
               /\ Placed(e)' => /\ lastCell'[e] = Cell(actors'[e])
                                /\ e \notin missed' => registry'[e] = lastCell'[e]
    BY <1>1, <1>4, <1>5, <2>1, Pushing DEF IInv, Followed
  <2>2. /\ Placed(d)' /\ lastCell'[d] = Cell(actors'[d])
        /\ d \notin missed' => registry'[d] = lastCell'[d]
    BY <1>1, <1>4, <1>5, <1>6, Pushing
  <2> QED
    BY <2>1, <2>2 DEF Followed
<1>9. Invited' /\ BidsFollowInvites'
  BY <1>4 DEF IInv, Invited, BidsFollowInvites, AddGhost
<1> QED
  BY <1>7, <1>8, <1>9 DEF IInv

LEMMA Driving == ASSUME IInv, NEW d \in Ghosts, Drive(d) PROVE IInv'
<1>1. at.stage = "tick" /\ d \in at.due /\ at.due \subseteq Ghosts /\ Keyed
  BY TurnTypes DEF Drive, IInv, Keyed
<1>2. PICK b \in Driven(actors[d]) : /\ actors' = [actors EXCEPT ![d] = b]
                                     /\ lastCell' = [lastCell EXCEPT ![d] = Cell(b)]
                                     /\ OnCellChange(d, Cell(b))
  BY DEF Drive
<1>3. at' \in Turns /\ at'.stage \in {"poll", "tick"}
  <2>1. CASE at.due = {d}
    <3>1. at' = Poll(0) /\ 0 \in Ghosts
      BY <2>1, FirstTurn DEF Drive
    <3> QED
      BY <3>1 DEF Turns, Poll
  <2>2. CASE at.due # {d}
    <3>1. at' = Tick(at.due \ {d})
      BY <2>2 DEF Drive
    <3>2. at.due \ {d} \in SUBSET Ghosts /\ at.due \ {d} # {}
      BY <1>1, <2>2
    <3> QED
      BY <3>1, <3>2, TickIsTurn
  <2> QED
    BY <2>1, <2>2
<1>4. /\ actors' = [e \in Ghosts |-> actors'[e]] /\ actors'[d] = b
      /\ lastCell' = [e \in Ghosts |-> lastCell'[e]] /\ lastCell'[d] = Cell(b)
      /\ \A e \in Ghosts \ {d} : actors'[e] = actors[e] /\ lastCell'[e] = lastCell[e]
  BY <1>1, <1>2 DEF Keyed
<1>5. \A e \in Ghosts : Placed(e) /\ Placed(e)'
  BY <1>1, <1>3 DEF Placed
<1>6. /\ registry' = [e \in Ghosts |-> registry'[e]] /\ missed' \subseteq Ghosts
      /\ d \notin missed' => registry'[d] = Cell(b)
      /\ \A e \in Ghosts \ {d} : registry'[e] = registry[e] /\ (e \in missed' <=> e \in missed)
  <2>1. CASE Cell(b) # lastCell[d]
    BY <1>1, <1>2, <2>1, Pushing DEF OnCellChange
  <2>2. CASE Cell(b) = lastCell[d]
    <3>1. UNCHANGED <<registry, missed>>
      BY <1>2, <2>2 DEF OnCellChange
    <3> QED
      BY <1>5, <2>2, <3>1 DEF IInv, Keyed, Followed
  <2> QED
    BY <2>1, <2>2
<1>7. Keyed'
  BY <1>1, <1>3, <1>4, <1>6 DEF Keyed, Drive
<1>8. Followed'
  <2>1. ASSUME NEW e \in Ghosts, e # d
        PROVE  lastCell'[e] = Cell(actors'[e]) /\ (e \notin missed' => registry'[e] = lastCell'[e])
    BY <1>4, <1>5, <1>6, <2>1 DEF IInv, Followed
  <2>2. lastCell'[d] = Cell(actors'[d]) /\ (d \notin missed' => registry'[d] = lastCell'[d])
    BY <1>4, <1>6
  <2> QED
    BY <1>5, <2>1, <2>2 DEF Followed
<1>9. Invited' /\ BidsFollowInvites'
  BY <1>3 DEF IInv, Invited, BidsFollowInvites, Drive
<1> QED
  BY <1>7, <1>8, <1>9 DEF IInv

(* The polls and the bids leave the ghosts where they are.                 *)
LEMMA Following ==
  ASSUME IInv, at.stage \in {"poll", "bid"}, at' \in Turns, at'.stage \in {"poll", "tick", "bid"},
         UNCHANGED <<engine, registry, missed>>
  PROVE  Followed'
BY DEF IInv, Followed, Placed, engine

LEMMA Polling == ASSUME IInv, PollInvites PROVE IInv'
<1> DEFINE d == at.ghost
<1>1. d \in Ghosts /\ at.stage = "poll"
  BY TurnTypes DEF PollInvites, IInv, Keyed
<1>2. CASE AfterPoll(d)
  <2>1. at' \in Turns /\ at'.stage \in {"poll", "tick"}
    BY <1>1, <1>2, AfterPollIsTurn
  <2>2. Keyed' /\ Invited' /\ BidsFollowInvites'
    BY <2>1 DEF IInv, Keyed, Invited, BidsFollowInvites, PollInvites, engine, server
  <2> QED
    BY <1>1, <2>1, <2>2, Following DEF IInv, PollInvites, server
<1>3. CASE Invites(d) # None /\ DecideBid(Invites(d)) /\ at' = Bid(d, Invites(d))
  <2>1. Invites(d) = invites[d] /\ invites[d] \in Sids /\ <<invites[d], d>> \in asked
    BY <1>1, <1>3 DEF Invites, IInv, Keyed, Invited
  <2>2. /\ at' \in Turns /\ at'.stage = "bid" /\ at'.ghost = d /\ at'.session = invites[d]
    BY <1>1, <1>3, <2>1 DEF Turns, Bid
  <2>3. Keyed' /\ Invited' /\ BidsFollowInvites'
    BY <1>3, <2>1, <2>2 DEF IInv, Keyed, Invited, BidsFollowInvites, PollInvites, engine, server
  <2> QED
    BY <1>1, <2>2, <2>3, Following DEF IInv, PollInvites, server
<1> QED
  BY <1>2, <1>3 DEF PollInvites

LEMMA Bidding == ASSUME IInv, SubmitBidReal PROVE IInv'
<1> DEFINE d == at.ghost
           s == at.session
<1>1. d \in Ghosts /\ s \in Sids /\ at.stage = "bid" /\ <<s, d>> \in asked /\ DecideBid(s)
  BY TurnTypes DEF SubmitBidReal, IInv, Keyed, Invited
<1>2. at' \in Turns /\ at'.stage \in {"poll", "tick"}
  BY <1>1, AfterPollIsTurn DEF SubmitBidReal
<1>3. /\ bids' \in [Sids -> [Ghosts -> 0 .. Many]]
      /\ \A x \in Sids, e \in Ghosts :
           bids'[x][e] = bids[x][e] \/ (x = s /\ e = d /\ s \in sessions)
  <2>1. CASE up /\ s \in sessions
    <3> DEFINE v == IF bids[s][d] < Many THEN bids[s][d] + 1 ELSE Many
    <3>1. bids' = [bids EXCEPT ![s] = [bids[s] EXCEPT ![d] = v]]
      BY <2>1 DEF SubmitBidReal, SubmitBid
    <3>2. bids \in [Sids -> [Ghosts -> 0 .. Many]] /\ bids[s] \in [Ghosts -> 0 .. Many]
      BY <1>1 DEF IInv, Keyed
    <3>3. bids[s][d] \in 0 .. Many /\ Many \in Nat
      BY <1>1, <3>2, FleetAssumption
    <3>4. v \in 0 .. Many
      BY <3>3
    <3> HIDE DEF v, d, s
    <3> QED
      BY <1>1, <2>1, <3>1, <3>2, <3>4
  <2>2. CASE ~(up /\ s \in sessions)
    BY <2>2 DEF SubmitBidReal, SubmitBid, IInv, Keyed
  <2> QED
    BY <2>1, <2>2
<1>4. Keyed'
  BY <1>2, <1>3 DEF IInv, Keyed, SubmitBidReal, engine
<1>5. Invited'
  BY <1>2 DEF IInv, Invited, SubmitBidReal
<1>6. BidsFollowInvites'
  BY <1>1, <1>3 DEF IInv, BidsFollowInvites, SubmitBidReal, DecideBid
<1> QED
  BY <1>1, <1>2, <1>4, <1>5, <1>6, Following DEF IInv, SubmitBidReal
-----------------------------------------------------------------------------
LEMMA Surroundings ==
  ASSUME IInv, (\E s \in Sids : OpenSession(s)) \/ Outage \/ Restart
  PROVE  IInv'
<1>1. ASSUME NEW s \in Sids, OpenSession(s) PROVE IInv'
  <2>1. PICK cands \in SUBSET {d \in Ghosts : registry[d] # None} :
          /\ invites' = [d \in Ghosts |-> IF d \in cands THEN s ELSE invites[d]]
          /\ asked' = asked \cup ({s} \X cands)
    BY <1>1 DEF OpenSession
  <2>2. Keyed' /\ Followed'
    BY <1>1, <2>1 DEF IInv, Keyed, Followed, Placed, OpenSession, engine
  <2>3. Invited'
    BY <1>1, <2>1 DEF IInv, Keyed, Invited, OpenSession
  <2>4. BidsFollowInvites'
    BY <1>1, <2>1 DEF IInv, BidsFollowInvites, OpenSession
  <2> QED
    BY <2>2, <2>3, <2>4 DEF IInv
<1>2. CASE Outage
  BY <1>2 DEF IInv, Keyed, Followed, Placed, Invited, BidsFollowInvites, Outage, engine, server
<1>3. CASE Restart
  <2>1. 0 \in 0 .. Many
    BY FleetAssumption
  <2>2. Keyed'
    BY <1>3, <2>1 DEF IInv, Keyed, Restart, engine
  <2>3. Followed'
    BY <1>3 DEF IInv, Followed, Placed, Restart, engine
  <2>4. Invited' /\ BidsFollowInvites'
    BY <1>3 DEF IInv, Invited, BidsFollowInvites, Restart
  <2> QED
    BY <2>2, <2>3, <2>4 DEF IInv
<1> QED
  BY <1>1, <1>2, <1>3

LEMMA IInvInit == Init => IInv
<1> SUFFICES ASSUME Init PROVE IInv
  OBVIOUS
<1>1. Add(0) \in Turns /\ Add(0).stage = "add" /\ Add(0).ghost = 0 /\ 0 \in 0 .. Many
  BY FirstTurn, FleetAssumption DEF Turns, Add
<1>2. Keyed
  BY <1>1 DEF Init, Keyed
<1>3. Followed
  BY <1>1, FirstTurn DEF Init, Followed, Placed
<1> QED
  BY <1>1, <1>2, <1>3 DEF Init, IInv, Invited, BidsFollowInvites

LEMMA IInvNext == IInv /\ [Next]_vars => IInv'
<1> SUFFICES ASSUME IInv, [Next]_vars PROVE IInv'
  OBVIOUS
<1>1. CASE UNCHANGED vars
  BY <1>1 DEF vars, engine, server, IInv, Keyed, Followed, Placed, Invited, BidsFollowInvites
<1> QED
  BY <1>1, Adding, Driving, Polling, Bidding, Surroundings DEF Next, Loop

LEMMA Invariant == Spec => []IInv
BY IInvInit, IInvNext, PTL DEF Spec

(* Riders find a ghost where it is, although its cell is pushed only when  *)
(* it changes, unless the server lost the last push or restarted since.    *)
THEOREM GhostsAreWhereRegistered == Spec => []RegisteredWhereItIs
<1>1. IInv => RegisteredWhereItIs
  BY DEF IInv, Followed, RegisteredWhereItIs
<1> QED
  BY <1>1, Invariant, PTL

(* A ghost bids only in open sessions that invited it at a price it        *)
(* accepts, although the invite may be replaced or forgotten before.       *)
THEOREM BidsAreInvited == Spec => []BidsFollowInvites
<1>1. IInv => BidsFollowInvites
  BY DEF IInv
<1> QED
  BY <1>1, Invariant, PTL
-----------------------------------------------------------------------------
(* Induction.  The library's theorems on it take an operator; these state  *)
(* it of sets and functions, which the provers can instantiate.            *)
LEMMA Least ==
  ASSUME NEW T, T \subseteq Nat, T # {}
  PROVE  \E n \in T : \A m \in T : n <= m
<1> DEFINE R == OpToRel(<, Nat)
<1>1. IsWellFoundedOn(R, Nat)
  BY NatLessThanWellFounded
<1>2. PICK n \in T : \A m \in T : <<m, n>> \notin R
  <2> HIDE DEF R
  <2> QED BY <1>1, WFMin, Zenon
<1>3. \A m \in T : ~(m < n)
  BY <1>2 DEF OpToRel
<1> QED BY <1>3

LEMMA Induction ==
  ASSUME NEW T, 0 \in T, \A n \in Nat : n \in T => n + 1 \in T
  PROVE  \A n \in Nat : n \in T
  <1> SUFFICES ASSUME NEW k \in Nat, k \notin T PROVE FALSE
    OBVIOUS
  <1>1. PICK n \in Nat \ T : \A m \in Nat \ T : n <= m
    <2>1. Nat \ T # {}
      OBVIOUS
    <2>2. QED
      BY <2>1, Least
  <1>2. n - 1 \in Nat /\ n - 1 \notin Nat \ T
    BY <1>1
  <1>3. QED
    BY <1>1, <1>2

(* An actor somewhere on its track.  *)
Actors == {a \in [track : Seq(Int), seg : Nat, off : Nat] : OnTrack(a)}

(* Advance's recursion over the roads of a track from road s on. *)
Advances(f, a, s) ==
  f = [x \in (s .. Len(a.track)) \X Nat |->
         IF x[1] = Len(a.track) THEN [a EXCEPT !.seg = x[1], !.off = 0]
         ELSE IF x[2] > 0 /\ x[2] >= Length[Stretch(a, x[1])]
              THEN f[<<x[1] + 1, x[2] - Length[Stretch(a, x[1])]>>]
              ELSE [a EXCEPT !.seg = x[1], !.off = x[2]]]

LEMMA Moved ==
  ASSUME NEW a \in [track : Seq(Int), seg : Nat, off : Nat], NEW s \in Nat, NEW d \in Nat,
         NEW b, b = [a EXCEPT !.seg = s, !.off = d]
  PROVE  b \in [track : Seq(Int), seg : Nat, off : Nat] /\ b.track = a.track /\ b.seg = s /\ b.off = d
  OBVIOUS

LEMMA TrackProps ==
  ASSUME NEW a \in Actors
  PROVE  /\ a.track \in Seq(Int) /\ Len(a.track) \in Nat /\ a.seg \in 1 .. Len(a.track) /\ a.off \in Nat
         /\ \A s \in 1 .. Len(a.track) - 1 : Stretch(a, s) \in Roads /\ Length[Stretch(a, s)] \in Nat
         /\ a = [track |-> a.track, seg |-> a.seg, off |-> a.off]
         /\ a.off > 0 => a.seg # Len(a.track) /\ a.off < Length[Road(a)]
  <1>1. \A s \in 1 .. Len(a.track) - 1 : Stretch(a, s) \in Roads
    BY DEF Actors, OnTrack, Stretch
  <1>2. \A r \in Roads : Length[r] \in Nat
    BY GraphAssumption
  <1>3. /\ a.track \in Seq(Int) /\ Len(a.track) \in Nat /\ a.seg \in 1 .. Len(a.track) /\ a.off \in Nat
        /\ a = [track |-> a.track, seg |-> a.seg, off |-> a.off]
    BY DEF Actors, OnTrack
  <1>4. a.off > 0 => ~Arrived(a) /\ a.off < Length[Road(a)]
    BY DEF Actors, OnTrack
  <1>5. Arrived(a) <=> a.seg = Len(a.track)
    BY <1>3 DEF Arrived
  <1>6. QED
    BY <1>1, <1>2, <1>3, <1>4, <1>5

(* The recursion has a solution, found from the end of the track. *)
LEMMA AdvanceExists ==
  ASSUME NEW a \in Actors
  PROVE  \E f : Advances(f, a, 1)
  <1> DEFINE n == Len(a.track)
             T == {k \in Nat : k < n => \E f : Advances(f, a, n - k)}
  <1>1. n \in Nat \ {0}
    BY TrackProps
  <1>2. 0 \in T
    <2> DEFINE f == [x \in (n .. n) \X Nat |-> [a EXCEPT !.seg = x[1], !.off = 0]]
    <2>1. \A x \in (n .. n) \X Nat : x[1] = n
      BY <1>1
    <2>2. Advances(f, a, n)
      BY <2>1 DEF Advances
    <2>3. n - 0 = n
      BY <1>1
    <2>4. QED
      BY <2>2, <2>3
  <1>3. ASSUME NEW k \in Nat, k \in T PROVE k + 1 \in T
    <2>1. SUFFICES ASSUME k + 1 < n PROVE \E f : Advances(f, a, n - (k + 1))
      OBVIOUS
    <2>2. PICK s : s = n - k
      OBVIOUS
    <2>3. s \in 2 .. n /\ n - (k + 1) = s - 1 /\ k < n
      BY <1>1, <2>1, <2>2
    <2>4. PICK f : Advances(f, a, s)
      BY <1>3, <2>2, <2>3
    <2> DEFINE len(x) == Length[Stretch(a, x[1])]
               on(h, x) == IF x[1] = n THEN [a EXCEPT !.seg = x[1], !.off = 0]
                           ELSE IF x[2] > 0 /\ x[2] >= len(x) THEN h[<<x[1] + 1, x[2] - len(x)>>]
                                ELSE [a EXCEPT !.seg = x[1], !.off = x[2]]
               g == [x \in ((s - 1) .. n) \X Nat |-> on(f, x)]
    <2>5. \A x \in (s .. n) \X Nat : x \in ((s - 1) .. n) \X Nat /\ f[x] = on(f, x)
      <3>1. \A i \in s .. n : i \in (s - 1) .. n
        BY <1>1, <2>3
      <3>2. f = [x \in (s .. n) \X Nat |-> on(f, x)]
        BY <2>4 DEF Advances
      <3> HIDE DEF on
      <3>3. \A x \in (s .. n) \X Nat : f[x] = on(f, x)
        BY <3>2
      <3>4. QED
        BY <3>1, <3>3
    <2>6. \A x \in (s .. n) \X Nat : g[x] = f[x]
      <3> HIDE DEF on
      <3>1. QED
        BY <2>5
    <2>7. ASSUME NEW x \in ((s - 1) .. n) \X Nat, x[1] # n, x[2] >= len(x)
          PROVE  <<x[1] + 1, x[2] - len(x)>> \in (s .. n) \X Nat
      <3>1. x[1] \in 1 .. n - 1 /\ x[2] \in Nat /\ x[1] + 1 \in s .. n
        BY <1>1, <2>3, <2>7
      <3>2. len(x) \in Nat
        BY <3>1, TrackProps
      <3>3. x[2] - len(x) \in Nat
        BY <2>7, <3>1, <3>2
      <3>4. QED
        BY <3>1, <3>3
    <2>8. \A x \in ((s - 1) .. n) \X Nat : on(f, x) = on(g, x)
      <3> HIDE DEF g, len
      <3>1. QED
        BY <2>6, <2>7
    <2>9. g = [x \in ((s - 1) .. n) \X Nat |-> on(g, x)]
      BY <2>8
    <2>10. Advances(g, a, s - 1)
      <3> HIDE DEF g
      <3>1. QED
        BY <2>9 DEF Advances
    <2>11. QED
      BY <2>3, <2>10
  <1>4. \A k \in Nat : k \in T
    <2> HIDE DEF T
    <2>1. QED
      BY <1>2, <1>3, Induction
  <1>5. n - 1 \in Nat /\ n - 1 < n /\ n - (n - 1) = 1
    BY <1>1
  <1>6. QED
    BY <1>4, <1>5

(* b is on a's track, d or less ahead of the start of its road s. *)
Onwards(a, b, s, d) ==
  /\ b \in Actors /\ b.track = a.track /\ b.seg >= s
  /\ b.seg = s /\ s # Len(a.track) => b.off = d

(* An actor goes forward along its track. *)
LEMMA AdvanceIs ==
  ASSUME NEW a \in Actors, NEW dist \in Nat
  PROVE  Onwards(a, Advance(a, dist), a.seg, a.off + dist)
  <1> DEFINE n == Len(a.track)
             Recurses(f) == f = [x \in Ahead(a) |->
                 IF x[1] = Len(a.track) THEN [a EXCEPT !.seg = x[1], !.off = 0]
                 ELSE LET len == Length[Stretch(a, x[1])]
                      IN IF x[2] > 0 /\ x[2] >= len THEN f[<<x[1] + 1, x[2] - len>>]
                         ELSE [a EXCEPT !.seg = x[1], !.off = x[2]]]
  <1>1. PICK f : Recurses(f)
    <2>1. PICK f : Advances(f, a, 1)
      BY AdvanceExists
    <2>2. QED
      BY <2>1 DEF Advances, Ahead
  <1>2. PICK On : Recurses(On) /\ Advance(a, dist) = On[<<a.seg, a.off + dist>>]
    BY <1>1 DEF Advance
  <1>3. \A x \in (1 .. n) \X Nat :
          On[x] = IF x[1] = n THEN [a EXCEPT !.seg = n, !.off = 0]
                  ELSE IF x[2] > 0 /\ x[2] >= Length[Stretch(a, x[1])]
                       THEN On[<<x[1] + 1, x[2] - Length[Stretch(a, x[1])]>>]
                       ELSE [a EXCEPT !.seg = x[1], !.off = x[2]]
    BY <1>2 DEF Ahead
  <1>4. n \in Nat \ {0}
    BY TrackProps
  <1> HIDE DEF Recurses
  <1> DEFINE T == {k \in Nat : k < n => \A d \in Nat : Onwards(a, On[<<n - k, d>>], n - k, d)}
  <1>5. ASSUME NEW s \in 1 .. n, NEW d \in Nat, s = n \/ d = 0 \/ d < Length[Stretch(a, s)],
               NEW b, b = [a EXCEPT !.seg = s, !.off = IF s = n THEN 0 ELSE d]
        PROVE  Onwards(a, b, s, d)
    <2>1. PICK v \in Nat : v = IF s = n THEN 0 ELSE d
      OBVIOUS
    <2>2. b = [a EXCEPT !.seg = s, !.off = v] /\ s \in Nat
      BY <1>5, <2>1
    <2>3. /\ b \in [track : Seq(Int), seg : Nat, off : Nat]
          /\ b.track = a.track /\ b.seg = s /\ b.off = IF s = n THEN 0 ELSE d
      <3>1. a \in [track : Seq(Int), seg : Nat, off : Nat]
        BY DEF Actors
      <3>2. QED
        BY <2>1, <2>2, <3>1, Moved
    <2>4. OnTrack(b)
      <3>1. Arrived(b) <=> s = n
        BY <1>4, <2>3 DEF Arrived
      <3>2. a.track # <<>> /\ \A i \in 1 .. n - 1 : <<a.track[i], a.track[i + 1]>> \in Roads
        BY DEF Actors, OnTrack
      <3>3. b.off > 0 => s # n /\ b.off < Length[Road(b)]
        BY <1>5, <2>3 DEF Road, Stretch
      <3>4. QED
        BY <2>3, <3>1, <3>2, <3>3 DEF OnTrack
    <2>5. QED
      BY <2>3, <2>4 DEF Onwards, Actors
  <1>6. 0 \in T
    <2>1. ASSUME NEW d \in Nat PROVE Onwards(a, On[<<n, d>>], n, d)
      <3>1. n \in 1 .. n /\ <<n, d>> \in (1 .. n) \X Nat /\ <<n, d>>[1] = n
        BY <1>4
      <3>2. On[<<n, d>>] = [a EXCEPT !.seg = n, !.off = 0]
        BY <1>3, <3>1
      <3>3. QED
        BY <1>5, <3>1, <3>2
    <2>2. n - 0 = n
      BY <1>4
    <2>3. QED
      BY <2>1, <2>2
  <1>7. ASSUME NEW k \in Nat, k \in T PROVE k + 1 \in T
    <2>1. SUFFICES ASSUME k + 1 < n, NEW d \in Nat
                   PROVE  Onwards(a, On[<<n - (k + 1), d>>], n - (k + 1), d)
      OBVIOUS
    <2>2. PICK s : s = n - (k + 1)
      OBVIOUS
    <2>3. s \in 1 .. n - 1 /\ n - k = s + 1 /\ k < n
      BY <1>4, <2>1, <2>2
    <2>4. PICK len : len = Length[Stretch(a, s)]
      OBVIOUS
    <2>5. len \in Nat
      BY <2>3, <2>4, TrackProps
    <2>6. On[<<s, d>>] = IF d > 0 /\ d >= len THEN On[<<s + 1, d - len>>] ELSE [a EXCEPT !.seg = s, !.off = d]
      <3>1. <<s, d>> \in (1 .. n) \X Nat /\ s # n
        BY <1>4, <2>3
      <3>2. QED
        BY <1>3, <2>4, <3>1
    <2>7. CASE d > 0 /\ d >= len
      <3>1. d - len \in Nat
        BY <2>5, <2>7
      <3>2. Onwards(a, On[<<s + 1, d - len>>], s + 1, d - len)
        BY <1>7, <2>3, <3>1
      <3>3. PICK b : b = On[<<s, d>>]
        OBVIOUS
      <3>4. b \in Actors /\ b.track = a.track /\ b.seg >= s + 1
        BY <2>6, <2>7, <3>2, <3>3 DEF Onwards
      <3>5. b.seg \in Nat
        BY <3>4 DEF Actors
      <3>6. b.seg >= s /\ b.seg # s
        BY <2>3, <3>4, <3>5
      <3>7. QED
        BY <2>2, <3>3, <3>4, <3>6 DEF Onwards
    <2>8. CASE ~(d > 0 /\ d >= len)
      <3>1. s \in 1 .. n /\ s # n /\ (d = 0 \/ d < len)
        BY <1>4, <2>3, <2>5, <2>8
      <3>2. On[<<s, d>>] = [a EXCEPT !.seg = s, !.off = IF s = n THEN 0 ELSE d]
        BY <2>6, <2>8, <3>1
      <3>3. QED
        BY <1>5, <2>2, <2>4, <3>1, <3>2
    <2>9. QED
      BY <2>7, <2>8
  <1>8. \A k \in Nat : k \in T
    <2> HIDE DEF T
    <2>1. QED
      BY <1>6, <1>7, Induction
  <1>9. n - a.seg \in Nat /\ n - a.seg < n /\ n - (n - a.seg) = a.seg /\ a.off + dist \in Nat
    BY <1>4, TrackProps
  <1>10. Onwards(a, On[<<n - (n - a.seg), a.off + dist>>], n - (n - a.seg), a.off + dist)
    BY <1>8, <1>9
  <1>11. QED
    BY <1>2, <1>9, <1>10

LEMMA EdgeSpeedIs == ASSUME NEW a \in Actors PROVE EdgeSpeed(a) \in Nat
  <1>1. CASE Arrived(a)
    BY <1>1 DEF EdgeSpeed
  <1>2. CASE ~Arrived(a)
    <2>1. a.seg \in 1 .. Len(a.track) - 1
      BY <1>2, TrackProps DEF Arrived
    <2>2. Road(a) \in Roads
      BY <2>1, TrackProps DEF Road
    <2>3. PICK edges : edges = Edges[Road(a)]
      OBVIOUS
    <2>4. edges \in Seq([len : Nat, time : Nat]) /\ Dt \in Nat /\ Fallback \in Nat
      BY <2>2, <2>3, GraphAssumption
    <2>5. PICK timed : timed = {k \in DOMAIN edges : edges[k].time > 0}
      OBVIOUS
    <2>6. CASE timed = {}
      BY <1>2, <2>3, <2>4, <2>5, <2>6 DEF EdgeSpeed
    <2>7. CASE timed # {}
      <3>1. timed \subseteq Nat
        BY <2>4, <2>5
      <3>2. PICK k \in timed : \A m \in timed : k <= m
        BY <2>7, <3>1, Least
      <3>3. Min(timed) \in timed
        BY <3>2 DEF Min
      <3>4. PICK e : e = edges[Min(timed)]
        OBVIOUS
      <3>5. e.len \in Nat /\ e.time \in Nat /\ e.time > 0
        <4>1. Min(timed) \in DOMAIN edges /\ edges[Min(timed)].time > 0
          BY <2>5, <3>3
        <4>2. \A m \in DOMAIN edges : edges[m] \in [len : Nat, time : Nat]
          <5>1. SUFFICES ASSUME NEW S, edges \in Seq(S), NEW m \in DOMAIN edges PROVE edges[m] \in S
            BY <2>4
          <5>2. QED
            BY <5>1, ElementOfSeq, LenProperties
        <4>3. e \in [len : Nat, time : Nat]
          BY <3>4, <4>1, <4>2
        <4>4. QED
          BY <3>4, <4>1, <4>3
      <3>6. Dt * e.len \in Nat
        BY <2>4, <3>5
      <3>7. (Dt * e.len) \div e.time \in Nat
        BY <3>5, <3>6
      <3>8. EdgeSpeed(a) = (Dt * e.len) \div e.time
        BY <1>2, <2>3, <2>5, <2>7, <3>4 DEF EdgeSpeed
      <3>9. QED
        BY <3>7, <3>8
    <2>8. QED
      BY <2>6, <2>7
  <1>3. QED
    BY <1>1, <1>2

(* An actor that sets out on a trip is at its start. *)
LEMMA TripIs ==
  ASSUME NEW p \in Trips
  PROVE  NewActor(p) \in Actors /\ NewActor(p).track = p /\ NewActor(p).seg = 1 /\ NewActor(p).off = 0
  <1>1. PICK m \in Nodes, n \in Nodes : p \in AStar(m, n)
    BY DEF Trips
  <1>2. /\ p \in SeqOf(Nodes, Cardinality(Nodes)) /\ Len(p) > 1
        /\ \A i \in 1 .. Len(p) - 1 : <<p[i], p[i + 1]>> \in Roads
    BY <1>1 DEF AStar
  <1>3. PICK k \in Nat : p \in [1 .. k -> Nodes]
    BY <1>2 DEF SeqOf
  <1>4. p \in Seq(Int) /\ Len(p) = k
    <2>1. p \in [1 .. k -> Int]
      BY <1>3, GraphAssumption
    <2>2. QED
      BY <2>1
  <1>5. PICK b : b = NewActor(p)
    OBVIOUS
  <1>6. /\ b \in [track : Seq(Int), seg : Nat, off : Nat]
        /\ b.track = p /\ b.seg = 1 /\ b.off = 0
    BY <1>4, <1>5 DEF NewActor
  <1>7. OnTrack(b)
    <2>1. 1 \in 1 .. Len(p) /\ p # <<>>
      BY <1>2, <1>3, <1>4
    <2>2. QED
      BY <1>2, <1>6, <2>1 DEF OnTrack
  <1>8. QED
    BY <1>5, <1>6, <1>7 DEF Actors

LEMMA AddedIs ==
  ASSUME NEW n \in Int, NEW b \in Added(n)
  PROVE  b \in Actors
  <1>1. ASSUME b = NewActor(<<n>>) PROVE b \in Actors
    <2>1. /\ b \in [track : Seq(Int), seg : Nat, off : Nat]
          /\ Len(b.track) = 1 /\ b.seg = 1 /\ b.off = 0 /\ b.track # <<>>
      BY <1>1 DEF NewActor
    <2>2. Arrived(b) /\ b.seg \in 1 .. Len(b.track)
      BY <2>1 DEF Arrived
    <2>3. \A i \in 1 .. Len(b.track) - 1 : <<b.track[i], b.track[i + 1]>> \in Roads
      BY <2>1
    <2>4. QED
      BY <2>1, <2>2, <2>3 DEF Actors, OnTrack
  <1>2. QED
    BY <1>1, TripIs DEF Added, Roam

(* What a tick makes of an actor: it is further along its track, or starts *)
(* a new track where the old one ends.                                     *)
Drives(a, b) ==
  \/ b.track = a.track /\ (b.seg > a.seg \/ (b.seg = a.seg /\ b.off > a.off))
  \/ b.track[1] = End(a) /\ b.seg = 1 /\ b.off = 0

LEMMA DrivenIs ==
  ASSUME NEW a \in Actors, NEW b \in Driven(a)
  PROVE  b \in Actors /\ (a # b => Drives(a, b))
  <1>1. PICK c : c = Advance(a, EdgeSpeed(a))
    OBVIOUS
  <1>2. Onwards(a, c, a.seg, a.off + EdgeSpeed(a)) /\ EdgeSpeed(a) \in Nat
    BY <1>1, AdvanceIs, EdgeSpeedIs
  <1>3. c \in Actors /\ c.track = a.track /\ c.seg >= a.seg
    BY <1>2 DEF Onwards
  <1>4. ASSUME b = c PROVE a # b => Drives(a, b)
    <2>1. SUFFICES ASSUME a # c, c.seg = a.seg PROVE c.off > a.off
      BY <1>3, <1>4, TrackProps DEF Drives
    <2>2. c.off # a.off
      BY <1>3, <2>1, TrackProps
    <2>3. a.seg # Len(a.track)
      BY <1>3, <2>1, <2>2, TrackProps
    <2>4. c.off = a.off + EdgeSpeed(a)
      BY <1>2, <2>1, <2>3 DEF Onwards
    <2>5. QED
      BY <1>2, <2>2, <2>4, TrackProps
  <1>5. ASSUME Arrived(c), NEW p \in Trips, p[1] = c.track[c.seg], b = NewActor(p)
        PROVE  b \in Actors /\ Drives(a, b)
    <2>1. c.seg = Len(a.track)
      BY <1>3, <1>5, TrackProps DEF Arrived
    <2>2. b \in Actors /\ b.track[1] = End(a) /\ b.seg = 1 /\ b.off = 0
      BY <1>3, <1>5, <2>1, TripIs DEF End
    <2>3. QED
      BY <2>2 DEF Drives
  <1>6. b = c \/ (Arrived(c) /\ \E p \in Trips : p[1] = c.track[c.seg] /\ b = NewActor(p))
    BY <1>1 DEF Driven, Roam
  <1>7. QED
    BY <1>3, <1>4, <1>5, <1>6

(* A ghost that is placed is on its track; and the rest has its type. *)
Travels ==
  /\ \A d \in Ghosts : Placed(d) => actors[d] \in Actors
  /\ up \in BOOLEAN /\ sessions \subseteq Sids /\ asked \subseteq Sids \X Ghosts

(* A step moves a placed ghost as Driven does, or leaves it where it is. *)
Moves == \A d \in Ghosts : Placed(d) => actors'[d] = actors[d] \/ actors'[d] \in Driven(actors[d])

LEMMA TravelsInit == Init => Travels
  BY FleetAssumption DEF Init, Travels, Placed, Add, Ghosts

LEMMA TravelsAdd == ASSUME IInv, Travels, AddGhost PROVE Travels' /\ Moves
  <1>1. PICK d \in Ghosts : d = at.ghost
    BY TurnTypes DEF AddGhost, IInv, Keyed
  <1>2. at.stage = "add" /\ d \in Nat /\ Keyed
    BY <1>1, FirstTurn DEF AddGhost, IInv
  <1>3. PICK b \in Added(StartNode(d)) : actors' = [actors EXCEPT ![d] = b]
    BY <1>1 DEF AddGhost
  <1>4. StartNode(d) \in Int
    <2>1. Cardinality(Nodes) \in Nat /\ Cardinality(Nodes) # 0
      BY FleetAssumption, GraphAssumption, FS_CardinalityType, FS_EmptySet
    <2>2. PICK k, n : k = d * 7919 /\ n = Cardinality(Nodes)
      OBVIOUS
    <2>3. k \in Int /\ n \in Nat /\ n > 0
      BY <1>2, <2>1, <2>2
    <2>4. k % n \in Int
      BY <2>3
    <2>5. QED
      BY <2>2, <2>4 DEF StartNode
  <1>5. b \in Actors
    BY <1>3, <1>4, AddedIs
  <1>6. actors'[d] = b /\ \A e \in Ghosts \ {d} : actors'[e] = actors[e]
    BY <1>2, <1>3 DEF Keyed
  <1>7. \A e \in Ghosts : Placed(e)' => e = d \/ Placed(e)
    <2>1. SUFFICES ASSUME NEW e \in Ghosts, Placed(e)', e # d PROVE e < d
      BY <1>1 DEF Placed
    <2>2. e \in Nat /\ e < N
      BY FleetAssumption DEF Ghosts
    <2>3. CASE d + 1 < N
      <3>1. at' = Add(d + 1)
        BY <1>1, <2>3 DEF AddGhost
      <3>2. at'.stage = "add" /\ at'.ghost = d + 1
        BY <3>1 DEF Add
      <3>3. e < d + 1
        BY <2>1, <3>2 DEF Placed
      <3>4. QED
        BY <1>2, <2>1, <2>2, <3>3
    <2>4. CASE ~(d + 1 < N)
      BY <1>2, <2>1, <2>2, <2>4, FleetAssumption
    <2>5. QED
      BY <2>3, <2>4
  <1>8. Travels'
    BY <1>5, <1>6, <1>7 DEF Travels, AddGhost
  <1>9. ~Placed(d)
    BY <1>1, <1>2 DEF Placed
  <1>10. Moves
    BY <1>6, <1>9 DEF Moves
  <1>11. QED
    BY <1>8, <1>10

LEMMA TravelsDrive == ASSUME IInv, Travels, NEW d \in Ghosts, Drive(d) PROVE Travels' /\ Moves
  <1>1. at.stage = "tick" /\ Keyed
    BY DEF Drive, IInv
  <1>2. PICK b \in Driven(actors[d]) : actors' = [actors EXCEPT ![d] = b]
    BY DEF Drive
  <1>3. actors'[d] = b /\ \A e \in Ghosts \ {d} : actors'[e] = actors[e]
    BY <1>1, <1>2 DEF Keyed
  <1>4. \A e \in Ghosts : Placed(e) /\ actors[e] \in Actors
    BY <1>1 DEF Travels, Placed
  <1>5. b \in Actors
    BY <1>2, <1>4, DrivenIs
  <1>6. Travels'
    BY <1>3, <1>4, <1>5 DEF Travels, Drive
  <1>7. Moves
    BY <1>2, <1>3 DEF Moves
  <1>8. QED
    BY <1>6, <1>7

LEMMA TravelsElse ==
  ASSUME IInv, Travels,
         \/ PollInvites \/ SubmitBidReal
         \/ \E s \in Sids : OpenSession(s)
         \/ Outage \/ Restart \/ UNCHANGED vars
  PROVE  Travels' /\ Moves
  <1>1. actors' = actors
    BY DEF PollInvites, SubmitBidReal, OpenSession, Outage, Restart, vars, engine
  <1>2. \A d \in Ghosts : Placed(d)' => Placed(d)
    <2>1. CASE PollInvites \/ SubmitBidReal
      BY <2>1 DEF PollInvites, SubmitBidReal, Placed
    <2>2. CASE (\E s \in Sids : OpenSession(s)) \/ Outage \/ Restart \/ UNCHANGED vars
      BY <2>2 DEF OpenSession, Outage, Restart, vars, Placed
    <2>3. QED
      BY <2>1, <2>2
  <1>3. up' \in BOOLEAN
    <2>1. CASE Outage
      BY <2>1, Zenon DEF Outage
    <2>2. CASE ~Outage
      BY <2>2 DEF Travels, PollInvites, SubmitBidReal, OpenSession, Restart, vars
    <2>3. QED
      BY <2>1, <2>2
  <1>4. sessions' \subseteq Sids /\ asked' \subseteq Sids \X Ghosts
    <2>1. ASSUME NEW s \in Sids, OpenSession(s) PROVE sessions' \subseteq Sids /\ asked' \subseteq Sids \X Ghosts
      <3>1. PICK cands \in SUBSET {d \in Ghosts : registry[d] # None} : asked' = asked \cup ({s} \X cands)
        BY <2>1 DEF OpenSession
      <3>2. QED
        BY <2>1, <3>1 DEF OpenSession, Travels
    <2>2. CASE ~\E s \in Sids : OpenSession(s)
      BY <2>2 DEF Travels, PollInvites, SubmitBidReal, Outage, Restart, vars, server
    <2>3. QED
      BY <2>1, <2>2
  <1>5. QED
    BY <1>1, <1>2, <1>3, <1>4 DEF Travels, Moves

LEMMA TravelsNext == IInv /\ Travels /\ [Next]_vars => Travels' /\ Moves
  BY TravelsAdd, TravelsDrive, TravelsElse DEF Next, Loop

LEMMA AllTravel == Spec => []Travels
  BY TravelsInit, TravelsNext, Invariant, PTL DEF Spec

(* Every ghost is at a node of its track, or on a road of the graph, short *)
(* of its end, after any number of ticks of any length and on roads of any *)
(* length, none included; and the other variables have their types.        *)
THEOREM TypeCorrect == Spec => []TypeOK
  <1>1. IInv /\ Travels => TypeOK
    <2>1. SUFFICES ASSUME IInv, Travels PROVE TypeOK
      OBVIOUS
    <2>2. \A d \in Ghosts : actors[d] = None \/ OnTrack(actors[d])
      BY <2>1 DEF IInv, Followed, Travels, Actors
    <2>3. QED
      BY <2>1, <2>2 DEF TypeOK, IInv, Keyed, Travels
  <1>2. QED
    BY <1>1, AllTravel, Invariant, PTL

(* Ghosts drive as cars do, over any roads and however far a tick carries  *)
(* them: forward on their track, and on from the old track's end.          *)
THEOREM GhostsNeverJump == Spec => NoJump
  <1>1. IInv /\ Travels /\ [Next]_vars =>
          [\A d \in Ghosts :
             LET a == actors[d]
                 b == actors'[d]
             IN (a # None /\ a # b) =>
                  \/ b.track = a.track /\ (b.seg > a.seg \/ (b.seg = a.seg /\ b.off > a.off))
                  \/ b.track[1] = End(a) /\ b.seg = 1 /\ b.off = 0]_vars
    <2>1. SUFFICES ASSUME IInv, Travels, [Next]_vars, NEW d \in Ghosts,
                          actors[d] # None, actors[d] # actors'[d]
                   PROVE  Drives(actors[d], actors'[d])
      BY DEF Drives
    <2>2. Placed(d) /\ actors[d] \in Actors
      BY <2>1 DEF IInv, Followed, Travels
    <2>3. actors'[d] \in Driven(actors[d])
      BY <2>1, <2>2, TravelsNext DEF Moves
    <2>4. QED
      BY <2>1, <2>2, <2>3, DrivenIs
  <1>2. QED
    BY <1>1, AllTravel, Invariant, PTL DEF Spec, NoJump
=============================================================================
