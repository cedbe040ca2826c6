----------------------------- MODULE GhostFleet -----------------------------
(***************************************************************************)
(* The ghost fleet (cmd/ghostfleet): one goroutine that lets every ghost   *)
(* drive, which pushes the cell of a ghost to the server when it changes,  *)
(* then asks for every ghost's invites and bids on them, and begins again  *)
(* with the next tick.  All calls go over the network, and the server      *)
(* keeps everything in memory, so that it forgets all when it restarts.    *)
(***************************************************************************)
EXTENDS Movement

CONSTANTS
  N,         \* the number of ghosts
  MinCents,  \* the least offer a ghost bids on
  Sids,      \* the sessions that riders open, each once
  Offered,   \* session -> the price the rider offers
  None,      \* no cell, no invite, no actor
  Many       \* bids are counted up to this number

VARIABLES
  actors,    \* the engine's actors; None until added
  lastCell,  \* the engine's last known cells
  at,        \* where the main loop is
  up,        \* can the server be reached?
  registry,  \* server: ghost -> cell
  sessions,  \* server: the open sessions
  invites,   \* server: ghost -> the session of its one invite
  bids,      \* server: session -> ghost -> bids stored
  asked,     \* history: <<session, ghost>> for every invite ever made
  missed     \* history: ghosts whose last push the server does not know of

engine == <<actors, lastCell>>
server == <<registry, sessions, invites, bids>>
vars   == <<engine, at, up, server, asked, missed>>

Ghosts == 0 .. N - 1

ASSUME FleetAssumption ==
  /\ N \in Nat \ {0} /\ Nodes # {} /\ Many \in Nat \ {0}
  /\ MinCents \in Int /\ Offered \in [Sids -> Int]

Add(i)    == [stage |-> "add", ghost |-> i]
Tick(due) == [stage |-> "tick", due |-> due]
Poll(i)   == [stage |-> "poll", ghost |-> i]
Bid(i, s) == [stage |-> "bid", ghost |-> i, session |-> s]

(* After ghost i's turn in the polls comes the next ghost's or a new tick. *)
AfterPoll(i) == at' = IF i + 1 < N THEN Poll(i + 1) ELSE Tick(Ghosts)

Init ==
  /\ actors = [d \in Ghosts |-> None] /\ lastCell = [d \in Ghosts |-> None]
  /\ at = Add(0)
  /\ up = TRUE
  /\ registry = [d \in Ghosts |-> None] /\ sessions = {}
  /\ invites = [d \in Ghosts |-> None]
  /\ bids = [s \in Sids |-> [d \in Ghosts |-> 0]]
  /\ asked = {} /\ missed = {}

(* The three calls of a ghost's client.  A failed push is only logged, and *)
(* no answer to a poll is taken for no invite.  A ghost has one invite at  *)
(* most.  Of the four calls of a submission only the last counts; the      *)
(* server does not look whether the ghost has bid before.                  *)
PushGrid(d, c) ==
  /\ registry' = IF up THEN [registry EXCEPT ![d] = c] ELSE registry
  /\ missed' = IF up THEN missed \ {d} ELSE missed \cup {d}

Invites(d) == IF up THEN invites[d] ELSE None

SubmitBid(d, s) ==
  bids' = IF up /\ s \in sessions
          THEN [bids EXCEPT ![s][d] = IF @ < Many THEN @ + 1 ELSE Many]
          ELSE bids
-----------------------------------------------------------------------------
(* The node a ghost starts from: a number below the count of the nodes,    *)
(* used as a node's id.                                                    *)
StartNode(i) == (i * 7919) % Cardinality(Nodes)

AddGhost ==
  /\ at.stage = "add"
  /\ LET d == at.ghost
         a == NewActor(<<StartNode(d)>>)
     IN /\ \E b \in Added(StartNode(d)) : actors' = [actors EXCEPT ![d] = b]
        /\ lastCell' = [lastCell EXCEPT ![d] = Cell(a)]
        /\ PushGrid(d, Cell(a))
        /\ at' = IF d + 1 < N THEN Add(d + 1) ELSE Tick(Ghosts)
  /\ UNCHANGED <<up, sessions, invites, bids, asked>>

(* Slip: the ghost is sent on a new trip wherever it is. *)
DrivenSlip(a) == Roam(Advance(a, EdgeSpeed(a)))

(* Where a ghost may be after a tick. *)
Driven(a) ==
  LET b == Advance(a, EdgeSpeed(a)) IN IF Arrived(b) THEN Roam(b) ELSE {b}

(* Slip: only the cell at the end of a trip is pushed. *)
OnCellChangeSlip(d, c) ==
  IF c # lastCell[d] /\ actors'[d].seg = 1
  THEN PushGrid(d, c)
  ELSE UNCHANGED <<registry, missed>>

OnCellChange(d, c) == IF c # lastCell[d] THEN PushGrid(d, c) ELSE UNCHANGED <<registry, missed>>

(* Engine.Tick, a ghost at a time, in any order (it ranges over a map): a  *)
(* change of cell is noted first and then pushed, once.                    *)
Drive(d) ==
  /\ at.stage = "tick" /\ d \in at.due
  /\ \E b \in Driven(actors[d]) :
       /\ actors' = [actors EXCEPT ![d] = b]
       /\ lastCell' = [lastCell EXCEPT ![d] = Cell(b)]
       /\ OnCellChange(d, Cell(b))
  /\ at' = IF at.due = {d} THEN Poll(0) ELSE Tick(at.due \ {d})
  /\ UNCHANGED <<up, sessions, invites, bids, asked>>

(* Slip: any offer is good enough. *)
DecideBidSlip(s) == TRUE

DecideBid(s) == Offered[s] >= MinCents

(* Slip: the first ghost without a bid ends the round. *)
PollInvitesSlip ==
  /\ at.stage = "poll"
  /\ LET d == at.ghost IN
       IF Invites(d) # None /\ DecideBid(Invites(d))
       THEN at' = Bid(d, Invites(d))
       ELSE at' = Tick(Ghosts)
  /\ UNCHANGED <<engine, up, server, asked, missed>>

(* No answer, no invite and an offer too low have the same effect.         *)
PollInvites ==
  /\ at.stage = "poll"
  /\ LET d == at.ghost IN
       IF Invites(d) # None /\ DecideBid(Invites(d))
       THEN at' = Bid(d, Invites(d))
       ELSE AfterPoll(d)
  /\ UNCHANGED <<engine, up, server, asked, missed>>

(* Slip: the bid is sent until the server takes it. *)
SubmitBidRealSlip ==
  /\ at.stage = "bid"
  /\ up /\ SubmitBid(at.ghost, at.session)
  /\ AfterPoll(at.ghost)
  /\ UNCHANGED <<engine, up, registry, sessions, invites, asked, missed>>

(* An error is logged, and the next ghost has its turn. *)
SubmitBidReal ==
  /\ at.stage = "bid"
  /\ SubmitBid(at.ghost, at.session)
  /\ AfterPoll(at.ghost)
  /\ UNCHANGED <<engine, up, registry, sessions, invites, asked, missed>>

Loop == AddGhost \/ (\E d \in Ghosts : Drive(d)) \/ PollInvites \/ SubmitBidReal
-----------------------------------------------------------------------------
(* The fleet's surroundings.  A rider opens a session, and the server      *)
(* invites registered ghosts in place of what they were invited to before; *)
(* which ones, is Discover's matter.                                       *)
OpenSession(s) ==
  /\ up /\ \A d \in Ghosts : <<s, d>> \notin asked
  /\ sessions' = sessions \cup {s}
  /\ \E cands \in SUBSET {d \in Ghosts : registry[d] # None} :
       /\ cands # {}
       /\ invites' = [d \in Ghosts |-> IF d \in cands THEN s ELSE invites[d]]
       /\ asked' = asked \cup ({s} \X cands)
  /\ UNCHANGED <<engine, at, up, registry, bids, missed>>

(* The server goes out of reach and comes back. *)
Outage ==
  /\ up' = ~up
  /\ UNCHANGED <<engine, at, server, asked, missed>>

Restart ==
  /\ registry' = [d \in Ghosts |-> None] /\ sessions' = {}
  /\ invites' = [d \in Ghosts |-> None]
  /\ bids' = [s \in Sids |-> [d \in Ghosts |-> 0]]
  /\ missed' = Ghosts
  /\ UNCHANGED <<engine, at, up, asked>>

Next == Loop \/ (\E s \in Sids : OpenSession(s)) \/ Outage \/ Restart

Spec == Init /\ [][Next]_vars

(* The loop is the program's main goroutine, woken by a ticker; its calls  *)
(* return, with or without an answer.                                      *)
FairSpec == Spec /\ WF_vars(Loop)
-----------------------------------------------------------------------------
Turns ==
  {Add(i) : i \in Ghosts} \cup {Tick(due) : due \in (SUBSET Ghosts) \ {{}}}
    \cup {Poll(i) : i \in Ghosts} \cup {Bid(i, s) : i \in Ghosts, s \in Sids}

OnTrack(a) ==
  /\ a.track # <<>> /\ a.seg \in 1 .. Len(a.track)
  /\ \A i \in 1 .. Len(a.track) - 1 : <<a.track[i], a.track[i + 1]>> \in Roads
  /\ a.off \in Nat
  /\ a.off > 0 => ~Arrived(a) /\ a.off < Length[Road(a)]

(* Every actor is at a node of its track, or on a road of the graph, short *)
(* of the road's end; and the other variables have their types.            *)
TypeOK ==
  /\ \A d \in Ghosts : actors[d] = None \/ OnTrack(actors[d])
  /\ at \in Turns
  /\ up \in BOOLEAN
  /\ sessions \subseteq Sids
  /\ invites \in [Ghosts -> Sids \cup {None}]
  /\ bids \in [Sids -> [Ghosts -> 0 .. Many]]
  /\ asked \subseteq Sids \X Ghosts /\ missed \subseteq Ghosts

(* Riders find a ghost where it is: between its turns, a ghost's cell in   *)
(* the registry is the one its position is in, although it is pushed only  *)
(* when it changes, unless the server did not get the last push or has     *)
(* restarted since.                                                        *)
RegisteredWhereItIs ==
  \A d \in Ghosts :
    actors[d] # None =>
      /\ lastCell[d] = Cell(actors[d])
      /\ d \notin missed => registry[d] = lastCell[d]

(* A ghost bids only in sessions that invited it at a price it accepts,    *)
(* although an invite may be replaced, or forgotten, between the poll and  *)
(* the bid.                                                                *)
BidsFollowInvites ==
  \A s \in Sids, d \in Ghosts :
    bids[s][d] > 0 => s \in sessions /\ <<s, d>> \in asked /\ Offered[s] >= MinCents

(* Ghosts drive as cars do: along the track, and never back; where a new   *)
(* track begins, the old one ended.                                        *)
NoJump ==
  [][\A d \in Ghosts :
       LET a == actors[d]
           b == actors'[d]
       IN (a # None /\ a # b) =>
            \/ b.track = a.track /\ (b.seg > a.seg \/ (b.seg = a.seg /\ b.off > a.off))
            \/ b.track[1] = End(a) /\ b.seg = 1 /\ b.off = 0]_vars

(* If the server stays in reach from some time on, an invite at a price    *)
(* that a ghost accepts gets a bid, or is replaced or lost in a restart:   *)
(* no other ghost's failure or refusal keeps this one from its turn.       *)
InvitesAnswered ==
  <>[]up =>
    \A d \in Ghosts : \A s \in {x \in Sids : Offered[x] >= MinCents} :
      invites[d] = s ~> (bids[s][d] > 0 \/ invites[d] # s)

(* Whatever the server does, the fleet goes on: every ghost drives and is  *)
(* polled again and again.                                                 *)
RoundsGoOn ==
  \A d \in Ghosts :
    /\ []<>(at.stage = "tick" /\ d \in at.due)
    /\ []<>(at.stage = "poll" /\ at.ghost = d)

(* Every trip ends, also over roads of no length and with edges that take  *)
(* no time: again and again a ghost stands at the end of its track, since  *)
(* eight draws gave it no trip, or the end of its track is a new one.      *)
GhostsArrive ==
  \A d \in Ghosts :
    []<><<actors[d] # None /\ (Arrived(actors[d]) \/ End(actors'[d]) # End(actors[d]))>>_vars
=============================================================================
