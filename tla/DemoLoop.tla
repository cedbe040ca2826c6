------------------------------ MODULE DemoLoop ------------------------------
(***************************************************************************)
(* The demo program: one goroutine that plays a rider and her drivers      *)
(* against the server, ride after ride.  It is the server's only client    *)
(* and makes one call at a time, so a call is one step here; what the      *)
(* server keeps between calls is what RideServer keeps: the invites of     *)
(* each driver and the bids of the current session.                        *)
(*                                                                         *)
(* Sessions are numbered by the loop counter, and each has a key pair of   *)
(* its own, so a session number also names its public key.  Where the      *)
(* rider and the drivers stand is random: any drivers may be candidates.   *)
(***************************************************************************)
EXTENDS Integers, Sequences, FiniteSets

CONSTANTS
  NumDrivers, \* -n
  TriggerCap, \* capacity of the trigger channel
  MaxLoops,   \* bound on the rides
  MaxBlocked  \* bound on the clicks that wait for room in the channel

ASSUME NumDriversAssumption == NumDrivers \in Nat
ASSUME BoundsAssumption == MaxLoops \in Nat \ {0} /\ MaxBlocked \in Nat
ASSUME TriggerCapAssumption == TriggerCap \in Nat \ {0}

(* The index of a driver in drivers, signers and driverStates.             *)
Drivers == 1 .. NumDrivers

VARIABLES
  loop,     \* the ride, which is also the session
  phase,    \* where the goroutine is
  due,      \* clicks it waits for before it goes on
  cands,    \* the candidates of the session that the demo was told of
  invites,  \* driver -> list of the sessions it has an invite of
  turn,     \* the next driver to look at its invites
  bidCount, \* bids whose submission returned no error
  bids,     \* the bids the server holds: driver, and the session of the key
  winner,   \* index of the highest mask, 0 before
  held,     \* the offers put on hold: session and driver
  tokens,   \* clicks in the trigger channel
  blocked,  \* click handlers that wait for room in it
  owed      \* history: clicks made, less clicks taken

trigger == <<tokens, blocked, owed>>
vars == <<loop, phase, due, cands, invites, turn, bidCount, bids, winner, held, trigger>>

Init ==
  /\ loop = 1 /\ phase = "idle" /\ due = 3
  /\ cands = {} /\ invites = [d \in Drivers |-> <<>>]
  /\ turn = 1 /\ bidCount = 0 /\ bids = <<>>
  /\ winner = 0 /\ held = {}
  /\ tokens = 0 /\ blocked = 0 /\ owed = 0
-----------------------------------------------------------------------------
(* A click on "Next Phase" sends into the channel, and waits while it is   *)
(* full.  Slip: it is dropped then.                                        *)
ClickSlip ==
  /\ owed < TriggerCap + MaxBlocked
  /\ owed' = owed + 1
  /\ tokens' = IF tokens < TriggerCap THEN tokens + 1 ELSE tokens
  /\ UNCHANGED <<loop, phase, due, cands, invites, turn, bidCount, bids, winner, held, blocked>>

Click ==
  /\ blocked < MaxBlocked
  /\ owed' = owed + 1
  /\ IF tokens < TriggerCap THEN tokens' = tokens + 1 /\ UNCHANGED blocked
                            ELSE blocked' = blocked + 1 /\ UNCHANGED tokens
  /\ UNCHANGED <<loop, phase, due, cands, invites, turn, bidCount, bids, winner, held>>

(* The demo takes one; a click that waits gets its place. *)
Take ==
  /\ due > 0 /\ tokens > 0
  /\ due' = due - 1 /\ owed' = owed - 1
  /\ IF blocked > 0 THEN blocked' = blocked - 1 /\ UNCHANGED tokens
                    ELSE tokens' = tokens - 1 /\ UNCHANGED blocked
  /\ UNCHANGED <<loop, phase, cands, invites, turn, bidCount, bids, winner, held>>
-----------------------------------------------------------------------------
(* The next ride, after a complete one or after any failure. *)
NextRide ==
  /\ loop < MaxLoops
  /\ loop' = loop + 1 /\ phase' = "idle" /\ due' = 3
  /\ cands' = {} /\ turn' = 1 /\ bidCount' = 0 /\ bids' = <<>> /\ winner' = 0
  /\ UNCHANGED <<invites, held, trigger>>

(* Keygen fails: the ride is given up before a session exists. *)
KeygenFails == phase = "idle" /\ due = 0 /\ NextRide

Keygen ==
  /\ phase = "idle" /\ due = 0
  /\ phase' = "review" /\ due' = 1
  /\ UNCHANGED <<loop, cands, invites, turn, bidCount, bids, winner, held, trigger>>

(* Slip: the invite is added to the list. *)
InvitedSlip(old, found) ==
  [d \in Drivers |-> IF d \in found THEN Append(old[d], loop) ELSE old[d]]

(* The server's part in opening a session: a candidate's list of invites   *)
(* becomes the one invite; the others keep what they have.                 *)
Invited(old, found) == [d \in Drivers |-> IF d \in found THEN <<loop>> ELSE old[d]]

(* The rider opens her session.  When the answer names fewer than two      *)
(* candidates, or gets lost, she gives up, but the session is open and the *)
(* invites are out.                                                        *)
OpenSession ==
  /\ phase = "review" /\ due = 0
  /\ \E found \in SUBSET Drivers :
       /\ invites' = Invited(invites, found)
       /\ cands' \in {found, {}}
       /\ phase' = IF Cardinality(cands') < 2 THEN "over" ELSE "bidding"
  /\ due' = 1
  /\ UNCHANGED <<loop, turn, bidCount, bids, winner, held, trigger>>

(* A driver whose list of invites is empty is passed over. *)
NoInvite ==
  /\ phase = "bidding" /\ due = 0 /\ turn \in Drivers
  /\ invites[turn] = <<>>
  /\ turn' = turn + 1
  /\ UNCHANGED <<loop, phase, due, cands, invites, bidCount, bids, winner, held, trigger>>

(* Slip: a bid is counted before its error is looked at. *)
CountedSlip(n, ok) == n + 1

(* Slip: a submission that failed is tried again. *)
DriverBidsSlip ==
  /\ phase = "bidding" /\ due = 0 /\ turn \in Drivers
  /\ invites[turn] # <<>>
  /\ \E stored, ok \in BOOLEAN :
       /\ ok => stored
       /\ bids' = IF stored
                  THEN Append(bids, [driver |-> turn, key |-> invites[turn][1]])
                  ELSE bids
       /\ bidCount' = IF ok THEN bidCount + 1 ELSE bidCount
       /\ turn' = IF ok THEN turn + 1 ELSE turn
  /\ UNCHANGED <<loop, phase, due, cands, invites, winner, held, trigger>>

(* Any other driver bids in the current session, under the key of the      *)
(* first invite of its list.  The call may fail before the server has the  *)
(* bid or after; a bid is counted when no error came back.                 *)
Counted(n, ok) == IF ok THEN n + 1 ELSE n

DriverBids ==
  /\ phase = "bidding" /\ due = 0 /\ turn \in Drivers
  /\ invites[turn] # <<>>
  /\ turn' = turn + 1
  /\ \E stored, ok \in BOOLEAN :
       /\ ok => stored
       /\ bids' = IF stored
                  THEN Append(bids, [driver |-> turn, key |-> invites[turn][1]])
                  ELSE bids
       /\ bidCount' = Counted(bidCount, ok)
  /\ UNCHANGED <<loop, phase, due, cands, invites, winner, held, trigger>>

(* Slip: with fewer than two bids counted the demo waits for more. *)
CloseBiddingSlip ==
  /\ phase = "bidding" /\ due = 0 /\ turn \notin Drivers
  /\ phase' = IF bidCount < 2 THEN "bidding" ELSE "scoring"
  /\ due' = IF bidCount < 2 THEN 0 ELSE 2
  /\ UNCHANGED <<loop, cands, invites, turn, bidCount, bids, winner, held, trigger>>

(* With fewer than two bids counted the ride is given up. *)
CloseBidding ==
  /\ phase = "bidding" /\ due = 0 /\ turn \notin Drivers
  /\ phase' = IF bidCount < 2 THEN "over" ELSE "scoring"
  /\ due' = IF bidCount < 2 THEN 1 ELSE 2
  /\ UNCHANGED <<loop, cands, invites, turn, bidCount, bids, winner, held, trigger>>

(* The rider fetches and decrypts the masks, one per bid.  Any bid may     *)
(* have the best price.                                                    *)
Winner ==
  /\ phase = "scoring" /\ due = 0
  /\ Len(bids) >= 2
  /\ winner' \in 1 .. Len(bids)
  /\ phase' = "won" /\ due' = 1
  /\ UNCHANGED <<loop, cands, invites, turn, bidCount, bids, held, trigger>>

(* Fetching or decrypting fails, or the server refuses to score fewer than *)
(* two bids.                                                               *)
WinnerFails ==
  /\ phase = "scoring" /\ due = 0
  /\ phase' = "over" /\ due' = 1
  /\ UNCHANGED <<loop, cands, invites, turn, bidCount, bids, winner, held, trigger>>

(* The offer of drivers[winner] is put on hold; the error is ignored. *)
HoldOffer ==
  /\ phase = "won" /\ due = 0
  /\ phase' = "over" /\ due' = 1
  /\ \/ held' = held \cup {[session |-> loop, driver |-> winner]}
     \/ UNCHANGED held
  /\ UNCHANGED <<loop, cands, invites, turn, bidCount, bids, winner, trigger>>

Demo ==
  \/ Take
  \/ KeygenFails \/ Keygen \/ OpenSession \/ NoInvite \/ DriverBids \/ CloseBidding
  \/ Winner \/ WinnerFails \/ HoldOffer
  \/ phase = "over" /\ due = 0 /\ NextRide

Next == Demo \/ Click

Spec == Init /\ [][Next]_vars

(* The user keeps clicking "Next Phase" and calls return. *)
FairSpec == Spec /\ WF_vars(Demo) /\ WF_vars(Click)
-----------------------------------------------------------------------------
TypeOK ==
  /\ loop \in 1 .. MaxLoops
  /\ phase \in {"idle", "review", "bidding", "scoring", "won", "over"}
  /\ due \in 0 .. 3
  /\ cands \in SUBSET Drivers
  /\ invites \in [Drivers -> Seq(1 .. loop)]
  /\ turn \in 1 .. NumDrivers + 1
  /\ bidCount \in 0 .. NumDrivers
  /\ bids \in Seq([driver : Drivers, key : 1 .. loop])
  /\ winner \in 0 .. Len(bids)
  /\ tokens \in 0 .. TriggerCap /\ blocked \in 0 .. MaxBlocked
  /\ held \subseteq [session : 1 .. loop, driver : Drivers]

(* A candidate of the session bids under the session's key, although the   *)
(* demo decides on the last invite of the list and encrypts for the first: *)
(* that is sound because the server keeps one invite per driver and a new  *)
(* session replaces it.                                                    *)
CandidatesBidUnderTheKey ==
  \A k \in DOMAIN bids : bids[k].driver \in cands => bids[k].key = loop

(* When the demo goes on to the auction the server has the two bids it     *)
(* needs, although answers may get lost and the demo counts for itself.    *)
AuctionHasItsBids == phase = "scoring" => Len(bids) >= 2

(* Every driver bids at most once in a session, and bids stand in the      *)
(* order of the drivers: the reason why bid k is driver k if all bid.      *)
BidsInDriverOrder ==
  /\ \A j, k \in DOMAIN bids : j < k => bids[j].driver < bids[k].driver
  /\ Len(bids) = NumDrivers => \A k \in DOMAIN bids : bids[k].driver = k

(* No failure stops the demo: every ride before the last leads to the      *)
(* next one.                                                               *)
RidesGoOn == \A n \in 1 .. MaxLoops - 1 : loop = n ~> loop = n + 1

(* "they queue, never drop" (demo/main.go:36): every click made and not    *)
(* yet taken is in the channel or its handler waits for room, and a        *)
(* handler waits only while the channel is full.                           *)
ClicksQueue ==
  /\ owed = tokens + blocked
  /\ blocked > 0 => tokens = TriggerCap
-----------------------------------------------------------------------------
(* What the repository says of the program, and the program does not do.   *)

(* "Use last (most recent) invite - stale invites are replaced             *)
(* server-side" (demo/main.go:190): every bid is encrypted under the key   *)
(* of the session it is submitted to.                                      *)
NoStaleInviteUsed == \A k \in DOMAIN bids : bids[k].key = loop

(* "Hold winner offer" (demo/main.go:273): the driver of the offer that is *)
(* put on hold is the one whose bid has the highest mask.                  *)
HeldOfferIsTheWinners ==
  winner # 0 => \A o \in held : o.session = loop => o.driver = bids[winner].driver
=============================================================================
