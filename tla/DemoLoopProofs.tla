--------------------------- MODULE DemoLoopProofs ---------------------------
(***************************************************************************)
(* Theorems about the demo, for any number of drivers, of rides, and of    *)
(* clicks, and any capacity of the trigger channel.                        *)
(***************************************************************************)
EXTENDS DemoLoop, TLAPS

Rides == 1 .. MaxLoops

(* While the drivers take their turns, the bids are of those who had one,  *)
(* in their order; bid k is of driver k or of a later one, but no later    *)
(* than by the number of drivers passed over.                              *)
Passed == turn - 1 - Len(bids)

Turns ==
  /\ bidCount <= Len(bids)
  /\ Passed >= 0
  /\ \A k \in DOMAIN bids : /\ bids[k].driver < turn
                            /\ k <= bids[k].driver
                            /\ bids[k].driver <= k + Passed
  /\ \A j, k \in DOMAIN bids : j < k => bids[j].driver < bids[k].driver

(* Every candidate of the session has exactly the session's invite.        *)
Candidates == \A d \in cands : invites[d] = <<loop>>

(* Before a ride's winner is known there is none; there are two bids to    *)
(* choose from before.                                                     *)
Winners ==
  /\ phase \in {"idle", "review"} => bids = <<>>
  /\ phase = "won" => winner # 0

IInv ==
  /\ TypeOK /\ Turns /\ Candidates /\ Winners
  /\ CandidatesBidUnderTheKey /\ AuctionHasItsBids /\ ClicksQueue

(* What the clicks do not touch.                                           *)
ride == <<loop, phase, cands, invites, turn, bidCount, bids, winner, held>>
-----------------------------------------------------------------------------
LEMMA Append1 ==
  ASSUME NEW S, NEW s \in Seq(S), NEW x \in S
  PROVE  /\ Append(s, x) \in Seq(S)
         /\ Len(Append(s, x)) = Len(s) + 1 /\ Len(s) \in Nat
         /\ DOMAIN Append(s, x) = DOMAIN s \cup {Len(s) + 1} /\ DOMAIN s = 1 .. Len(s)
         /\ \A k \in DOMAIN s : Append(s, x)[k] = s[k]
         /\ Append(s, x)[Len(s) + 1] = x
OBVIOUS

LEMMA BidTypes ==
  ASSUME TypeOK
  PROVE  /\ bids \in Seq([driver : 1 .. NumDrivers, key : 1 .. loop])
         /\ DOMAIN bids = 1 .. Len(bids) /\ Len(bids) \in Nat
         /\ \A k \in DOMAIN bids : /\ bids[k].driver \in 1 .. NumDrivers
                                   /\ bids[k].key \in 1 .. loop
<1>1. bids \in Seq([driver : 1 .. NumDrivers, key : 1 .. loop])
  BY DEF TypeOK, Drivers
<1>2. ASSUME NEW S, NEW s \in Seq(S)
      PROVE  DOMAIN s = 1 .. Len(s) /\ Len(s) \in Nat /\ \A k \in DOMAIN s : s[k] \in S
  OBVIOUS
<1>3. /\ DOMAIN bids = 1 .. Len(bids) /\ Len(bids) \in Nat
      /\ \A k \in DOMAIN bids : bids[k] \in [driver : 1 .. NumDrivers, key : 1 .. loop]
  BY <1>1, <1>2
<1> QED
  BY <1>1, <1>3

LEMMA SeqGrows ==
  ASSUME NEW S, NEW T, S \subseteq T, NEW s \in Seq(S)
  PROVE  s \in Seq(T)
OBVIOUS

(* With everyone's bid there, nobody was passed over.                      *)
LEMMA InOrder == ASSUME TypeOK, Turns PROVE BidsInDriverOrder
<1>1. ASSUME Len(bids) = NumDrivers, NEW k \in DOMAIN bids PROVE bids[k].driver = k
  <2>1. /\ k \in Nat /\ bids[k].driver \in Nat
        /\ k <= bids[k].driver /\ bids[k].driver <= k + (turn - 1 - Len(bids))
    BY <1>1, BidTypes, NumDriversAssumption DEF Turns, Passed
  <2>2. turn \in Nat /\ turn <= NumDrivers + 1
    BY NumDriversAssumption DEF TypeOK
  <2> QED
    BY <1>1, <2>1, <2>2, NumDriversAssumption
<1> QED
  BY <1>1 DEF BidsInDriverOrder, Turns

(* A click or a Take leaves the ride as it is, and the channel consistent. *)
LEMMA Clicking == ASSUME IInv, Click PROVE IInv'
<1> USE BoundsAssumption, TriggerCapAssumption, NumDriversAssumption
<1>1. UNCHANGED <<ride, due>>
  BY DEF Click, ride
<1>2. /\ tokens \in 0 .. TriggerCap /\ blocked \in 0 .. MaxBlocked
      /\ owed = tokens + blocked /\ (blocked > 0 => tokens = TriggerCap)
  BY DEF IInv, TypeOK, ClicksQueue
<1>3. tokens' \in 0 .. TriggerCap /\ blocked' \in 0 .. MaxBlocked /\ ClicksQueue'
  BY <1>2 DEF Click, ClicksQueue
<1> QED
  BY <1>1, <1>3 DEF IInv, ride, TypeOK, Turns, Passed, Candidates, Winners,
                    CandidatesBidUnderTheKey, AuctionHasItsBids

LEMMA Taking == ASSUME IInv, Take PROVE IInv'
<1> USE BoundsAssumption, TriggerCapAssumption, NumDriversAssumption
<1>1. UNCHANGED ride
  BY DEF Take, ride
<1>2. /\ tokens \in 0 .. TriggerCap /\ blocked \in 0 .. MaxBlocked /\ due \in 0 .. 3
      /\ owed = tokens + blocked /\ (blocked > 0 => tokens = TriggerCap)
  BY DEF IInv, TypeOK, ClicksQueue
<1>3. /\ tokens' \in 0 .. TriggerCap /\ blocked' \in 0 .. MaxBlocked /\ due' \in 0 .. 3
      /\ ClicksQueue'
  BY <1>2 DEF Take, ClicksQueue
<1> QED
  BY <1>1, <1>3 DEF IInv, ride, TypeOK, Turns, Passed, Candidates, Winners,
                    CandidatesBidUnderTheKey, AuctionHasItsBids

(* The next ride starts from nothing but old invites.                      *)
LEMMA NextRides == ASSUME IInv, NextRide PROVE IInv'
<1> USE BoundsAssumption, TriggerCapAssumption, NumDriversAssumption
<1>1. /\ loop' \in 1 .. MaxLoops /\ loop' = loop + 1 /\ loop \in Nat
      /\ phase' = "idle" /\ due' = 3 /\ cands' = {} /\ turn' = 1 /\ bidCount' = 0
      /\ bids' = <<>> /\ winner' = 0 /\ UNCHANGED <<invites, held, trigger>>
  BY DEF IInv, TypeOK, NextRide
<1>2. 1 .. loop \subseteq 1 .. loop'
  BY <1>1
<1>3. invites' \in [Drivers -> Seq(1 .. loop')]
  <2>1. \A d \in Drivers : invites[d] \in Seq(1 .. loop')
    <3>1. ASSUME NEW d \in Drivers PROVE invites[d] \in Seq(1 .. loop)
      BY DEF IInv, TypeOK
    <3> QED
      BY <1>2, <3>1, SeqGrows
  <2> QED
    BY <1>1, <2>1 DEF IInv, TypeOK
<1>4. held' \subseteq [session : 1 .. loop', driver : Drivers]
  BY <1>1, <1>2 DEF IInv, TypeOK
<1>5. bids' \in Seq([driver : Drivers, key : 1 .. loop']) /\ Len(bids') = 0 /\ DOMAIN bids' = {}
  BY <1>1
<1>6. TypeOK'
  BY <1>1, <1>3, <1>4, <1>5 DEF IInv, TypeOK, trigger
<1> QED
  BY <1>1, <1>5, <1>6 DEF IInv, Turns, Passed, Candidates, Winners, trigger,
                    CandidatesBidUnderTheKey, AuctionHasItsBids, ClicksQueue

(* Steps that only move the goroutine on, and keep what the server holds.  *)
server == <<loop, cands, invites, turn, bids, bidCount, trigger>>

LEMMA Moving ==
  ASSUME IInv, UNCHANGED server, due' \in 0 .. 3,
         phase' \in {"review", "bidding", "scoring", "won", "over"},
         phase' = "review" => bids = <<>>,
         phase' = "scoring" => Len(bids) >= 2,
         winner' \in 0 .. Len(bids), phase' = "won" => winner' # 0,
         held' \subseteq [session : 1 .. loop, driver : Drivers]
  PROVE  IInv'
<1>1. TypeOK'
  BY DEF IInv, TypeOK, server, trigger
<1>2. Turns' /\ Candidates' /\ Winners'
  BY DEF IInv, Turns, Passed, Candidates, Winners, server
<1>3. CandidatesBidUnderTheKey' /\ AuctionHasItsBids' /\ ClicksQueue'
  BY DEF IInv, CandidatesBidUnderTheKey, AuctionHasItsBids, ClicksQueue, server, trigger
<1> QED
  BY <1>1, <1>2, <1>3 DEF IInv

(* The offers held are of drivers; so is the one of the highest mask, for  *)
(* there are at most as many bids as drivers.                              *)
LEMMA AtMostAllBid == ASSUME IInv PROVE Len(bids) <= NumDrivers
<1>1. turn \in 1 .. NumDrivers + 1 /\ turn - 1 - Len(bids) >= 0
  BY DEF IInv, TypeOK, Turns, Passed
<1>2. Len(bids) \in Nat
  BY BidTypes DEF IInv
<1> QED
  BY <1>1, <1>2, NumDriversAssumption

LEMMA Steps ==
  ASSUME IInv, Keygen \/ CloseBidding \/ Winner \/ WinnerFails \/ HoldOffer
  PROVE  IInv'
<1>1. /\ Len(bids) \in Nat /\ bidCount \in Nat /\ winner \in 0 .. Len(bids)
      /\ held \subseteq [session : 1 .. loop, driver : Drivers]
  BY BidTypes, NumDriversAssumption DEF IInv, TypeOK
<1>2. CASE Keygen
  <2>1. bids = <<>>
    BY <1>2 DEF Keygen, IInv, Winners
  <2> QED
    BY <1>1, <1>2, <2>1, Moving DEF Keygen, server
<1>3. CASE CloseBidding
  <2>1. bidCount <= Len(bids)
    BY DEF IInv, Turns
  <2>2. phase' = "scoring" => Len(bids) >= 2
    BY <1>1, <1>3, <2>1 DEF CloseBidding
  <2> QED
    BY <1>1, <1>3, <2>2, Moving DEF CloseBidding, server
<1>4. CASE Winner
  <2>1. winner' \in 0 .. Len(bids) /\ winner' # 0
    BY <1>1, <1>4 DEF Winner
  <2> QED
    BY <1>1, <1>4, <2>1, Moving DEF Winner, server
<1>5. CASE WinnerFails
  BY <1>1, <1>5, Moving DEF WinnerFails, server
<1>6. CASE HoldOffer
  <2>1. winner # 0
    BY <1>6 DEF HoldOffer, IInv, Winners
  <2>2. winner \in Drivers
    BY <1>1, <2>1, AtMostAllBid, NumDriversAssumption DEF Drivers
  <2>3. loop \in 1 .. loop
    BY BoundsAssumption DEF IInv, TypeOK
  <2>4. held' \subseteq [session : 1 .. loop, driver : Drivers]
    BY <1>1, <1>6, <2>2, <2>3 DEF HoldOffer
  <2> QED
    BY <1>1, <1>6, <2>4, Moving DEF HoldOffer, server
<1> QED
  BY <1>2, <1>3, <1>4, <1>5, <1>6

(* Opening a session gives every candidate its one invite, before any bid, *)
(* whether the demo hears of it or not.                                    *)
LEMMA Opening == ASSUME IInv, OpenSession PROVE IInv'
<1> USE BoundsAssumption, NumDriversAssumption
<1>1. /\ loop \in Nat \ {0} /\ bids = <<>> /\ loop \in 1 .. loop
  BY DEF IInv, TypeOK, OpenSession, Winners
<1>2. PICK found \in SUBSET Drivers :
        /\ invites' = Invited(invites, found) /\ cands' \in {found, {}}
        /\ phase' = IF Cardinality(cands') < 2 THEN "over" ELSE "bidding"
  BY DEF OpenSession
<1>3. <<loop>> \in Seq(1 .. loop)
  BY <1>1
<1>4. invites' \in [Drivers -> Seq(1 .. loop)]
  <2>1. ASSUME NEW d \in Drivers PROVE invites[d] \in Seq(1 .. loop)
    BY DEF IInv, TypeOK
  <2> QED
    BY <1>2, <1>3, <2>1 DEF Invited
<1>5. Candidates'
  BY <1>2 DEF Invited, Candidates, OpenSession
<1>6. phase' \in {"bidding", "over"} /\ due' = 1
  BY <1>2 DEF OpenSession
<1>7. TypeOK'
  BY <1>2, <1>4, <1>6 DEF IInv, TypeOK, OpenSession, trigger
<1>8. Turns' /\ Winners' /\ AuctionHasItsBids' /\ ClicksQueue'
  BY <1>6 DEF IInv, OpenSession, Turns, Passed, Winners, AuctionHasItsBids, ClicksQueue, trigger
<1>9. CandidatesBidUnderTheKey'
  BY <1>1 DEF OpenSession, CandidatesBidUnderTheKey
<1> QED
  BY <1>5, <1>7, <1>8, <1>9 DEF IInv

(* A driver that does not bid is one more passed over.                     *)
LEMMA PassingOver ==
  ASSUME IInv, turn \in Drivers, turn' = turn + 1, phase = "bidding",
         bidCount' = bidCount,
         UNCHANGED <<loop, phase, due, cands, invites, bids, winner, held, trigger>>
  PROVE  IInv'
<1> USE NumDriversAssumption
<1>1. turn' \in 1 .. NumDrivers + 1 /\ turn \in Nat
  BY DEF Drivers
<1>2. TypeOK'
  BY <1>1 DEF IInv, TypeOK, trigger
<1>3. Turns'
  BY <1>1, BidTypes DEF IInv, Turns, Passed
<1> QED
  BY <1>2, <1>3 DEF IInv, Candidates, Winners, CandidatesBidUnderTheKey, AuctionHasItsBids,
                    ClicksQueue, trigger

(* A bid that the server stores is of the driver whose turn it is, and     *)
(* under the session's key if that driver is a candidate.                  *)
LEMMA Bidding ==
  ASSUME IInv, turn \in Drivers, turn' = turn + 1, phase = "bidding", invites[turn] # <<>>,
         bids' = Append(bids, [driver |-> turn, key |-> invites[turn][1]]),
         bidCount' \in {bidCount, bidCount + 1},
         UNCHANGED <<loop, phase, due, cands, invites, winner, held, trigger>>
  PROVE  IInv'
<1> USE NumDriversAssumption
<1> DEFINE bid == [driver |-> turn, key |-> invites[turn][1]]
           n == Len(bids)
           Bid == [driver : Drivers, key : 1 .. loop]
<1>1. turn' \in 1 .. NumDrivers + 1 /\ turn \in 1 .. NumDrivers
  BY DEF Drivers
<1>2. invites[turn][1] \in 1 .. loop
  <2>1. ASSUME NEW S, NEW s \in Seq(S), s # <<>> PROVE s[1] \in S
    BY <2>1
  <2>2. invites[turn] \in Seq(1 .. loop)
    BY DEF IInv, TypeOK
  <2> QED
    BY <2>1, <2>2
<1>3. bid \in Bid /\ bids \in Seq(Bid)
  BY <1>2 DEF IInv, TypeOK
<1> HIDE DEF Bid, bid
<1>4. /\ bids' \in Seq(Bid) /\ Len(bids') = n + 1 /\ n \in Nat
      /\ DOMAIN bids' = DOMAIN bids \cup {n + 1} /\ DOMAIN bids = 1 .. n
      /\ \A k \in DOMAIN bids : bids'[k] = bids[k]
      /\ bids'[n + 1] = bid
  BY <1>3, Append1 DEF bid
<1>5. bid.driver = turn /\ bid.key = invites[turn][1]
  BY DEF bid
<1>6. bidCount \in Nat /\ bidCount <= n /\ n <= turn - 1
  BY <1>1, <1>4 DEF IInv, TypeOK, Turns, Passed
<1>7. bidCount' \in 0 .. NumDrivers /\ bidCount' <= n + 1
  BY <1>1, <1>4, <1>6
<1>8. winner' \in 0 .. Len(bids')
  BY <1>4 DEF IInv, TypeOK
<1>9. TypeOK'
  BY <1>1, <1>4, <1>7, <1>8 DEF IInv, TypeOK, trigger, Bid
<1>10. Turns'
  <2>1. Passed' = Passed /\ Passed >= 0 /\ Passed \in Int /\ Passed = turn - 1 - n
    BY <1>1, <1>4, <1>6 DEF Passed
  <2>2. ASSUME NEW k \in DOMAIN bids'
        PROVE  bids'[k].driver < turn' /\ k <= bids'[k].driver /\ bids'[k].driver <= k + Passed'
    <3>1. CASE k \in DOMAIN bids
      <4>1. /\ bids'[k] = bids[k] /\ bids[k].driver < turn /\ bids[k].driver \in 1 .. NumDrivers
            /\ k <= bids[k].driver /\ bids[k].driver <= k + Passed
        BY <1>4, <3>1, BidTypes DEF IInv, Turns
      <4> QED
        BY <1>1, <2>1, <4>1
    <3>2. CASE k = n + 1
      BY <1>1, <1>4, <1>5, <1>6, <2>1, <3>2
    <3> QED
      BY <1>4, <3>1, <3>2
  <2>3. ASSUME NEW j \in DOMAIN bids', NEW k \in DOMAIN bids', j < k
        PROVE  bids'[j].driver < bids'[k].driver
    <3>1. j \in DOMAIN bids
      BY <1>4, <2>3
    <3>2. CASE k \in DOMAIN bids
      BY <1>4, <2>3, <3>1, <3>2 DEF IInv, Turns
    <3>3. CASE k = n + 1
      BY <1>4, <1>5, <3>1, <3>3 DEF IInv, Turns
    <3> QED
      BY <1>4, <3>2, <3>3
  <2> QED
    BY <1>4, <1>7, <2>1, <2>2, <2>3 DEF Turns
<1>11. CandidatesBidUnderTheKey'
  <2>1. ASSUME NEW k \in DOMAIN bids', bids'[k].driver \in cands PROVE bids'[k].key = loop
    <3>1. CASE k \in DOMAIN bids
      BY <1>4, <2>1, <3>1 DEF IInv, CandidatesBidUnderTheKey
    <3>2. CASE k = n + 1
      <4>1. invites[turn] = <<loop>>
        BY <1>4, <1>5, <2>1, <3>2 DEF IInv, Candidates
      <4> QED
        BY <1>4, <1>5, <3>2, <4>1
    <3> QED
      BY <1>4, <3>1, <3>2
  <2> QED
    BY <2>1 DEF CandidatesBidUnderTheKey
<1>12. Candidates' /\ Winners' /\ AuctionHasItsBids' /\ ClicksQueue'
  BY DEF IInv, Candidates, Winners, AuctionHasItsBids, ClicksQueue, trigger
<1> QED
  BY <1>9, <1>10, <1>11, <1>12 DEF IInv

LEMMA Turning == ASSUME IInv, NoInvite \/ DriverBids PROVE IInv'
<1>1. CASE NoInvite
  BY <1>1, PassingOver DEF NoInvite
<1>2. CASE DriverBids
  <2>1. PICK stored \in BOOLEAN, ok \in BOOLEAN :
          /\ ok => stored
          /\ bids' = IF stored
                     THEN Append(bids, [driver |-> turn, key |-> invites[turn][1]])
                     ELSE bids
          /\ bidCount' = Counted(bidCount, ok)
    BY <1>2 DEF DriverBids
  <2>2. CASE stored
    BY <1>2, <2>1, <2>2, Bidding DEF DriverBids, Counted
  <2>3. CASE ~stored
    BY <1>2, <2>1, <2>3, PassingOver DEF DriverBids, Counted
  <2> QED
    BY <2>2, <2>3
<1> QED
  BY <1>1, <1>2
-----------------------------------------------------------------------------
LEMMA IInvInit == ASSUME Init PROVE IInv
<1> USE BoundsAssumption, TriggerCapAssumption, NumDriversAssumption
<1>1. <<>> \in Seq([driver : Drivers, key : 1 .. loop]) /\ Len(<<>>) = 0 /\ DOMAIN <<>> = {}
  OBVIOUS
<1>2. TypeOK
  BY <1>1 DEF Init, TypeOK
<1> QED
  BY <1>1, <1>2 DEF IInv, Init, Turns, Passed, Candidates, Winners, CandidatesBidUnderTheKey,
                    AuctionHasItsBids, ClicksQueue

LEMMA IInvNext == ASSUME IInv, [Next]_vars PROVE IInv'
<1>1. CASE NextRide
  BY <1>1, NextRides
<1>2. CASE UNCHANGED vars
  BY <1>2 DEF IInv, vars, trigger, TypeOK, Turns, Passed, Candidates, Winners,
              CandidatesBidUnderTheKey, AuctionHasItsBids, ClicksQueue
<1> QED
  BY <1>1, <1>2, Clicking, Taking, Opening, Turning, Steps DEF Next, Demo, KeygenFails

LEMMA Invariant == Spec => []IInv
BY IInvInit, IInvNext, PTL DEF Spec

(* Every variable keeps its type, whatever calls fail: no more bids are    *)
(* counted than there are drivers, the winner is one of the bids, and the  *)
(* channel holds no more clicks than it has room for.                      *)
THEOREM TypeCorrect == Spec => []TypeOK
<1>1. IInv => TypeOK
  BY DEF IInv
<1> QED
  BY <1>1, Invariant, PTL

(* A candidate of the session bids under the session's key, although the   *)
(* demo decides on the last invite of the list and encrypts for the first. *)
THEOREM CandidatesUseTheKey == Spec => []CandidatesBidUnderTheKey
<1>1. IInv => CandidatesBidUnderTheKey
  BY DEF IInv
<1> QED
  BY <1>1, Invariant, PTL

(* When the demo goes on to the auction the server has two bids, although  *)
(* a lost answer leaves a bid at the server that the demo did not count.   *)
THEOREM TwoBidsToScore == Spec => []AuctionHasItsBids
<1>1. IInv => AuctionHasItsBids
  BY DEF IInv
<1> QED
  BY <1>1, Invariant, PTL

(* Bids stand in the order of the drivers, each at most once, so that bid  *)
(* k is driver k's when all bid: the demo takes the index of the highest   *)
(* mask for the index of a driver.                                         *)
THEOREM BidsAreInOrder == Spec => []BidsInDriverOrder
<1>1. IInv => BidsInDriverOrder
  BY InOrder DEF IInv
<1> QED
  BY <1>1, Invariant, PTL

(* No click is lost, however many wait for room in the channel.            *)
THEOREM ClicksAreKept == Spec => []ClicksQueue
<1>1. IInv => ClicksQueue
  BY DEF IInv
<1> QED
  BY <1>1, Invariant, PTL
=============================================================================
