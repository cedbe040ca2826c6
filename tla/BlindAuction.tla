---------------------------- MODULE BlindAuction ----------------------------
(***************************************************************************)
(* Who wins: the server ranks the bids by the lexicographic key of         *)
(* auction.BuildKey and returns one mask per bid; the rider decrypts the   *)
(* masks one by one and keeps the index of the first highest one.          *)
(*                                                                         *)
(* The homomorphic circuit that turns keys into masks is a library's.  Of  *)
(* its soft masks only the order is used, and they fall as the key rises:  *)
(* the mask of a bid stands here for its negated key.                      *)
(***************************************************************************)
EXTENDS Integers, Sequences

CONSTANTS
  K, WStar, WDist,  \* Weights
  Prices,           \* committed bids, in cents
  Penalties,        \* star penalties, 5 - normalized star, in some unit
  Distances,        \* squared pickup distances
  MaxDriverBids     \* bound on the bids of one auction

ASSUME WeightsAssumption ==
  /\ K \in Nat /\ WStar \in Nat /\ WDist \in Nat
  /\ Prices \subseteq Nat /\ Penalties \subseteq Nat /\ Distances \subseteq Nat
ASSUME MaxDriverBidsAssumption == MaxDriverBids \in Nat

(* The tie-break: everything in the key but the price. *)
TieBreak(b) == WStar * b.penalty + WDist * b.dist

(* "Invariant: WStar*maxStarPenalty + WDist*maxDistSq < K" (key.go:25).    *)
ASSUME TieBreakAssumption ==
  \A p \in Penalties, d \in Distances : WStar * p + WDist * d < K

DriverBids == [price : Prices, penalty : Penalties, dist : Distances]

(* Slip: price and tie-break change places. *)
BuildKeySlip(b) == WStar * b.price + K * b.penalty + WDist * b.dist

BuildKey(b) == K * b.price + TieBreak(b)

Mask(b) == 0 - BuildKey(b)

VARIABLES
  bids,    \* the snapshot of the bids, in the order they were submitted
  i,       \* how many masks the rider has decrypted
  best,    \* index of the best mask so far, 0 for none (-1 in the code)
  bestVal  \* its value

vars == <<bids, i, best, bestVal>>

(* An auction runs over two bids at least. *)
Init ==
  /\ \E n \in 2 .. MaxDriverBids : bids \in [1 .. n -> DriverBids]
  /\ i = 0 /\ best = 0 /\ bestVal = 0

(* Slip: the last of the best masks is kept. *)
DecryptSlip ==
  /\ i < Len(bids)
  /\ i' = i + 1
  /\ IF best = 0 \/ Mask(bids[i + 1]) >= bestVal
     THEN best' = i + 1 /\ bestVal' = Mask(bids[i + 1])
     ELSE UNCHANGED <<best, bestVal>>
  /\ UNCHANGED bids

(* One round of the loop of Rider.Winner. *)
Decrypt ==
  /\ i < Len(bids)
  /\ i' = i + 1
  /\ IF best = 0 \/ Mask(bids[i + 1]) > bestVal
     THEN best' = i + 1 /\ bestVal' = Mask(bids[i + 1])
     ELSE UNCHANGED <<best, bestVal>>
  /\ UNCHANGED bids

Spec == Init /\ [][Decrypt]_vars
-----------------------------------------------------------------------------
TypeOK ==
  /\ bids \in Seq(DriverBids)
  /\ Len(bids) > 0
  /\ i \in 0 .. Len(bids)
  /\ best \in 0 .. i
  /\ bestVal \in Int

(* Bid a wins over bid b, said of the bids and not of their keys: the      *)
(* price decides, and only a tie in price is broken by star and distance.  *)
Beats(a, b) ==
  \/ a.price < b.price
  \/ a.price = b.price /\ TieBreak(a) < TieBreak(b)

(* The masks decrypted so far have a best one; none of them beats it, and  *)
(* it beats every one before it: equal bids go to the earliest.            *)
BestSoFar ==
  /\ i > 0 => best > 0 /\ bestVal = Mask(bids[best])
  /\ \A j \in 1 .. i : ~Beats(bids[j], bids[best])
  /\ best > 0 => \A j \in 1 .. best - 1 : Beats(bids[best], bids[j])

(* "a 1-cent price difference outranks any tiebreak" (key.go:25): once     *)
(* every mask is decrypted the winner is a lowest price, among those a     *)
(* best tie-break, and among equals the first bid submitted.               *)
CheapestWins ==
  i = Len(bids) =>
    /\ best \in 1 .. Len(bids)
    /\ \A j \in 1 .. Len(bids) :
         \/ bids[best].price < bids[j].price
         \/ /\ bids[best].price = bids[j].price
            /\ \/ TieBreak(bids[best]) < TieBreak(bids[j])
               \/ TieBreak(bids[best]) = TieBreak(bids[j]) /\ best <= j
=============================================================================
