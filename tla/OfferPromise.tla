----------------------------- MODULE OfferPromise -----------------------------
(***************************************************************************)
(* What a pool of held offers promises to a rider and to the drivers who   *)
(* won an auction, with no sweeper and no map in it:                       *)
(*   - at most MaxHeld offers stand at a time;                             *)
(*   - an offer stands for TTL units; nobody but the rider ends it before, *)
(*     by withdrawing it, by granting another one under its id, or by      *)
(*     accepting an offer, which ends them all;                            *)
(*   - once it has lapsed it may disappear at any moment, and no offer is  *)
(*     left more than Grace units after it lapsed.  Until it disappears it *)
(*     can still be accepted.                                              *)
(* A change is the rider's doing or it comes with time, and "by" says      *)
(* which: a standing offer cannot be ended in the name of time, nor can a  *)
(* part of the system pass for the rider.                                  *)
(***************************************************************************)
EXTENDS OfferPoolOps

CONSTANT Grace

VARIABLES
  offers, clock,
  by  \* whose doing the last change was: "rider" or "time"

promise == <<offers, clock>>

Standing == {id \in Keys(offers) : clock < offers[id].expiresAt}

PInit == offers = EmptyTable /\ clock = 0 /\ by = "time"

Grant(id, d) ==
  /\ by' = "rider"
  /\ Cardinality(Standing \ {id}) < MaxHeld
  /\ offers' = [offers EXCEPT
                  ![id] = [driver |-> d, expiresAt |-> clock + TTL]]
  /\ UNCHANGED clock

(* Taking one offer ends them all. *)
Take(id) ==
  /\ by' = "rider"
  /\ id \in Keys(offers)
  /\ offers' = EmptyTable
  /\ UNCHANGED clock

Withdraw(id) ==
  /\ by' = "rider"
  /\ id \in Keys(offers)
  /\ offers' = [offers EXCEPT ![id] = NoOffer]
  /\ UNCHANGED clock

(* Any of the lapsed offers may disappear; a standing one may not. *)
Lapse ==
  /\ by' = "time"
  /\ \E gone \in SUBSET (Keys(offers) \ Standing) :
       offers' = [id \in OfferIds |-> IF id \in gone THEN NoOffer ELSE offers[id]]
  /\ UNCHANGED clock

Pass ==
  /\ by' = "time"
  /\ clock' = clock + 1
  /\ \A id \in Keys(offers) : clock' <= offers[id].expiresAt + Grace
  /\ UNCHANGED offers

PNext ==
  \/ \E id \in OfferIds, d \in Drivers : Grant(id, d)
  \/ \E id \in OfferIds : Take(id) \/ Withdraw(id)
  \/ Lapse
  \/ Pass

PSpec == PInit /\ [][PNext]_promise
=============================================================================
