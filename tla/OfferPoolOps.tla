---------------------------- MODULE OfferPoolOps ----------------------------
(***************************************************************************)
(* The table of held offers of one offerpool.Pool, and what each method    *)
(* of the pool does to it while it holds p.mu.  The methods are operators  *)
(* on the table, so that a module with one pool (OfferPool) and a module   *)
(* with one pool per session (RideServer) share them.                      *)
(*                                                                         *)
(* A table is a function on the offer ids: the offer stored under the id,  *)
(* or NoOffer where the Go map has no such key.  Of an offer only the      *)
(* driver and the instant it expires matter here; the price and the star   *)
(* are carried along by the code and never read by the pool.               *)
(*                                                                         *)
(* In this and the other modules a definition whose name ends in Slip is   *)
(* not part of the model: it is the definition that follows it with a      *)
(* plausible mistake in it, kept to show which property would notice.      *)
(***************************************************************************)
EXTENDS Integers, FiniteSets

CONSTANTS
  OfferIds,     \* the offer ids a rider may use
  Drivers,      \* the pseudonyms that may stand in an offer
  NoOffer,      \* the value of a key that is not in the map
  MaxHeld,      \* capacity of the pool (New's max, 3 on the server)
  TTL           \* life of an offer in clock units (New's ttl)

ASSUME OfferIdsAssumption == IsFiniteSet(OfferIds)
ASSUME MaxHeldAssumption  == MaxHeld \in Nat
ASSUME TTLAssumption      == TTL \in Nat

Offers == [driver : Drivers, expiresAt : Nat]

(* NoOffer is no offer: a key is present exactly when its value is one.    *)
ASSUME NoOfferAssumption  == NoOffer \notin Offers

Tables == [OfferIds -> Offers \cup {NoOffer}]

EmptyTable == [id \in OfferIds |-> NoOffer]

(* The keys of the Go map. *)
Keys(held) == {id \in OfferIds : held[id] # NoOffer}

(* Slip: one offer too many. *)
HasRoomSlip(held) == Cardinality(Keys(held)) <= MaxHeld

(* Hold's capacity test: it counts keys, so an offer that has expired and  *)
(* is not yet swept takes a place, and so does the offer about to be       *)
(* replaced when the id is already in use.                                 *)
HasRoom(held) == Cardinality(Keys(held)) < MaxHeld

HoldIn(held, id, d, now) ==
  [held EXCEPT ![id] = [driver |-> d, expiresAt |-> now + TTL]]

(* Slip: an offer is taken to be over one unit early. *)
ExpiredSlip(held, now) == {id \in Keys(held) : now + 1 >= held[id].expiresAt}

(* The offers that Held deletes: now is not before the expiry. *)
Expired(held, now) == {id \in Keys(held) : now >= held[id].expiresAt}

(* Slip: the life of the offer is added once more. *)
OverdueSlip(held, now) == {id \in Keys(held) : now > held[id].expiresAt + TTL}

(* The offers that sweep deletes: now is strictly after the expiry. *)
Overdue(held, now) == {id \in Keys(held) : now > held[id].expiresAt}

Drop(held, ids) == [id \in OfferIds |-> IF id \in ids THEN NoOffer ELSE held[id]]

HeldIn(held, now)  == Drop(held, Expired(held, now))

(* Slip: the sweep finds nothing to delete. *)
SweepInSlip(held, now) == held

SweepIn(held, now) == Drop(held, Overdue(held, now))

CancelIn(held, id) == Drop(held, {id})

(* Accept replaces the map by an empty one. *)
AcceptIn(held) == Drop(held, Keys(held))

(* Excluded looks at the keys alone, whether their offers expired or not.  *)
Excluded(held, d) == \E id \in Keys(held) : held[id].driver = d
=============================================================================
