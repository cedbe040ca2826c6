--------------------------- MODULE OfferPoolProofs ---------------------------
(***************************************************************************)
(* Theorems about the offer pool, for every set of ids and drivers, every  *)
(* capacity, life, period and slack.                                       *)
(***************************************************************************)
EXTENDS OfferPool, FiniteSetTheorems, TLAPS

(* The two named assumptions on the constants that almost every step uses. *)
USE TTLAssumption, SweepPeriodAssumption, SlackAssumption, NoOfferAssumption

-----------------------------------------------------------------------------
(* Operators on the table. *)

(* Dropping ids yields a table again, whose keys are the keys not dropped  *)
(* and whose surviving offers are unchanged.                               *)
LEMMA DropLemma ==
  ASSUME NEW t \in Tables, NEW ids
  PROVE  /\ Drop(t, ids) \in Tables
         /\ Keys(Drop(t, ids)) = Keys(t) \ ids
         /\ \A id \in Keys(Drop(t, ids)) : Drop(t, ids)[id] = t[id]
  BY DEF Drop, Keys, Tables

(* Holding an offer yields a table with at most the id as a new key.       *)
LEMMA HoldLemma ==
  ASSUME NEW t \in Tables, NEW id \in OfferIds, NEW d \in Drivers, NEW n \in Nat
  PROVE  /\ HoldIn(t, id, d, n) \in Tables
         /\ Keys(HoldIn(t, id, d, n)) = Keys(t) \cup {id}
         /\ HoldIn(t, id, d, n)[id] = [driver |-> d, expiresAt |-> n + TTL]
         /\ \A j \in OfferIds \ {id} : HoldIn(t, id, d, n)[j] = t[j]
  <1> DEFINE o == [driver |-> d, expiresAt |-> n + TTL]
  <1>1. o \in Offers
    BY DEF Offers
  <1>2. o # NoOffer
    BY <1>1
  <1>3. HoldIn(t, id, d, n) = [t EXCEPT ![id] = o]
    BY DEF HoldIn
  <1> HIDE DEF o
  <1>4. /\ HoldIn(t, id, d, n) \in Tables
        /\ Keys(HoldIn(t, id, d, n)) = Keys(t) \cup {id}
        /\ HoldIn(t, id, d, n)[id] = o
        /\ \A j \in OfferIds \ {id} : HoldIn(t, id, d, n)[j] = t[j]
    BY <1>1, <1>2, <1>3 DEF Tables, Keys
  <1>5. QED
    BY <1>4 DEF o

(* An offer that is in a table has a driver and an expiry. *)
LEMMA KeysLemma ==
  ASSUME NEW t \in Tables
  PROVE  /\ Keys(t) \subseteq OfferIds
         /\ \A id \in Keys(t) : t[id] \in Offers /\ t[id].expiresAt \in Nat
  BY DEF Keys, Tables, Offers

(* The keys of a table are a finite set. *)
LEMMA KeysFinite ==
  ASSUME NEW t
  PROVE  IsFiniteSet(Keys(t)) /\ Cardinality(Keys(t)) \in Nat
  <1>1. Keys(t) \subseteq OfferIds
    BY DEF Keys
  <1>2. QED
    BY <1>1, OfferIdsAssumption, FS_Subset, FS_CardinalityType

(* The empty table is a table without keys. *)
LEMMA EmptyLemma == EmptyTable \in Tables /\ Keys(EmptyTable) = {}
  BY DEF EmptyTable, Tables, Keys

-----------------------------------------------------------------------------
(* Type correctness: in every reachable state the map holds offers with an *)
(* expiry, and the clock and the sweeper's next tick are naturals.         *)
THEOREM TypeCorrect == Spec => []TypeOK
  <1>1. Init => TypeOK
    <2> SUFFICES ASSUME Init PROVE TypeOK
      OBVIOUS
    <2>1. held \in Tables /\ now \in Nat /\ nextSweep \in Nat
      BY EmptyLemma DEF Init
    <2>2. by \in {"rider", "time"}
      BY DEF Init
    <2>3. QED
      BY <2>1, <2>2 DEF TypeOK
  <1>2. TypeOK /\ [Next]_vars => TypeOK'
    <2> SUFFICES ASSUME TypeOK, [Next]_vars PROVE TypeOK'
      OBVIOUS
    <2>1. ASSUME NEW id \in OfferIds, NEW d \in Drivers, Hold(id, d)
          PROVE  TypeOK'
      BY <2>1, HoldLemma DEF Hold, TypeOK
    <2>2. CASE Held
      BY <2>2, DropLemma DEF Held, HeldIn, TypeOK
    <2>3. ASSUME NEW id \in OfferIds, Accept(id) PROVE TypeOK'
      BY <2>3, DropLemma DEF Accept, AcceptIn, TypeOK
    <2>4. ASSUME NEW id \in OfferIds, Cancel(id) PROVE TypeOK'
      BY <2>4, DropLemma DEF Cancel, CancelIn, TypeOK
    <2>5. CASE Sweep
      BY <2>5, DropLemma DEF Sweep, SweepIn, TypeOK
    <2>6. CASE Tick
      BY <2>6 DEF Tick, TypeOK
    <2>7. CASE UNCHANGED vars
      BY <2>7 DEF vars, TypeOK
    <2>8. QED
      BY <2>1, <2>2, <2>3, <2>4, <2>5, <2>6, <2>7 DEF Next
  <1>3. QED
    BY <1>1, <1>2, PTL DEF Spec

-----------------------------------------------------------------------------
(* The capacity holds: Hold is the only call that adds a key, and it adds  *)
(* at most one to a table that has room.                                   *)
THEOREM HeldBounded == Spec => []AtMostMaxHeld
  <1>1. Init => AtMostMaxHeld
    BY EmptyLemma, FS_EmptySet, MaxHeldAssumption DEF Init, AtMostMaxHeld
  <1>2. TypeOK /\ AtMostMaxHeld /\ [Next]_vars => AtMostMaxHeld'
    <2> SUFFICES ASSUME TypeOK, AtMostMaxHeld, [Next]_vars
                 PROVE  AtMostMaxHeld'
      OBVIOUS
    <2>1. ASSUME Keys(held') \subseteq Keys(held) PROVE AtMostMaxHeld'
      <3>1. Cardinality(Keys(held')) <= Cardinality(Keys(held))
        BY <2>1, KeysFinite, FS_Subset
      <3>2. QED
        BY <3>1, KeysFinite, MaxHeldAssumption DEF AtMostMaxHeld
    <2>2. ASSUME NEW id \in OfferIds, NEW d \in Drivers, Hold(id, d)
          PROVE  AtMostMaxHeld'
      <3>1. Keys(held') = Keys(held) \cup {id}
        BY <2>2, HoldLemma DEF Hold, TypeOK
      <3>2. Cardinality(Keys(held) \cup {id}) <= Cardinality(Keys(held)) + 1
        <4>1. CASE id \in Keys(held)
          <5>1. Keys(held) \cup {id} = Keys(held)
            BY <4>1
          <5>2. QED
            BY <5>1, KeysFinite
        <4>2. CASE id \notin Keys(held)
          <5>1. Cardinality(Keys(held) \cup {id}) = Cardinality(Keys(held)) + 1
            BY <4>2, KeysFinite, FS_AddElement, Zenon
          <5>2. QED
            BY <5>1, KeysFinite
        <4>3. QED
          BY <4>1, <4>2
      <3>3. Cardinality(Keys(held)) < MaxHeld
        BY <2>2 DEF Hold, HasRoom
      <3>4. Cardinality(Keys(held')) \in Nat /\ Cardinality(Keys(held)) \in Nat
        BY KeysFinite
      <3>5. QED
        BY <3>1, <3>2, <3>3, <3>4, MaxHeldAssumption DEF AtMostMaxHeld
    <2>3. CASE Held
      BY <2>1, <2>3, DropLemma DEF Held, HeldIn, TypeOK
    <2>4. ASSUME NEW id \in OfferIds, Accept(id) PROVE AtMostMaxHeld'
      BY <2>1, <2>4, DropLemma DEF Accept, AcceptIn, TypeOK
    <2>5. ASSUME NEW id \in OfferIds, Cancel(id) PROVE AtMostMaxHeld'
      BY <2>1, <2>5, DropLemma DEF Cancel, CancelIn, TypeOK
    <2>6. CASE Sweep
      BY <2>1, <2>6, DropLemma DEF Sweep, SweepIn, TypeOK
    <2>7. CASE Tick \/ UNCHANGED vars
      BY <2>1, <2>7 DEF Tick, vars
    <2>8. QED
      BY <2>2, <2>3, <2>4, <2>5, <2>6, <2>7 DEF Next
  <1>3. QED
    BY <1>1, <1>2, TypeCorrect, PTL DEF Spec

-----------------------------------------------------------------------------
(* Why no offer outlives its expiry by more than Grace.  The clock never   *)
(* runs more than Slack past the pending tick, and every offer in the map  *)
(* expires no earlier than one period before that tick: the sweep of the   *)
(* tick before saw it, or it was added later.                              *)
SweeperInv ==
  /\ now <= nextSweep + Slack
  /\ nextSweep <= now + SweepPeriod
  /\ \A id \in Keys(held) : nextSweep <= held[id].expiresAt + SweepPeriod

(* A new pool is empty and its first tick is one period away. *)
LEMMA SweeperInvInit == Init => SweeperInv
  BY EmptyLemma DEF Init, SweeperInv

(* A step that only deletes offers keeps the sweeper's invariant. *)
LEMMA SweeperInvDrop ==
  ASSUME TypeOK, SweeperInv, NEW ids, held' = Drop(held, ids),
         UNCHANGED <<now, nextSweep>>
  PROVE  SweeperInv'
  <1>1. /\ Keys(held') \subseteq Keys(held)
        /\ \A id \in Keys(held') : held'[id] = held[id]
    BY DropLemma DEF TypeOK
  <1>2. QED
    BY <1>1 DEF SweeperInv

(* Every step keeps the sweeper's invariant; the sweep itself moves the    *)
(* pending tick one period on, and leaves only offers that expire at or    *)
(* after the instant it runs.                                              *)
LEMMA SweeperInvNext == TypeOK /\ SweeperInv /\ [Next]_vars => SweeperInv'
  <1> SUFFICES ASSUME TypeOK, SweeperInv, [Next]_vars PROVE SweeperInv'
    OBVIOUS
  <1>1. ASSUME NEW id \in OfferIds, NEW d \in Drivers, Hold(id, d)
        PROVE  SweeperInv'
    <2>1. /\ Keys(held') = Keys(held) \cup {id}
          /\ held'[id].expiresAt = now + TTL
          /\ \A j \in OfferIds \ {id} : held'[j] = held[j]
      <3>1. held' = HoldIn(held, id, d, now) /\ held \in Tables /\ now \in Nat
        BY <1>1 DEF Hold, TypeOK
      <3>2. held'[id] = [driver |-> d, expiresAt |-> now + TTL]
        BY <3>1, HoldLemma
      <3>3. QED
        BY <3>1, <3>2, HoldLemma
    <2>2. nextSweep <= now + TTL + SweepPeriod
      BY DEF SweeperInv, TypeOK
    <2>3. UNCHANGED <<now, nextSweep>>
      BY <1>1 DEF Hold
    <2>4. \A j \in Keys(held') : nextSweep' <= held'[j].expiresAt + SweepPeriod
      BY <2>1, <2>2, <2>3, KeysLemma DEF SweeperInv, TypeOK
    <2>5. QED
      BY <2>3, <2>4 DEF SweeperInv
  <1>2. CASE Held
    BY <1>2, SweeperInvDrop DEF Held, HeldIn
  <1>3. ASSUME NEW id \in OfferIds, Accept(id) PROVE SweeperInv'
    BY <1>3, SweeperInvDrop DEF Accept, AcceptIn
  <1>4. ASSUME NEW id \in OfferIds, Cancel(id) PROVE SweeperInv'
    BY <1>4, SweeperInvDrop DEF Cancel, CancelIn
  <1>5. CASE Sweep
    <2>1. /\ nextSweep' = nextSweep + SweepPeriod
          /\ now' = now
          /\ now >= nextSweep
          /\ held' = Drop(held, Overdue(held, now))
      BY <1>5 DEF Sweep, SweepIn
    <2>2. /\ Keys(held') = Keys(held) \ Overdue(held, now)
          /\ \A id \in Keys(held') : held'[id] = held[id]
      BY <2>1, DropLemma DEF TypeOK
    <2>3. \A id \in Keys(held') : now <= held'[id].expiresAt
      BY <2>2, KeysLemma DEF Overdue, TypeOK
    <2>4. \A id \in Keys(held') : held'[id].expiresAt \in Nat
      BY <2>2, KeysLemma DEF TypeOK
    <2>5. \A id \in Keys(held') : nextSweep' <= held'[id].expiresAt + SweepPeriod
      BY <2>1, <2>3, <2>4 DEF TypeOK
    <2>6. now' <= nextSweep' + Slack /\ nextSweep' <= now' + SweepPeriod
      BY <2>1 DEF TypeOK, SweeperInv
    <2>7. QED
      BY <2>5, <2>6 DEF SweeperInv
  <1>6. CASE Tick
    BY <1>6, KeysLemma DEF Tick, SweeperInv, TypeOK
  <1>7. CASE UNCHANGED vars
    BY <1>7 DEF vars, SweeperInv
  <1>8. QED
    BY <1>1, <1>2, <1>3, <1>4, <1>5, <1>6, <1>7 DEF Next

(* The sweeper's invariant bounds how long an expired offer stays. *)
LEMMA SweeperInvGrace == TypeOK /\ SweeperInv => ExpiredSoonGone
  BY KeysLemma DEF TypeOK, SweeperInv, ExpiredSoonGone, Grace

(* The sweeper's invariant holds in every reachable state. *)
LEMMA SweeperInvHolds == Spec => []SweeperInv
  BY SweeperInvInit, SweeperInvNext, TypeCorrect, PTL DEF Spec

(* An offer that has expired is gone from the map Grace units later at the *)
(* latest, whatever the clients call and however late, up to Slack, each   *)
(* tick of the sweeper is served.                                          *)
THEOREM ExpiredGoneInTime == Spec => []ExpiredSoonGone
  BY TypeCorrect, SweeperInvHolds, SweeperInvGrace, PTL

-----------------------------------------------------------------------------
(* The pool implements its promise: the map, the sweeper and the ticker    *)
(* never do what OfferPromise does not allow.  Holding an offer grants it, *)
(* Held and a sweep let lapsed offers disappear, a tick lets time pass     *)
(* only while no offer is overdue by more than Grace.                      *)

(* The cardinality that the promise counts with is the pool's. *)
LEMMA PromiseCardinality ==
  ASSUME NEW S
  PROVE  Promise!Cardinality(S) = Cardinality(S)
  BY DEF Cardinality, Promise!Cardinality

(* An empty pool at time zero is an initial state of the promise. *)
LEMMA PromiseInit == Init => Promise!PInit
  BY DEF Init, Promise!PInit, EmptyTable, Promise!EmptyTable

(* A step that deletes only offers that have expired is a lapse. *)
LEMMA DropIsLapse ==
  ASSUME TypeOK, NEW ids \in SUBSET Expired(held, now),
         held' = Drop(held, ids), now' = now, by' = "time"
  PROVE  Promise!Lapse
  <1>1. ids \in SUBSET (Promise!Keys(held) \ Promise!Standing)
    BY KeysLemma DEF Expired, Keys, Promise!Keys, Promise!Standing, TypeOK
  <1>2. held' = [id \in OfferIds |-> IF id \in ids THEN NoOffer ELSE held[id]]
    BY DEF Drop
  <1>3. QED
    BY <1>1, <1>2 DEF Promise!Lapse

(* Every step of the pool is a step of the promise or leaves it alone. *)
LEMMA PromiseNext ==
  TypeOK /\ SweeperInv /\ AtMostMaxHeld /\ ExpiredSoonGone'
    /\ [Next]_vars => [Promise!PNext]_(Promise!promise)
  <1> SUFFICES ASSUME TypeOK, ExpiredSoonGone', [Next]_vars
               PROVE  [Promise!PNext]_(Promise!promise)
    OBVIOUS
  <1>1. ASSUME NEW id \in OfferIds, NEW d \in Drivers, Hold(id, d)
        PROVE  Promise!Grant(id, d)
    <2>1. Cardinality(Promise!Standing \ {id}) <= Cardinality(Keys(held))
      <3>1. Promise!Standing \ {id} \subseteq Keys(held)
        BY DEF Promise!Standing, Promise!Keys, Keys
      <3>2. QED
        BY <3>1, KeysFinite, FS_Subset
    <2>2. Cardinality(Promise!Standing \ {id}) < MaxHeld
      <3>1. IsFiniteSet(Promise!Standing \ {id})
        BY KeysFinite, FS_Subset DEF Promise!Standing, Promise!Keys, Keys
      <3>2. Cardinality(Promise!Standing \ {id}) \in Nat
        BY <3>1, FS_CardinalityType
      <3>3. Cardinality(Keys(held)) < MaxHeld
        BY <1>1 DEF Hold, HasRoom
      <3>4. QED
        BY <2>1, <3>2, <3>3, KeysFinite, MaxHeldAssumption
    <2>3. held' = [held EXCEPT ![id] = [driver |-> d, expiresAt |-> now + TTL]]
      BY <1>1 DEF Hold, HoldIn
    <2>4. now' = now /\ by' = "rider"
      BY <1>1 DEF Hold
    <2>5. QED
      BY <2>2, <2>3, <2>4, PromiseCardinality DEF Promise!Grant
  <1>2. CASE Held
    BY <1>2, DropIsLapse DEF Held, HeldIn, Promise!PNext
  <1>3. ASSUME NEW id \in OfferIds, Accept(id) PROVE Promise!Take(id)
    BY <1>3 DEF Accept, AcceptIn, Drop, Keys, Promise!Take, Promise!Keys,
                Promise!EmptyTable, TypeOK, Tables
  <1>4. ASSUME NEW id \in OfferIds, Cancel(id) PROVE Promise!Withdraw(id)
    BY <1>4 DEF Cancel, CancelIn, Drop, Keys, Promise!Withdraw, Promise!Keys,
                TypeOK, Tables
  <1>5. CASE Sweep
    <2>1. Overdue(held, now) \in SUBSET Expired(held, now)
      BY KeysLemma DEF Overdue, Expired, TypeOK
    <2>2. QED
      BY <1>5, <2>1, DropIsLapse DEF Sweep, SweepIn, Promise!PNext
  <1>6. CASE Tick
    <2>1. \A id \in Promise!Keys(held) : now' <= held[id].expiresAt + Grace
      BY <1>6 DEF Tick, ExpiredSoonGone, Keys, Promise!Keys
    <2>2. QED
      BY <1>6, <2>1 DEF Tick, Promise!Pass, Promise!PNext
  <1>7. CASE UNCHANGED vars
    BY <1>7 DEF vars, Promise!promise
  <1>8. QED
    BY <1>1, <1>2, <1>3, <1>4, <1>5, <1>6, <1>7 DEF Next, Promise!PNext

(* The refinement: every behaviour of the pool is one of the promise, so a *)
(* standing offer ends only by the rider's doing and a lapsed one is gone  *)
(* after Grace units.                                                      *)
THEOREM PoolKeepsPromise == Spec => KeepsPromise
  BY PromiseInit, PromiseNext, TypeCorrect, SweeperInvHolds, HeldBounded,
     ExpiredGoneInTime, PTL DEF Spec, KeepsPromise, Promise!PSpec
=============================================================================
