------------------------------ MODULE OfferPool ------------------------------
(***************************************************************************)
(* One offerpool.Pool: the rider's calls, the sweeper goroutine that New   *)
(* starts, and the clock.  Every method runs under p.mu from its first     *)
(* line to its last, so each is one action.                                *)
(*                                                                         *)
(* The sweeper is driven by time.Tick: it is due every SweepPeriod units   *)
(* and runs at most Slack units late, less than a period, so that the      *)
(* ticker never has to drop a tick.  Slack is the one thing assumed of the *)
(* Go scheduler.                                                           *)
(***************************************************************************)
EXTENDS OfferPoolOps

CONSTANTS
  SweepPeriod,  \* time between two ticks of the sweeper (one second)
  Slack,        \* how late the sweeper may run after its tick
  MaxTime       \* bound: the clock stops there

ASSUME SweepPeriodAssumption == SweepPeriod \in Nat
ASSUME SlackAssumption       == Slack \in Nat /\ Slack < SweepPeriod
ASSUME MaxTimeAssumption     == MaxTime \in Nat

VARIABLES
  held,      \* the pool's map of offers
  now,       \* time.Now(), in clock units since New
  nextSweep, \* the instant of the sweeper's next tick
  by         \* history: whose doing the last step was, the rider's or time's

vars == <<held, now, nextSweep, by>>

(* The longest an offer can stay in the map past its expiry. *)
Grace == SweepPeriod + Slack

Init ==
  /\ held = EmptyTable
  /\ now = 0
  /\ nextSweep = SweepPeriod
  /\ by = "time"

Hold(id, d) ==
  /\ by' = "rider"
  /\ HasRoom(held)
  /\ held' = HoldIn(held, id, d, now)
  /\ UNCHANGED <<now, nextSweep>>

(* Held is a query with a side effect: what has expired is deleted.  It is *)
(* no wish of the rider's that an offer should end.                        *)
Held ==
  /\ by' = "time"
  /\ held' = HeldIn(held, now)
  /\ UNCHANGED <<now, nextSweep>>

(* Accept tests for the key only: it takes an offer that has expired and   *)
(* that nobody has deleted yet.                                            *)
Accept(id) ==
  /\ by' = "rider"
  /\ id \in Keys(held)
  /\ held' = AcceptIn(held)
  /\ UNCHANGED <<now, nextSweep>>

Cancel(id) ==
  /\ by' = "rider"
  /\ id \in Keys(held)
  /\ held' = CancelIn(held, id)
  /\ UNCHANGED <<now, nextSweep>>

(* A tick of the sweeper goroutine. *)
Sweep ==
  /\ by' = "time"
  /\ now >= nextSweep
  /\ held' = SweepIn(held, now)
  /\ nextSweep' = nextSweep + SweepPeriod
  /\ UNCHANGED now

(* Time passes, but never beyond the latest instant at which the pending   *)
(* tick of the sweeper is served.                                          *)
Tick ==
  /\ by' = "time"
  /\ now < MaxTime
  /\ now < nextSweep + Slack
  /\ now' = now + 1
  /\ UNCHANGED <<held, nextSweep>>

Next ==
  \/ \E id \in OfferIds, d \in Drivers : Hold(id, d)
  \/ Held
  \/ \E id \in OfferIds : Accept(id) \/ Cancel(id)
  \/ Sweep
  \/ Tick

Spec == Init /\ [][Next]_vars

(* The clock advances and the sweeper goroutine is scheduled.  No client   *)
(* is obliged to call anything.                                            *)
Fairness == WF_vars(Tick) /\ WF_vars(Sweep)

FairSpec == Spec /\ Fairness
-----------------------------------------------------------------------------
TypeOK ==
  /\ held \in Tables
  /\ now \in Nat
  /\ nextSweep \in Nat
  /\ by \in {"rider", "time"}

(* "max 3 concurrent": whatever the order of holds, cancels, accepts,      *)
(* expiries and sweeps, the map never has more than MaxHeld keys.          *)
AtMostMaxHeld == Cardinality(Keys(held)) <= MaxHeld

(* "async expiry": no offer is in the map, to be counted, excluded or      *)
(* accepted, more than Grace units after it expired, although Accept,      *)
(* Cancel, Hold and Excluded never look at the clock.                      *)
ExpiredSoonGone ==
  \A id \in Keys(held) : now <= held[id].expiresAt + Grace

(* The sweeper alone empties the pool: every offer that is held leaves the *)
(* map in the end, or is replaced by a later offer under its id, even when *)
(* no client ever calls again.  The clock of the model stops at MaxTime,   *)
(* so this is said of the offers that expire early enough.                 *)
OffersRunOut ==
  \A id \in OfferIds : \A t \in 0 .. MaxTime - Grace :
    (id \in Keys(held) /\ held[id].expiresAt = t)
      ~> ~(id \in Keys(held) /\ held[id].expiresAt = t)

(* The pool with its map, its sweeper and its ticker does what the promise *)
(* says: a standing offer never goes away behind the rider's back, and a   *)
(* lapsed one never stays longer than Grace.                               *)
Promise == INSTANCE OfferPromise WITH offers <- held, clock <- now

KeepsPromise == Promise!PSpec
=============================================================================
