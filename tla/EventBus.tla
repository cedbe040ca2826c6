------------------------------ MODULE EventBus ------------------------------
(***************************************************************************)
(* dashboard.Bus: emitters put events into a buffered channel, one         *)
(* goroutine takes them out and offers each to the channel of every        *)
(* subscriber, under the read lock; subscribers come and go under the      *)
(* write lock, and each reads its own channel at its own pace.  Nobody     *)
(* ever blocks on a full channel: what does not fit is dropped.            *)
(***************************************************************************)
EXTENDS Integers, Sequences, FiniteSets

CONSTANTS
  Subs,      \* the dashboards that may connect, each at most once
  BufSize,   \* capacity of the bus's channel and of every subscriber's
  MaxEvents  \* bound on the events emitted

ASSUME BufSizeAssumption   == BufSize \in Nat \ {0}
ASSUME MaxEventsAssumption == MaxEvents \in Nat

VARIABLES
  emitted,  \* how many events were emitted: they are numbered from 1
  in,       \* the channel into the bus
  hand,     \* the event that broadcast has taken out, 0 for none
  todo,     \* the subscribers still to be offered it, under the read lock
  locked,   \* broadcast holds the read lock
  status,   \* of each dashboard: "new", "subscribed" or "gone"
  ch,       \* the channel of each subscriber
  got,      \* history: the events each dashboard has read, in order
  missed    \* history: the events dropped on each subscriber's channel

vars == <<emitted, in, hand, todo, locked, status, ch, got, missed>>

subscribed == {s \in Subs : status[s] = "subscribed"}

Init ==
  /\ emitted = 0 /\ in = <<>> /\ hand = 0 /\ todo = {} /\ locked = FALSE
  /\ status = [s \in Subs |-> "new"]
  /\ ch = [s \in Subs |-> <<>>]
  /\ got = [s \in Subs |-> <<>>]
  /\ missed = [s \in Subs |-> {}]

(* Slip: a channel takes one event less than it holds. *)
FullSlip(channel) == Len(channel) + 1 >= BufSize

Full(channel) == Len(channel) >= BufSize

Emit ==
  /\ emitted < MaxEvents
  /\ emitted' = emitted + 1
  /\ in' = IF Full(in) THEN in ELSE Append(in, emitted')
  /\ UNCHANGED <<hand, todo, locked, status, ch, got, missed>>

(* broadcast receives an event ... *)
Take ==
  /\ hand = 0 /\ in # <<>>
  /\ hand' = Head(in) /\ in' = Tail(in)
  /\ UNCHANGED <<emitted, todo, locked, status, ch, got, missed>>

(* ... takes the read lock ... *)
RLock ==
  /\ hand # 0 /\ ~locked
  /\ locked' = TRUE /\ todo' = subscribed
  /\ UNCHANGED <<emitted, in, hand, status, ch, got, missed>>

(* Slip: the round ends at the first full channel. *)
OfferSlip(s) ==
  /\ s \in todo
  /\ IF Full(ch[s])
     THEN missed' = [missed EXCEPT ![s] = @ \cup {hand}] /\ todo' = {} /\ UNCHANGED ch
     ELSE ch' = [ch EXCEPT ![s] = Append(@, hand)] /\ todo' = todo \ {s} /\ UNCHANGED missed
  /\ UNCHANGED <<emitted, in, hand, locked, status, got>>

(* Slip: a full channel is waited for. *)
BlockingSlip(s) ==
  /\ s \in todo /\ ~Full(ch[s])
  /\ ch' = [ch EXCEPT ![s] = Append(@, hand)] /\ todo' = todo \ {s}
  /\ UNCHANGED <<emitted, in, hand, locked, status, got, missed>>

(* ... offers the event to one subscriber after the other ... *)
Offer(s) ==
  /\ s \in todo
  /\ todo' = todo \ {s}
  /\ IF Full(ch[s])
     THEN missed' = [missed EXCEPT ![s] = @ \cup {hand}] /\ UNCHANGED ch
     ELSE ch' = [ch EXCEPT ![s] = Append(@, hand)] /\ UNCHANGED missed
  /\ UNCHANGED <<emitted, in, hand, locked, status, got>>

(* Slip: the event stays in hand. *)
RUnlockSlip ==
  /\ locked /\ todo = {}
  /\ locked' = FALSE
  /\ UNCHANGED <<emitted, in, hand, todo, status, ch, got, missed>>

(* ... and releases the lock. *)
RUnlock ==
  /\ locked /\ todo = {}
  /\ locked' = FALSE /\ hand' = 0
  /\ UNCHANGED <<emitted, in, todo, status, ch, got, missed>>

Subscribe(s) ==
  /\ status[s] = "new" /\ ~locked
  /\ status' = [status EXCEPT ![s] = "subscribed"]
  /\ UNCHANGED <<emitted, in, hand, todo, locked, ch, got, missed>>

(* The client disconnects: what is left in the channel is never read. *)
Unsubscribe(s) ==
  /\ status[s] = "subscribed" /\ ~locked
  /\ status' = [status EXCEPT ![s] = "gone"]
  /\ UNCHANGED <<emitted, in, hand, todo, locked, ch, got, missed>>

Read(s) ==
  /\ status[s] = "subscribed" /\ ch[s] # <<>>
  /\ got' = [got EXCEPT ![s] = Append(@, Head(ch[s]))]
  /\ ch' = [ch EXCEPT ![s] = Tail(@)]
  /\ UNCHANGED <<emitted, in, hand, todo, locked, status, missed>>

Broadcast == Take \/ RLock \/ (\E s \in Subs : Offer(s)) \/ RUnlock

Next ==
  \/ Emit \/ Broadcast
  \/ \E s \in Subs : Subscribe(s) \/ Unsubscribe(s) \/ Read(s)

Spec == Init /\ [][Next]_vars

(* The broadcasting goroutine is scheduled; nobody else has to move. *)
FairSpec == Spec /\ WF_vars(Broadcast)
-----------------------------------------------------------------------------
Events == 1 .. MaxEvents

TypeOK ==
  /\ emitted \in 0 .. MaxEvents
  /\ in \in Seq(Events) /\ Len(in) <= BufSize
  /\ hand \in 0 .. MaxEvents
  /\ todo \in SUBSET Subs /\ locked \in BOOLEAN
  /\ status \in [Subs -> {"new", "subscribed", "gone"}]
  /\ ch \in [Subs -> Seq(Events)] /\ \A s \in Subs : Len(ch[s]) <= BufSize
  /\ got \in [Subs -> Seq(Events)]
  /\ missed \in [Subs -> SUBSET Events]

(* What a dashboard has read, followed by what waits in its channel. *)
Stream(s) == got[s] \o ch[s]

(* A dashboard sees events in the order of their emission and none twice,  *)
(* whatever was dropped before it in either channel.                       *)
StreamsInOrder ==
  \A s \in Subs : \A j, k \in DOMAIN Stream(s) : j < k => Stream(s)[j] < Stream(s)[k]

(* The events that two dashboards have both been offered since the later   *)
(* of them joined: a slow dashboard never costs another one an event.  If  *)
(* one of them read or missed an event, the other one, subscribed before   *)
(* and after that event, read or missed it as well.                        *)
Offered(s) == {Stream(s)[k] : k \in DOMAIN Stream(s)} \cup missed[s]

NobodySkipped ==
  \A s, t \in Subs : \A e \in Offered(s) :
    ((\E a \in Offered(t) : a < e) /\ (\E z \in Offered(t) : e < z)) => e \in Offered(t)

(* An event is missed only by a subscriber that was BufSize events behind: *)
(* those it had not read yet were all emitted before the missed one.       *)
MissedOnlyWhenFull ==
  \A s \in Subs : \A e \in missed[s] :
    Cardinality({k \in DOMAIN Stream(s) : Stream(s)[k] < e}) >= BufSize

(* Dashboards that never read do not hold up the bus: what is in its       *)
(* channel is taken out, and the lock that Subscribe waits for is freed.   *)
BusKeepsGoing ==
  /\ \A e \in Events : (\E k \in DOMAIN in : in[k] = e) ~> ~(\E k \in DOMAIN in : in[k] = e)
  /\ locked ~> ~locked
=============================================================================
