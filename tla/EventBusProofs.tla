--------------------------- MODULE EventBusProofs ---------------------------
(***************************************************************************)
(* Theorems about the dashboard's bus, for any dashboards, any capacity of *)
(* the channels and any number of events.                                  *)
(***************************************************************************)
EXTENDS EventBus, FiniteSetTheorems, TLAPS

(* The read lock is held to hand one event out, and its round is among the *)
(* dashboards that were there at its start.                                *)
Locking ==
  /\ locked => hand # 0
  /\ ~locked => todo = {}
  /\ todo \subseteq subscribed

(* Events pass through the bus in a line: what waits in its channel comes  *)
(* after the event in hand.                                                *)
InLine ==
  /\ \A j, k \in DOMAIN in : j < k => in[j] < in[k]
  /\ \A k \in DOMAIN in : in[k] <= emitted /\ hand < in[k]
  /\ hand <= emitted

(* What a dashboard was offered comes before the event in hand, which it   *)
(* has been offered if its turn in the round is over.                      *)
Behind ==
  \A s \in Subs :
    /\ \A e \in Offered(s) :
         /\ e <= emitted
         /\ \A k \in DOMAIN in : e < in[k]
         /\ hand # 0 => e <= hand
         /\ hand # 0 /\ (s \in todo \/ ~locked) => e < hand
    /\ locked /\ s \in subscribed \ todo => hand \in Offered(s)
    /\ status[s] = "new" => Offered(s) = {}

(* A dashboard that was not offered an event which another one was offered *)
(* came later, has gone before, or has its turn still to come.             *)
Excused(e, t) ==
  \/ \A a \in Offered(t) : e < a
  \/ /\ \A a \in Offered(t) : a < e
     /\ status[t] = "gone" \/ (t \in todo /\ e = hand)

Accounted == \A s, t \in Subs : \A e \in Offered(s) \ Offered(t) : Excused(e, t)

Line == TypeOK /\ Locking /\ InLine /\ Behind

IInv == Line /\ StreamsInOrder /\ Accounted /\ MissedOnlyWhenFull
-----------------------------------------------------------------------------
LEMMA AppendProps ==
  ASSUME NEW S, NEW q \in Seq(S), NEW x \in S
  PROVE  /\ Append(q, x) \in Seq(S)
         /\ Len(Append(q, x)) = Len(q) + 1
         /\ DOMAIN Append(q, x) = DOMAIN q \cup {Len(q) + 1}
         /\ \A k \in DOMAIN q : Append(q, x)[k] = q[k]
         /\ Append(q, x)[Len(q) + 1] = x
OBVIOUS

LEMMA TailProps ==
  ASSUME NEW S, NEW q \in Seq(S), q # <<>>
  PROVE  /\ Head(q) \in S /\ Head(q) = q[1] /\ 1 \in DOMAIN q
         /\ Tail(q) \in Seq(S) /\ Len(Tail(q)) = Len(q) - 1
         /\ \A k \in DOMAIN Tail(q) : Tail(q)[k] = q[k + 1] /\ k + 1 \in DOMAIN q
OBVIOUS

(* Reading moves the boundary between what was read and what waits.        *)
LEMMA ReadMoves ==
  ASSUME NEW S, NEW a \in Seq(S), NEW b \in Seq(S), b # <<>>
  PROVE  Append(a, Head(b)) \o Tail(b) = a \o b
<1> DEFINE l == Append(a, Head(b)) \o Tail(b)
           r == a \o b
<1>1. Len(l) = Len(r)
  OBVIOUS
<1>2. l \in Seq(S) /\ r \in Seq(S)
  OBVIOUS
<1>3. ASSUME NEW k \in 1 .. Len(r) PROVE l[k] = r[k]
  <2>1. CASE k <= Len(a)
    BY <2>1
  <2>2. CASE k = Len(a) + 1
    BY <2>2
  <2>3. CASE k > Len(a) + 1
    BY <2>3
  <2> QED
    BY <2>1, <2>2, <2>3
<1> QED
  BY <1>1, <1>2, <1>3

LEMMA OfferMoves ==
  ASSUME NEW S, NEW a \in Seq(S), NEW b \in Seq(S), NEW x \in S
  PROVE  a \o Append(b, x) = Append(a \o b, x)
OBVIOUS
-----------------------------------------------------------------------------
(* The channels and the histories keep their types.                        *)
LEMMA TypesKept == ASSUME TypeOK, Locking, [Next]_vars PROVE TypeOK'
<1> USE BufSizeAssumption, MaxEventsAssumption DEF TypeOK, Events
<1>1. CASE Emit
  <2>1. emitted' \in 1 .. MaxEvents
    BY <1>1 DEF Emit
  <2>2. in' \in Seq(1 .. MaxEvents) /\ Len(in') <= BufSize
    <3>1. CASE Full(in)
      BY <1>1, <3>1 DEF Emit
    <3>2. CASE ~Full(in)
      <4>1. in' = Append(in, emitted')
        BY <1>1, <3>2 DEF Emit
      <4>2. Append(in, emitted') \in Seq(1 .. MaxEvents) /\ Len(Append(in, emitted')) = Len(in) + 1
        BY <2>1, AppendProps
      <4> QED
        BY <3>2, <4>1, <4>2 DEF Full
    <3> QED
      BY <3>1, <3>2
  <2> QED
    BY <1>1, <2>1, <2>2 DEF Emit
<1>2. CASE Take
  <2>1. Head(in) \in 1 .. MaxEvents /\ Tail(in) \in Seq(1 .. MaxEvents) /\ Len(Tail(in)) <= BufSize
    BY <1>2, TailProps DEF Take
  <2> QED
    BY <1>2, <2>1 DEF Take
<1>3. CASE RLock
  BY <1>3 DEF RLock, subscribed
<1>4. ASSUME NEW s \in Subs, Offer(s) PROVE TypeOK'
  <2>1. hand \in 1 .. MaxEvents
    BY <1>4 DEF Offer, Locking
  <2>2. CASE Full(ch[s])
    <3>1. missed' = [missed EXCEPT ![s] = missed[s] \cup {hand}] /\ todo' = todo \ {s}
      BY <1>4, <2>2 DEF Offer
    <3>2. missed' \in [Subs -> SUBSET (1 .. MaxEvents)] /\ todo' \in SUBSET Subs
      BY <2>1, <3>1
    <3>3. UNCHANGED <<emitted, in, hand, locked, status, ch, got>>
      BY <1>4, <2>2 DEF Offer
    <3> QED
      BY <3>2, <3>3
  <2>3. CASE ~Full(ch[s])
    <3>1. /\ Append(ch[s], hand) \in Seq(1 .. MaxEvents)
          /\ Len(Append(ch[s], hand)) <= BufSize
      BY <2>1, <2>3, AppendProps DEF Full
    <3>2. ch' = [ch EXCEPT ![s] = Append(ch[s], hand)]
      BY <1>4, <2>3 DEF Offer
    <3> QED
      BY <1>4, <3>1, <3>2, <2>3 DEF Offer
  <2> QED
    BY <2>2, <2>3
<1>5. CASE RUnlock
  <2>1. hand' \in 0 .. MaxEvents
    BY <1>5 DEF RUnlock
  <2>2. locked' \in BOOLEAN
    BY <1>5, Zenon DEF RUnlock
  <2>3. UNCHANGED <<emitted, in, todo, status, ch, got, missed>>
    BY <1>5 DEF RUnlock
  <2> QED
    BY <2>1, <2>2, <2>3
<1>6. ASSUME NEW s \in Subs, Subscribe(s) \/ Unsubscribe(s) PROVE TypeOK'
  BY <1>6 DEF Subscribe, Unsubscribe
<1>7. ASSUME NEW s \in Subs, Read(s) PROVE TypeOK'
  <2>1. /\ Head(ch[s]) \in 1 .. MaxEvents
        /\ Tail(ch[s]) \in Seq(1 .. MaxEvents) /\ Len(Tail(ch[s])) <= BufSize
    BY <1>7, TailProps DEF Read
  <2>2. Append(got[s], Head(ch[s])) \in Seq(1 .. MaxEvents)
    BY <2>1, AppendProps
  <2> QED
    BY <1>7, <2>1, <2>2 DEF Read
<1>8. CASE UNCHANGED vars
  BY <1>8 DEF vars
<1> QED
  BY <1>1, <1>2, <1>3, <1>4, <1>5, <1>6, <1>7, <1>8 DEF Next, Broadcast
-----------------------------------------------------------------------------
(* What a step does to the streams: an offer prolongs one of them, or is   *)
(* missed, and nothing else touches any.                                   *)
SameStreams == \A s \in Subs : Stream(s)' = Stream(s) /\ Offered(s)' = Offered(s)

LEMMA StreamTypes == ASSUME TypeOK, NEW s \in Subs PROVE Stream(s) \in Seq(Events)
BY DEF TypeOK, Stream

LEMMA OfferedTypes == ASSUME TypeOK, NEW s \in Subs PROVE Offered(s) \subseteq Events
<1>1. Stream(s) \in Seq(Events)
  BY StreamTypes
<1>2. missed[s] \subseteq Events
  BY DEF TypeOK
<1> QED
  BY <1>1, <1>2 DEF Offered

LEMMA ReadStreams ==
  ASSUME TypeOK, NEW r \in Subs, Read(r)
  PROVE  SameStreams
<1> SUFFICES ASSUME NEW s \in Subs PROVE Stream(s)' = Stream(s) /\ Offered(s)' = Offered(s)
  BY DEF SameStreams
<1>1. Stream(s)' = Stream(s)
  <2>1. CASE s = r
    <3>1. got'[s] = Append(got[s], Head(ch[s])) /\ ch'[s] = Tail(ch[s]) /\ ch[s] # <<>>
      BY <2>1 DEF Read, TypeOK
    <3>2. got[s] \in Seq(Events) /\ ch[s] \in Seq(Events)
      BY DEF TypeOK
    <3>3. Append(got[s], Head(ch[s])) \o Tail(ch[s]) = got[s] \o ch[s]
      BY <3>1, <3>2, ReadMoves
    <3> QED
      BY <3>1, <3>3 DEF Stream
  <2>2. CASE s # r
    BY <2>2 DEF Read, TypeOK, Stream
  <2> QED
    BY <2>1, <2>2
<1>2. missed'[s] = missed[s]
  BY DEF Read
<1> QED
  BY <1>1, <1>2 DEF Offered

LEMMA OtherStreams ==
  ASSUME UNCHANGED <<ch, got, missed>>
  PROVE  SameStreams
BY DEF SameStreams, Stream, Offered

LEMMA OfferStreams ==
  ASSUME TypeOK, Locking, NEW r \in Subs, Offer(r)
  PROVE  /\ hand \in Events
         /\ \A s \in Subs \ {r} : Stream(s)' = Stream(s) /\ Offered(s)' = Offered(s)
         /\ Offered(r)' = Offered(r) \cup {hand}
         /\ \/ Full(ch[r]) /\ Stream(r)' = Stream(r) /\ missed'[r] = missed[r] \cup {hand}
            \/ Stream(r)' = Append(Stream(r), hand) /\ missed'[r] = missed[r]
<1>1. hand \in Events
  BY DEF Offer, Locking, TypeOK, Events
<1>2. ASSUME NEW s \in Subs \ {r} PROVE Stream(s)' = Stream(s) /\ missed'[s] = missed[s]
  <2>1. ch'[s] = ch[s] /\ got'[s] = got[s] /\ missed'[s] = missed[s]
    BY <1>2 DEF Offer, TypeOK
  <2> QED
    BY <2>1 DEF Stream
<1>3. CASE Full(ch[r])
  <2>1. Stream(r)' = Stream(r)
    BY <1>3 DEF Offer, Stream
  <2>2. missed'[r] = missed[r] \cup {hand}
    BY <1>3 DEF Offer, TypeOK
  <2>3. Offered(r)' = Offered(r) \cup {hand}
    BY <2>1, <2>2 DEF Offered
  <2> QED
    BY <1>1, <1>2, <1>3, <2>1, <2>2, <2>3 DEF Offered
<1>4. CASE ~Full(ch[r])
  <2>1. ch'[r] = Append(ch[r], hand) /\ got'[r] = got[r] /\ missed'[r] = missed[r]
    BY <1>4 DEF Offer, TypeOK
  <2>2. got[r] \in Seq(Events) /\ ch[r] \in Seq(Events)
    BY DEF TypeOK
  <2>3. Stream(r)' = Append(Stream(r), hand)
    <3>1. got[r] \o Append(ch[r], hand) = Append(got[r] \o ch[r], hand)
      <4> DEFINE a == got[r]
                 b == ch[r]
      <4>1. a \in Seq(Events) /\ b \in Seq(Events)
        BY <2>2
      <4> HIDE DEF a, b
      <4>2. a \o Append(b, hand) = Append(a \o b, hand)
        BY <1>1, <4>1, OfferMoves
      <4> QED
        BY <4>2 DEF a, b
    <3>2. Stream(r)' = got'[r] \o ch'[r]
      BY DEF Stream
    <3> QED
      BY <2>1, <3>1, <3>2 DEF Stream
  <2>4. Offered(r)' = Offered(r) \cup {hand}
    <3> DEFINE a == Stream(r)
               b == Append(Stream(r), hand)
    <3>1. /\ DOMAIN b = DOMAIN a \cup {Len(a) + 1}
          /\ \A k \in DOMAIN a : b[k] = a[k]
          /\ b[Len(a) + 1] = hand
      BY <1>1, StreamTypes, AppendProps
    <3>2. {b[k] : k \in DOMAIN b} = {a[k] : k \in DOMAIN a} \cup {hand}
      <4> HIDE DEF a, b
      <4> QED
        BY <3>1
    <3> QED
      BY <2>1, <2>3, <3>2 DEF Offered
  <2> QED
    BY <1>1, <1>2, <1>4, <2>1, <2>3, <2>4 DEF Offered
<1> QED
  BY <1>3, <1>4
-----------------------------------------------------------------------------
LEMMA LockingKept == ASSUME TypeOK, Locking, [Next]_vars PROVE Locking'
<1>1. CASE Emit
  BY <1>1 DEF Emit, Locking, subscribed
<1>2. CASE Take
  BY <1>2 DEF Take, Locking, subscribed
<1>3. CASE RLock
  BY <1>3 DEF RLock, Locking, subscribed
<1>4. ASSUME NEW s \in Subs, Offer(s) PROVE Locking'
  BY <1>4 DEF Offer, Locking, subscribed
<1>5. CASE RUnlock
  BY <1>5 DEF RUnlock, Locking, subscribed
<1>6. ASSUME NEW s \in Subs, Subscribe(s) \/ Unsubscribe(s) PROVE Locking'
  BY <1>6 DEF Subscribe, Unsubscribe, Locking, subscribed, TypeOK
<1>7. ASSUME NEW s \in Subs, Read(s) PROVE Locking'
  BY <1>7 DEF Read, Locking, subscribed
<1>8. CASE UNCHANGED vars
  BY <1>8 DEF vars, Locking, subscribed
<1> QED
  BY <1>1, <1>2, <1>3, <1>4, <1>5, <1>6, <1>7, <1>8 DEF Next, Broadcast

LEMMA InTypes ==
  ASSUME TypeOK
  PROVE  DOMAIN in = 1 .. Len(in) /\ Len(in) \in Nat /\ \A k \in DOMAIN in : in[k] \in Nat \ {0}
<1>1. in \in Seq(1 .. MaxEvents)
  BY DEF TypeOK, Events
<1> QED
  BY <1>1, MaxEventsAssumption

LEMMA InLineKept == ASSUME TypeOK, Locking, InLine, [Next]_vars PROVE InLine'
<1>1. CASE Emit
  <2>1. emitted' = emitted + 1 /\ emitted \in Nat /\ hand' = hand /\ hand \in Nat
    BY <1>1 DEF Emit, TypeOK
  <2>2. CASE Full(in)
    <3>1. in' = in
      BY <1>1, <2>2 DEF Emit
    <3>2. \A k \in DOMAIN in : in[k] \in Nat
      BY InTypes
    <3> QED
      BY <2>1, <3>1, <3>2 DEF InLine
  <2>3. CASE ~Full(in)
    <3>1. in' = Append(in, emitted') /\ emitted' \in Events
      BY <1>1, <2>1, <2>3, MaxEventsAssumption DEF Emit, Events
    <3>2. /\ DOMAIN in' = DOMAIN in \cup {Len(in) + 1}
          /\ \A k \in DOMAIN in : in'[k] = in[k]
          /\ in'[Len(in) + 1] = emitted'
      BY <3>1, AppendProps DEF TypeOK
    <3>3. DOMAIN in = 1 .. Len(in) /\ Len(in) \in Nat /\ \A k \in DOMAIN in : in[k] \in Nat
      BY InTypes
    <3> QED
      BY <2>1, <3>2, <3>3 DEF InLine
  <2> QED
    BY <2>2, <2>3
<1>2. CASE Take
  <2>1. /\ hand' = in[1] /\ 1 \in DOMAIN in /\ emitted' = emitted
        /\ \A k \in DOMAIN in' : in'[k] = in[k + 1] /\ k + 1 \in DOMAIN in
    BY <1>2, TailProps DEF Take, TypeOK
  <2>2. in' \in Seq(Events) /\ in \in Seq(Events)
    BY <1>2, TailProps DEF Take, TypeOK
  <2>3. \A k \in DOMAIN in' : k \in Nat \ {0}
    BY <2>2
  <2> QED
    BY <2>1, <2>3 DEF InLine
<1>3. CASE RUnlock
  <2>1. hand' = 0 /\ in' = in /\ emitted' = emitted /\ emitted \in Nat
    BY <1>3 DEF RUnlock, TypeOK
  <2>2. \A k \in DOMAIN in : in[k] \in Nat \ {0}
    BY InTypes
  <2> QED
    BY <2>1, <2>2 DEF InLine
<1>4. CASE UNCHANGED <<emitted, in, hand>>
  BY <1>4 DEF InLine
<1> QED
  BY <1>1, <1>2, <1>3, <1>4
    DEF Next, Broadcast, RLock, Offer, Subscribe, Unsubscribe, Read, vars

LEMMA OffersAreNumbers ==
  ASSUME TypeOK, NEW s \in Subs, NEW e \in Offered(s)
  PROVE  e \in Nat \ {0}
BY OfferedTypes, MaxEventsAssumption DEF Events

(* Behind, for one dashboard. *)
BehindOf(s) ==
  /\ \A e \in Offered(s) :
       /\ e <= emitted
       /\ \A k \in DOMAIN in : e < in[k]
       /\ hand # 0 => e <= hand
       /\ hand # 0 /\ (s \in todo \/ ~locked) => e < hand
  /\ locked /\ s \in subscribed \ todo => hand \in Offered(s)
  /\ status[s] = "new" => Offered(s) = {}

LEMMA BehindKept == ASSUME TypeOK, Locking, InLine, Behind, [Next]_vars PROVE Behind'
<1> SUFFICES ASSUME NEW s \in Subs PROVE BehindOf(s)'
  BY DEF Behind, BehindOf
<1>0. /\ BehindOf(s)
      /\ emitted \in Nat /\ hand \in Nat
      /\ \A e \in Offered(s) : e \in Nat \ {0}
  <2>1. emitted \in Nat /\ hand \in Nat
    BY DEF TypeOK
  <2> QED
    BY <2>1, OffersAreNumbers DEF Behind, BehindOf
<1>1. CASE Emit
  <2>1. Offered(s)' = Offered(s)
    BY <1>1, OtherStreams DEF Emit, SameStreams
  <2>2. /\ emitted' = emitted + 1
        /\ UNCHANGED <<hand, todo, locked, status>>
        /\ subscribed' = subscribed
    BY <1>1 DEF Emit, subscribed
  <2>3. \A e \in Offered(s) : \A k \in DOMAIN in' : e < in'[k]
    <3>1. CASE in' = in
      BY <1>0, <3>1 DEF BehindOf
    <3>2. CASE in' = Append(in, emitted')
      <4>1. emitted' \in Events
        BY <1>0, <1>1, MaxEventsAssumption DEF Emit, Events
      <4>2. /\ DOMAIN in' = DOMAIN in \cup {Len(in) + 1}
            /\ \A k \in DOMAIN in : in'[k] = in[k]
            /\ in'[Len(in) + 1] = emitted'
        BY <3>2, <4>1, AppendProps DEF TypeOK
      <4> QED
        BY <1>0, <2>2, <4>2 DEF BehindOf
    <3> QED
      BY <1>1, <3>1, <3>2 DEF Emit
  <2>4. \A e \in Offered(s) : e <= emitted'
    BY <1>0, <2>2 DEF BehindOf
  <2> QED
    BY <1>0, <2>1, <2>2, <2>3, <2>4 DEF BehindOf
<1>2. CASE Take
  <2>1. Offered(s)' = Offered(s)
    BY <1>2, OtherStreams DEF Take, SameStreams
  <2>2. /\ hand' = in[1] /\ 1 \in DOMAIN in
        /\ \A k \in DOMAIN in' : in'[k] = in[k + 1] /\ k + 1 \in DOMAIN in
    BY <1>2, TailProps DEF Take, TypeOK
  <2>3. /\ UNCHANGED <<emitted, todo, locked, status>> /\ hand = 0
        /\ subscribed' = subscribed
    BY <1>2 DEF Take, subscribed
  <2>4. ~locked
    BY <2>3 DEF Locking
  <2>5. in[1] \in Nat
    BY <2>2, InTypes
  <2> QED
    BY <1>0, <2>1, <2>2, <2>3, <2>4, <2>5 DEF BehindOf
<1>3. CASE RLock
  <2>1. Offered(s)' = Offered(s)
    BY <1>3, OtherStreams DEF RLock, SameStreams
  <2>2. /\ UNCHANGED <<emitted, in, hand, status>> /\ ~locked /\ hand # 0
        /\ subscribed' = subscribed /\ todo' = subscribed
    BY <1>3 DEF RLock, subscribed
  <2> QED
    BY <1>0, <2>1, <2>2 DEF BehindOf
<1>4. ASSUME NEW r \in Subs, Offer(r) PROVE BehindOf(s)'
  <2>1. /\ UNCHANGED <<emitted, in, hand, status, locked>> /\ todo' = todo \ {r} /\ r \in todo
        /\ subscribed' = subscribed
    BY <1>4 DEF Offer, subscribed
  <2>2. locked /\ hand # 0
    BY <2>1 DEF Locking
  <2>3. CASE s # r
    <3>1. Offered(s)' = Offered(s)
      BY <1>4, <2>3, OfferStreams
    <3> QED
      BY <1>0, <2>1, <2>2, <2>3, <3>1 DEF BehindOf
  <2>4. CASE s = r
    <3>1. Offered(s)' = Offered(s) \cup {hand} /\ status[s] = "subscribed"
      BY <1>4, <2>1, <2>4, OfferStreams DEF Locking, subscribed
    <3>2. hand <= emitted /\ \A k \in DOMAIN in : hand < in[k]
      BY DEF InLine
    <3> QED
      BY <1>0, <2>1, <2>2, <2>4, <3>1, <3>2 DEF BehindOf
  <2> QED
    BY <2>3, <2>4
<1>5. CASE RUnlock
  <2>1. Offered(s)' = Offered(s)
    BY <1>5, OtherStreams DEF RUnlock, SameStreams
  <2>2. UNCHANGED <<emitted, in, status>> /\ hand' = 0 /\ ~locked'
    BY <1>5 DEF RUnlock
  <2> QED
    BY <1>0, <2>1, <2>2 DEF BehindOf
<1>6. ASSUME NEW r \in Subs, Subscribe(r) \/ Unsubscribe(r) PROVE BehindOf(s)'
  <2>1. Offered(s)' = Offered(s)
    BY <1>6, OtherStreams DEF Subscribe, Unsubscribe, SameStreams
  <2>2. UNCHANGED <<emitted, in, hand, todo, locked>> /\ ~locked
    BY <1>6 DEF Subscribe, Unsubscribe
  <2>3. status'[s] = "new" => status[s] = "new"
    BY <1>6 DEF Subscribe, Unsubscribe, TypeOK
  <2> QED
    BY <1>0, <2>1, <2>2, <2>3 DEF BehindOf
<1>7. ASSUME NEW r \in Subs, Read(r) PROVE BehindOf(s)'
  <2>1. Offered(s)' = Offered(s)
    BY <1>7, ReadStreams DEF SameStreams
  <2>2. UNCHANGED <<emitted, in, hand, todo, locked, status>> /\ subscribed' = subscribed
    BY <1>7 DEF Read, subscribed
  <2> QED
    BY <1>0, <2>1, <2>2 DEF BehindOf
<1>8. CASE UNCHANGED vars
  <2>1. Offered(s)' = Offered(s)
    BY <1>8, OtherStreams DEF vars, SameStreams
  <2>2. UNCHANGED <<emitted, in, hand, todo, locked, status>> /\ subscribed' = subscribed
    BY <1>8 DEF vars, subscribed
  <2> QED
    BY <1>0, <2>1, <2>2 DEF BehindOf
<1> QED
  BY <1>1, <1>2, <1>3, <1>4, <1>5, <1>6, <1>7, <1>8 DEF Next, Broadcast
-----------------------------------------------------------------------------
(* A step leaves the streams as they are, or is an offer.                  *)
LEMMA StepKinds ==
  ASSUME TypeOK, [Next]_vars
  PROVE  \/ SameStreams /\ UNCHANGED missed
         \/ \E r \in Subs : Offer(r)
<1>1. CASE UNCHANGED <<ch, got, missed>>
  BY <1>1, OtherStreams
<1>2. ASSUME NEW r \in Subs, Read(r) PROVE SameStreams /\ UNCHANGED missed
  BY <1>2, ReadStreams DEF Read
<1> QED
  BY <1>1, <1>2
    DEF Next, Broadcast, Emit, Take, RLock, RUnlock, Subscribe, Unsubscribe, vars

LEMMA OrderKept ==
  ASSUME TypeOK, Locking, Behind, StreamsInOrder, [Next]_vars
  PROVE  StreamsInOrder'
<1>1. CASE SameStreams
  BY <1>1 DEF SameStreams, StreamsInOrder
<1>2. ASSUME NEW r \in Subs, Offer(r) PROVE StreamsInOrder'
  <2> SUFFICES ASSUME NEW s \in Subs
               PROVE  (\A j, k \in DOMAIN Stream(s) : j < k => Stream(s)[j] < Stream(s)[k])'
    BY DEF StreamsInOrder
  <2>1. \A j, k \in DOMAIN Stream(s) : j < k => Stream(s)[j] < Stream(s)[k]
    BY DEF StreamsInOrder
  <2>2. CASE Stream(s)' = Stream(s)
    BY <2>1, <2>2
  <2>3. CASE s = r /\ Stream(s)' = Append(Stream(s), hand)
    <3>1. \A k \in DOMAIN Stream(s) : Stream(s)[k] < hand
      BY <1>2, <2>3 DEF Behind, Offered, Locking, Offer
    <3> DEFINE a == Stream(s)
               b == Append(a, hand)
    <3>2. a \in Seq(Events) /\ hand \in Events
      BY <1>2, StreamTypes, OfferStreams
    <3>3. /\ DOMAIN b = DOMAIN a \cup {Len(a) + 1}
          /\ \A k \in DOMAIN a : b[k] = a[k]
          /\ b[Len(a) + 1] = hand
          /\ DOMAIN a = 1 .. Len(a) /\ Len(a) \in Nat
      BY <3>2, AppendProps
    <3>4. \A j, k \in DOMAIN b : j < k => b[j] < b[k]
      <4> HIDE DEF a, b
      <4>1. (\A k \in DOMAIN a : a[k] < hand) /\ \A j, k \in DOMAIN a : j < k => a[j] < a[k]
        BY <2>1, <3>1 DEF a
      <4> QED
        BY <3>3, <4>1
    <3> QED
      BY <2>3, <3>4
  <2> QED
    BY <1>2, <2>2, <2>3, OfferStreams
<1> QED
  BY <1>1, <1>2, StepKinds

LEMMA AccountedKept ==
  ASSUME TypeOK, Locking, InLine, Behind, Accounted, [Next]_vars
  PROVE  Accounted'
<1> SUFFICES ASSUME NEW s \in Subs, NEW t \in Subs, NEW e \in Offered(s)' \ Offered(t)'
             PROVE  Excused(e, t)'
  BY DEF Accounted
<1>1. CASE SameStreams
  <2>1. Excused(e, t) /\ Offered(t)' = Offered(t)
    BY <1>1 DEF SameStreams, Accounted
  <2>2. CASE \A a \in Offered(t) : e < a
    BY <2>1, <2>2 DEF Excused
  <2>3. CASE /\ \A a \in Offered(t) : a < e
             /\ status[t] = "gone"
    <3>1. status'[t] = "gone"
      BY <2>3 DEF Next, Broadcast, Emit, Take, RLock, Offer, RUnlock, Subscribe, Unsubscribe, Read, vars,
                  TypeOK
    <3> QED
      BY <2>1, <2>3, <3>1 DEF Excused
  <2>4. CASE /\ \A a \in Offered(t) : a < e
             /\ t \in todo /\ e = hand
    <3>1. locked /\ todo # {}
      BY <2>4 DEF Locking
    <3>2. hand # 0
      BY <3>1 DEF Locking
    <3>3. CASE \E r \in Subs : Offer(r)
      <4> PICK r \in Subs : Offer(r)
        BY <3>3
      <4>1. r # t
        BY <2>1, <2>4, OfferStreams
      <4> QED
        BY <2>1, <2>4, <4>1 DEF Excused, Offer
    <3>4. CASE ~\E r \in Subs : Offer(r)
      <4>1. UNCHANGED <<todo, hand>>
        BY <3>1, <3>2, <3>4
          DEF Next, Broadcast, Emit, Take, RLock, RUnlock, Subscribe, Unsubscribe, Read, vars
      <4> QED
        BY <2>1, <2>4, <4>1 DEF Excused
    <3> QED
      BY <3>3, <3>4
  <2> QED
    BY <2>1, <2>2, <2>3, <2>4 DEF Excused
<1>2. ASSUME NEW r \in Subs, Offer(r) PROVE Excused(e, t)'
  <2>1. /\ UNCHANGED <<hand, status, locked>> /\ todo' = todo \ {r} /\ r \in todo /\ locked /\ hand # 0
        /\ \A x \in Subs \ {r} : Offered(x)' = Offered(x)
        /\ Offered(r)' = Offered(r) \cup {hand}
        /\ hand \in Nat /\ e \in Nat
    <3>1. hand \in Nat
      BY DEF TypeOK
    <3>2. e \in Offered(s) \/ e = hand
      BY <1>2, OfferStreams
    <3>3. e \in Nat
      BY <3>1, <3>2, OffersAreNumbers
    <3> QED
      BY <1>2, <3>1, <3>3, OfferStreams DEF Offer, Locking
  <2>2. status[r] = "subscribed"
    BY <2>1 DEF Locking, subscribed
  <2>3. CASE e \in Offered(s)
    <3>1. Excused(e, t) /\ e <= hand
      BY <2>1, <2>3 DEF Accounted, Behind
    <3>2. CASE t = r
      <4>1. e < hand
        BY <2>1, <3>1, <3>2
      <4>2. \A a \in Offered(t) : e < a
        BY <2>1, <2>2, <3>1, <3>2 DEF Excused
      <4> QED
        BY <2>1, <3>2, <4>1, <4>2 DEF Excused
    <3>3. CASE t # r
      BY <2>1, <3>1, <3>3 DEF Excused
    <3> QED
      BY <3>2, <3>3
  <2>4. CASE e \notin Offered(s)
    <3>1. s = r /\ e = hand /\ t # r
      BY <2>1, <2>4
    <3>2. Offered(t)' = Offered(t) /\ hand \notin Offered(t)
      BY <2>1, <3>1
    <3>3. \A a \in Offered(t) : a < hand
      <4>1. \A a \in Offered(t) : a <= hand /\ a \in Nat
        BY <2>1, OffersAreNumbers DEF Behind
      <4> QED
        BY <2>1, <3>2, <4>1
    <3>4. CASE t \in todo
      BY <2>1, <3>1, <3>2, <3>3, <3>4 DEF Excused
    <3>5. CASE t \notin todo
      <4>1. status[t] # "subscribed"
        BY <2>1, <3>2, <3>5 DEF Behind, subscribed
      <4>2. status[t] = "new" \/ status[t] = "gone"
        BY <4>1 DEF TypeOK
      <4>3. CASE status[t] = "new"
        <5>1. Offered(t) = {}
          BY <4>3 DEF Behind
        <5> QED
          BY <3>2, <5>1 DEF Excused
      <4>4. CASE status[t] = "gone"
        BY <2>1, <3>1, <3>2, <3>3, <4>4 DEF Excused
      <4> QED
        BY <4>2, <4>3, <4>4
    <3> QED
      BY <3>4, <3>5
  <2> QED
    BY <2>3, <2>4
<1> QED
  BY <1>1, <1>2, StepKinds
-----------------------------------------------------------------------------
(* Nobody is skipped: from who came when and who has gone.                 *)
LEMMA AccountedSuffices ==
  ASSUME TypeOK, Accounted
  PROVE  NobodySkipped
<1> SUFFICES ASSUME NEW s \in Subs, NEW t \in Subs, NEW e \in Offered(s),
                    NEW a \in Offered(t), NEW z \in Offered(t), a < e, e < z, e \notin Offered(t)
             PROVE  FALSE
  BY DEF NobodySkipped
<1>1. Excused(e, t)
  BY DEF Accounted
<1>2. a \in Nat /\ e \in Nat /\ z \in Nat
  BY OffersAreNumbers
<1> QED
  BY <1>1, <1>2 DEF Excused

(* The events before e in a stream never become fewer.                     *)
Before(s, e) == {k \in DOMAIN Stream(s) : Stream(s)[k] < e}

LEMMA BeforeFinite ==
  ASSUME TypeOK, NEW s \in Subs, NEW e
  PROVE  IsFiniteSet(Before(s, e)) /\ Cardinality(Before(s, e)) \in Nat
<1>1. DOMAIN Stream(s) = 1 .. Len(Stream(s)) /\ Len(Stream(s)) \in Nat
  BY StreamTypes
<1>2. IsFiniteSet(1 .. Len(Stream(s)))
  BY <1>1, FS_Interval
<1>3. IsFiniteSet(Before(s, e))
  BY <1>1, <1>2, FS_Subset DEF Before
<1> QED
  BY <1>3, FS_CardinalityType

LEMMA MissedKept ==
  ASSUME TypeOK, TypeOK', Locking, Behind, MissedOnlyWhenFull, [Next]_vars
  PROVE  MissedOnlyWhenFull'
<1>1. CASE SameStreams /\ UNCHANGED missed
  BY <1>1 DEF SameStreams, MissedOnlyWhenFull
<1>2. ASSUME NEW r \in Subs, Offer(r) PROVE MissedOnlyWhenFull'
  <2> SUFFICES ASSUME NEW s \in Subs, NEW e \in missed'[s]
               PROVE  Cardinality(Before(s, e)') >= BufSize
    BY DEF MissedOnlyWhenFull, Before
  <2>1. CASE e \in missed[s]
    <3>1. Cardinality(Before(s, e)) >= BufSize
      BY <2>1 DEF MissedOnlyWhenFull, Before
    <3>2. CASE Stream(s)' = Stream(s)
      BY <3>1, <3>2 DEF Before
    <3>3. CASE Stream(s)' = Append(Stream(s), hand)
      <4>1. Before(s, e) \subseteq Before(s, e)'
        <5>1. Stream(s) \in Seq(Events) /\ hand \in Events
          BY <1>2, StreamTypes, OfferStreams
        <5>2. /\ DOMAIN Append(Stream(s), hand) = DOMAIN Stream(s) \cup {Len(Stream(s)) + 1}
              /\ \A k \in DOMAIN Stream(s) : Append(Stream(s), hand)[k] = Stream(s)[k]
          BY <5>1, AppendProps
        <5> QED
          BY <3>3, <5>2 DEF Before
      <4>2. /\ IsFiniteSet(Before(s, e)') /\ Cardinality(Before(s, e)') \in Nat
            /\ Cardinality(Before(s, e)) \in Nat
        <5>1. \A x \in Subs : \A y : /\ IsFiniteSet(Before(x, y)) /\ Cardinality(Before(x, y)) \in Nat
          BY BeforeFinite
        <5>2. DOMAIN Stream(s)' = 1 .. Len(Stream(s)') /\ Len(Stream(s)') \in Nat
          <6>1. got'[s] \in Seq(Events) /\ ch'[s] \in Seq(Events)
            BY DEF TypeOK
          <6>2. Stream(s)' \in Seq(Events)
            BY <6>1 DEF Stream
          <6> QED
            BY <6>2
        <5>3. IsFiniteSet(Before(s, e)')
          <6>1. IsFiniteSet(DOMAIN Stream(s)')
            BY <5>2, FS_Interval
          <6>2. Before(s, e)' \subseteq DOMAIN Stream(s)'
            BY DEF Before
          <6> QED
            BY <6>1, <6>2, FS_Subset
        <5> QED
          BY <5>1, <5>3, FS_CardinalityType
      <4>3. Cardinality(Before(s, e)) <= Cardinality(Before(s, e)')
        BY <4>1, <4>2, FS_Subset
      <4> QED
        BY <3>1, <4>2, <4>3, BufSizeAssumption
    <3> QED
      BY <1>2, <3>2, <3>3, OfferStreams
  <2>2. CASE e \notin missed[s]
    <3>1. s = r /\ e = hand /\ Full(ch[s]) /\ Stream(s)' = Stream(s)
      BY <1>2, <2>2, OfferStreams DEF Offer, TypeOK
    <3>2. \A k \in DOMAIN Stream(s) : Stream(s)[k] < hand
      BY <1>2, <3>1 DEF Behind, Offered, Offer, Locking
    <3>3. Before(s, e)' = 1 .. Len(Stream(s))
      <4>1. DOMAIN Stream(s) = 1 .. Len(Stream(s))
        BY StreamTypes
      <4>2. Before(s, e)' = {k \in DOMAIN Stream(s) : Stream(s)[k] < e}
        BY <3>1 DEF Before
      <4> QED
        BY <3>1, <3>2, <4>1, <4>2
    <3>4. Len(Stream(s)) \in Nat /\ Len(Stream(s)) >= BufSize
      <4>1. got[s] \in Seq(Events) /\ ch[s] \in Seq(Events)
        BY DEF TypeOK
      <4>2. Len(Stream(s)) = Len(got[s]) + Len(ch[s]) /\ Len(got[s]) \in Nat /\ Len(ch[s]) \in Nat
        BY <4>1 DEF Stream
      <4> QED
        <5>1. Len(ch[s]) >= BufSize
          BY <3>1 DEF Full
        <5> DEFINE l == Len(Stream(s))
                   n == Len(ch[s])
                   g == Len(got[s])
        <5>2. l = g + n /\ g \in Nat /\ n \in Nat /\ n >= BufSize
          BY <4>2, <5>1
        <5> HIDE DEF l, n, g
        <5>3. l \in Nat /\ l >= BufSize
          BY <5>2, BufSizeAssumption
        <5> QED
          BY <5>3 DEF l
    <3>5. Cardinality(1 .. Len(Stream(s))) = Len(Stream(s))
      BY <3>4, FS_Interval
    <3> QED
      BY <3>3, <3>4, <3>5
  <2> QED
    BY <2>1, <2>2
<1> QED
  BY <1>1, <1>2, StepKinds
-----------------------------------------------------------------------------
LEMMA IInvInit == Init => IInv
<1> SUFFICES ASSUME Init PROVE IInv
  OBVIOUS
<1>1. TypeOK
  <2>1. <<>> \in Seq(Events) /\ Len(<<>>) = 0
    OBVIOUS
  <2>2. /\ ch \in [Subs -> Seq(Events)] /\ \A s \in Subs : Len(ch[s]) <= BufSize
        /\ got \in [Subs -> Seq(Events)]
    BY <2>1, BufSizeAssumption DEF Init
  <2>3. in \in Seq(Events) /\ Len(in) <= BufSize
    BY <2>1, BufSizeAssumption DEF Init
  <2>4. /\ emitted \in 0 .. MaxEvents /\ hand \in 0 .. MaxEvents
        /\ todo \in SUBSET Subs
        /\ status \in [Subs -> {"new", "subscribed", "gone"}]
        /\ missed \in [Subs -> SUBSET Events]
    BY MaxEventsAssumption DEF Init
  <2>5. locked \in BOOLEAN
    BY Zenon DEF Init
  <2> QED
    BY <2>2, <2>3, <2>4, <2>5 DEF TypeOK
<1>2. \A s \in Subs : Stream(s) = <<>> /\ Offered(s) = {}
  BY DEF Init, Stream, Offered
<1>3. Locking /\ InLine
  BY DEF Init, Locking, InLine, subscribed
<1> QED
  BY <1>1, <1>2, <1>3 DEF Init, IInv, Line, Behind, StreamsInOrder, Accounted, MissedOnlyWhenFull

LEMMA IInvNext == IInv /\ [Next]_vars => IInv'
<1> SUFFICES ASSUME IInv, [Next]_vars PROVE IInv'
  OBVIOUS
<1>1. TypeOK' /\ Locking'
  BY TypesKept, LockingKept DEF IInv, Line
<1>2. InLine' /\ Behind'
  BY InLineKept, BehindKept DEF IInv, Line
<1>3. StreamsInOrder' /\ Accounted'
  BY OrderKept, AccountedKept DEF IInv, Line
<1>4. MissedOnlyWhenFull'
  BY <1>1, MissedKept DEF IInv, Line
<1> QED
  BY <1>1, <1>2, <1>3, <1>4 DEF IInv, Line

LEMMA IInvHolds == Spec => []IInv
<1> QED
  BY IInvInit, IInvNext, PTL DEF Spec

(* The bus's channels never hold more than their capacity, and everything  *)
(* in them is an event.                                                    *)
THEOREM TypeCorrect == Spec => []TypeOK
<1>1. IInv => TypeOK
  BY DEF IInv, Line
<1> QED
  BY <1>1, IInvHolds, PTL

(* Whatever is dropped in either channel, a dashboard sees the events in   *)
(* the order in which they were emitted and none twice (events.go:65-84).  *)
THEOREM OrderHolds == Spec => []StreamsInOrder
<1>1. IInv => StreamsInOrder
  BY DEF IInv
<1> QED
  BY <1>1, IInvHolds, PTL

(* No dashboard, however slow, costs another one an event that was         *)
(* broadcast while that one was there (events.go:76-81).                   *)
THEOREM NobodyIsSkipped == Spec => []NobodySkipped
<1>1. IInv => NobodySkipped
  BY AccountedSuffices DEF IInv, Line
<1> QED
  BY <1>1, IInvHolds, PTL

(* A dashboard misses an event only if it was a whole channel behind.      *)
THEOREM MissesOnlyWhenBehind == Spec => []MissedOnlyWhenFull
<1>1. IInv => MissedOnlyWhenFull
  BY DEF IInv
<1> QED
  BY <1>1, IInvHolds, PTL
=============================================================================
