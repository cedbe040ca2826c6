-------------------------- MODULE RideServerProofs --------------------------
(***************************************************************************)
(* Theorems about the server's handlers, for any number of goroutines, any *)
(* session ids, drivers, artifacts and requests, any grid, capacity and    *)
(* life of an offer.                                                       *)
(***************************************************************************)
EXTENDS RideServer, FiniteSetTheorems, SequenceTheorems, WellFoundedInduction, TLAPS

(* Sessions and pools are created together, under one lock, so that the    *)
(* heaps grow together and the maps agree.                                 *)
Paired == Len(tables) = Len(sess) /\ pools = sessions

(* A session's key is in the store, and its id stays taken.                *)
KeysStored == \A k \in DOMAIN sess : sess[k].pk \in artifacts /\ sessions[sess[k].sid] # 0

(* b is what s began with. *)
Begins(b, s) == Len(b) <= Len(s) /\ \A i \in 1 .. Len(b) : b[i] = s[i]

(* What a goroutine carries from one step to the next: a rider's key that  *)
(* was in the store when her request began, and stays; and the bids that a *)
(* handler makes masks for, which are the first ones of their session.     *)
Carries(x) ==
  /\ x.pc \in {"discover", "commit"} => x.req.pk \in artifacts
  /\ x.pc = "put" => Begins(x.bids, sess[x.obj].bids)

Carried == \A c \in Conns : Carries(call[c])

(* So are the bids behind an answer, and the count was read after them.    *)
Answered(r) ==
  /\ r.obj \in DOMAIN sess /\ r.bids \in Seq(Bids)
  /\ r.masks \in Nat /\ r.count \in Nat /\ r.masks <= r.count
  /\ Begins(r.bids, sess[r.obj].bids)

Answers == \A r \in replies : Answered(r)

IInv ==
  /\ TypeOK /\ Paired /\ KeysStored /\ Carried /\ Answers
  /\ BidsSignedForTheirSession /\ InviteIsTheLatest
-----------------------------------------------------------------------------
(* Sequences. *)
LEMMA SeqProps ==
  ASSUME NEW S, NEW s \in Seq(S)
  PROVE  DOMAIN s = 1 .. Len(s) /\ Len(s) \in Nat /\ \A i \in DOMAIN s : s[i] \in S
OBVIOUS

LEMMA AppendProps ==
  ASSUME NEW S, NEW s \in Seq(S), NEW x \in S
  PROVE  /\ Append(s, x) \in Seq(S)
         /\ Len(Append(s, x)) = Len(s) + 1 /\ Len(s) \in Nat
         /\ DOMAIN Append(s, x) = DOMAIN s \cup {Len(s) + 1} /\ DOMAIN s = 1 .. Len(s)
         /\ \A k \in DOMAIN s : Append(s, x)[k] = s[k]
         /\ Append(s, x)[Len(s) + 1] = x
OBVIOUS

LEMMA UpdateProps ==
  ASSUME NEW S, NEW s \in Seq(S), NEW k \in DOMAIN s, NEW x \in S
  PROVE  /\ [s EXCEPT ![k] = x] \in Seq(S)
         /\ Len([s EXCEPT ![k] = x]) = Len(s)
         /\ DOMAIN [s EXCEPT ![k] = x] = DOMAIN s
         /\ [s EXCEPT ![k] = x][k] = x
         /\ \A j \in DOMAIN s \ {k} : [s EXCEPT ![k] = x][j] = s[j]
OBVIOUS

LEMMA BeginsSub ==
  ASSUME NEW S, NEW b \in Seq(S), NEW s \in Seq(S), Begins(b, s)
  PROVE  b = SubSeq(s, 1, Len(b))
<1> DEFINE u == SubSeq(s, 1, Len(b))
<1>1. Len(b) \in Nat /\ Len(b) <= Len(s) /\ Len(s) \in Nat
  BY DEF Begins
<1>2. u \in Seq(S) /\ Len(u) = Len(b) /\ \A i \in 1 .. Len(b) : u[i] = s[i]
  BY <1>1
<1>3. \A i \in 1 .. Len(b) : b[i] = s[i]
  BY DEF Begins
<1> HIDE DEF u
<1> QED
  BY <1>2, <1>3

(* The pool's operators yield tables. *)
LEMMA TableProps ==
  ASSUME NEW t \in Tables, NEW id \in OfferIds, NEW d \in Drivers, NEW n \in Nat, NEW ids
  PROVE  Drop(t, ids) \in Tables /\ HoldIn(t, id, d, n) \in Tables
<1>1. Drop(t, ids) \in Tables
  BY DEF Drop, Tables
<1>2. [driver |-> d, expiresAt |-> n + TTL] \in Offers
  BY TTLAssumption DEF Offers
<1>3. HoldIn(t, id, d, n) \in Tables
  BY <1>2 DEF HoldIn, Tables
<1> QED
  BY <1>1, <1>3
-----------------------------------------------------------------------------
(* What a goroutine's stage says of the rest of its state. *)
LEMMA Stages ==
  ASSUME TypeOK, NEW c \in Conns
  PROVE  /\ call[c] \in Calls
         /\ call[c].pc = "discover" => call[c].req \in OpenBodies
         /\ call[c].pc = "commit" => call[c].req \in OpenBodies /\ call[c].cands \in SUBSET Drivers
         /\ call[c].pc \in {"fetch", "submit"} =>
              call[c].req \in BidBodies /\ call[c].obj \in 1 .. Len(sess)
         /\ call[c].pc \in {"run", "put"} => call[c].obj \in 1 .. Len(sess)
         /\ call[c].pc = "put" => call[c].bids \in Seq(Bids)
         /\ call[c].pc = "offer" => call[c].req \in OfferBodies /\ call[c].obj \in 1 .. Len(tables)
<1>1. call[c] \in Calls
  BY DEF TypeOK
<1> QED
  BY <1>1 DEF Calls, Idle

(* When the heaps do not shrink, a state that a goroutine may be in stays  *)
(* one, and so do the types of what points into them.                      *)
LEMMA CallsGrow ==
  ASSUME Len(sess) \in Nat, Len(tables) \in Nat, Len(sess') \in Nat, Len(tables') \in Nat,
         Len(sess') >= Len(sess), Len(tables') >= Len(tables), NEW x \in Calls
  PROVE  x \in Calls'
<1>1. 1 .. Len(sess) \subseteq 1 .. Len(sess') /\ 1 .. Len(tables) \subseteq 1 .. Len(tables')
  OBVIOUS
<1> QED
  BY <1>1 DEF Calls

LEMMA Going ==
  ASSUME TypeOK, NEW c \in Conns, NEW x \in Calls', Goto(c, x),
         Len(sess') \in Nat, Len(tables') \in Nat,
         Len(sess') >= Len(sess), Len(tables') >= Len(tables)
  PROVE  /\ call' \in [Conns -> Calls'] /\ call'[c] = x
         /\ \A e \in Conns \ {c} : call'[e] = call[e]
<1>1. call \in [Conns -> Calls] /\ Len(sess) \in Nat /\ Len(tables) \in Nat
  BY DEF TypeOK
<1>2. \A e \in Conns : call[e] \in Calls'
  BY <1>1, CallsGrow
<1> QED
  BY <1>1, <1>2 DEF Goto
-----------------------------------------------------------------------------
(* Steps that leave the sessions and the maps alone.                       *)
Artifacts == PKs \cup Ciphertexts \cup [obj : 1 .. Len(sess), bids : Nat, index : Nat]

LEMMA Quiet ==
  ASSUME IInv, UNCHANGED <<sess, maps>>,
         tables' \in Seq(Tables), Len(tables') = Len(tables),
         artifacts \subseteq artifacts', artifacts' \subseteq Artifacts,
         driver' \in [Drivers -> Cells \cup {NoCell}],
         now' \in 0 .. MaxTime, by' \in {"rider", "time"},
         call' \in [Conns -> Calls],
         \A c \in Conns : call'[c] = call[c] \/ Carries(call'[c]),
         \A r \in replies' \ replies : Answered(r)
  PROVE  IInv'
<1>1. TypeOK'
  BY DEF IInv, TypeOK, maps, Calls, Artifacts
<1>2. Paired'
  BY DEF IInv, Paired, maps
<1>3. KeysStored'
  BY DEF IInv, KeysStored, maps
<1>4. Carried'
  <2>1. ASSUME NEW c \in Conns PROVE Carries(call'[c])
    BY DEF IInv, Carried
  <2> QED
    BY <2>1 DEF Carried, Carries
<1>5. Answers'
  BY DEF IInv, Answers, Answered
<1>6. BidsSignedForTheirSession' /\ InviteIsTheLatest'
  BY DEF IInv, BidsSignedForTheirSession, InviteIsTheLatest, maps
<1> QED
  BY <1>1, <1>2, <1>3, <1>4, <1>5, <1>6 DEF IInv

(* Such a step of one goroutine, which answers nothing.                    *)
LEMMA QuietGoing ==
  ASSUME IInv, NEW c \in Conns, NEW x \in Calls, Goto(c, x), Carries(x),
         tables' \in Seq(Tables), Len(tables') = Len(tables), by' \in {"rider", "time"},
         UNCHANGED <<sess, maps, artifacts, driver, now, replies>>
  PROVE  IInv'
<1>1. /\ call' \in [Conns -> Calls]
      /\ \A e \in Conns : call'[e] = call[e] \/ Carries(call'[e])
  BY DEF IInv, TypeOK, Goto
<1>2. artifacts \subseteq Artifacts
  BY DEF IInv, TypeOK, Artifacts
<1>3. driver \in [Drivers -> Cells \cup {NoCell}] /\ now \in 0 .. MaxTime
  BY DEF IInv, TypeOK
<1> QED
  BY <1>1, <1>2, <1>3, Quiet

LEMMA IdleIsFine == Idle \in Calls /\ Carries(Idle)
BY DEF Calls, Idle, Carries

LEMMA Tabled == ASSUME IInv PROVE tables \in Seq(Tables) /\ Len(tables) = Len(tables)
                                  /\ by \in {"rider", "time"}
BY DEF IInv, TypeOK

LEMMA Storing == ASSUME IInv, Store PROVE IInv'
<1>1. PICK h \in PKs \cup Ciphertexts : ArtifactPut(h)
  BY DEF Store
<1>2. artifacts \subseteq artifacts' /\ artifacts' \subseteq Artifacts
  BY <1>1 DEF ArtifactPut, Artifacts, IInv, TypeOK
<1> QED
  BY <1>1, <1>2, Quiet DEF ArtifactPut, IInv, TypeOK

LEMMA Registering == ASSUME IInv, NEW g \in GridRequests, Grid(g) PROVE IInv'
<1>1. driver' \in [Drivers -> Cells \cup {NoCell}]
  BY RequestsAssumption DEF Grid, Register, IInv, TypeOK
<1>2. artifacts \subseteq Artifacts
  BY DEF IInv, TypeOK, Artifacts
<1> QED
  BY <1>1, <1>2, Quiet DEF Grid, IInv, TypeOK

LEMMA Opening ==
  ASSUME IInv, NEW c \in Conns, (\E r \in OpenRequests : OpenBegin(c, r)) \/ OpenDiscover(c)
  PROVE  IInv'
<1>1. ASSUME NEW r \in OpenRequests, OpenBegin(c, r) PROVE IInv'
  <2> DEFINE x == [pc |-> "discover", req |-> r]
  <2>1. x \in Calls
    BY RequestsAssumption DEF Calls
  <2>2. Carries(x)
    BY <1>1 DEF OpenBegin, Carries
  <2> QED
    BY <1>1, <2>1, <2>2, QuietGoing, Tabled DEF OpenBegin
<1>2. CASE OpenDiscover(c)
  <2>1. call[c].req \in OpenBodies /\ call[c].req.pk \in artifacts
    BY <1>2, Stages DEF OpenDiscover, IInv, Carried, Carries
  <2>2. CASE Done(c)
    BY <1>2, <2>2, QuietGoing, Tabled, IdleIsFine DEF OpenDiscover, Done
  <2>3. ASSUME NEW q, NEW cands, cands = IF q = NoCell THEN {} ELSE Within(driver, q),
               Goto(c, [pc |-> "commit", req |-> call[c].req, cands |-> cands])
        PROVE  IInv'
    <3> DEFINE x == [pc |-> "commit", req |-> call[c].req, cands |-> cands]
    <3>1. cands \in SUBSET Drivers
      BY <2>3 DEF Within, IInv, TypeOK
    <3>2. x \in Calls /\ Carries(x)
      BY <2>1, <3>1 DEF Calls, Carries
    <3> QED
      BY <1>2, <2>3, <3>2, QuietGoing, Tabled DEF OpenDiscover
  <2> QED
    BY <1>2, <2>2, <2>3 DEF OpenDiscover, Discover
<1> QED
  BY <1>1, <1>2

LEMMA BidUnderWay ==
  ASSUME IInv, NEW c \in Conns, (\E r \in BidRequests : BidLookup(c, r)) \/ BidFetch(c)
  PROVE  IInv'
<1>1. ASSUME NEW r \in BidRequests, BidLookup(c, r) PROVE IInv'
  <2> DEFINE x == [pc |-> "fetch", req |-> r, obj |-> sessions[r.to]]
  <2>1. r \in BidBodies /\ r.to \in SessionIds
    BY RequestsAssumption DEF BidBodies
  <2>2. sessions[r.to] \in 1 .. Len(sess)
    BY <1>1, <2>1 DEF BidLookup, IInv, TypeOK
  <2>3. x \in Calls /\ Carries(x)
    BY <2>1, <2>2 DEF Calls, Carries
  <2> QED
    BY <1>1, <2>3, QuietGoing, Tabled DEF BidLookup
<1>2. CASE BidFetch(c)
  <2>1. CASE Done(c)
    BY <1>2, <2>1, QuietGoing, Tabled, IdleIsFine DEF BidFetch, Done
  <2>2. CASE Goto(c, [call[c] EXCEPT !.pc = "submit"])
    <3> DEFINE x == [call[c] EXCEPT !.pc = "submit"]
    <3>1. call[c] \in [pc : {"fetch", "submit"}, req : BidBodies, obj : 1 .. Len(sess)]
      BY <1>2, Stages DEF BidFetch, IInv, Calls, Idle
    <3>2. x \in [pc : {"fetch", "submit"}, req : BidBodies, obj : 1 .. Len(sess)] /\ x.pc = "submit"
      BY <3>1
    <3>3. x \in Calls /\ Carries(x)
      BY <3>2 DEF Calls, Carries
    <3> QED
      BY <1>2, <2>2, <3>3, QuietGoing, Tabled DEF BidFetch
  <2> QED
    BY <1>2, <2>1, <2>2 DEF BidFetch
<1> QED
  BY <1>1, <1>2

(* A snapshot of a session's bids is made of what the session began with.  *)
LEMMA Snapshot ==
  ASSUME IInv, NEW k \in DOMAIN sess
  PROVE  /\ sess[k].bids \in Seq(Bids) /\ Len(sess[k].bids) \in Nat
         /\ Begins(sess[k].bids, sess[k].bids) /\ Begins(<<>>, sess[k].bids)
<1>1. sess[k] \in Sessions
  BY DEF IInv, TypeOK
<1>2. sess[k].bids \in Seq(Bids)
  BY <1>1 DEF Sessions
<1> QED
  BY <1>2 DEF Begins

LEMMA Masking ==
  ASSUME IInv, NEW c \in Conns, SessionMasks(c)
  PROVE  IInv'
<1>1. ASSUME NEW s \in MaskRequests, MasksLookup(c, s) PROVE IInv'
  <2> DEFINE x == [pc |-> "run", obj |-> sessions[s]]
  <2>1. sessions[s] \in 1 .. Len(sess)
    BY <1>1, RequestsAssumption DEF MasksLookup, IInv, TypeOK
  <2>2. x \in Calls /\ Carries(x)
    BY <2>1 DEF Calls, Carries
  <2> QED
    BY <1>1, <2>2, QuietGoing, Tabled DEF MasksLookup
<1>2. CASE MasksRun(c)
  <2> DEFINE k == call[c].obj
             few == [obj |-> k, bids |-> sess[k].bids, masks |-> 0, count |-> 0]
             x == [pc |-> "put", obj |-> k, bids |-> sess[k].bids]
  <2>1. k \in 1 .. Len(sess) /\ k \in DOMAIN sess
    BY <1>2, Stages DEF MasksRun, IInv, TypeOK
  <2>2. CASE replies' = replies \cup {few} /\ Done(c)
    <3>1. Answered(few)
      BY <2>1, Snapshot DEF Answered
    <3>2. call' \in [Conns -> Calls] /\ \A e \in Conns : call'[e] = call[e] \/ Carries(call'[e])
      BY <2>2, IdleIsFine DEF Done, Goto, IInv, TypeOK
    <3>3. \A r \in replies' \ replies : Answered(r)
      BY <2>2, <3>1
    <3>4. artifacts \subseteq Artifacts
      BY DEF IInv, TypeOK, Artifacts
    <3>5. driver' \in [Drivers -> Cells \cup {NoCell}] /\ now' \in 0 .. MaxTime
      BY <1>2 DEF IInv, TypeOK, MasksRun
    <3> QED
      BY <1>2, <3>2, <3>3, <3>4, <3>5, Tabled, Quiet DEF MasksRun
  <2>3. CASE Goto(c, x) /\ UNCHANGED replies
    <3>1. x \in Calls /\ Carries(x)
      BY <2>1, Snapshot DEF Calls, Carries
    <3> QED
      BY <1>2, <2>3, <3>1, QuietGoing, Tabled DEF MasksRun
  <2> QED
    BY <1>2, <2>2, <2>3 DEF MasksRun
<1>3. CASE MasksReply(c)
  <2> DEFINE k == call[c].obj
             bids == call[c].bids
             r == [obj |-> k, bids |-> bids, masks |-> Len(bids), count |-> Len(sess[k].bids)]
  <2>1. k \in 1 .. Len(sess) /\ k \in DOMAIN sess /\ bids \in Seq(Bids)
    BY <1>3, Stages DEF MasksReply, IInv, TypeOK
  <2>2. Begins(bids, sess[k].bids)
    BY <1>3 DEF MasksReply, IInv, Carried, Carries
  <2>3. Answered(r)
    BY <2>1, <2>2, Snapshot DEF Answered, Begins
  <2>4. artifacts' \subseteq Artifacts /\ artifacts \subseteq artifacts'
    <3>1. Masks(k, Len(bids)) \subseteq [obj : 1 .. Len(sess), bids : Nat, index : Nat]
      BY <2>1 DEF Masks
    <3> QED
      BY <1>3, <3>1 DEF MasksReply, IInv, TypeOK, Artifacts
  <2>5. call' \in [Conns -> Calls] /\ \A e \in Conns : call'[e] = call[e] \/ Carries(call'[e])
    BY <1>3, IdleIsFine DEF MasksReply, Done, Goto, IInv, TypeOK
  <2>6. \A q \in replies' \ replies : Answered(q)
    BY <1>3, <2>3 DEF MasksReply
  <2>7. driver' \in [Drivers -> Cells \cup {NoCell}] /\ now' \in 0 .. MaxTime
    BY <1>3 DEF IInv, TypeOK, MasksReply
  <2> QED
    BY <1>3, <2>4, <2>5, <2>6, <2>7, Tabled, Quiet DEF MasksReply
<1> QED
  BY <1>1, <1>2, <1>3 DEF SessionMasks

(* The calls of a pool's methods, its sweeper, and the clock.              *)
LEMMA Offering ==
  ASSUME IInv, NEW c \in Conns, Offer(c)
  PROVE  IInv'
<1>1. ASSUME NEW r \in OfferRequests, OfferLookup(c, r) PROVE IInv'
  <2> DEFINE x == [pc |-> "offer", req |-> r, obj |-> pools[r.sid]]
  <2>1. r \in OfferBodies /\ r.sid \in SessionIds
    BY RequestsAssumption DEF OfferBodies
  <2>2. pools[r.sid] \in 1 .. Len(tables)
    BY <1>1, <2>1 DEF OfferLookup, IInv, TypeOK
  <2>3. x \in Calls /\ Carries(x)
    BY <2>1, <2>2 DEF Calls, Carries
  <2> QED
    BY <1>1, <2>3, QuietGoing, Tabled DEF OfferLookup
<1>2. ASSUME NEW op, NEW who \in {"rider", "time"}, NEW allowed, NEW after,
             PoolCall(c, op, who, allowed, after),
             Pool(c) \in Tables => after \in Tables
      PROVE  IInv'
  <2>1. call[c].obj \in DOMAIN tables /\ tables \in Seq(Tables)
    BY <1>2, Stages DEF PoolCall, IInv, TypeOK
  <2>2. after \in Tables
    BY <1>2, <2>1 DEF Pool
  <2>3. tables' \in Seq(Tables) /\ Len(tables') = Len(tables)
    BY <1>2, <2>1, <2>2, UpdateProps DEF PoolCall
  <2> QED
    BY <1>2, <2>3, QuietGoing, IdleIsFine DEF PoolCall, Done
<1>3. call[c].pc = "offer" => call[c].req.id \in OfferIds /\ call[c].req.driver \in Drivers
  BY Stages DEF IInv, OfferBodies
<1>4. now \in Nat
  BY BoundsAssumption DEF IInv, TypeOK
<1>5. ASSUME call[c].pc = "offer", Pool(c) \in Tables
      PROVE  /\ HoldIn(Pool(c), call[c].req.id, call[c].req.driver, now) \in Tables
             /\ AcceptIn(Pool(c)) \in Tables /\ CancelIn(Pool(c), call[c].req.id) \in Tables
             /\ HeldIn(Pool(c), now) \in Tables
  BY <1>3, <1>4, <1>5, TableProps DEF AcceptIn, CancelIn, HeldIn
<1>6. CASE OfferHold(c)
  BY <1>2, <1>5, <1>6 DEF OfferHold, PoolCall
<1>7. CASE OfferAccept(c)
  BY <1>2, <1>5, <1>7 DEF OfferAccept, PoolCall
<1>8. CASE OfferCancel(c)
  BY <1>2, <1>5, <1>8 DEF OfferCancel, PoolCall
<1>9. CASE OfferHeld(c)
  BY <1>2, <1>5, <1>9 DEF OfferHeld, PoolCall
<1> QED
  BY <1>1, <1>6, <1>7, <1>8, <1>9 DEF Offer

LEMMA Timing ==
  ASSUME IInv, (\E k \in 1 .. Len(tables) : Sweep(k)) \/ Tick
  PROVE  IInv'
<1>1. /\ artifacts \subseteq Artifacts /\ tables \in Seq(Tables) /\ call \in [Conns -> Calls]
      /\ driver \in [Drivers -> Cells \cup {NoCell}] /\ now \in 0 .. MaxTime
  BY DEF IInv, TypeOK, Artifacts
<1>2. ASSUME NEW k \in 1 .. Len(tables), Sweep(k) PROVE IInv'
  <2>1. k \in DOMAIN tables /\ tables[k] \in Tables
    BY <1>1
  <2>2. SweepIn(tables[k], now) \in Tables
    BY <2>1 DEF SweepIn, Drop, Tables
  <2>3. tables' \in Seq(Tables) /\ Len(tables') = Len(tables)
    BY <1>1, <1>2, <2>1, <2>2, UpdateProps DEF Sweep
  <2> QED
    BY <1>1, <1>2, <2>3, Quiet DEF Sweep
<1>3. CASE Tick
  <2>1. now' \in 0 .. MaxTime
    BY <1>1, <1>3, BoundsAssumption DEF Tick
  <2> QED
    BY <1>1, <1>3, <2>1, Quiet DEF Tick
<1> QED
  BY <1>2, <1>3
-----------------------------------------------------------------------------
(* A session is opened: both heaps grow by one, and the candidates' invites*)
(* are for the new session, whose index is the last.                       *)
LEMMA Committing == ASSUME IInv, NEW c \in Conns, OpenCommit(c) PROVE IInv'
<1> DEFINE r == call[c].req
           cands == call[c].cands
           new == NewSession(r, cands)
           n == Len(sess)
<1>1. /\ r \in OpenBodies /\ r.sid \in SessionIds /\ r.pk \in PKs /\ cands \in SUBSET Drivers
      /\ r.pk \in artifacts
  BY Stages DEF OpenCommit, IInv, OpenBodies, Carried, Carries
<1>2. new \in Sessions /\ new.sid = r.sid /\ new.pk = r.pk /\ new.bids = <<>> /\ new.invited = cands
  BY <1>1 DEF NewSession, Sessions
<1>3. /\ sess \in Seq(Sessions) /\ tables \in Seq(Tables) /\ EmptyTable \in Tables
      /\ Len(tables) = n
  BY DEF IInv, TypeOK, Paired, EmptyTable, Tables
<1>4. sess' = Append(sess, new) /\ tables' = Append(tables, EmptyTable)
  BY DEF OpenCommit
<1> HIDE DEF new
<1>5. /\ sess' \in Seq(Sessions) /\ Len(sess') = n + 1 /\ n \in Nat
      /\ DOMAIN sess' = DOMAIN sess \cup {n + 1} /\ DOMAIN sess = 1 .. n
      /\ \A k \in DOMAIN sess : sess'[k] = sess[k]
      /\ sess'[n + 1] = new
  BY <1>2, <1>3, <1>4, AppendProps
<1>6. tables' \in Seq(Tables) /\ Len(tables') = n + 1
  BY <1>3, <1>4, AppendProps
<1>7. /\ sessions' = [sessions EXCEPT ![r.sid] = n + 1]
      /\ pools' = [pools EXCEPT ![r.sid] = n + 1]
      /\ sessions' \in [SessionIds -> 0 .. Len(sess')]
      /\ \A s \in SessionIds : sessions[s] # 0 => sessions'[s] # 0
      /\ sessions'[r.sid] = n + 1
      /\ sessions = pools
  BY <1>1, <1>5, <1>6 DEF OpenCommit, IInv, TypeOK, Paired
<1>8. pools' = sessions' /\ Len(tables') = Len(sess')
  BY <1>5, <1>6, <1>7
<1>9. /\ invites' = [d \in Drivers |-> IF d \in cands THEN <<[sid |-> r.sid, pk |-> r.pk]>>
                                                    ELSE invites[d]]
      /\ invites' \in [Drivers -> Seq(Invites)]
  <2>1. <<[sid |-> r.sid, pk |-> r.pk]>> \in Seq(Invites)
    BY <1>1 DEF Invites
  <2>2. \A d \in Drivers : invites[d] \in Seq(Invites)
    BY DEF IInv, TypeOK
  <2> QED
    BY <2>1, <2>2 DEF OpenCommit
<1>10. call' \in [Conns -> Calls'] /\ call'[c] = Idle /\ \A e \in Conns \ {c} : call'[e] = call[e]
  <2>1. Idle \in Calls'
    BY DEF Calls, Idle
  <2> QED
    BY <1>3, <1>5, <1>6, <2>1, Going DEF OpenCommit, Done, IInv
<1>11. artifacts' \subseteq Artifacts'
  <2>1. 1 .. Len(sess) \subseteq 1 .. Len(sess')
    BY <1>5
  <2> QED
    BY <2>1 DEF OpenCommit, IInv, TypeOK, Artifacts
<1>12. TypeOK'
  BY <1>5, <1>6, <1>7, <1>8, <1>9, <1>10, <1>11 DEF TypeOK, Artifacts, IInv, OpenCommit
<1>13. KeysStored'
  <2>1. ASSUME NEW k \in DOMAIN sess' PROVE sess'[k].pk \in artifacts' /\ sessions'[sess'[k].sid] # 0
    <3>1. CASE k \in DOMAIN sess
      <4>1. sess[k] \in Sessions /\ sess[k].pk \in artifacts /\ sessions[sess[k].sid] # 0
        BY <1>3, <3>1, SeqProps DEF IInv, KeysStored
      <4> QED
        BY <1>5, <1>7, <3>1, <4>1 DEF OpenCommit, Sessions
    <3>2. CASE k = n + 1
      BY <1>1, <1>2, <1>5, <1>7, <3>2 DEF OpenCommit
    <3> QED
      BY <1>5, <3>1, <3>2
  <2> QED
    BY <2>1 DEF KeysStored
<1>14. Carried'
  <2>1. ASSUME NEW e \in Conns PROVE Carries(call[e])' \/ e = c
    <3>1. e # c => call'[e] = call[e] /\ Carries(call[e])
      BY <1>10 DEF IInv, Carried
    <3>2. call[e].pc = "put" => call[e].obj \in DOMAIN sess
      BY <1>5, Stages DEF IInv
    <3> QED
      BY <1>5, <3>1, <3>2 DEF Carries, OpenCommit
  <2>2. Carries(call[c])'
    BY <1>10 DEF Carries, Idle
  <2> QED
    BY <2>1, <2>2 DEF Carried
<1>15. Answers'
  BY <1>5 DEF IInv, Answers, Answered, OpenCommit
<1>16. BidsSignedForTheirSession'
  BY <1>2, <1>5 DEF IInv, BidsSignedForTheirSession
<1>17. InviteIsTheLatest'
  <2> DEFINE Mine(d) == {k \in DOMAIN sess : d \in sess[k].invited}
             Latest(d, k) == invites[d] = <<[sid |-> sess[k].sid, pk |-> sess[k].pk]>>
  <2>1. ASSUME NEW d \in Drivers
        PROVE  IF Mine(d)' = {} THEN invites'[d] = <<>>
               ELSE \E k \in Mine(d)' : (\A j \in Mine(d)' : j <= k) /\ Latest(d, k)'
    <3>1. CASE d \in cands
      <4> DEFINE m == Len(sess')
      <4>1. m \in Mine(d)' /\ \A j \in Mine(d)' : j <= m
        BY <1>2, <1>5, <3>1
      <4>2. sess'[m].sid = r.sid /\ sess'[m].pk = r.pk
        BY <1>2, <1>5
      <4>3. invites'[d] = <<[sid |-> sess'[m].sid, pk |-> sess'[m].pk]>>
        BY <1>9, <3>1, <4>2
      <4> HIDE DEF m
      <4> QED
        BY <4>1, <4>3
    <3>2. CASE d \notin cands
      <4>1. Mine(d)' = Mine(d)
        BY <1>2, <1>5, <3>2
      <4>2. invites'[d] = invites[d]
        BY <1>9, <3>2
      <4>3. \A k \in Mine(d) : Latest(d, k)' = Latest(d, k)
        BY <1>5, <4>2
      <4> QED
        BY <4>1, <4>2, <4>3 DEF IInv, InviteIsTheLatest
    <3> QED
      BY <3>1, <3>2
  <2> QED
    BY <2>1 DEF InviteIsTheLatest
<1> QED
  BY <1>8, <1>12, <1>13, <1>14, <1>15, <1>16, <1>17 DEF IInv, Paired

(* Where one string ends and the next begins, is known from a length.      *)
LEMMA SameBytes ==
  ASSUME NEW x \in Seq(Nat), NEW y \in Seq(Nat), Len(x) = Len(y),
         NEW b \in Seq(Nat), NEW c \in Seq(Nat), x \o b = y \o c
  PROVE  x = y /\ b = c
<1> DEFINE u == x \o b
<1>1. Len(x) \in Nat /\ Len(b) \in Nat /\ Len(c) \in Nat
  BY LenProperties
<1>2. /\ Len(u) = Len(x) + Len(b)
      /\ \A i \in 1 .. Len(x) + Len(b) : u[i] = IF i <= Len(x) THEN x[i] ELSE b[i - Len(x)]
  BY ConcatProperties
<1>3. /\ Len(u) = Len(x) + Len(c)
      /\ \A i \in 1 .. Len(x) + Len(c) : u[i] = IF i <= Len(x) THEN y[i] ELSE c[i - Len(x)]
  BY ConcatProperties
<1> HIDE DEF u
<1>4. Len(b) = Len(c)
  BY <1>1, <1>2, <1>3
<1>5. ASSUME NEW i \in 1 .. Len(x) PROVE x[i] = y[i]
  BY <1>1, <1>2, <1>3
<1>6. ASSUME NEW i \in 1 .. Len(b) PROVE b[i] = c[i]
  <2>1. Len(x) + i \in 1 .. Len(x) + Len(b) /\ ~(Len(x) + i <= Len(x)) /\ (Len(x) + i) - Len(x) = i
    BY <1>1
  <2> QED
    BY <1>2, <1>3, <1>4, <2>1
<1> QED
  BY <1>4, <1>5, <1>6, SeqEqual

(* So a signature that fits, of a session id and a nonce of the lengths in *)
(* question, was made over the very triple.                                *)
LEMMA LengthsDivide ==
  ASSUME NEW bid \in Bids, NEW sid \in SessionIds, Verify(bid, sid)
  PROVE  SignedAsSubmitted(bid, sid)
<1> DEFINE g == bid.sig
<1>1. g \in Sigs /\ bid.enc \in Ciphertexts /\ bid.nonce \in Nonces
  BY DEF Bids
<1>2. g.sid \in SessionIds /\ g.enc \in Ciphertexts /\ g.nonce \in Nonces
  BY <1>1 DEF Sigs
<1>3. SUFFICES ASSUME SameLength(g.sid, sid), SameLength(g.nonce, bid.nonce)
               PROVE  g = [key |-> bid.key, sid |-> sid, enc |-> bid.enc, nonce |-> bid.nonce]
  BY DEF SignedAsSubmitted
<1>4. PICK a, b, c, x, y, z :
        /\ a = Bytes[g.sid] /\ b = Bytes[g.enc] /\ c = Bytes[g.nonce]
        /\ x = Bytes[sid] /\ y = Bytes[bid.enc] /\ z = Bytes[bid.nonce]
  OBVIOUS
<1>5. a \in Seq(Nat) /\ b \in Seq(Nat) /\ c \in Seq(Nat) /\ x \in Seq(Nat) /\ y \in Seq(Nat) /\ z \in Seq(Nat)
  BY <1>1, <1>2, <1>4, BytesAssumption
<1>6. (a \o b) \o c = (x \o y) \o z /\ Len(a) = Len(x) /\ Len(c) = Len(z)
  BY <1>3, <1>4 DEF Verify, Digest, SameLength
<1>0. \A s, t, u, v \in Seq(Nat) : Len(s) = Len(t) /\ s \o u = t \o v => s = t /\ u = v
  BY SameBytes
<1> HIDE DEF g
<1>7. PICK p, q : p = a \o b /\ q = x \o y
  OBVIOUS
<1>8. p \in Seq(Nat) /\ q \in Seq(Nat)
  BY <1>5, <1>7, ConcatProperties
<1>9. p = q /\ c = z
  <2>1. Len(p \o c) = Len(p) + Len(c) /\ Len(q \o z) = Len(q) + Len(z)
    BY <1>5, <1>8, ConcatProperties
  <2>2. Len(p) \in Nat /\ Len(q) \in Nat /\ Len(c) \in Nat /\ Len(z) \in Nat
    BY <1>5, <1>8, LenProperties
  <2>3. p \o c = q \o z
    BY <1>6, <1>7
  <2>4. Len(p) = Len(q)
    BY <1>6, <2>1, <2>2, <2>3
  <2> QED
    BY <1>0, <1>5, <1>8, <2>3, <2>4
<1>10. a = x /\ b = y
  BY <1>0, <1>5, <1>6, <1>7, <1>9
<1>11. g.sid = sid /\ g.enc = bid.enc /\ g.nonce = bid.nonce
  BY <1>1, <1>2, <1>4, <1>9, <1>10, BytesAssumption
<1>12. g.key = bid.key
  BY DEF Verify, g
<1> QED
  BY <1>1, <1>11, <1>12 DEF Sigs

(* A bid joins those of its session, after all that were taken before, if  *)
(* its signature fits.                                                     *)
LEMMA Submitting == ASSUME IInv, NEW c \in Conns, BidSubmit(c) PROVE IInv'
<1> DEFINE k == call[c].obj
           bid == call[c].req.bid
           old == sess[k]
           new == [old EXCEPT !.bids = Append(@, bid)]
<1>1. CASE ~Verify(bid, old.sid)
  BY <1>1, QuietGoing, Tabled, IdleIsFine DEF BidSubmit, Done
<1>2. CASE Verify(bid, old.sid)
  <2>1. k \in DOMAIN sess /\ sess \in Seq(Sessions) /\ old \in Sessions /\ bid \in Bids
    BY Stages DEF BidSubmit, IInv, TypeOK, BidBodies
  <2>2. old.bids \in Seq(Bids)
    BY <2>1 DEF Sessions
  <2>3. /\ Append(old.bids, bid) \in Seq(Bids)
        /\ Len(Append(old.bids, bid)) = Len(old.bids) + 1 /\ Len(old.bids) \in Nat
        /\ DOMAIN Append(old.bids, bid) = DOMAIN old.bids \cup {Len(old.bids) + 1}
        /\ DOMAIN old.bids = 1 .. Len(old.bids)
        /\ \A i \in DOMAIN old.bids : Append(old.bids, bid)[i] = old.bids[i]
        /\ Append(old.bids, bid)[Len(old.bids) + 1] = bid
    <3>1. ASSUME NEW b \in Seq(Bids), NEW x \in Bids
          PROVE  /\ Append(b, x) \in Seq(Bids)
                 /\ Len(Append(b, x)) = Len(b) + 1 /\ Len(b) \in Nat
                 /\ DOMAIN Append(b, x) = DOMAIN b \cup {Len(b) + 1} /\ DOMAIN b = 1 .. Len(b)
                 /\ \A i \in DOMAIN b : Append(b, x)[i] = b[i]
                 /\ Append(b, x)[Len(b) + 1] = x
      BY AppendProps
    <3> HIDE DEF old, bid
    <3> QED
      BY <2>1, <2>2, <3>1
  <2>4. /\ new \in Sessions /\ new.sid = old.sid /\ new.pk = old.pk
        /\ new.invited = old.invited /\ new.bids = Append(old.bids, bid)
    BY <2>1, <2>3 DEF Sessions
  <2>5. sess' = [sess EXCEPT ![k] = new]
    BY <1>2, <2>1 DEF BidSubmit, Submitted
  <2> HIDE DEF new
  <2>6. /\ sess' \in Seq(Sessions) /\ Len(sess') = Len(sess) /\ DOMAIN sess' = DOMAIN sess
        /\ sess'[k] = new /\ \A j \in DOMAIN sess \ {k} : sess'[j] = sess[j]
    BY <2>1, <2>4, <2>5, UpdateProps
  <2>7. \A j \in DOMAIN sess : /\ sess'[j].sid = sess[j].sid /\ sess'[j].pk = sess[j].pk
                              /\ sess'[j].invited = sess[j].invited
    BY <2>4, <2>6
  <2>8. UNCHANGED <<artifacts, driver, tables, maps, now, replies, by>>
    BY DEF BidSubmit
  <2>9. call' \in [Conns -> Calls] /\ \A e \in Conns : call'[e] = call[e] \/ call'[e] = Idle
    BY IdleIsFine DEF BidSubmit, Done, Goto, IInv, TypeOK
  <2>10. TypeOK'
    BY <2>6, <2>8, <2>9 DEF IInv, TypeOK, Calls, maps
  <2>11. Paired' /\ KeysStored'
    BY <2>6, <2>7, <2>8 DEF IInv, Paired, KeysStored, maps
  <2>12. \A j \in DOMAIN sess : \A b \in Seq(Bids) :
           Begins(b, sess[j].bids) => Begins(b, sess'[j].bids)
    <3>1. ASSUME NEW b \in Seq(Bids), Begins(b, old.bids) PROVE Begins(b, new.bids)
      <4>1. Len(b) \in Nat
        OBVIOUS
      <4> QED
        BY <2>3, <2>4, <3>1, <4>1 DEF Begins
    <3> QED
      BY <2>6, <3>1
  <2>13. Carried'
    <3>1. ASSUME NEW e \in Conns, call'[e] = call[e] PROVE Carries(call[e])'
      <4>1. Carries(call[e])
        BY DEF IInv, Carried
      <4>2. call[e].pc = "put" => call[e].obj \in DOMAIN sess /\ call[e].bids \in Seq(Bids)
        BY <2>1, SeqProps, Stages DEF IInv
      <4> QED
        BY <2>8, <2>12, <3>1, <4>1, <4>2 DEF Carries
    <3>2. ASSUME NEW e \in Conns, call'[e] = Idle PROVE Carries(call[e])'
      BY <3>2 DEF Carries, Idle
    <3> QED
      BY <2>9, <3>1, <3>2 DEF Carried
  <2>14. Answers'
    BY <2>6, <2>8, <2>12 DEF IInv, Answers, Answered
  <2>15. BidsSignedForTheirSession'
    <3>1. ASSUME NEW j \in DOMAIN sess, NEW i \in DOMAIN sess'[j].bids
          PROVE  SignedAsSubmitted(sess'[j].bids[i], sess'[j].sid)
      <4>1. CASE j # k
        BY <2>6, <4>1 DEF IInv, BidsSignedForTheirSession
      <4>2. CASE j = k /\ i \in DOMAIN old.bids
        BY <2>1, <2>3, <2>4, <2>6, <4>2 DEF IInv, BidsSignedForTheirSession
      <4>3. CASE j = k /\ i = Len(old.bids) + 1
        <5>1. SignedAsSubmitted(bid, old.sid)
          BY <1>2, <2>1, LengthsDivide DEF Sessions
        <5>2. sess'[j].bids[i] = bid /\ sess'[j].sid = old.sid
          BY <2>3, <2>4, <2>6, <4>3
        <5> QED
          BY <5>1, <5>2
      <4> QED
        BY <2>3, <2>4, <2>6, <4>1, <4>2, <4>3
    <3> QED
      BY <2>6, <3>1 DEF BidsSignedForTheirSession
  <2>16. InviteIsTheLatest'
    <3>1. UNCHANGED invites
      BY <2>8 DEF maps
    <3>2. \A d \in Drivers :
            {j \in DOMAIN sess : d \in sess[j].invited}' = {j \in DOMAIN sess : d \in sess[j].invited}
      BY <2>6, <2>7
    <3> QED
      BY <2>7, <3>1, <3>2 DEF IInv, InviteIsTheLatest
  <2> QED
    BY <2>10, <2>11, <2>13, <2>14, <2>15, <2>16 DEF IInv
<1> QED
  BY <1>1, <1>2
-----------------------------------------------------------------------------
LEMMA IInvInit == Init => IInv
<1> SUFFICES ASSUME Init PROVE IInv
  OBVIOUS
<1>1. /\ <<>> \in Seq(Sessions) /\ <<>> \in Seq(Tables) /\ <<>> \in Seq(Invites)
      /\ Len(<<>>) = 0 /\ DOMAIN <<>> = {}
  OBVIOUS
<1>2. call \in [Conns -> Calls] /\ \A c \in Conns : Carries(call[c])
  BY IdleIsFine DEF Init
<1>3. TypeOK
  BY <1>1, <1>2, BoundsAssumption DEF Init, TypeOK
<1> QED
  BY <1>1, <1>2, <1>3 DEF Init, IInv, Paired, KeysStored, Carried, Answers,
                          BidsSignedForTheirSession, InviteIsTheLatest

LEMMA IInvNext == IInv /\ [Next]_vars => IInv'
<1> SUFFICES ASSUME IInv, [Next]_vars PROVE IInv'
  OBVIOUS
<1>1. CASE UNCHANGED vars
  BY <1>1 DEF vars, maps, IInv, TypeOK, Calls, Paired, KeysStored, Carried, Carries, Answers, Answered,
              BidsSignedForTheirSession, InviteIsTheLatest
<1>2. CASE Store
  BY <1>2, Storing
<1>3. ASSUME NEW g \in GridRequests, Grid(g) PROVE IInv'
  BY <1>3, Registering
<1>4. ASSUME NEW c \in Conns, Open(c) PROVE IInv'
  BY <1>4, Opening, Committing DEF Open
<1>5. ASSUME NEW c \in Conns, Bid(c) PROVE IInv'
  BY <1>5, BidUnderWay, Submitting DEF Bid
<1>6. ASSUME NEW c \in Conns, SessionMasks(c) \/ Offer(c) PROVE IInv'
  BY <1>6, Masking, Offering
<1>7. CASE (\E k \in 1 .. Len(tables) : Sweep(k)) \/ Tick
  BY <1>7, Timing
<1> QED
  BY <1>1, <1>2, <1>3, <1>4, <1>5, <1>6, <1>7 DEF Next

LEMMA Invariant == Spec => []IInv
BY IInvInit, IInvNext, PTL DEF Spec

(* Every variable keeps its type: a handler that holds a pointer to a      *)
(* session or a pool never finds it dangling, and every mask in the store  *)
(* is one of a session that exists.                                        *)
THEOREM TypeCorrect == Spec => []TypeOK
<1>1. IInv => TypeOK
  BY DEF IInv
<1> QED
  BY <1>1, Invariant, PTL

(* Mask i stays the mask of bid i, however many bids come between the      *)
(* snapshot, the answer, and the rider's question for the bidder's name.   *)
THEOREM MasksKeepTheirBidders == Spec => []MasksNameBidders
<1>1. IInv => MasksNameBidders
  <2> SUFFICES ASSUME IInv, NEW r \in replies
               PROVE  r.bids = SubSeq(sess[r.obj].bids, 1, Len(r.bids)) /\ r.masks <= r.count
    BY DEF MasksNameBidders
  <2>1. Answered(r)
    BY DEF IInv, Answers
  <2>2. sess[r.obj].bids \in Seq(Bids)
    BY <2>1, Snapshot DEF Answered
  <2> QED
    BY <2>1, <2>2, BeginsSub DEF Answered
<1> QED
  BY <1>1, Invariant, PTL

(* The key of every bid that counts in a session has signed the bytes of   *)
(* the session's id, the bid's ciphertext and its nonce, although the      *)
(* session may be opened again while the bid is being handled; and if      *)
(* ids, and nonces, are of one length, it has signed these very three.     *)
THEOREM BidsAreSigned == Spec => []BidsSignedForTheirSession
<1>1. IInv => BidsSignedForTheirSession
  BY DEF IInv
<1> QED
  BY <1>1, Invariant, PTL

(* A driver's one invite is of the last session that found the driver,     *)
(* however opens of the same and of other sessions overlap.                *)
THEOREM InvitesAreTheLatest == Spec => []InviteIsTheLatest
<1>1. IInv => InviteIsTheLatest
  BY DEF IInv
<1> QED
  BY <1>1, Invariant, PTL

(* Whoever has an invite can act on it: its key is stored, its session and *)
(* its pool exist.                                                         *)
THEOREM InvitesAreUsable == Spec => []InviteIsUsable
<1>1. IInv => InviteIsUsable
  <2> SUFFICES ASSUME IInv PROVE InviteIsUsable
    OBVIOUS
  <2>1. ASSUME NEW d \in Drivers, NEW i \in DOMAIN invites[d]
        PROVE  invites[d][i].pk \in artifacts /\ sessions[invites[d][i].sid] # 0
    <3>1. PICK k \in DOMAIN sess : invites[d] = <<[sid |-> sess[k].sid, pk |-> sess[k].pk]>>
      BY <2>1 DEF IInv, InviteIsTheLatest
    <3>2. invites[d][i] = [sid |-> sess[k].sid, pk |-> sess[k].pk]
      BY <3>1
    <3> QED
      BY <3>2 DEF IInv, KeysStored
  <2>2. \A s \in SessionIds : pools[s] = sessions[s]
    BY DEF IInv, Paired
  <2> QED
    BY <2>1, <2>2 DEF InviteIsUsable
<1> QED
  BY <1>1, Invariant, PTL
-----------------------------------------------------------------------------
(* The k-th pool, seen as what it promises.                                *)
P(k) == INSTANCE OfferPromise WITH offers <- TableOf(k), clock <- now, Grace <- MaxTime

PromisedStep(k) == P(k)!PNext \/ UNCHANGED P(k)!promise

LEMMA PromiseCardinality ==
  ASSUME NEW k, NEW S
  PROVE  P(k)!Cardinality(S) = Cardinality(S)
BY DEF Cardinality, P!Cardinality

LEMMA PoolTyped ==
  ASSUME IInv, NEW k \in Nat \ {0}
  PROVE  TableOf(k) \in Tables /\ now \in Nat /\ tables \in Seq(Tables)
<1>1. now \in Nat /\ tables \in Seq(Tables)
  BY BoundsAssumption DEF IInv, TypeOK
<1>2. EmptyTable \in Tables
  BY DEF EmptyTable, Tables
<1>3. k <= Len(tables) => k \in DOMAIN tables
  BY <1>1
<1> QED
  BY <1>1, <1>2, <1>3 DEF TableOf

(* The tables of an offer's expiry are numbers.                            *)
LEMMA Expiries ==
  ASSUME NEW t \in Tables, NEW id \in Keys(t)
  PROVE  id \in OfferIds /\ t[id] \in Offers /\ t[id].expiresAt \in Nat
BY DEF Tables, Keys, Offers

(* What happens to one pool is nothing to the others.                      *)
LEMMA OnePool ==
  ASSUME IInv, NEW k \in Nat \ {0}, NEW j \in 1 .. Len(tables), NEW after,
         tables' = [tables EXCEPT ![j] = after]
  PROVE  TableOf(k)' = IF k = j THEN after ELSE TableOf(k)
<1>1. tables \in Seq(Tables) /\ DOMAIN tables = 1 .. Len(tables) /\ Len(tables) \in Nat
  BY DEF IInv, TypeOK
<1>2. Len(tables') = Len(tables)
  BY <1>1
<1> QED
  BY <1>1, <1>2 DEF TableOf

LEMMA NewPoolEmpty ==
  ASSUME IInv, NEW k \in Nat \ {0}, tables' = Append(tables, EmptyTable)
  PROVE  TableOf(k)' = TableOf(k)
<1>1. tables \in Seq(Tables) /\ EmptyTable \in Tables
  BY DEF IInv, TypeOK, EmptyTable, Tables
<1>2. /\ Len(tables') = Len(tables) + 1 /\ Len(tables) \in Nat
      /\ \A i \in 1 .. Len(tables) : tables'[i] = tables[i]
      /\ tables'[Len(tables) + 1] = EmptyTable
  BY <1>1, AppendProps
<1> QED
  BY <1>2 DEF TableOf

(* A step that deletes only offers that have expired is a lapse.           *)
LEMMA DropIsLapse ==
  ASSUME IInv, NEW k \in Nat \ {0}, NEW ids \in SUBSET Expired(TableOf(k), now),
         TableOf(k)' = Drop(TableOf(k), ids), now' = now, by' = "time"
  PROVE  P(k)!Lapse
<1>1. ids \in SUBSET (P(k)!Keys(TableOf(k)) \ P(k)!Standing)
  BY PoolTyped, Expiries DEF Expired, Keys, P!Keys, P!Standing
<1> QED
  BY <1>1 DEF P!Lapse, Drop

(* A hold in a pool with room grants an offer.                             *)
LEMMA HoldIsGrant ==
  ASSUME IInv, NEW k \in Nat \ {0}, NEW id \in OfferIds, NEW d \in Drivers,
         HasRoom(TableOf(k)), TableOf(k)' = HoldIn(TableOf(k), id, d, now),
         now' = now, by' = "rider"
  PROVE  P(k)!Grant(id, d)
<1> DEFINE keys == Keys(TableOf(k))
<1>1. P(k)!Standing \ {id} \subseteq keys
  BY DEF P!Standing, P!Keys, Keys
<1>2. IsFiniteSet(keys) /\ Cardinality(keys) \in Nat
  <2>1. keys \subseteq OfferIds
    BY DEF Keys
  <2> QED
    BY <2>1, OfferIdsAssumption, FS_Subset, FS_CardinalityType
<1>3. /\ IsFiniteSet(P(k)!Standing \ {id})
      /\ Cardinality(P(k)!Standing \ {id}) <= Cardinality(keys)
  BY <1>1, <1>2, FS_Subset
<1>4. Cardinality(P(k)!Standing \ {id}) \in Nat
  BY <1>3, FS_CardinalityType
<1>5. Cardinality(P(k)!Standing \ {id}) < MaxHeld
  BY <1>2, <1>3, <1>4, MaxHeldAssumption DEF HasRoom
<1> QED
  BY <1>5, PromiseCardinality DEF P!Grant, HoldIn

(* A call of a pool's method is a step of the promise of that pool, and no *)
(* step of any other's.                                                    *)
LEMMA CallKeepsPromise ==
  ASSUME IInv, NEW k \in Nat \ {0}, NEW c \in Conns,
         OfferHold(c) \/ OfferAccept(c) \/ OfferCancel(c) \/ OfferHeld(c)
  PROVE  PromisedStep(k)
<1> DEFINE t == TableOf(k)
           j == call[c].obj
           id == call[c].req.id
           d == call[c].req.driver
<1>1. j \in 1 .. Len(tables) /\ id \in OfferIds /\ d \in Drivers /\ now' = now /\ j \in Nat \ {0}
  BY Stages DEF IInv, OfferBodies, OfferHold, OfferAccept, OfferCancel, OfferHeld, PoolCall
<1>2. t \in Tables /\ now \in Nat
  BY PoolTyped
<1>3. j = k => Pool(c) = t
  BY <1>1 DEF Pool, TableOf
<1>4. ASSUME TableOf(k)' = TableOf(k) PROVE PromisedStep(k)
  BY <1>1, <1>4 DEF PromisedStep, P!promise
<1>5. ASSUME NEW op, NEW who, NEW allowed, NEW after, PoolCall(c, op, who, allowed, after)
      PROVE  /\ TableOf(k)' = IF k = j /\ allowed THEN after ELSE TableOf(k)
             /\ by' = who
  <2>1. CASE allowed
    BY <1>1, <1>5, <2>1, OnePool DEF PoolCall
  <2>2. CASE ~allowed
    BY <1>5, <2>2 DEF PoolCall, TableOf
  <2> QED
    BY <1>5, <2>1, <2>2 DEF PoolCall
<1>6. CASE k # j
  BY <1>4, <1>5, <1>6 DEF OfferHold, OfferAccept, OfferCancel, OfferHeld
<1>7. ASSUME k = j, OfferHold(c) PROVE PromisedStep(k)
  <2>1. TableOf(k)' = (IF HasRoom(t) THEN HoldIn(t, id, d, now) ELSE t) /\ by' = "rider"
    BY <1>3, <1>5, <1>7 DEF OfferHold
  <2>2. CASE HasRoom(t)
    <3>1. P(k)!Grant(id, d)
      BY <1>1, <2>1, <2>2, HoldIsGrant
    <3> QED
      BY <1>1, <3>1 DEF PromisedStep, P!PNext
  <2> QED
    BY <1>4, <2>1, <2>2
<1>8. ASSUME k = j, OfferAccept(c) PROVE PromisedStep(k)
  <2>1. TableOf(k)' = (IF id \in Keys(t) THEN AcceptIn(t) ELSE t) /\ by' = "rider"
    <3>1. PoolCall(c, "accept", "rider", id \in Keys(t), AcceptIn(t))
      BY <1>3, <1>8 DEF OfferAccept
    <3>2. TableOf(k) = t /\ k = j
      BY <1>8
    <3>3. /\ TableOf(k)' = IF k = j /\ id \in Keys(t) THEN AcceptIn(t) ELSE TableOf(k)
          /\ by' = "rider"
      BY <1>5, <3>1
    <3> HIDE DEF t, id, j
    <3> QED
      BY <3>2, <3>3
  <2>2. CASE id \in Keys(t)
    <3>1. AcceptIn(t) = P(k)!EmptyTable
      BY <1>2 DEF AcceptIn, Drop, Keys, P!EmptyTable, Tables
    <3>2. P(k)!Take(id)
      BY <1>1, <2>1, <2>2, <3>1 DEF P!Take, P!Keys, Keys
    <3> QED
      BY <1>1, <3>2 DEF PromisedStep, P!PNext
  <2> QED
    BY <1>4, <2>1, <2>2
<1>9. ASSUME k = j, OfferCancel(c) PROVE PromisedStep(k)
  <2>1. TableOf(k)' = (IF id \in Keys(t) THEN CancelIn(t, id) ELSE t) /\ by' = "rider"
    <3>1. PoolCall(c, "cancel", "rider", id \in Keys(t), CancelIn(t, id))
      BY <1>3, <1>9 DEF OfferCancel
    <3>2. TableOf(k) = t /\ k = j
      BY <1>9
    <3>3. /\ TableOf(k)' = IF k = j /\ id \in Keys(t) THEN CancelIn(t, id) ELSE TableOf(k)
          /\ by' = "rider"
      BY <1>5, <3>1
    <3> HIDE DEF t, id, j
    <3> QED
      BY <3>2, <3>3
  <2>2. CASE id \in Keys(t)
    <3>1. CancelIn(t, id) = [t EXCEPT ![id] = NoOffer]
      BY <1>2 DEF CancelIn, Drop, Tables
    <3>2. P(k)!Withdraw(id)
      BY <1>1, <2>1, <2>2, <3>1 DEF P!Withdraw, P!Keys, Keys
    <3> QED
      BY <1>1, <3>2 DEF PromisedStep, P!PNext
  <2> QED
    BY <1>4, <2>1, <2>2
<1>10. ASSUME k = j, OfferHeld(c) PROVE PromisedStep(k)
  <2>1. TableOf(k)' = Drop(t, Expired(t, now)) /\ by' = "time"
    BY <1>3, <1>5, <1>10 DEF OfferHeld, HeldIn
  <2>2. P(k)!Lapse
    BY <1>1, <2>1, DropIsLapse
  <2> QED
    BY <2>2 DEF PromisedStep, P!PNext
<1> QED
  BY <1>6, <1>7, <1>8, <1>9, <1>10

LEMMA StepKeepsPromise ==
  ASSUME IInv, [Next]_vars, NEW k \in Nat \ {0}
  PROVE  PromisedStep(k)
<1>1. TableOf(k) \in Tables /\ now \in Nat /\ tables \in Seq(Tables)
  BY PoolTyped
<1>2. ASSUME TableOf(k)' = TableOf(k), now' = now PROVE PromisedStep(k)
  BY <1>2 DEF PromisedStep, P!promise
<1>3. ASSUME UNCHANGED <<tables, now>> PROVE PromisedStep(k)
  BY <1>2, <1>3 DEF TableOf
<1>4. CASE UNCHANGED vars
  BY <1>3, <1>4 DEF vars
<1>5. CASE Store \/ \E g \in GridRequests : Grid(g)
  BY <1>3, <1>5 DEF Store, ArtifactPut, Grid
<1>6. ASSUME NEW c \in Conns, Open(c) PROVE PromisedStep(k)
  <2>1. CASE OpenCommit(c)
    BY <1>2, <2>1, NewPoolEmpty DEF OpenCommit
  <2> QED
    BY <1>3, <1>6, <2>1 DEF Open, OpenBegin, OpenDiscover
<1>7. ASSUME NEW c \in Conns, Bid(c) \/ SessionMasks(c) PROVE PromisedStep(k)
  BY <1>3, <1>7 DEF Bid, BidLookup, BidFetch, BidSubmit, SessionMasks, MasksLookup, MasksRun, MasksReply
<1>8. ASSUME NEW c \in Conns, Offer(c) PROVE PromisedStep(k)
  <2>1. CASE \E r \in OfferRequests : OfferLookup(c, r)
    BY <1>3, <2>1 DEF OfferLookup
  <2> QED
    BY <1>8, <2>1, CallKeepsPromise DEF Offer
<1>9. ASSUME NEW j \in 1 .. Len(tables), Sweep(j) PROVE PromisedStep(k)
  <2>1. TableOf(k)' = IF k = j THEN SweepIn(tables[j], now) ELSE TableOf(k)
    BY <1>9, OnePool DEF Sweep
  <2>2. CASE k = j
    <3>1. tables[j] = TableOf(k)
      BY <1>9, <2>2 DEF TableOf
    <3>2. Overdue(TableOf(k), now) \in SUBSET Expired(TableOf(k), now)
      BY <1>1, Expiries DEF Overdue, Expired
    <3>3. P(k)!Lapse
      BY <1>9, <2>1, <2>2, <3>1, <3>2, DropIsLapse DEF Sweep, SweepIn
    <3> QED
      BY <3>3 DEF PromisedStep, P!PNext
  <2> QED
    BY <1>2, <1>9, <2>1, <2>2 DEF Sweep
<1>10. CASE Tick
  <2>1. \A id \in P(k)!Keys(TableOf(k)) : now' <= TableOf(k)[id].expiresAt + MaxTime
    BY <1>1, <1>10, Expiries, BoundsAssumption DEF Tick, P!Keys, Keys
  <2>2. TableOf(k)' = TableOf(k) /\ now' = now + 1 /\ by' = "time"
    BY <1>10 DEF Tick, TableOf
  <2> QED
    BY <2>1, <2>2 DEF PromisedStep, P!PNext, P!Pass
<1> QED
  BY <1>4, <1>5, <1>6, <1>7, <1>8, <1>9, <1>10 DEF Next

(* Every step of the server is a step of both promises, or leaves them     *)
(* alone.                                                                  *)
LEMMA FirstStep == IInv /\ [Next]_vars => [FirstPool!PNext]_(FirstPool!promise)
<1> SUFFICES ASSUME IInv, [Next]_vars PROVE FirstPool!PNext \/ UNCHANGED FirstPool!promise
  OBVIOUS
<1>1. PromisedStep(1)
  BY StepKeepsPromise
<1> QED
  BY <1>1 DEF PromisedStep, P!promise, FirstPool!promise, P!PNext, FirstPool!PNext,
     P!Grant, P!Take, P!Withdraw, P!Lapse, P!Pass, P!Keys, P!Standing, P!EmptyTable,
     FirstPool!Grant, FirstPool!Take, FirstPool!Withdraw, FirstPool!Lapse, FirstPool!Pass,
     FirstPool!Keys, FirstPool!Standing, FirstPool!EmptyTable, P!Cardinality, FirstPool!Cardinality

LEMMA SecondStep == IInv /\ [Next]_vars => [SecondPool!PNext]_(SecondPool!promise)
<1> SUFFICES ASSUME IInv, [Next]_vars PROVE SecondPool!PNext \/ UNCHANGED SecondPool!promise
  OBVIOUS
<1>1. PromisedStep(2)
  BY StepKeepsPromise
<1> QED
  BY <1>1 DEF PromisedStep, P!promise, SecondPool!promise, P!PNext, SecondPool!PNext,
     P!Grant, P!Take, P!Withdraw, P!Lapse, P!Pass, P!Keys, P!Standing, P!EmptyTable,
     SecondPool!Grant, SecondPool!Take, SecondPool!Withdraw, SecondPool!Lapse, SecondPool!Pass,
     SecondPool!Keys, SecondPool!Standing, SecondPool!EmptyTable, P!Cardinality, SecondPool!Cardinality

LEMMA PromiseInit == Init => FirstPool!PInit /\ SecondPool!PInit
<1> SUFFICES ASSUME Init PROVE FirstPool!PInit /\ SecondPool!PInit
  OBVIOUS
<1>1. TableOf(1) = EmptyTable /\ TableOf(2) = EmptyTable
  BY DEF Init, TableOf
<1> QED
  BY <1>1 DEF Init, FirstPool!PInit, SecondPool!PInit, EmptyTable, FirstPool!EmptyTable,
              SecondPool!EmptyTable

(* Behind the handlers, which look a pool up in one step and call it in    *)
(* another, behind the sessions opened again, and with the sweepers, the   *)
(* pools keep what OfferPromise says.                                      *)
THEOREM PoolsKeepTheirPromise == Spec => PoolsKeepPromise
BY PromiseInit, FirstStep, SecondStep, Invariant, PTL
   DEF Spec, PoolsKeepPromise, FirstPool!PSpec, SecondPool!PSpec
-----------------------------------------------------------------------------
(* Induction.  The library's theorems on it take an operator; these state  *)
(* it of sets and functions, which the provers can instantiate.            *)
LEMMA Least ==
  ASSUME NEW T, T \subseteq Nat, T # {}
  PROVE  \E n \in T : \A m \in T : n <= m
<1> DEFINE R == OpToRel(<, Nat)
<1>1. IsWellFoundedOn(R, Nat)
  BY NatLessThanWellFounded
<1>2. PICK n \in T : \A m \in T : <<m, n>> \notin R
  <2> HIDE DEF R
  <2> QED BY <1>1, WFMin, Zenon
<1>3. \A m \in T : ~(m < n)
  BY <1>2 DEF OpToRel
<1> QED BY <1>3

LEMMA Induction ==
  ASSUME NEW T, 0 \in T, \A n \in Nat : n \in T => n + 1 \in T
  PROVE  \A n \in Nat : n \in T
  <1> SUFFICES ASSUME NEW k \in Nat, k \notin T PROVE FALSE
    OBVIOUS
  <1>1. PICK n \in Nat \ T : \A m \in Nat \ T : n <= m
    <2>1. Nat \ T # {}
      OBVIOUS
    <2>2. QED
      BY <2>1, Least
  <1>2. n - 1 \in Nat /\ n - 1 \notin Nat \ T
    BY <1>1
  <1>3. QED
    BY <1>1, <1>2

(* A function whose recursion goes on at one place: out where it ends, on D, *)
(* the value at next elsewhere; m counts what is left of it.               *)
TailRecursive(X, V, D, out, next, m) ==
  /\ m \in [X -> Nat]
  /\ \A x \in X \cap D : out[x] \in V
  /\ \A x \in X \ D : next[x] \in X /\ m[next[x]] < m[x]

Solution(f, X, V, D, out, next) ==
  f \in [X -> V] /\ \A x \in X : f[x] = IF x \in D THEN out[x] ELSE f[next[x]]

(* Such a function exists.                                                 *)
LEMMA TailRecursion ==
  ASSUME NEW X, NEW V, NEW D, NEW out, NEW next, NEW m, TailRecursive(X, V, D, out, next, m)
  PROVE  \E f : Solution(f, X, V, D, out, next)
<1>0. /\ m \in [X -> Nat]
      /\ \A x \in X \cap D : out[x] \in V
      /\ \A x \in X \ D : next[x] \in X /\ m[next[x]] < m[x]
  BY DEF TailRecursive
<1> USE <1>0
<1> DEFINE Below(n) == {x \in X : m[x] < n}
           Solves(f, n) == f \in [Below(n) -> V] /\ \A x \in Below(n) : f[x] = IF x \in D THEN out[x] ELSE f[next[x]]
           Unsolved == {n \in Nat : ~\E f : Solves(f, n)}
<1>1. \A n \in Nat : \A x \in Below(n) : x \notin D => next[x] \in Below(n)
  <2> SUFFICES ASSUME NEW n \in Nat, NEW x \in Below(n), x \notin D PROVE next[x] \in Below(n)
    OBVIOUS
  <2>1. next[x] \in X /\ m[next[x]] < m[x] /\ m[x] < n /\ m[next[x]] \in Nat /\ m[x] \in Nat
    OBVIOUS
  <2> QED BY <2>1
<1>2. ASSUME Unsolved # {} PROVE FALSE
  <2>1. PICK n \in Unsolved : \A k \in Unsolved : n <= k
    <3>1. Unsolved \subseteq Nat
      OBVIOUS
    <3> HIDE DEF Unsolved
    <3> QED BY <1>2, <3>1, Least
  <2>2. CASE n = 0
    <3>1. Below(0) = {}
      OBVIOUS
    <3>2. Solves(<<>>, 0)
      BY <3>1
    <3> QED BY <2>2, <3>2
  <2>3. CASE n # 0
    <3>1. n - 1 \in Nat /\ n - 1 \notin Unsolved
      <4>1. n \in Nat
        OBVIOUS
      <4>2. n - 1 \in Nat /\ ~(n <= n - 1)
        BY <2>3, <4>1
      <4> HIDE DEF Unsolved
      <4> QED BY <2>1, <4>2
    <3>2. PICK f : Solves(f, n - 1)
      BY <3>1
    <3> DEFINE g == [x \in Below(n) |-> IF x \in D THEN out[x] ELSE f[next[x]]]
    <3>3. \A x \in Below(n) : x \notin D => next[x] \in Below(n - 1)
      <4> SUFFICES ASSUME NEW x \in Below(n), x \notin D PROVE next[x] \in Below(n - 1)
        OBVIOUS
      <4>1. next[x] \in X /\ m[next[x]] < m[x] /\ m[x] < n /\ m[next[x]] \in Nat /\ m[x] \in Nat
        OBVIOUS
      <4> QED BY <4>1, <3>1
    <3>4. g \in [Below(n) -> V]
      BY <3>2, <3>3
    <3>5. \A x \in Below(n - 1) : x \in Below(n) /\ g[x] = f[x]
      BY <3>2, <3>1
    <3>6. \A x \in Below(n) : g[x] = IF x \in D THEN out[x] ELSE g[next[x]]
      BY <3>3, <3>5
    <3>7. Solves(g, n)
      BY <3>4, <3>6
    <3> QED BY <3>7
  <2> QED BY <2>2, <2>3
<1>3. \A n \in Nat : \E f : Solves(f, n)
  BY <1>2
<1> DEFINE s == [n \in Nat |-> CHOOSE f : Solves(f, n)]
           F == [x \in X |-> s[m[x] + 1][x]]
<1>4. \A n \in Nat : Solves(s[n], n)
  <2> HIDE DEF Solves
  <2> QED BY <1>3
<1>5. \A x \in X : m[x] + 1 \in Nat /\ x \in Below(m[x] + 1)
  OBVIOUS
<1>6. \A n \in Nat : /\ s[n] \in [Below(n) -> V]
                     /\ \A x \in Below(n) : s[n][x] = IF x \in D THEN out[x] ELSE s[n][next[x]]
  <2> HIDE DEF s
  <2> QED BY <1>4
<1> HIDE DEF s
<1>7. F \in [X -> V]
  <2>1. \A x \in X : s[m[x] + 1][x] \in V
    <3> SUFFICES ASSUME NEW x \in X PROVE s[m[x] + 1][x] \in V
      OBVIOUS
    <3>1. s[m[x] + 1] \in [Below(m[x] + 1) -> V] /\ x \in Below(m[x] + 1)
      BY <1>5, <1>6
    <3> HIDE DEF Below
    <3> QED BY <3>1
  <2> QED BY <2>1
<1>8. \A n \in Nat : Below(n) \subseteq X /\ \A x \in Below(n) \ D : next[x] \in Below(n)
  BY <1>1
<1> DEFINE Differ == {y \in X : \E p, r \in Nat : y \in Below(p) /\ y \in Below(r) /\ s[p][y] # s[r][y]}
<1>9. ASSUME Differ # {} PROVE FALSE
  <2> DEFINE T == {m[y] : y \in Differ}
  <2>1. T \subseteq Nat /\ T # {}
    BY <1>9
  <2>2. PICK k \in T : \A j \in T : k <= j
    <3> HIDE DEF T
    <3> QED BY <2>1, Least
  <2>3. PICK y \in Differ : \A z \in Differ : m[y] <= m[z]
    BY <2>2
  <2>4. PICK p, r \in Nat : y \in Below(p) /\ y \in Below(r) /\ s[p][y] # s[r][y]
    OBVIOUS
  <2>5. y \notin D
    BY <1>6, <2>4
  <2>6. next[y] \in Below(p) /\ next[y] \in Below(r) /\ s[p][next[y]] # s[r][next[y]]
    <3> HIDE DEF Below
    <3> QED BY <1>6, <1>8, <2>4, <2>5
  <2>7. next[y] \in Differ /\ m[next[y]] < m[y] /\ m[next[y]] \in Nat /\ m[y] \in Nat
    BY <2>4, <2>5, <2>6
  <2> HIDE DEF Differ
  <2> QED BY <2>3, <2>7
<1>10. ASSUME NEW x \in X, x \notin D PROVE F[x] = F[next[x]]
  <2>1. PICK y, p, r : y = next[x] /\ p = m[x] + 1 /\ r = m[y] + 1
    OBVIOUS
  <2>2. y \in X /\ p \in Nat /\ r \in Nat /\ x \in Below(p) /\ y \in Below(p) /\ y \in Below(r)
    BY <1>5, <1>8, <1>10, <2>1
  <2>3. F[x] = s[p][x] /\ F[y] = s[r][y]
    BY <2>1, <2>2
  <2>4. s[p][x] = s[p][y]
    BY <1>6, <1>10, <2>1, <2>2
  <2>5. s[p][y] = s[r][y]
    BY <1>9, <2>2
  <2> QED BY <2>1, <2>3, <2>4, <2>5
<1>11. ASSUME NEW x \in X, x \in D PROVE F[x] = out[x]
  <2>1. s[m[x] + 1][x] = out[x]
    <3> HIDE DEF Below
    <3> QED BY <1>5, <1>6, <1>11
  <2> QED BY <2>1
<1>12. \A x \in X : F[x] = IF x \in D THEN out[x] ELSE F[next[x]]
  BY <1>10, <1>11
<1> HIDE DEF F
<1> QED BY <1>7, <1>12 DEF Solution

(* f counts n steps from f0.                                               *)
Iterates(f, S, f0, step, n) ==
  /\ f \in [0 .. n -> S]
  /\ f[0] = f0
  /\ \A k \in 1 .. n : f[k] = step[<<k, f[k - 1]>>]

LEMMA Iteration ==
  ASSUME NEW S, NEW f0 \in S, NEW step \in [Nat \X S -> S], NEW n \in Nat
  PROVE  \E f : Iterates(f, S, f0, step, n)
  <1> DEFINE T == {k \in Nat : \E f : Iterates(f, S, f0, step, k)}
  <1>1. 0 \in T
    <2>1. Iterates([k \in 0 .. 0 |-> f0], S, f0, step, 0)
      BY DEF Iterates
    <2>2. QED
      BY <2>1
  <1>2. ASSUME NEW k \in Nat, k \in T PROVE k + 1 \in T
    <2>1. PICK f : Iterates(f, S, f0, step, k)
      BY <1>2
    <2> DEFINE g == [j \in 0 .. k + 1 |-> IF j <= k THEN f[j] ELSE step[<<k + 1, f[k]>>]]
    <2>2. step[<<k + 1, f[k]>>] \in S
      BY <2>1 DEF Iterates
    <2>3. \A j \in 0 .. k : g[j] = f[j] /\ f[j] \in S
      BY <2>1 DEF Iterates
    <2>4. g[k + 1] = step[<<k + 1, f[k]>>]
      OBVIOUS
    <2>5. g \in [0 .. k + 1 -> S]
      <3>1. \A j \in 0 .. k + 1 : j \in 0 .. k \/ j = k + 1
        OBVIOUS
      <3>2. \A j \in 0 .. k + 1 : g[j] \in S
        <4> HIDE DEF g
        <4>1. QED
          BY <2>2, <2>3, <2>4, <3>1
      <3>3. QED
        BY <3>2
    <2>6. ASSUME NEW j \in 1 .. k + 1 PROVE g[j] = step[<<j, g[j - 1]>>]
      <3>1. j - 1 \in 0 .. k /\ g[j - 1] = f[j - 1]
        BY <2>3
      <3> HIDE DEF g
      <3>2. CASE j = k + 1
        <4>1. j - 1 = k
          BY <3>2
        <4>2. QED
          BY <2>4, <3>1, <3>2, <4>1
      <3>3. CASE j # k + 1
        <4>1. j \in 1 .. k
          BY <3>3
        <4>2. QED
          BY <2>1, <2>3, <3>1, <4>1 DEF Iterates
      <3>4. QED
        BY <3>2, <3>3
    <2>7. g[0] = f0
      BY <2>1, <2>3 DEF Iterates
    <2> HIDE DEF g
    <2>8. QED
      BY <2>5, <2>6, <2>7 DEF Iterates
  <1>3. n \in T
    <2> HIDE DEF T
    <2>1. QED
      BY <1>1, <1>2, Induction
  <1>4. QED
    BY <1>3

(* Ancestor is what its definition says.                                   *)
LEMMA AncestorDef ==
  ASSUME NEW c \in Cells, NEW k \in Nat
  PROVE  Ancestor[<<c, k>>] = IF k = 0 THEN c
                     ELSE IF ParentOf[c] = NoCell THEN NoCell ELSE Ancestor[<<ParentOf[c], k - 1>>]
<1> DEFINE X == Cells \X Nat
           D == {x \in X : x[2] = 0 \/ ParentOf[x[1]] = NoCell}
           out == [x \in X |-> IF x[2] = 0 THEN x[1] ELSE NoCell]
           next == [x \in X |-> <<ParentOf[x[1]], x[2] - 1>>]
           m == [x \in X |-> x[2]]
           V == Cells \cup {NoCell}
<1>1. TailRecursive(X, V, D, out, next, m)
  <2>1. m \in [X -> Nat]
    OBVIOUS
  <2>2. \A x \in X \cap D : out[x] \in V
    OBVIOUS
  <2>3. ASSUME NEW x \in X \ D PROVE next[x] \in X /\ m[next[x]] < m[x]
    <3>1. x[1] \in Cells /\ x[2] \in Nat /\ x[2] # 0 /\ ParentOf[x[1]] # NoCell
      OBVIOUS
    <3>2. ParentOf[x[1]] \in Cells
      BY <3>1, GridAssumption
    <3>3. QED
      BY <3>1, <3>2
  <2> HIDE DEF X, D, out, next, m, V
  <2> QED BY <2>1, <2>2, <2>3 DEF TailRecursive
<1>2. PICK f : Solution(f, X, V, D, out, next)
  <2> HIDE DEF X, D, out, next, m, V
  <2> QED BY <1>1, TailRecursion
<1>3. f = [x \in Cells \X Nat |->
             IF x[2] = 0 THEN x[1]
             ELSE IF ParentOf[x[1]] = NoCell THEN NoCell ELSE f[<<ParentOf[x[1]], x[2] - 1>>]]
  BY <1>2 DEF Solution
<1>4. Ancestor = [x \in Cells \X Nat |->
             IF x[2] = 0 THEN x[1]
             ELSE IF ParentOf[x[1]] = NoCell THEN NoCell ELSE Ancestor[<<ParentOf[x[1]], x[2] - 1>>]]
  BY <1>3 DEF Ancestor
<1> QED BY <1>4

LEMMA AncestorNext ==
  ASSUME NEW c \in Cells, NEW k \in Nat
  PROVE  /\ Ancestor[<<c, 0>>] = c
         /\ Ancestor[<<c, k + 1>>] =
              IF ParentOf[c] = NoCell THEN NoCell ELSE Ancestor[<<ParentOf[c], k>>]
  <1>1. Ancestor[<<c, 0>>] = c
    BY AncestorDef
  <1>2. k + 1 \in Nat /\ k + 1 # 0 /\ (k + 1) - 1 = k
    OBVIOUS
  <1>3. Ancestor[<<c, k + 1>>] =
          IF ParentOf[c] = NoCell THEN NoCell ELSE Ancestor[<<ParentOf[c], (k + 1) - 1>>]
    BY <1>2, AncestorDef
  <1>4. QED
    BY <1>1, <1>2, <1>3

(* The ancestors of a cell: how coarse they are, and where they end. *)
LEMMA AncestorResolution ==
  ASSUME NEW c \in Cells, NEW k \in Nat
  PROVE  IF k <= Resolution[c]
         THEN Ancestor[<<c, k>>] \in Cells /\ Resolution[Ancestor[<<c, k>>]] = Resolution[c] - k
         ELSE Ancestor[<<c, k>>] = NoCell
  <1> DEFINE Holds(j, d) == IF j <= Resolution[d]
                    THEN Ancestor[<<d, j>>] \in Cells /\ Resolution[Ancestor[<<d, j>>]] = Resolution[d] - j
                    ELSE Ancestor[<<d, j>>] = NoCell
             T == {j \in Nat : \A d \in Cells : Holds(j, d)}
  <1>1. 0 \in T
    <2>1. \A d \in Cells : Ancestor[<<d, 0>>] = d /\ Resolution[d] \in Nat
      BY AncestorDef, GridAssumption
    <2>2. QED
      BY <2>1
  <1>2. ASSUME NEW j \in Nat, j \in T PROVE j + 1 \in T
    <2> SUFFICES ASSUME NEW d \in Cells PROVE Holds(j + 1, d)
      OBVIOUS
    <2>1. Ancestor[<<d, j + 1>>] = IF ParentOf[d] = NoCell THEN NoCell ELSE Ancestor[<<ParentOf[d], j>>]
      BY AncestorNext
    <2>2. Resolution[d] \in Nat
      BY GridAssumption
    <2>3. CASE Resolution[d] = 0
      BY <2>1, <2>2, <2>3, GridAssumption
    <2>4. CASE Resolution[d] # 0
      <3>1. ParentOf[d] \in Cells /\ Resolution[ParentOf[d]] = Resolution[d] - 1 /\ ParentOf[d] # NoCell
        BY <2>4, GridAssumption, NoCellAssumption
      <3>2. Holds(j, ParentOf[d]) /\ Ancestor[<<d, j + 1>>] = Ancestor[<<ParentOf[d], j>>]
        BY <1>2, <2>1, <3>1
      <3>3. QED
        BY <2>2, <3>1, <3>2
    <2>5. QED
      BY <2>3, <2>4
  <1>3. k \in T
    <2> HIDE DEF T
    <2>1. QED
      BY <1>1, <1>2, Induction
  <1>4. QED
    BY <1>3

(* Widening an ancestor gives the next one. *)
LEMMA AncestorWidened ==
  ASSUME NEW c \in Cells, NEW k \in Nat, Ancestor[<<c, k>>] \in Cells
  PROVE  Ancestor[<<c, k + 1>>] = ParentOf[Ancestor[<<c, k>>]]
  <1> DEFINE T == {j \in Nat : \A d \in Cells :
                     Ancestor[<<d, j>>] \in Cells => Ancestor[<<d, j + 1>>] = ParentOf[Ancestor[<<d, j>>]]}
  <1>1. \A d \in Cells, j \in Nat :
          /\ Ancestor[<<d, 0>>] = d
          /\ Ancestor[<<d, j + 1>>] = IF ParentOf[d] = NoCell THEN NoCell ELSE Ancestor[<<ParentOf[d], j>>]
    BY AncestorNext
  <1>2. 0 \in T
    <2> SUFFICES ASSUME NEW d \in Cells PROVE Ancestor[<<d, 0 + 1>>] = ParentOf[Ancestor[<<d, 0>>]]
      OBVIOUS
    <2>1. ParentOf[d] # NoCell => ParentOf[d] \in Cells
      BY GridAssumption
    <2>2. QED
      BY <1>1, <2>1
  <1>3. ASSUME NEW j \in Nat, j \in T PROVE j + 1 \in T
    <2> SUFFICES ASSUME NEW d \in Cells, Ancestor[<<d, j + 1>>] \in Cells
                 PROVE  Ancestor[<<d, (j + 1) + 1>>] = ParentOf[Ancestor[<<d, j + 1>>]]
      OBVIOUS
    <2>1. ParentOf[d] \in Cells /\ ParentOf[d] # NoCell
      BY <1>1, GridAssumption, NoCellAssumption
    <2>2. Ancestor[<<d, j + 1>>] = Ancestor[<<ParentOf[d], j>>]
      BY <1>1, <2>1
    <2>3. Ancestor[<<d, (j + 1) + 1>>] = Ancestor[<<ParentOf[d], j + 1>>]
      <3>1. j + 1 \in Nat
        OBVIOUS
      <3>2. QED
        BY <2>1, <3>1, AncestorNext
    <2>4. QED
      BY <1>3, <2>1, <2>2, <2>3
  <1>4. k \in T
    <2> HIDE DEF T
    <2>1. QED
      BY <1>2, <1>3, Induction
  <1>5. QED
    BY <1>4

(* Where a query ends, step by step: at the first cell on the way up that  *)
(* has enough candidates, is the last one allowed, or is none.             *)
LEMMA FinalCellIs ==
  ASSUME NEW registry, NEW start \in Cells, NEW target, NEW maxWiden \in Nat
  PROVE  \E k \in 0 .. maxWiden :
           /\ FinalCell(registry, start, target, maxWiden) = Ancestor[<<start, k>>]
           /\ \/ Ancestor[<<start, k>>] = NoCell
              \/ Cardinality(Within(registry, Ancestor[<<start, k>>])) >= target
              \/ k = maxWiden
           /\ \A j \in 0 .. k - 1 :
                /\ Ancestor[<<start, j>>] \in Cells
                /\ ~(Cardinality(Within(registry, Ancestor[<<start, j>>])) >= target)
  <1> DEFINE Enough(q) == q = NoCell \/ Cardinality(Within(registry, q)) >= target
             Ends(x) == Enough(x[1]) \/ x[2] >= maxWiden
             D == {x \in Widened : Ends(x)}
             out == [x \in Widened |-> x[1]]
             next == [x \in Widened |-> <<ParentOf[x[1]], x[2] + 1>>]
             m == [x \in Widened |-> IF x[2] < maxWiden THEN maxWiden - x[2] ELSE 0]
             V == Cells \cup {NoCell}
             Recurses(g) == g = [x \in Widened |->
                    IF (x[1] = NoCell \/ Cardinality(Within(registry, x[1])) >= target) \/ x[2] >= maxWiden
                    THEN x[1] ELSE g[<<ParentOf[x[1]], x[2] + 1>>]]
  <1>1. TailRecursive(Widened, V, D, out, next, m)
    <2>1. m \in [Widened -> Nat]
      BY DEF Widened
    <2>2. \A x \in Widened \cap D : out[x] \in V
      BY DEF Widened
    <2>3. ASSUME NEW x \in Widened \ D PROVE next[x] \in Widened /\ m[next[x]] < m[x]
      <3>1. x[1] \in Cells /\ x[2] \in Nat /\ x[2] < maxWiden
        BY DEF Widened
      <3>2. ParentOf[x[1]] \in Cells \cup {NoCell}
        BY <3>1, GridAssumption
      <3>3. next[x] = <<ParentOf[x[1]], x[2] + 1>> /\ next[x] \in Widened
        BY <3>1, <3>2 DEF Widened
      <3>4. m[x] = maxWiden - x[2]
        BY <3>1
      <3>5. m[next[x]] = IF x[2] + 1 < maxWiden THEN maxWiden - (x[2] + 1) ELSE 0
        BY <3>3
      <3>6. QED
        BY <3>1, <3>3, <3>4, <3>5
    <2> HIDE DEF D, out, next, m, V
    <2>4. QED
      BY <2>1, <2>2, <2>3 DEF TailRecursive
  <1>2. PICK f : Solution(f, Widened, V, D, out, next)
    <2> HIDE DEF D, out, next, m, V
    <2>1. QED
      BY <1>1, TailRecursion
  <1>3. Recurses(f)
    BY <1>2 DEF Solution
  <1>4. PICK Query : Recurses(Query) /\ FinalCell(registry, start, target, maxWiden) = Query[<<start, 0>>]
    BY <1>3 DEF FinalCell
  <1>5. \A x \in Widened : Query[x] = IF Ends(x) THEN x[1] ELSE Query[<<ParentOf[x[1]], x[2] + 1>>]
    BY <1>4
  <1> HIDE DEF Recurses, D, out, next, m, V
  <1> DEFINE Up(j) == Ancestor[<<start, j>>]
             T == {j \in Nat : Enough(Up(j)) \/ j >= maxWiden}
  <1>6. PICK k \in T : \A j \in T : k <= j
    <2>1. T \subseteq Nat /\ maxWiden \in T
      OBVIOUS
    <2> HIDE DEF T
    <2>2. QED
      BY <2>1, Least
  <1>7. k \in Nat /\ k <= maxWiden /\ (Enough(Up(k)) \/ k = maxWiden)
    <2>1. k \in Nat /\ (Enough(Up(k)) \/ k >= maxWiden)
      OBVIOUS
    <2>2. maxWiden \in T
      OBVIOUS
    <2> HIDE DEF T, Enough
    <2>3. k <= maxWiden
      BY <1>6, <2>2
    <2>4. QED
      BY <2>1, <2>3
  <1>8. \A j \in 0 .. k - 1 : ~Enough(Up(j)) /\ j < maxWiden /\ j \in Nat
    BY <1>6, <1>7
  <1>9. \A j \in Nat : Up(j) \in Cells \cup {NoCell}
    BY AncestorResolution
  <1> HIDE DEF Enough
  <1>10. \A j \in Nat : j <= k => Query[<<start, 0>>] = Query[<<Up(j), j>>]
    <2> DEFINE U == {j \in Nat : j <= k => Query[<<start, 0>>] = Query[<<Up(j), j>>]}
    <2>1. 0 \in U
      BY AncestorNext
    <2>2. ASSUME NEW j \in Nat, j \in U PROVE j + 1 \in U
      <3> SUFFICES ASSUME j + 1 <= k PROVE Query[<<start, 0>>] = Query[<<Up(j + 1), j + 1>>]
        OBVIOUS
      <3>1. j \in 0 .. k - 1 /\ j <= k
        BY <1>7
      <3>2. ~Enough(Up(j)) /\ ~(j >= maxWiden) /\ Query[<<start, 0>>] = Query[<<Up(j), j>>]
        BY <1>7, <1>8, <2>2, <3>1
      <3>3. Up(j) \in Cells /\ <<Up(j), j>> \in Widened
        BY <1>9, <3>2 DEF Enough, Widened
      <3>4. Query[<<Up(j), j>>] = Query[<<ParentOf[Up(j)], j + 1>>]
        <4>1. ~Ends(<<Up(j), j>>)
          BY <3>2
        <4>2. QED
          BY <1>5, <3>3, <4>1
      <3>5. Up(j + 1) = ParentOf[Up(j)]
        BY <3>3, AncestorWidened
      <3>6. QED
        BY <3>2, <3>4, <3>5
    <2> HIDE DEF U
    <2>3. \A j \in Nat : j \in U
      BY <2>1, <2>2, Induction
    <2>4. QED
      BY <2>3 DEF U
  <1>11. Query[<<Up(k), k>>] = Up(k)
    <2>1. <<Up(k), k>> \in Widened /\ Ends(<<Up(k), k>>)
      BY <1>7, <1>9 DEF Widened
    <2>2. QED
      BY <1>5, <2>1
  <1>12. Query[<<start, 0>>] = Query[<<Up(k), k>>]
    BY <1>7, <1>10
  <1>13. FinalCell(registry, start, target, maxWiden) = Up(k)
    BY <1>4, <1>11, <1>12
  <1>14. k \in 0 .. maxWiden
    BY <1>7
  <1>15. \A j \in 0 .. k - 1 : Up(j) \in Cells /\ ~(Cardinality(Within(registry, Up(j))) >= target)
    BY <1>8, <1>9 DEF Enough
  <1>16. Up(k) = NoCell \/ Cardinality(Within(registry, Up(k))) >= target \/ k = maxWiden
    BY <1>7 DEF Enough
  <1>17. QED
    BY <1>13, <1>14, <1>15, <1>16

(* There are fewer resolutions than cells. *)
LEMMA FewResolutions ==
  ASSUME NEW c \in Cells
  PROVE  Cardinality(Cells) \in Nat /\ Resolution[c] <= Cardinality(Cells)
  <1>1. Cardinality(Cells) \in Nat /\ IsFiniteSet(Cells) /\ Resolution[c] \in Nat
    BY FS_CardinalityType, GridAssumption
  <1> DEFINE N == Cardinality(Cells)
             f == [k \in 0 .. N |-> Ancestor[<<c, k>>]]
  <1>2. SUFFICES ASSUME Resolution[c] > N PROVE FALSE
    BY <1>1
  <1>3. IsFiniteSet(0 .. N) /\ Cardinality(0 .. N) = N + 1
    BY <1>1, FS_Interval
  <1>4. \A k \in 0 .. N : Ancestor[<<c, k>>] \in Cells /\ Resolution[Ancestor[<<c, k>>]] = Resolution[c] - k
    BY <1>1, <1>2, AncestorResolution
  <1>5. f \in [0 .. N -> Cells]
    BY <1>4
  <1>6. PICK k, j \in 0 .. N : k # j /\ f[k] = f[j]
    <2>1. Cardinality(Cells) < Cardinality(0 .. N)
      BY <1>1, <1>3
    <2> HIDE DEF f, N
    <2>2. QED
      BY <1>1, <1>3, <1>5, <2>1, FS_PigeonHole
  <1>7. Resolution[c] - k = Resolution[c] - j
    BY <1>4, <1>6
  <1>8. QED
    BY <1>1, <1>6, <1>7

(* The subtree of a cell holds what the cell is an ancestor of. *)
LEMMA SubtreeIs ==
  ASSUME NEW q \in Cells, NEW c \in Cells
  PROVE  Subtree[q] \subseteq Cells /\ (c \in Subtree[q] <=> Contains(q, c))
  <1> DEFINE N == Cardinality(Cells)
             S == SUBSET Cells
             step == [x \in Nat \X S |-> Grow(x[2])]
             Grows(g) == g = [k \in 0 .. N |-> IF k = 0 THEN {q} ELSE Grow(g[k - 1])]
  <1>1. N \in Nat /\ Resolution[c] \in Nat /\ Resolution[c] <= N
    BY FewResolutions, GridAssumption
  <1>2. PICK f : Iterates(f, S, {q}, step, N)
    <2>1. step \in [Nat \X S -> S] /\ {q} \in S
      BY DEF Grow
    <2> HIDE DEF S, step, N
    <2>2. QED
      BY <1>1, <2>1, Iteration
  <1>3. Grows(f)
    <2>1. ASSUME NEW k \in 1 .. N PROVE f[k] = Grow(f[k - 1])
      <3>1. k \in Nat /\ k - 1 \in 0 .. N
        BY <1>1
      <3>2. f[k - 1] \in S /\ f[k] = step[<<k, f[k - 1]>>]
        BY <1>2, <3>1 DEF Iterates
      <3>3. QED
        BY <3>1, <3>2
    <2>2. f[0] = {q} /\ f \in [0 .. N -> S]
      BY <1>2 DEF Iterates
    <2> HIDE DEF S, N, step
    <2>3. f = [k \in 0 .. N |-> IF k = 0 THEN {q} ELSE Grow(f[k - 1])]
      BY <1>1, <2>1, <2>2
    <2>4. QED
      BY <2>3
  <1>4. PICK Grown : Grows(Grown) /\ Subtree[q] = Grown[N]
    BY <1>3 DEF Subtree
  <1>5. Grown[0] = {q} /\ \A k \in 0 .. N : k + 1 <= N => Grown[k + 1] = Grow(Grown[k])
    <2>1. PICK n : n = N
      OBVIOUS
    <2>2. Grown = [k \in 0 .. n |-> IF k = 0 THEN {q} ELSE Grow(Grown[k - 1])] /\ n \in Nat
      BY <1>1, <1>4, <2>1
    <2>3. Grown[0] = {q}
      BY <2>2
    <2>4. ASSUME NEW k \in 0 .. n, k + 1 <= n PROVE Grown[k + 1] = Grow(Grown[k])
      <3>1. k + 1 \in 0 .. n /\ k + 1 # 0 /\ (k + 1) - 1 = k
        BY <2>2, <2>4
      <3>2. Grown[k + 1] = Grow(Grown[(k + 1) - 1])
        BY <2>2, <3>1
      <3>3. QED
        BY <3>1, <3>2
    <2>5. QED
      BY <2>1, <2>3, <2>4
  <1> HIDE DEF Grows, N
  <1> DEFINE Under(d, k) == \E j \in 0 .. k : Ancestor[<<d, j>>] = q
             T == {k \in Nat : k <= N => Grown[k] \subseteq Cells /\ \A d \in Cells : d \in Grown[k] <=> Under(d, k)}
  <1>6. 0 \in T
    <2>1. \A d \in Cells : Under(d, 0) <=> d = q
      <3>1. \A d \in Cells : Ancestor[<<d, 0>>] = d
        BY AncestorNext
      <3>2. 0 .. 0 = {0}
        OBVIOUS
      <3>3. QED
        BY <3>1, <3>2
    <2>2. QED
      BY <1>5, <2>1
  <1>7. ASSUME NEW k \in Nat, k \in T PROVE k + 1 \in T
    <2> SUFFICES ASSUME k + 1 <= N
                 PROVE  /\ Grown[k + 1] \subseteq Cells
                        /\ \A d \in Cells : d \in Grown[k + 1] <=> Under(d, k + 1)
      OBVIOUS
    <2>1. /\ k \in 0 .. N /\ Grown[k] \subseteq Cells /\ Grown[k + 1] = Grow(Grown[k])
          /\ \A e \in Cells : e \in Grown[k] <=> Under(e, k)
      <3>1. k \in 0 .. N /\ k <= N
        BY <1>1
      <3>2. Grown[k + 1] = Grow(Grown[k])
        BY <1>5, <3>1
      <3>3. QED
        BY <1>7, <3>1, <3>2
    <2>0. SUFFICES ASSUME NEW d \in Cells PROVE d \in Grown[k + 1] <=> Under(d, k + 1)
      BY <2>1 DEF Grow
    <2>2. d \in Grown[k + 1] <=> d \in Grown[k] \/ ParentOf[d] \in Grown[k]
      BY <2>1 DEF Grow
    <2>3. CASE ParentOf[d] \in Cells
      <3>1. \A j \in Nat : Ancestor[<<d, j + 1>>] = Ancestor[<<ParentOf[d], j>>]
        BY <2>3, AncestorNext, NoCellAssumption
      <3>2. Under(d, k + 1) <=> Under(d, k) \/ Under(ParentOf[d], k)
        <4>1. ASSUME Under(d, k + 1) PROVE Under(d, k) \/ Under(ParentOf[d], k)
          <5>1. PICK j \in 0 .. k + 1 : Ancestor[<<d, j>>] = q
            BY <4>1
          <5>2. CASE j = 0
            BY <5>1, <5>2
          <5>3. CASE j # 0
            <6>1. j - 1 \in Nat /\ j - 1 \in 0 .. k /\ (j - 1) + 1 = j
              BY <5>3
            <6>2. Ancestor[<<ParentOf[d], j - 1>>] = q
              BY <3>1, <5>1, <6>1
            <6>3. QED
              BY <6>1, <6>2
          <5>4. QED
            BY <5>2, <5>3
        <4>2. ASSUME Under(d, k) PROVE Under(d, k + 1)
          BY <4>2
        <4>3. ASSUME Under(ParentOf[d], k) PROVE Under(d, k + 1)
          <5>1. PICK j \in 0 .. k : Ancestor[<<ParentOf[d], j>>] = q
            BY <4>3
          <5>2. j + 1 \in 0 .. k + 1 /\ Ancestor[<<d, j + 1>>] = q
            BY <3>1, <5>1
          <5>3. QED
            BY <5>2
        <4>4. QED
          BY <4>1, <4>2, <4>3
      <3>3. QED
        BY <2>1, <2>2, <2>3, <3>2
    <2>4. CASE ParentOf[d] = NoCell
      <3>1. \A j \in Nat : Ancestor[<<d, j + 1>>] = NoCell
        BY <2>4, AncestorNext
      <3>2. Under(d, k + 1) <=> Under(d, k)
        <4>1. ASSUME NEW j \in 0 .. k + 1, Ancestor[<<d, j>>] = q PROVE j = 0
          <5>1. SUFFICES ASSUME j # 0 PROVE FALSE
            OBVIOUS
          <5>2. j - 1 \in Nat /\ (j - 1) + 1 = j
            BY <5>1
          <5>3. Ancestor[<<d, j>>] = NoCell
            BY <3>1, <5>2
          <5>4. QED
            BY <4>1, <5>3, NoCellAssumption
        <4>2. QED
          BY <4>1
      <3>3. ParentOf[d] \notin Grown[k]
        <4>1. ASSUME NoCell \in Grown[k] PROVE FALSE
          BY <2>1, <4>1, NoCellAssumption
        <4>2. QED
          BY <2>4, <4>1
      <3>4. QED
        BY <2>1, <2>2, <3>2, <3>3
    <2>5. QED
      BY <2>3, <2>4, GridAssumption
  <1>8. Grown[N] \subseteq Cells /\ (c \in Grown[N] <=> Under(c, N))
    <2> HIDE DEF T
    <2>1. \A k \in Nat : k \in T
      BY <1>6, <1>7, Induction
    <2>2. QED
      BY <1>1, <2>1 DEF T
  <1>9. Under(c, N) <=> Contains(q, c)
    <2>1. ASSUME NEW j \in 0 .. N, Ancestor[<<c, j>>] = q PROVE Contains(q, c)
      <3>1. j <= Resolution[c] /\ Resolution[q] = Resolution[c] - j
        BY <2>1, AncestorResolution, NoCellAssumption
      <3>2. Resolution[q] <= Resolution[c] /\ Resolution[c] - Resolution[q] = j
        BY <1>1, <3>1
      <3>3. QED
        BY <2>1, <3>2 DEF Contains
    <2>2. ASSUME Contains(q, c) PROVE Under(c, N)
      <3>1. CASE q = c
        <4>1. 0 \in 0 .. N
          BY <1>1
        <4>2. Ancestor[<<c, 0>>] = q
          BY <3>1, AncestorNext
        <4>3. QED
          BY <4>1, <4>2
      <3>2. CASE Resolution[q] <= Resolution[c] /\ Ancestor[<<c, Resolution[c] - Resolution[q]>>] = q
        <4>1. Resolution[c] - Resolution[q] \in 0 .. N
          BY <1>1, <3>2, GridAssumption
        <4>2. QED
          BY <3>2, <4>1
      <3>3. QED
        BY <2>2, <3>1, <3>2 DEF Contains
    <2>3. QED
      BY <2>1, <2>2
  <1>10. QED
    BY <1>4, <1>8, <1>9

(* The candidates of a cell are the drivers below it. *)
LEMMA WithinIs ==
  ASSUME NEW registry \in Registries, NEW q \in Cells
  PROVE  Within(registry, q) = DriversUnder(registry, q)
  <1>1. DOMAIN registry = Drivers /\ \A d \in Drivers : registry[d] \in Cells \cup {NoCell}
    BY DEF Registries
  <1>2. ASSUME NEW d \in Drivers PROVE d \in Within(registry, q) <=> registry[d] \in Subtree[q]
    <2>1. CASE registry[d] \in Cells
      <3>1. registry[d] \in Subtree[q] <=> Contains(q, registry[d])
        BY <2>1, SubtreeIs
      <3>2. QED
        BY <1>1, <2>1, <3>1, NoCellAssumption DEF Within
    <2>2. CASE registry[d] = NoCell
      <3>1. Subtree[q] \subseteq Cells
        BY SubtreeIs
      <3>2. QED
        BY <2>2, <3>1, NoCellAssumption DEF Within
    <2>3. QED
      BY <1>1, <2>1, <2>2
  <1>3. Within(registry, q) \subseteq Drivers
    BY <1>1 DEF Within
  <1>4. QED
    BY <1>2, <1>3 DEF DriversUnder

(* The drivers with a cell.                                                *)
OnDuty(registry) == {d \in Drivers : registry[d] # NoCell}

(* Any query to a registry of finitely many drivers. *)
LEMMA EveryQueryServed ==
  ASSUME NEW registry \in Registries, IsFiniteSet(OnDuty(registry)),
         NEW q \in [start : Cells, target : Int, maxWiden : Nat]
  PROVE  StopsAtTheTightest(registry, q) /\ PanicsPastTheRoot(registry, q)
  <1>1. q.start \in Cells /\ q.target \in Int /\ q.maxWiden \in Nat /\ Resolution[q.start] \in Nat
    BY GridAssumption
  <1> DEFINE Up(j) == Ancestor[<<q.start, j>>]
             final == FinalCell(registry, q.start, q.target, q.maxWiden)
             a == Answer(registry, q)
  <1>2. PICK k \in 0 .. q.maxWiden :
          /\ final = Up(k)
          /\ Up(k) = NoCell \/ Cardinality(Within(registry, Up(k))) >= q.target \/ k = q.maxWiden
          /\ \A j \in 0 .. k - 1 : Up(j) \in Cells /\ ~(Cardinality(Within(registry, Up(j))) >= q.target)
    <2>1. PICK start, target, maxWiden : start = q.start /\ target = q.target /\ maxWiden = q.maxWiden
      OBVIOUS
    <2>2. QED
      BY <1>1, <2>1, FinalCellIs
  <1>3. /\ a.final = final
        /\ a.cands = IF final = NoCell THEN {} ELSE Within(registry, final)
    BY DEF Answer, Discover
  <1>4. \A c \in Cells : /\ Within(registry, c) = DriversUnder(registry, c)
                         /\ Cardinality(DriversUnder(registry, c)) \in Nat
    <2> SUFFICES ASSUME NEW c \in Cells PROVE Cardinality(DriversUnder(registry, c)) \in Nat
      BY WithinIs
    <2>1. DriversUnder(registry, c) \subseteq OnDuty(registry)
      <3>1. Subtree[c] \subseteq Cells
        BY SubtreeIs
      <3>2. QED
        BY <3>1, NoCellAssumption DEF DriversUnder, OnDuty
    <2>2. QED
      BY <2>1, FS_Subset, FS_CardinalityType
  <1> HIDE DEF final, a
  <1>5. \A j \in 0 .. k - 1 : Up(j) \in Cells /\ Cardinality(DriversUnder(registry, Up(j))) < q.target
    <2> SUFFICES ASSUME NEW j \in 0 .. k - 1
                 PROVE  Up(j) \in Cells /\ Cardinality(DriversUnder(registry, Up(j))) < q.target
      OBVIOUS
    <2>1. PICK c : c = Up(j)
      OBVIOUS
    <2>2. c \in Cells /\ ~(Cardinality(Within(registry, c)) >= q.target)
      BY <1>2, <2>1
    <2>3. PICK n : n = Cardinality(DriversUnder(registry, c))
      OBVIOUS
    <2>4. n \in Nat /\ ~(n >= q.target)
      BY <1>4, <2>2, <2>3
    <2>5. n < q.target
      BY <1>1, <2>4
    <2>6. QED
      BY <2>1, <2>2, <2>3, <2>5
  <1>6. ASSUME a.final # NoCell
        PROVE  /\ a.final = Up(k) /\ a.cands = DriversUnder(registry, a.final)
               /\ Cardinality(a.cands) >= q.target \/ k = q.maxWiden
    <2>1. a.final = final /\ final = Up(k) /\ final # NoCell /\ k \in Nat
      BY <1>2, <1>3, <1>6
    <2>2. final \in Cells
      BY <1>1, <2>1, AncestorResolution
    <2>3. QED
      BY <1>2, <1>3, <1>4, <2>1, <2>2
  <1>7. ASSUME a.final = NoCell
        PROVE  /\ q.maxWiden > Resolution[q.start]
               /\ Cardinality(DriversUnder(registry, Up(Resolution[q.start]))) < q.target
    <2>1. Up(k) = NoCell /\ k \in Nat /\ k <= q.maxWiden
      BY <1>1, <1>2, <1>3, <1>7
    <2>2. k > Resolution[q.start]
      BY <1>1, <2>1, AncestorResolution, NoCellAssumption
    <2>3. Resolution[q.start] \in 0 .. k - 1 /\ q.maxWiden > Resolution[q.start]
      BY <1>1, <2>1, <2>2
    <2>4. QED
      BY <1>5, <2>3
  <1>8. StopsAtTheTightest(registry, q)
    BY <1>5, <1>6 DEF StopsAtTheTightest, a
  <1>9. PanicsPastTheRoot(registry, q)
    BY <1>7 DEF PanicsPastTheRoot, a
  <1>10. QED
    BY <1>8, <1>9

LEMMA QueriesTyped == Queries \subseteq [start : Cells, target : Int, maxWiden : Nat]
  <1>1. SUFFICES ASSUME NEW q \in Queries
                 PROVE  q \in [start : Cells, target : Int, maxWiden : Nat]
    OBVIOUS
  <1>2. PICK c \in Cells :
          q \in [start : {c}, target : 1 .. Cardinality(Drivers), maxWiden : 0 .. Resolution[c] + 1]
    BY DEF Queries
  <1>3. Resolution[c] \in Nat
    BY GridAssumption
  <1>4. \A n \in 1 .. Cardinality(Drivers) : n \in Int
    OBVIOUS
  <1>5. \A n \in 0 .. Resolution[c] + 1 : n \in Nat
    BY <1>3
  <1>6. QED
    BY <1>2, <1>4, <1>5

(* Only a registration changes the registry, by one driver. *)
FiniteDuty == IsFiniteSet(OnDuty(driver))

LEMMA DutyStays ==
  ASSUME TypeOK, FiniteDuty, [Next]_vars
  PROVE  FiniteDuty'
  <1>1. ASSUME NEW g \in GridRequests, Grid(g) PROVE FiniteDuty'
    <2>1. driver \in Registries /\ driver' = [driver EXCEPT ![g.driver] = g.cell]
      BY <1>1 DEF TypeOK, Registries, Grid, Register
    <2>2. OnDuty(driver') \subseteq OnDuty(driver) \cup {g.driver}
      BY <2>1 DEF OnDuty, Registries
    <2>3. IsFiniteSet(OnDuty(driver) \cup {g.driver})
      BY FS_AddElement DEF FiniteDuty
    <2>4. IsFiniteSet(OnDuty(driver'))
      BY <2>2, <2>3, FS_Subset
    <2>5. QED
      BY <2>4 DEF FiniteDuty, OnDuty
  <1>2. ASSUME NEW c \in Conns, Open(c) \/ Bid(c) \/ SessionMasks(c) \/ Offer(c) PROVE driver' = driver
    <2>1. CASE Open(c)
      BY <2>1 DEF Open, OpenBegin, OpenDiscover, OpenCommit
    <2>2. CASE Bid(c)
      BY <2>2 DEF Bid, BidLookup, BidFetch, BidSubmit
    <2>3. CASE SessionMasks(c)
      BY <2>3 DEF SessionMasks, MasksLookup, MasksRun, MasksReply
    <2>4. CASE Offer(c)
      BY <2>4 DEF Offer, OfferLookup, OfferHold, OfferAccept, OfferCancel, OfferHeld, PoolCall
    <2>5. QED
      BY <1>2, <2>1, <2>2, <2>3, <2>4
  <1>3. ASSUME Store \/ (\E k \in 1 .. Len(tables) : Sweep(k)) \/ Tick \/ UNCHANGED vars
        PROVE  driver' = driver
    BY <1>3 DEF Store, ArtifactPut, Sweep, Tick, vars
  <1>4. driver' = driver => FiniteDuty'
    BY DEF FiniteDuty, OnDuty
  <1>5. QED
    BY <1>1, <1>2, <1>3, <1>4 DEF Next

(* Whatever the registry holds when a query comes, on any grid, the query  *)
(* stops at the tightest cell that serves it, answers with exactly the     *)
(* drivers below it, and panics only when it was allowed to climb past the *)
(* coarsest cell and found too few on the way.                             *)
THEOREM QueriesServedWell == Spec => []TightestCellServes
  <1>1. Init => FiniteDuty
    <2>1. SUFFICES ASSUME Init PROVE FiniteDuty
      OBVIOUS
    <2>2. OnDuty(driver) = {}
      BY <2>1 DEF Init, OnDuty
    <2>3. QED
      BY <2>2, FS_EmptySet DEF FiniteDuty
  <1>2. IInv /\ FiniteDuty /\ [Next]_vars => FiniteDuty'
    BY DutyStays DEF IInv
  <1>3. IInv /\ FiniteDuty => TightestCellServes
    <2>1. SUFFICES ASSUME IInv, FiniteDuty PROVE TightestCellServes
      OBVIOUS
    <2>2. driver \in Registries
      BY <2>1 DEF IInv, TypeOK, Registries
    <2>3. \A q \in Queries : StopsAtTheTightest(driver, q) /\ PanicsPastTheRoot(driver, q)
      BY <2>1, <2>2, EveryQueryServed, QueriesTyped DEF FiniteDuty
    <2>4. QED
      BY <2>2, <2>3 DEF TightestCellServes, ServedWell
  <1>4. QED
    BY <1>1, <1>2, <1>3, Invariant, PTL DEF Spec
=============================================================================
