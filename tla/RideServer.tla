----------------------------- MODULE RideServer -----------------------------
(***************************************************************************)
(* The ride server: its HTTP handlers on their goroutines, interleaved at  *)
(* the points where a handler lets go of one lock before it takes another. *)
(* rs.mu guards the maps of sessions, pools and invites; a session object, *)
(* a pool, the registry and the artifact store each have a lock of their   *)
(* own.  A handler that looks an object up under rs.mu keeps a pointer to  *)
(* it, and by the time it uses the object the session may have been opened *)
(* again and the map may point to another one.  So the objects are kept in *)
(* heaps (sess, tables), in the order of their creation, and the maps hold *)
(* indexes into them, 0 for a key that is absent.                          *)
(*                                                                         *)
(* A call that is refused before it changed anything, or that only reads,  *)
(* is a stutter and has no action.                                         *)
(***************************************************************************)
EXTENDS OfferPoolOps, Discovery, Sequences

CONSTANTS
  Conns,        \* handler goroutines: so many requests may be under way
  SessionIds,   \* the session ids riders use
  PKs,          \* artifacts: the riders' public keys
  Ciphertexts,  \* artifacts: the drivers' encrypted bids
  Nonces,       \* what a driver puts into a bid besides
  Bytes,        \* session id, ciphertext or nonce -> its bytes
  OpenRequests, BidRequests, MaskRequests, \* the requests that clients
  OfferRequests, GridRequests,             \* send
  MaxOpens,     \* bound on the session objects ever created
  MaxBids,      \* bound on the bids put into one session object
  MaxTime       \* bound on the clock

VARIABLES
  artifacts,  \* the handles in the content-addressed store
  driver,     \* the registry: pseudonym -> cell, NoCell when absent
  sess,       \* heap of AuctionSession objects
  tables,     \* heap of offer pools: the table of each
  sessions,   \* rs.sessions: session id -> index into sess
  pools,      \* rs.pools: session id -> index into tables
  invites,    \* rs.invites: pseudonym -> list of invites
  call,       \* what each handler goroutine is doing
  now,        \* the clock the pools read
  replies,    \* history: the answers given to GET /session/{id}/masks
  by          \* history: whose doing the last change of a pool was

maps == <<sessions, pools, invites>>
vars ==
  <<artifacts, driver, sess, tables, sessions, pools, invites, call, now, replies, by>>

Invites == [sid : SessionIds, pk : PKs]

(* A signed bid: the ciphertext's handle, the nonce, the public key (a     *)
(* driver's identity) and the signature, which stands for who made it, and *)
(* over what.                                                              *)
Sigs == [key : Drivers, sid : SessionIds, enc : Ciphertexts, nonce : Nonces]
Bids == [enc : Ciphertexts, nonce : Nonces, key : Drivers, sig : Sigs]

(* The masks that a run over the first n bids of object k produces. *)
Masks(k, n) == {[obj |-> k, bids |-> n, index |-> i] : i \in 1 .. n}

Idle == [pc |-> "idle"]

(* The goroutines that are in a stage of a handler. *)
At(stages) == {c \in Conns : call[c].pc \in stages}

Goto(c, state) == call' = [call EXCEPT ![c] = state]
Done(c) == Goto(c, Idle)

Init ==
  /\ artifacts = {}
  /\ driver = [d \in Drivers |-> NoCell]
  /\ sess = <<>> /\ tables = <<>>
  /\ sessions = [s \in SessionIds |-> 0]
  /\ pools = [s \in SessionIds |-> 0]
  /\ invites = [d \in Drivers |-> <<>>]
  /\ call = [c \in Conns |-> Idle]
  /\ now = 0
  /\ replies = {}
  /\ by = "time"
-----------------------------------------------------------------------------
(* POST /artifacts *)
ArtifactPut(h) ==
  /\ artifacts' = artifacts \cup {h}
  /\ UNCHANGED <<driver, sess, tables, maps, call, now, replies, by>>

(* POST /grid: a cell to be registered in, or NoCell for accepting=false.  *)
(* Invites already addressed to the driver stay.                           *)
Grid(g) ==
  /\ driver' = Register(driver, g.driver, g.cell)
  /\ UNCHANGED <<artifacts, sess, tables, maps, call, now, replies, by>>
-----------------------------------------------------------------------------
(* POST /session/open, in three steps: the rider's key is fetched from the *)
(* store; drivers are discovered, which may panic and abort the request;   *)
(* the session, its pool and the invites are published under rs.mu.        *)
(* Slip (of OpenBegin): the missing key goes unnoticed. *)
OpenBeginSlip(c, r) ==
  /\ call[c] = Idle
  /\ Len(sess) + Cardinality(At({"discover", "commit"})) < MaxOpens
  /\ Goto(c, [pc |-> "discover", req |-> r])
  /\ UNCHANGED <<artifacts, driver, sess, tables, maps, now, replies, by>>

OpenBegin(c, r) ==
  /\ call[c] = Idle
  /\ Len(sess) + Cardinality(At({"discover", "commit"})) < MaxOpens
  /\ r.pk \in artifacts
  /\ Goto(c, [pc |-> "discover", req |-> r])
  /\ UNCHANGED <<artifacts, driver, sess, tables, maps, now, replies, by>>

OpenDiscover(c) ==
  /\ call[c].pc = "discover"
  /\ LET r      == call[c].req
         target == IF r.target <= 0 THEN 1 ELSE r.target
         found  == Discover(driver, r.cell, target, r.maxWiden)
     IN IF found.final = NoCell
        THEN Done(c)
        ELSE Goto(c, [pc |-> "commit", req |-> r, cands |-> found.cands])
  /\ UNCHANGED <<artifacts, driver, sess, tables, maps, now, replies, by>>

(* A new session object; "invited" remembers who its open invited. *)
NewSession(r, cands) == [sid |-> r.sid, pk |-> r.pk, bids |-> <<>>, invited |-> cands]

(* Slip: the new invite joins the old ones. *)
OpenCommitSlip(c) ==
  /\ call[c].pc = "commit"
  /\ LET r == call[c].req
         cands == call[c].cands
     IN /\ sess' = Append(sess, NewSession(r, cands))
        /\ tables' = Append(tables, EmptyTable)
        /\ sessions' = [sessions EXCEPT ![r.sid] = Len(sess')]
        /\ pools' = [pools EXCEPT ![r.sid] = Len(tables')]
        /\ invites' = [d \in Drivers |->
                         IF d \in cands
                         THEN Append(invites[d], [sid |-> r.sid, pk |-> r.pk])
                         ELSE invites[d]]
  /\ Done(c)
  /\ UNCHANGED <<artifacts, driver, now, replies, by>>

OpenCommit(c) ==
  /\ call[c].pc = "commit"
  /\ LET r == call[c].req
         cands == call[c].cands
     IN /\ sess' = Append(sess, NewSession(r, cands))
        /\ tables' = Append(tables, EmptyTable)
        /\ sessions' = [sessions EXCEPT ![r.sid] = Len(sess')]
        /\ pools' = [pools EXCEPT ![r.sid] = Len(tables')]
        /\ invites' = [d \in Drivers |-> IF d \in cands
                                         THEN <<[sid |-> r.sid, pk |-> r.pk]>>
                                         ELSE invites[d]]
  /\ Done(c)
  /\ UNCHANGED <<artifacts, driver, now, replies, by>>
-----------------------------------------------------------------------------
(* POST /session/bid: the session is looked up, then the ciphertext is     *)
(* fetched, then the bid is verified and appended.                         *)
BidLookup(c, r) ==
  /\ call[c] = Idle
  /\ sessions[r.to] # 0
  /\ LET k == sessions[r.to]
     IN /\ Len(sess[k].bids)
             + Cardinality({x \in At({"fetch", "submit"}) : call[x].obj = k}) < MaxBids
        /\ Goto(c, [pc |-> "fetch", req |-> r, obj |-> k])
  /\ UNCHANGED <<artifacts, driver, sess, tables, maps, now, replies, by>>

BidFetch(c) ==
  /\ call[c].pc = "fetch"
  /\ IF call[c].req.bid.enc \in artifacts
     THEN Goto(c, [call[c] EXCEPT !.pc = "submit"])
     ELSE Done(c)
  /\ UNCHANGED <<artifacts, driver, sess, tables, maps, now, replies, by>>

(* What is hashed and signed: three strings put together with nothing      *)
(* between them.  The hash is taken to be without collisions.              *)
Digest(sid, enc, nonce) == Bytes[sid] \o Bytes[enc] \o Bytes[nonce]

(* The signature is by the key in the bid, over the id of the session      *)
(* object, the ciphertext itself and the nonce in the bid.                 *)
Verify(bid, sid) ==
  /\ bid.sig.key = bid.key
  /\ Digest(bid.sig.sid, bid.sig.enc, bid.sig.nonce) = Digest(sid, bid.enc, bid.nonce)

(* Slip: a driver's earlier bid gives way to the later one. *)
SubmittedSlip(bids, bid) ==
  LET other(b) == b.key # bid.key IN Append(SelectSeq(bids, other), bid)

(* The bids of a session after SubmitBid accepted one. *)
Submitted(bids, bid) == Append(bids, bid)

(* Slip: the signature is not looked at. *)
BidSubmitSlip(c) ==
  /\ call[c].pc = "submit"
  /\ sess' = [sess EXCEPT ![call[c].obj].bids = Submitted(@, call[c].req.bid)]
  /\ Done(c)
  /\ UNCHANGED <<artifacts, driver, tables, maps, now, replies, by>>

BidSubmit(c) ==
  /\ call[c].pc = "submit"
  /\ LET k   == call[c].obj
         bid == call[c].req.bid
     IN sess' = IF Verify(bid, sess[k].sid)
                THEN [sess EXCEPT ![k].bids = Submitted(@, bid)]
                ELSE sess
  /\ Done(c)
  /\ UNCHANGED <<artifacts, driver, tables, maps, now, replies, by>>
-----------------------------------------------------------------------------
(* GET /session/{id}/masks: the session is looked up; RunBlindAuction      *)
(* takes a snapshot of the bids and refuses fewer than two; one mask per   *)
(* bid of the snapshot is stored; and the number of bids is read again for *)
(* the answer.  A refusal is an answer with no masks.                      *)
(* Slip (of MasksLookup): an unknown session is not refused. *)
MasksLookupSlip(c, s) ==
  /\ call[c] = Idle
  /\ Goto(c, [pc |-> "run", obj |-> sessions[s]])
  /\ UNCHANGED <<artifacts, driver, sess, tables, maps, now, replies, by>>

MasksLookup(c, s) ==
  /\ call[c] = Idle
  /\ sessions[s] # 0
  /\ Goto(c, [pc |-> "run", obj |-> sessions[s]])
  /\ UNCHANGED <<artifacts, driver, sess, tables, maps, now, replies, by>>

MasksRun(c) ==
  /\ call[c].pc = "run"
  /\ LET k    == call[c].obj
         bids == sess[k].bids
     IN IF Len(bids) < 2
        THEN /\ replies' = replies \cup
                  {[obj |-> k, bids |-> bids, masks |-> 0, count |-> 0]}
             /\ Done(c)
        ELSE /\ Goto(c, [pc |-> "put", obj |-> k, bids |-> bids])
             /\ UNCHANGED replies
  /\ UNCHANGED <<artifacts, driver, sess, tables, maps, now, by>>

(* The masks are nobody's to fetch before the answer names them, so that   *)
(* storing them one by one is one step here.                               *)
MasksReply(c) ==
  /\ call[c].pc = "put"
  /\ LET k    == call[c].obj
         bids == call[c].bids
     IN /\ artifacts' = artifacts \cup Masks(k, Len(bids))
        /\ replies' = replies \cup
             {[obj |-> k, bids |-> bids, masks |-> Len(bids),
               count |-> Len(sess[k].bids)]}
  /\ Done(c)
  /\ UNCHANGED <<driver, sess, tables, maps, now, by>>
-----------------------------------------------------------------------------
(* POST /offer/hold, /offer/accept, /offer/cancel and GET /offer/held: the *)
(* pool is looked up, then its method is called.                           *)
OfferLookup(c, r) ==
  /\ call[c] = Idle
  /\ pools[r.sid] # 0
  /\ Goto(c, [pc |-> "offer", req |-> r, obj |-> pools[r.sid]])
  /\ UNCHANGED <<artifacts, driver, sess, tables, maps, now, replies, by>>

(* The table that handler c has a pointer to. *)
Pool(c) == tables[call[c].obj]

(* The handler calls its pool's method op, which turns the table into      *)
(* "after" unless it refuses.                                              *)
PoolCall(c, op, who, allowed, after) ==
  /\ call[c].pc = "offer" /\ call[c].req.op = op
  /\ tables' = IF allowed THEN [tables EXCEPT ![call[c].obj] = after] ELSE tables
  /\ by' = who
  /\ Done(c)
  /\ UNCHANGED <<artifacts, driver, sess, maps, now, replies>>

(* Slip: the capacity is not looked at. *)
OfferHoldSlip(c) ==
  PoolCall(c, "hold", "rider", TRUE, HoldIn(Pool(c), call[c].req.id, call[c].req.driver, now))

OfferHold(c) ==
  PoolCall(c, "hold", "rider", HasRoom(Pool(c)),
           HoldIn(Pool(c), call[c].req.id, call[c].req.driver, now))

OfferAccept(c) ==
  PoolCall(c, "accept", "rider", call[c].req.id \in Keys(Pool(c)), AcceptIn(Pool(c)))

OfferCancel(c) ==
  PoolCall(c, "cancel", "rider", call[c].req.id \in Keys(Pool(c)), CancelIn(Pool(c), call[c].req.id))

OfferHeld(c) == PoolCall(c, "held", "time", TRUE, HeldIn(Pool(c), now))

(* The sweeper of a pool runs for ever, also when no session id leads to   *)
(* the pool any more; OfferPool times it, here it may run whenever it has  *)
(* something to do.                                                        *)
Sweep(k) ==
  /\ by' = "time"
  /\ Overdue(tables[k], now) # {}
  /\ tables' = [tables EXCEPT ![k] = SweepIn(@, now)]
  /\ UNCHANGED <<artifacts, driver, sess, maps, call, now, replies>>

Tick ==
  /\ now < MaxTime
  /\ now' = now + 1
  /\ by' = "time"
  /\ UNCHANGED <<artifacts, driver, sess, tables, maps, call, replies>>
-----------------------------------------------------------------------------
Store == \E h \in (PKs \cup Ciphertexts) \ artifacts : ArtifactPut(h)

Open(c) == (\E r \in OpenRequests : OpenBegin(c, r)) \/ OpenDiscover(c) \/ OpenCommit(c)

Bid(c) == (\E r \in BidRequests : BidLookup(c, r)) \/ BidFetch(c) \/ BidSubmit(c)

SessionMasks(c) == (\E s \in MaskRequests : MasksLookup(c, s)) \/ MasksRun(c) \/ MasksReply(c)

Offer(c) ==
  \/ \E r \in OfferRequests : OfferLookup(c, r)
  \/ OfferHold(c) \/ OfferAccept(c) \/ OfferCancel(c) \/ OfferHeld(c)

Next ==
  \/ Store
  \/ \E g \in GridRequests : Grid(g)
  \/ \E c \in Conns : Open(c) \/ Bid(c) \/ SessionMasks(c) \/ Offer(c)
  \/ \E k \in 1 .. Len(tables) : Sweep(k)
  \/ Tick

Spec == Init /\ [][Next]_vars
-----------------------------------------------------------------------------
OpenBodies == [sid : SessionIds, pk : PKs, cell : Cells, target : Int, maxWiden : Nat]
BidBodies  == [to : SessionIds, bid : Bids]
OfferBodies == [op : {"hold", "accept", "cancel", "held"}, sid : SessionIds,
                id : OfferIds, driver : Drivers]

(* An id, a ciphertext and a nonce are their bytes.                        *)
ASSUME BytesAssumption ==
  /\ \A x \in SessionIds \cup Ciphertexts \cup Nonces : Bytes[x] \in Seq(Nat)
  /\ \A names \in {SessionIds, Ciphertexts, Nonces} :
       \A x, y \in names : Bytes[x] = Bytes[y] => x = y
ASSUME BoundsAssumption == {MaxOpens, MaxBids, MaxTime} \subseteq Nat
ASSUME RequestsAssumption ==
  /\ OpenRequests \subseteq OpenBodies
  /\ BidRequests \subseteq BidBodies
  /\ MaskRequests \subseteq SessionIds
  /\ OfferRequests \subseteq OfferBodies
  /\ GridRequests \subseteq [driver : Drivers, cell : Cells \cup {NoCell}]

Sessions == [sid : SessionIds, pk : PKs, bids : Seq(Bids), invited : SUBSET Drivers]

Calls ==
  {Idle}
  \cup [pc : {"discover"}, req : OpenBodies]
  \cup [pc : {"commit"}, req : OpenBodies, cands : SUBSET Drivers]
  \cup [pc : {"fetch", "submit"}, req : BidBodies, obj : 1 .. Len(sess)]
  \cup [pc : {"run"}, obj : 1 .. Len(sess)]
  \cup [pc : {"put"}, obj : 1 .. Len(sess), bids : Seq(Bids)]
  \cup [pc : {"offer"}, req : OfferBodies, obj : 1 .. Len(tables)]

TypeOK ==
  /\ artifacts \subseteq
       PKs \cup Ciphertexts \cup [obj : 1 .. Len(sess), bids : Nat, index : Nat]
  /\ driver \in [Drivers -> Cells \cup {NoCell}]
  /\ sess \in Seq(Sessions)
  /\ tables \in Seq(Tables)
  /\ sessions \in [SessionIds -> 0 .. Len(sess)]
  /\ pools \in [SessionIds -> 0 .. Len(tables)]
  /\ invites \in [Drivers -> Seq(Invites)]
  /\ call \in [Conns -> Calls]
  /\ now \in 0 .. MaxTime
  /\ by \in {"rider", "time"}

(* A rider who decrypts the masks of a session takes the index of the      *)
(* highest one and asks who bid at that index (PseudonymAt).  Mask i stays *)
(* the mask of bid i however many bids and re-opened sessions come between *)
(* the snapshot, the answer and the question, and the bid_count of the     *)
(* answer, which is read after the masks were made, is never below their   *)
(* number.                                                                 *)
MasksNameBidders ==
  \A r \in replies :
    /\ r.bids = SubSeq(sess[r.obj].bids, 1, Len(r.bids))
    /\ r.masks <= r.count

(* No bid counts in a session it was not signed for, nor with a ciphertext *)
(* other than the one that was signed, although the session may be opened  *)
(* again while the bid is being handled: as long as session ids, and       *)
(* nonces, are of one length.  The digest does not say where one string    *)
(* ends and the next begins, so that of lengths that differ only this is   *)
(* left: the bid's key signed the same bytes, however they were divided.   *)
SameLength(x, y) == Len(Bytes[x]) = Len(Bytes[y])

SignedAsSubmitted(bid, sid) ==
  /\ Verify(bid, sid)
  /\ SameLength(bid.sig.sid, sid) /\ SameLength(bid.sig.nonce, bid.nonce) =>
       bid.sig = [key |-> bid.key, sid |-> sid, enc |-> bid.enc, nonce |-> bid.nonce]

BidsSignedForTheirSession ==
  \A k \in DOMAIN sess : \A i \in DOMAIN sess[k].bids :
    SignedAsSubmitted(sess[k].bids[i], sess[k].sid)

(* "each new session supersedes old ones" (ws.go:244): a driver's one      *)
(* invite is for the last session, in the order of their publication, that *)
(* found the driver, and carries that session's key.  Concurrent opens     *)
(* with overlapping candidates do not mix.                                 *)
InviteIsTheLatest ==
  \A d \in Drivers :
    LET mine == {k \in DOMAIN sess : d \in sess[k].invited}
    IN IF mine = {} THEN invites[d] = <<>>
       ELSE \E k \in mine :
              /\ \A j \in mine : j <= k
              /\ invites[d] = <<[sid |-> sess[k].sid, pk |-> sess[k].pk]>>

(* Whoever has seen an invite can act on it: its key can be fetched, its   *)
(* session takes bids, and the session has an offer pool, opened by the    *)
(* same request as the session itself.                                     *)
InviteIsUsable ==
  /\ \A d \in Drivers : \A i \in DOMAIN invites[d] :
       invites[d][i].pk \in artifacts /\ sessions[invites[d][i].sid] # 0
  /\ \A s \in SessionIds : pools[s] = sessions[s]

(* Behind the two-step handlers, the re-opened sessions and the sweepers,  *)
(* the first two pools ever created keep what OfferPromise says, seen by   *)
(* whoever holds a pointer to them; their table before creation is empty.  *)
TableOf(k) == IF k <= Len(tables) THEN tables[k] ELSE EmptyTable

FirstPool  == INSTANCE OfferPromise WITH offers <- TableOf(1), clock <- now, Grace <- MaxTime
SecondPool == INSTANCE OfferPromise WITH offers <- TableOf(2), clock <- now, Grace <- MaxTime

PoolsKeepPromise == FirstPool!PSpec /\ SecondPool!PSpec
-----------------------------------------------------------------------------
(* Discovery: what any query would find in the registry as it is.  The     *)
(* drivers of a cell by first principles: those whose cell lies in the     *)
(* subtree of q, which is grown downwards from q, a generation at a time.  *)
Grow(s) == s \cup {c \in Cells : ParentOf[c] \in s}

Subtree ==
  [q \in Cells |->
     LET Grown[k \in 0 .. Cardinality(Cells)] == IF k = 0 THEN {q} ELSE Grow(Grown[k - 1])
     IN  Grown[Cardinality(Cells)]]

DriversUnder(registry, q) == {d \in Drivers : registry[d] \in Subtree[q]}

(* From each cell, for each target, with at most one widening more than    *)
(* the cell has ancestors.                                                 *)
Queries ==
  UNION {[start : {c}, target : 1 .. Cardinality(Drivers), maxWiden : 0 .. Resolution[c] + 1] :
           c \in Cells}

(* POST /discover. *)
Answer(registry, q) == Discover(registry, q.start, q.target, q.maxWiden)

StopsAtTheTightest(registry, q) ==
  LET a == Answer(registry, q) IN
    a.final # NoCell =>
      \E k \in 0 .. q.maxWiden :
        /\ a.final = Ancestor[<<q.start, k>>]
        /\ a.cands = DriversUnder(registry, a.final)
        /\ \A j \in 0 .. k - 1 :
             Cardinality(DriversUnder(registry, Ancestor[<<q.start, j>>])) < q.target
        /\ Cardinality(a.cands) >= q.target \/ k = q.maxWiden

PanicsPastTheRoot(registry, q) ==
  Answer(registry, q).final = NoCell =>
    /\ q.maxWiden > Resolution[q.start]
    /\ Cardinality(DriversUnder(registry, Ancestor[<<q.start, Resolution[q.start]>>])) < q.target

(* For each registry there may be: does every query do so? *)
Registries == [Drivers -> Cells \cup {NoCell}]
ServedWell ==
  [r \in Registries |-> \A q \in Queries : StopsAtTheTightest(r, q) /\ PanicsPastTheRoot(r, q)]

(* A query stops at the tightest cell that serves: its final cell is the   *)
(* start widened k <= maxWiden times, its candidates are exactly the       *)
(* drivers below that cell, every tighter cell had fewer than target of    *)
(* them, and it gives up short of target only after all of maxWiden.  It   *)
(* panics (Widen at resolution 0, cell.go:34) only if it was allowed more  *)
(* widenings than its start cell has ancestors, and fewer than target      *)
(* drivers are under the coarsest cell.                                    *)
TightestCellServes == ServedWell[driver]
-----------------------------------------------------------------------------
(* What the repository says of the program, and the program does not do.   *)

(* "winner-excluded from re-search" (pool.go:2): no session opened while a *)
(* driver's offer is held invites that driver.                             *)
HeldDriver(d) == \E s \in SessionIds : pools[s] # 0 /\ Excluded(tables[pools[s]], d)

WinnerExcludedFromResearch ==
  [][\A k \in DOMAIN sess' \ DOMAIN sess :
       \A d \in sess'[k].invited : ~HeldDriver(d)]_vars
=============================================================================
