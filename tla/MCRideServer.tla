---------------------------- MODULE MCRideServer ----------------------------
(* Small instances of the ride server: a grid of three resolutions, with   *)
(* one cell near the rider and one that only the root has in common with   *)
(* it, and sets of requests that make handlers meet.                       *)
EXTENDS RideServer, Folds, Functions, TLC

CONSTANTS root, mid, near, far

MCParentOf ==
  [c \in Cells |-> CASE c = root -> NoCell [] c = near -> mid [] OTHER -> root]
MCResolution ==
  [c \in Cells |-> CASE c = root -> 0 [] c = near -> 2 [] OTHER -> 1]

CONSTANTS s1, s2, s12, k1, k2, e1, e2, none, n2

(* "1" and "2" are session ids and "12" is one that begins like the first; *)
(* "22" and "2" are ciphertexts, the empty string and "2" nonces: "122"    *)
(* divides in three ways.                                                  *)
MCBytes ==
  [x \in SessionIds \cup Ciphertexts \cup Nonces |->
     CASE x = s1 -> <<1>> [] x = s2 -> <<2>> [] x = s12 -> <<1, 2>>
       [] x = e1 -> <<2, 2>> [] x = none -> <<>> [] OTHER -> <<2>>]

(* Every rider asks from the near cell for two drivers, and lets the       *)
(* server widen to the root, or once more than the grid allows.            *)
MCOpens == [sid : {s1, s2}, pk : PKs, cell : {near}, target : {2}, maxWiden : {2, 3}]

(* One session id that is opened again and again. *)
MCReopens == {r \in MCOpens : r.sid = s1 /\ r.pk = k1 /\ r.maxWiden = 2}

(* Bids sent to the first session: signed for it, for another one, or by   *)
(* another driver; and signed over the same bytes, divided otherwise.      *)
MCBids ==
  {r \in [to : {s1}, bid : [enc : {e1}, nonce : {none}, key : Drivers, sig : Sigs]] :
     LET g == r.bid.sig IN
       <<g.sid, g.enc, g.nonce>> \in
         IF g.key = r.bid.key
         THEN {<<s1, e1, none>>, <<s2, e1, none>>, <<s12, e2, none>>, <<s1, e2, n2>>}
         ELSE {<<s1, e1, none>>}}

(* Drivers appear in either cell and go off duty. *)
MCGrid == [driver : Drivers, cell : {near, far, NoCell}]

(* Drivers appear and stay. *)
MCArrivals == [driver : Drivers, cell : {near}]

MCOffers == [op : {"hold", "accept", "cancel", "held"}, sid : {s1}, id : OfferIds, driver : Drivers]

NoRequests == {}

MCSymmetry == Permutations(Conns) \cup Permutations(Drivers)
-----------------------------------------------------------------------------
(* The clients of a behaviour do one of four things, so that one run       *)
(* covers the handlers of each beside one another without multiplying the  *)
(* states of those that have nothing in common: riders open sessions while *)
(* drivers move; one session is opened twice, bid in, and asked for masks; *)
(* it is opened twice and bid in with signatures of all sorts; it is       *)
(* opened twice and offers are made in it.                                 *)
VARIABLE clients

Opening == {c \in Conns : call'[c].pc \in {"discover", "commit"}}

InHandlers(stages) == \A c \in Conns : call'[c].pc \in stages \cup {"idle", "discover", "commit"}

OpenedTwice ==
  /\ \A c \in Opening : call'[c].req \in MCReopens
  /\ Len(sess') + Cardinality(Opening) <= 2
  /\ UNCHANGED driver

(* So many bids in all, wherever they went. *)
FewBids(n) == FoldFunction(LAMBDA o, m : Len(o.bids) + m, 0, sess') <= n

(* Bids signed over the ciphertext submitted, if for another session. *)
SignedPlainly ==
  \A c \in Conns :
    call'[c].pc \in {"fetch", "submit"} =>
      LET b == call'[c].req.bid IN b.sig.key = b.key /\ b.sig.enc = b.enc

ClientsNext ==
  /\ Next
  /\ UNCHANGED clients
  /\ e2 \notin artifacts'
  /\ clients = "riders" => UNCHANGED now /\ e1 \notin artifacts' /\ InHandlers({})
  /\ clients = "bidders" =>
       /\ UNCHANGED now /\ k2 \notin artifacts'
       /\ InHandlers({"fetch", "submit", "run", "put"}) /\ OpenedTwice
       /\ FewBids(3) /\ SignedPlainly
  /\ clients = "signers" =>
       /\ UNCHANGED now /\ k2 \notin artifacts'
       /\ InHandlers({"fetch", "submit"}) /\ OpenedTwice /\ FewBids(2)
  /\ clients = "holders" =>
       artifacts' \subseteq {k1} /\ InHandlers({"offer"}) /\ OpenedTwice

ClientsInit == Init /\ clients \in {"riders", "bidders", "signers", "holders"}

MCSpec == ClientsInit /\ [][ClientsNext]_<<vars, clients>>

(* Clients who do anything that Next allows. *)
AnyInit == Init /\ clients = "any"

MCAnySpec == AnyInit /\ [][ClientsNext]_<<vars, clients>>
=============================================================================
