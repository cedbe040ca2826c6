--------------------------- MODULE SealedAuction ---------------------------
(***************************************************************************)
(* The blind auction with the circuit that makes its masks: the keys of    *)
(* the bids are normalised to [0, 1], encrypted in slots and go through    *)
(* the circuit of package fhe; the rider decrypts the masks.  Whoever      *)
(* normalises the keys keeps their order, and nothing more is assumed.     *)
(***************************************************************************)
EXTENDS BlindAuction, ArgminCircuit

CONSTANTS
  Grid,       \* normalised keys are fractions of Grid
  SignIters,  \* the compositions of the cubic sign polynomial
  Circuits    \* the circuits whose depth the ledger is checked for

ASSUME GridAssumption == Grid \in Nat \ {0} /\ SignIters \in Int

(* Eval takes two keys or more; every degree but 9 is the cubic. *)
ASSUME CircuitsAssumption ==
  /\ Circuits \subseteq [keys : Seq(Int), den : Nat \ {0}, degree : {3, 9}, iters : Int]
  /\ \A c \in Circuits : Len(c.keys) >= 2

(* All vectors of keys on the grid, and what the circuit makes of them. *)
Vectors == UNION {[1 .. n -> 0 .. Grid] : n \in 2 .. MaxDriverBids}
Circuit(keys) == [keys |-> keys, den |-> Grid, degree |-> 3, iters |-> SignIters]
Masks == {[keys |-> keys, mask |-> Eval(Circuit(keys))] : keys \in Vectors}

(* The vectors that the keys of this auction may be normalised to. *)
Normalises(keys) ==
  /\ DOMAIN keys = DOMAIN bids
  /\ \A a, b \in DOMAIN bids : keys[a] < keys[b] <=> BuildKey(bids[a]) < BuildKey(bids[b])

Depths == {[circuit |-> c, level |-> Eval(c).level] : c \in Circuits}

(* The levels that a circuit uses up are those of the depth ledger of      *)
(* mask.go:40-48, for which the parameters of the scheme are chosen.  A    *)
(* circuit that is deeper cannot be decrypted.                             *)
LedgerHolds == i = 0 => \A d \in Depths : d.level = Ledger(d.circuit)

(* What the ciphertexts compute is the product of steps over all other     *)
(* keys that the tests compute in the clear (argmin_circuit.go:167): no    *)
(* key is left out, none counts twice, and the slot's own key is none.     *)
MaskIsPlain ==
  i = 0 => \A m \in Masks : Normalises(m.keys) => \A s \in DOMAIN m.keys :
             LET plain == PlainMask(Circuit(m.keys), s)
             IN  m.mask.slots[s] = plain.num * (m.mask.den \div plain.den)

(* The rider's scan over the circuit's masks finds the winner that the     *)
(* scan over the auction's does, the one that Expected names: soft masks   *)
(* of a low degree are enough, also when keys are equal.                   *)
CircuitPicksWinner ==
  i = Len(bids) => \A m \in Masks : Normalises(m.keys) =>
    LET slots == m.mask.slots
    IN  /\ \A s \in DOMAIN slots : slots[s] <= slots[best] /\ (s < best => slots[s] < slots[best])
        /\ Expected(m.keys)[best] = 1
=============================================================================
