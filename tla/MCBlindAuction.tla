--------------------------- MODULE MCBlindAuction ---------------------------
(* The blind auction with small weights that satisfy the invariant of      *)
(* BuildKey with nothing to spare: the largest tie-break is K - 1; and     *)
(* circuits as far as their fractions fit in 32 bits.                      *)
EXTENDS SealedAuction

OfSize(n, degree, iters) ==
  [keys |-> Fill(n, 0), den |-> 1, degree |-> degree, iters |-> iters]

SmallCircuits ==
  {OfSize(n, 3, it) : n \in 2 .. 5, it \in 0 .. 2} \cup {OfSize(n, 9, 1) : n \in 2 .. 3}
=============================================================================
