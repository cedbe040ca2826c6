--------------------------- MODULE ArgminCircuit ---------------------------
(***************************************************************************)
(* The homomorphic argmin of package fhe: from the keys of a cohort, in    *)
(* slots, to a mask that is highest in the slot of the lowest key, with    *)
(* nothing but products of ciphertexts, which cost a level each, and       *)
(* subtractions of public vectors, which cost none.                        *)
(*                                                                         *)
(* A ciphertext stands for what it decrypts to without noise: fractions    *)
(* with a common denominator, one for every slot, at the level that the    *)
(* products used up.  The arithmetic is exact.                             *)
(***************************************************************************)
EXTENDS Integers, SequencesExt

(* External, fhecalib's handle.  Of two denominators here one always       *)
(* divides the other.                                                      *)
Enc(vals, den) == [level |-> 0, den |-> den, slots |-> vals]

EvalMult(a, b) ==
  [level |-> 1 + (IF a.level < b.level THEN b.level ELSE a.level),
   den   |-> a.den * b.den,
   slots |-> [s \in DOMAIN a.slots |-> a.slots[s] * b.slots[s]]]

EvalSubConst(a, vals, den) ==
  LET common == IF a.den < den THEN den ELSE a.den
  IN  [level |-> a.level, den |-> common,
       slots |-> [s \in DOMAIN a.slots |->
                    a.slots[s] * (common \div a.den) - vals[s] * (common \div den)]]

Fill(n, v) == [s \in 1 .. n |-> v]
-----------------------------------------------------------------------------
(* The sign polynomial: its coefficients, lowest first, in fractions of    *)
(* CoeffDen.                                                               *)
SignCoeffs(degree) ==
  IF degree = 9 THEN <<0, 315, 0, -420, 0, 378, 0, -180, 0, 35>> ELSE <<0, 3, 0, -1>>

CoeffDen(degree) == IF degree = 9 THEN 128 ELSE 2

Iters(c) == IF c.iters < 1 THEN 1 ELSE c.iters

(* hornerEval: a product for every degree, a constant where it is not 0. *)
HornerRound(acc, x, coeff, degree) ==
  LET m == EvalMult(acc, x)
  IN  IF coeff = 0 THEN m
      ELSE EvalSubConst(m, Fill(Len(x.slots), -coeff), CoeffDen(degree))

HornerEval(x, seed, degree) ==
  LET cs == SignCoeffs(degree)
      top == Len(cs) - 1
      acc[d \in 0 .. top] ==
        IF d = 0 THEN seed ELSE HornerRound(acc[d - 1], x, cs[top - d + 1], degree)
  IN  acc[top]

(* step(x) = (g^k(x) + 1) / 2. *)
EvalStep(x, zeros, seed, degree, iters) ==
  LET n == Len(x.slots)
      lead == Last(SignCoeffs(degree))
      rebuilt == EvalSubConst(zeros, Fill(n, -lead), CoeffDen(degree))
      v[it \in 0 .. iters] ==
        IF it = 0 THEN x
        ELSE HornerEval(v[it - 1], IF it = 1 THEN seed ELSE rebuilt, degree)
      half == EvalSubConst(zeros, Fill(n, -1), 2)
  IN  EvalSubConst(EvalMult(v[iters], half), Fill(n, -1), 2)

(* balancedProduct: pairs, and the odd one goes up as it is.  Slip: one    *)
(* after the other.                                                        *)
BalancedProductSlip(cts) == FoldLeft(EvalMult, cts[1], Tail(cts))

Pairs(s) ==
  [p \in 1 .. (Len(s) + 1) \div 2 |->
     IF 2 * p > Len(s) THEN s[2 * p - 1] ELSE EvalMult(s[2 * p - 1], s[2 * p])]

BalancedProduct(cts) ==
  LET tree[k \in 0 .. Len(cts)] == IF k = 0 THEN cts ELSE Pairs(tree[k - 1])
  IN  tree[Len(cts)][1]

(* The rows: row j compares key j with every slot's; in its own slot it is *)
(* pinned to 1.  Slip: it stays at step(0).                                *)
RowSlip(c, j) ==
  LET n == Len(c.keys)
      zeros == Enc(Fill(n, 0), 1)
      seed  == Enc(Fill(n, Last(SignCoeffs(c.degree))), CoeffDen(c.degree))
      negK  == EvalSubConst(zeros, c.keys, c.den)
  IN  EvalStep(EvalSubConst(negK, Fill(n, -c.keys[j]), c.den), zeros, seed, c.degree, Iters(c))

Row(c, j) ==
  LET n == Len(c.keys)
      zeros == Enc(Fill(n, 0), 1)
      seed  == Enc(Fill(n, Last(SignCoeffs(c.degree))), CoeffDen(c.degree))
      negK  == EvalSubConst(zeros, c.keys, c.den)
      diff  == EvalSubConst(negK, Fill(n, -c.keys[j]), c.den)
      step  == EvalStep(diff, zeros, seed, c.degree, Iters(c))
  IN  EvalSubConst(step, [s \in 1 .. n |-> IF s = j THEN -1 ELSE 0], 2)

(* Eval, for a circuit c = [keys, den, degree, iters] of two keys or more. *)
Eval(c) == BalancedProduct([j \in DOMAIN c.keys |-> Row(c, j)])
-----------------------------------------------------------------------------
(* Expected: the lowest key, the first of them.  Slip: the last. *)
ExpectedSlip(keys) ==
  [i \in DOMAIN keys |->
     IF \A j \in DOMAIN keys : keys[i] <= keys[j] /\ (j > i => keys[i] < keys[j]) THEN 1 ELSE 0]

Expected(keys) ==
  [i \in DOMAIN keys |->
     IF \A j \in DOMAIN keys : keys[i] <= keys[j] /\ (j < i => keys[i] < keys[j]) THEN 1 ELSE 0]

(* plaintextStep and plaintextMask, for degree 3: the step of x / den, and *)
(* its product over all other keys, as fractions.                          *)
SignRound(y) ==
  [num |-> 3 * y.num * y.den * y.den - y.num * y.num * y.num,
   den |-> 2 * y.den * y.den * y.den]

PlainSign(x, den, iters) ==
  LET g[k \in 0 .. iters] ==
        IF k = 0 THEN [num |-> x, den |-> den] ELSE SignRound(g[k - 1])
  IN  g[iters]

PlainFactor(c, j, s) ==
  LET g == PlainSign(c.keys[j] - c.keys[s], c.den, Iters(c))
  IN  [num |-> g.num + g.den, den |-> 2 * g.den]

Times(x, y) == [num |-> x.num * y.num, den |-> x.den * y.den]

PlainMask(c, s) ==
  LET n == Len(c.keys)
      product[j \in 0 .. n] ==
        IF j = 0 THEN [num |-> 1, den |-> 1]
        ELSE IF j = s THEN product[j - 1]
        ELSE Times(product[j - 1], PlainFactor(c, j, s))
  IN  product[n]
-----------------------------------------------------------------------------
(* The depth ledger of mask.go:40-48, for which the parameters of the      *)
(* scheme are chosen: for every application of the sign polynomial its     *)
(* degree, one for the step map and the logarithm of the cohort for the    *)
(* product.                                                                *)
Doublings(n) ==
  LET d[e \in 0 .. n] == IF e = 0 THEN 1 ELSE 2 * d[e - 1]
  IN  d

(* The least number of doublings that reach n. *)
CeilLog2(n) ==
  CHOOSE e \in 0 .. n : Doublings(n)[e] >= n /\ \A f \in 0 .. e - 1 : Doublings(n)[f] < n

Ledger(c) == c.degree * Iters(c) + 1 + CeilLog2(Len(c.keys))
=============================================================================
