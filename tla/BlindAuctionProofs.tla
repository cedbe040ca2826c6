-------------------------- MODULE BlindAuctionProofs --------------------------
(***************************************************************************)
(* Theorems about the winner of a blind auction, for every number of bids  *)
(* and all weights that satisfy the invariant of auction.BuildKey; and     *)
(* about the circuit that makes the masks: its depth for every cohort,     *)
(* both degrees and every number of compositions; its values and the       *)
(* winner they give for the cubic sign polynomial, on every grid.          *)
(*                                                                         *)
(* The circuit is built of recursions.  Each is taken apart the same way:  *)
(* a function that satisfies the recursion exists (Iteration), whatever    *)
(* satisfies it iterates one step (Stepping), and what holds of all its    *)
(* values is proved by Induction.                                          *)
(***************************************************************************)
EXTENDS SealedAuction, TLAPS, WellFoundedInduction

(* Multiplication by a natural is monotone. *)
LEMMA ScaleUp ==
  ASSUME NEW k \in Nat, NEW p \in Nat, NEW q \in Nat, p < q
  PROVE  k * p + k <= k * q
  <1>1. PICK n \in Nat : q = p + 1 + n
    <2>1. q - p - 1 \in Nat /\ q = p + 1 + (q - p - 1)
      OBVIOUS
    <2>2. QED
      BY <2>1
  <1>2. k * q = k * p + k + k * n
    BY <1>1
  <1>3. k * n \in Nat /\ k * p \in Int
    OBVIOUS
  <1>4. QED
    BY <1>2, <1>3

(* The product of naturals is a natural. *)
LEMMA ProductInNat == ASSUME NEW x \in Nat, NEW y \in Nat PROVE x * y \in Nat
  OBVIOUS

(* The tie-break of a bid is a natural below K. *)
LEMMA TieBreakBelowK ==
  ASSUME NEW a \in DriverBids
  PROVE  TieBreak(a) \in Nat /\ TieBreak(a) < K
  <1>1. a.penalty \in Penalties /\ a.dist \in Distances
    BY DEF DriverBids
  <1> DEFINE wp == WStar * a.penalty
             wd == WDist * a.dist
  <1>2. TieBreak(a) < K
    BY <1>1, TieBreakAssumption DEF TieBreak
  <1>3. wp \in Nat /\ wd \in Nat
    <2>1. /\ a.penalty \in Nat /\ a.dist \in Nat
          /\ WStar \in Nat /\ WDist \in Nat
      BY <1>1, WeightsAssumption
    <2>2. QED
      BY <2>1, ProductInNat
  <1>4. TieBreak(a) = wp + wd
    BY DEF TieBreak
  <1> HIDE DEF wp, wd
  <1>5. QED
    BY <1>2, <1>3, <1>4

(* The key orders bids lexicographically: by price, and by the tie-break   *)
(* where the prices are equal.  This is what the invariant of BuildKey is  *)
(* for: one cent more costs K, and no tie-break is worth as much.          *)
LEMMA KeyIsLexicographic ==
  ASSUME NEW a \in DriverBids, NEW b \in DriverBids
  PROVE  /\ Mask(a) \in Int
         /\ Mask(a) > Mask(b) <=> Beats(a, b)
  <1>1. /\ a.price \in Nat /\ b.price \in Nat /\ K \in Nat
        /\ K * a.price \in Nat /\ K * b.price \in Nat
    <2>1. a.price \in Nat /\ b.price \in Nat /\ K \in Nat
      BY WeightsAssumption DEF DriverBids
    <2>2. QED
      BY <2>1, ProductInNat
  <1>2. /\ TieBreak(a) \in Nat /\ TieBreak(a) < K
        /\ TieBreak(b) \in Nat /\ TieBreak(b) < K
    BY TieBreakBelowK
  <1>3. /\ Mask(a) = 0 - (K * a.price + TieBreak(a))
        /\ Mask(b) = 0 - (K * b.price + TieBreak(b))
    BY DEF Mask, BuildKey
  <1>4. CASE a.price < b.price
    <2>1. K * a.price + K <= K * b.price
      BY <1>1, <1>4, ScaleUp
    <2>2. Mask(a) > Mask(b)
      BY <1>1, <1>2, <1>3, <2>1
    <2>3. QED
      BY <1>1, <1>2, <1>3, <1>4, <2>2 DEF Beats
  <1>5. CASE b.price < a.price
    <2>1. K * b.price + K <= K * a.price
      BY <1>1, <1>5, ScaleUp
    <2>2. ~(Mask(a) > Mask(b))
      BY <1>1, <1>2, <1>3, <2>1
    <2>3. QED
      BY <1>1, <1>2, <1>3, <1>5, <2>2 DEF Beats
  <1>6. CASE a.price = b.price
    <2>1. Mask(a) > Mask(b) <=> TieBreak(a) < TieBreak(b)
      BY <1>1, <1>2, <1>3, <1>6
    <2>2. QED
      BY <1>1, <1>2, <1>3, <1>6, <2>1 DEF Beats
  <1>7. QED
    BY <1>1, <1>4, <1>5, <1>6

(* A key is an integer.                                                    *)
LEMMA KeyIsInt == ASSUME NEW a \in DriverBids PROVE BuildKey(a) \in Int
  <1>1. TieBreak(a) \in Nat
    BY TieBreakBelowK
  <1>2. K * a.price \in Nat
    BY WeightsAssumption, ProductInNat DEF DriverBids
  <1>3. QED
    BY <1>1, <1>2 DEF BuildKey

(* Beats is a strict order: nothing beats itself, and it is transitive     *)
(* through a bid that is not beaten.                                       *)
LEMMA BeatsOrder ==
  ASSUME NEW a \in DriverBids, NEW b \in DriverBids, NEW c \in DriverBids
  PROVE  /\ ~Beats(a, a)
         /\ Beats(a, b) /\ ~Beats(c, b) => Beats(a, c)
         /\ Beats(a, b) => ~Beats(b, a)
  <1>1. /\ a.price \in Nat /\ b.price \in Nat /\ c.price \in Nat
    BY WeightsAssumption DEF DriverBids
  <1>2. TieBreak(a) \in Nat /\ TieBreak(b) \in Nat /\ TieBreak(c) \in Nat
    BY TieBreakBelowK
  <1>3. QED
    BY <1>1, <1>2 DEF Beats

-----------------------------------------------------------------------------
(* Type correctness of the rider's loop. *)
THEOREM TypeCorrect == Spec => []TypeOK
  <1>1. Init => TypeOK
    BY DEF Init, TypeOK
  <1>2. TypeOK /\ [Decrypt]_vars => TypeOK'
    <2> SUFFICES ASSUME TypeOK, [Decrypt]_vars PROVE TypeOK'
      OBVIOUS
    <2>1. CASE Decrypt
      <3>1. /\ i' = i + 1 /\ bids' = bids /\ i < Len(bids)
            /\ Len(bids) \in Nat /\ bids[i + 1] \in DriverBids
        BY <2>1 DEF Decrypt, TypeOK
      <3>2. Mask(bids[i + 1]) \in Int
        BY <3>1, KeyIsLexicographic
      <3>3. best' \in 0 .. i' /\ bestVal' \in Int
        BY <2>1, <3>1, <3>2 DEF Decrypt, TypeOK
      <3>4. QED
        BY <3>1, <3>3 DEF TypeOK
    <2>2. CASE UNCHANGED vars
      BY <2>2 DEF vars, TypeOK
    <2>3. QED
      BY <2>1, <2>2
  <1>3. QED
    BY <1>1, <1>2, PTL DEF Spec

(* The bid that is best so far is one of the bids decrypted so far. *)
LEMMA BestIsABid ==
  ASSUME TypeOK, best > 0
  PROVE  best \in 1 .. Len(bids) /\ bids[best] \in DriverBids
  BY DEF TypeOK

(* In every state no mask decrypted so far beats the best one, and the     *)
(* best one beats those before it.                                         *)
THEOREM BestSoFarHolds == Spec => []BestSoFar
  <1>1. Init => BestSoFar
    BY DEF Init, BestSoFar
  <1>2. TypeOK /\ BestSoFar /\ [Decrypt]_vars => BestSoFar'
    <2> SUFFICES ASSUME TypeOK, BestSoFar, [Decrypt]_vars PROVE BestSoFar'
      OBVIOUS
    <2>1. CASE Decrypt
      <3> DEFINE new == bids[i + 1]
      <3>1. /\ i' = i + 1 /\ bids' = bids /\ i \in Nat /\ i < Len(bids)
            /\ \A j \in 1 .. i' : bids[j] \in DriverBids
        BY <2>1 DEF Decrypt, TypeOK
      <3>2. CASE best = 0
        <4>1. i = 0
          BY <3>1, <3>2 DEF BestSoFar
        <4>2. best' = 1 /\ bestVal' = Mask(bids[1]) /\ i' = 1
          BY <2>1, <3>2, <4>1 DEF Decrypt
        <4>3. ~Beats(bids[1], bids[1])
          BY <3>1, <4>2, BeatsOrder
        <4>4. QED
          BY <3>1, <4>2, <4>3 DEF BestSoFar
      <3>3. CASE best # 0 /\ Mask(new) > bestVal
        <4>1. best > 0 /\ bestVal = Mask(bids[best]) /\ i > 0
          BY <3>1, <3>3 DEF TypeOK, BestSoFar
        <4>2. bids[best] \in DriverBids /\ new \in DriverBids
          BY <3>1, <4>1, BestIsABid
        <4>3. Beats(new, bids[best])
          BY <3>3, <4>1, <4>2, KeyIsLexicographic
        <4>4. best' = i + 1 /\ bestVal' = Mask(new)
          BY <2>1, <3>3 DEF Decrypt
        <4>5. \A j \in 1 .. i : Beats(new, bids[j])
          BY <3>1, <4>2, <4>3, BeatsOrder DEF BestSoFar
        <4>6. \A j \in 1 .. i' : ~Beats(bids[j], new)
          <5>1. ASSUME NEW j \in 1 .. i PROVE ~Beats(bids[j], new)
            BY <3>1, <4>2, <4>5, BeatsOrder
          <5>2. ~Beats(new, new)
            BY <4>2, BeatsOrder
          <5>3. QED
            BY <3>1, <5>1, <5>2
        <4>7. QED
          BY <3>1, <4>4, <4>5, <4>6 DEF BestSoFar
      <3>4. CASE best # 0 /\ ~(Mask(new) > bestVal)
        <4>1. best > 0 /\ bestVal = Mask(bids[best])
          BY <3>1, <3>4 DEF TypeOK, BestSoFar
        <4>2. ~Beats(new, bids[best])
          BY <3>1, <3>4, <4>1, BestIsABid, KeyIsLexicographic
        <4>3. UNCHANGED <<best, bestVal>>
          BY <2>1, <3>4 DEF Decrypt
        <4>4. QED
          BY <3>1, <4>1, <4>2, <4>3 DEF BestSoFar
      <3>5. QED
        BY <3>2, <3>3, <3>4
    <2>2. CASE UNCHANGED vars
      BY <2>2 DEF vars, BestSoFar
    <2>3. QED
      BY <2>1, <2>2
  <1>3. QED
    BY <1>1, <1>2, TypeCorrect, PTL DEF Spec

(* The winner of every auction is a lowest price; stars and distance only  *)
(* decide between equal prices, and the order of submission only between   *)
(* bids that are equal in all of it.                                       *)
THEOREM CheapestBidWins == Spec => []CheapestWins
  <1>1. TypeOK /\ BestSoFar => CheapestWins
    <2> SUFFICES ASSUME TypeOK, BestSoFar, i = Len(bids) PROVE CheapestWins
      BY DEF CheapestWins
    <2>1. best \in 1 .. Len(bids) /\ bids[best] \in DriverBids
      BY BestIsABid DEF BestSoFar, TypeOK
    <2>2. ASSUME NEW j \in 1 .. Len(bids)
          PROVE  \/ bids[best].price < bids[j].price
                 \/ /\ bids[best].price = bids[j].price
                    /\ \/ TieBreak(bids[best]) < TieBreak(bids[j])
                       \/ TieBreak(bids[best]) = TieBreak(bids[j]) /\ best <= j
      <3>1. bids[j] \in DriverBids
        BY DEF TypeOK
      <3>2. /\ bids[j].price \in Nat /\ bids[best].price \in Nat
            /\ TieBreak(bids[j]) \in Nat /\ TieBreak(bids[best]) \in Nat
        BY <2>1, <3>1, TieBreakBelowK, WeightsAssumption DEF DriverBids
      <3>3. ~Beats(bids[j], bids[best])
        BY DEF BestSoFar
      <3>4. ~(best <= j) => Beats(bids[best], bids[j])
        BY <2>1 DEF BestSoFar
      <3>5. QED
        BY <2>1, <3>2, <3>3, <3>4 DEF Beats
    <2>3. QED
      BY <2>1, <2>2 DEF CheapestWins
  <1>2. QED
    BY <1>1, TypeCorrect, BestSoFarHolds, PTL

-----------------------------------------------------------------------------
(* Induction.  The library's theorems on it take an operator; these state  *)
(* it of sets and functions, which the provers can instantiate.            *)
LEMMA Least ==
  ASSUME NEW T, T \subseteq Nat, T # {}
  PROVE  \E n \in T : \A m \in T : n <= m
<1> DEFINE R == OpToRel(<, Nat)
<1>1. IsWellFoundedOn(R, Nat)
  BY NatLessThanWellFounded
<1>2. PICK n \in T : \A m \in T : <<m, n>> \notin R
  <2> HIDE DEF R
  <2> QED BY <1>1, WFMin, Zenon
<1>3. \A m \in T : ~(m < n)
  BY <1>2 DEF OpToRel
<1> QED BY <1>3

(* What holds of 0, and of the successor of all it holds of, holds of      *)
(* every natural.                                                          *)
LEMMA Induction ==
  ASSUME NEW T, 0 \in T, \A n \in Nat : n \in T => n + 1 \in T
  PROVE  \A n \in Nat : n \in T
  <1> SUFFICES ASSUME NEW k \in Nat, k \notin T PROVE FALSE
    OBVIOUS
  <1>1. PICK n \in Nat \ T : \A m \in Nat \ T : n <= m
    <2>1. Nat \ T # {}
      OBVIOUS
    <2>2. QED
      BY <2>1, Least
  <1>2. n - 1 \in Nat /\ n - 1 \notin Nat \ T
    BY <1>1
  <1>3. QED
    BY <1>1, <1>2

(* f counts n steps from f0.                                               *)
Iterates(f, S, f0, step, n) ==
  /\ f \in [0 .. n -> S]
  /\ f[0] = f0
  /\ \A k \in 1 .. n : f[k] = step[<<k, f[k - 1]>>]

(* Every start and every step can be iterated.                             *)
LEMMA Iteration ==
  ASSUME NEW S, NEW f0 \in S, NEW step \in [Nat \X S -> S], NEW n \in Nat
  PROVE  \E f : Iterates(f, S, f0, step, n)
  <1> DEFINE T == {k \in Nat : \E f : Iterates(f, S, f0, step, k)}
  <1>1. 0 \in T
    <2>1. Iterates([k \in 0 .. 0 |-> f0], S, f0, step, 0)
      BY DEF Iterates
    <2>2. QED
      BY <2>1
  <1>2. ASSUME NEW k \in Nat, k \in T PROVE k + 1 \in T
    <2>1. PICK f : Iterates(f, S, f0, step, k)
      BY <1>2
    <2> DEFINE g == [j \in 0 .. k + 1 |-> IF j <= k THEN f[j] ELSE step[<<k + 1, f[k]>>]]
    <2>2. step[<<k + 1, f[k]>>] \in S
      BY <2>1 DEF Iterates
    <2>3. \A j \in 0 .. k : g[j] = f[j] /\ f[j] \in S
      BY <2>1 DEF Iterates
    <2>4. g[k + 1] = step[<<k + 1, f[k]>>]
      OBVIOUS
    <2>5. g \in [0 .. k + 1 -> S]
      <3>1. \A j \in 0 .. k + 1 : j \in 0 .. k \/ j = k + 1
        OBVIOUS
      <3>2. \A j \in 0 .. k + 1 : g[j] \in S
        <4> HIDE DEF g
        <4>1. QED
          BY <2>2, <2>3, <2>4, <3>1
      <3>3. QED
        BY <3>2
    <2>6. ASSUME NEW j \in 1 .. k + 1 PROVE g[j] = step[<<j, g[j - 1]>>]
      <3>1. j - 1 \in 0 .. k /\ g[j - 1] = f[j - 1]
        BY <2>3
      <3> HIDE DEF g
      <3>2. CASE j = k + 1
        <4>1. j - 1 = k
          BY <3>2
        <4>2. QED
          BY <2>4, <3>1, <3>2, <4>1
      <3>3. CASE j # k + 1
        <4>1. j \in 1 .. k
          BY <3>3
        <4>2. QED
          BY <2>1, <2>3, <3>1, <4>1 DEF Iterates
      <3>4. QED
        BY <3>2, <3>3
    <2>7. g[0] = f0
      BY <2>1, <2>3 DEF Iterates
    <2> HIDE DEF g
    <2>8. QED
      BY <2>5, <2>6, <2>7 DEF Iterates
  <1>3. n \in T
    <2> HIDE DEF T
    <2>1. QED
      BY <1>1, <1>2, Induction
  <1>4. QED
    BY <1>3

(* A function that starts at f0 and follows step wherever it is in S       *)
(* counts the steps, and stays in S.                                       *)
LEMMA Stepping ==
  ASSUME NEW S, NEW f0 \in S, NEW step \in [Nat \X S -> S], NEW n \in Nat, NEW f,
         f = [k \in 0 .. n |-> f[k]], f[0] = f0,
         \A k \in 1 .. n : f[k - 1] \in S => f[k] = step[<<k, f[k - 1]>>]
  PROVE  Iterates(f, S, f0, step, n)
  <1> DEFINE T == {k \in Nat : k <= n => f[k] \in S}
  <1>1. 0 \in T
    OBVIOUS
  <1>2. ASSUME NEW k \in Nat, k \in T PROVE k + 1 \in T
    <2>1. SUFFICES ASSUME k + 1 <= n PROVE f[k + 1] \in S
      OBVIOUS
    <2>2. k + 1 \in 1 .. n /\ (k + 1) - 1 = k /\ f[k] \in S
      BY <1>2, <2>1
    <2>3. f[k + 1] = step[<<k + 1, f[k]>>]
      BY <2>2
    <2>4. QED
      BY <2>2, <2>3
  <1>3. \A k \in Nat : k \in T
    <2> HIDE DEF T
    <2>1. QED
      BY <1>1, <1>2, Induction
  <1>4. \A k \in 0 .. n : f[k] \in S
    BY <1>3
  <1>5. f \in [0 .. n -> S]
    BY <1>4
  <1>6. \A k \in 1 .. n : f[k] = step[<<k, f[k - 1]>>]
    <2>1. \A k \in 1 .. n : k - 1 \in 0 .. n
      OBVIOUS
    <2>2. QED
      BY <1>4, <2>1
  <1>7. QED
    BY <1>5, <1>6 DEF Iterates
-----------------------------------------------------------------------------
(* The two operations on ciphertexts.                                      *)
Ciphertexts(n) == [level : Nat, den : Nat \ {0}, slots : [1 .. n -> Int]]
Fresh(n) == {x \in Ciphertexts(n) : x.level = 0}
Degrees == {3, 9}

(* Products of positive naturals, and of integers.                         *)
LEMMA PositiveProduct ==
  ASSUME NEW x \in Nat \ {0}, NEW y \in Nat \ {0}
  PROVE  x * y \in Nat \ {0}
  OBVIOUS

LEMMA IntProduct == ASSUME NEW x \in Int, NEW y \in Int PROVE x * y \in Int
  OBVIOUS

(* A product of ciphertexts: its level, denominator and values.            *)
LEMMA MultIs ==
  ASSUME NEW n \in Nat, NEW a \in Ciphertexts(n), NEW b \in Ciphertexts(n)
  PROVE  /\ EvalMult(a, b) \in Ciphertexts(n)
         /\ EvalMult(a, b).level = 1 + (IF a.level < b.level THEN b.level ELSE a.level)
         /\ EvalMult(a, b).den = a.den * b.den
         /\ \A s \in 1 .. n : EvalMult(a, b).slots[s] = a.slots[s] * b.slots[s]
  <1> DEFINE sl == [s \in 1 .. n |-> a.slots[s] * b.slots[s]]
  <1>1. /\ a.level \in Nat /\ a.den \in Nat \ {0} /\ a.slots \in [1 .. n -> Int]
        /\ b.level \in Nat /\ b.den \in Nat \ {0} /\ b.slots \in [1 .. n -> Int]
    BY DEF Ciphertexts
  <1>2. a.den * b.den \in Nat \ {0}
    BY <1>1, PositiveProduct
  <1>3. sl \in [1 .. n -> Int] /\ \A s \in 1 .. n : sl[s] = a.slots[s] * b.slots[s]
    BY <1>1, IntProduct
  <1>4. EvalMult(a, b) = [level |-> 1 + (IF a.level < b.level THEN b.level ELSE a.level),
                          den |-> a.den * b.den, slots |-> sl]
    BY <1>1 DEF EvalMult
  <1>5. 1 + (IF a.level < b.level THEN b.level ELSE a.level) \in Nat
    BY <1>1
  <1> HIDE DEF sl
  <1>6. QED
    BY <1>2, <1>3, <1>4, <1>5 DEF Ciphertexts

Common(x, y) == IF x < y THEN y ELSE x

(* A subtraction of a public vector: the level stays.                      *)
LEMMA SubIs ==
  ASSUME NEW n \in Nat, NEW a \in Ciphertexts(n), NEW d \in Nat \ {0}, NEW vals,
         \A s \in 1 .. n : vals[s] \in Int
  PROVE  /\ EvalSubConst(a, vals, d) \in Ciphertexts(n)
         /\ EvalSubConst(a, vals, d).level = a.level
         /\ EvalSubConst(a, vals, d).den = Common(a.den, d)
         /\ \A s \in 1 .. n : EvalSubConst(a, vals, d).slots[s] =
              a.slots[s] * (Common(a.den, d) \div a.den) - vals[s] * (Common(a.den, d) \div d)
  <1> DEFINE common == Common(a.den, d)
             up == common \div a.den
             down == common \div d
             sl == [s \in 1 .. n |-> a.slots[s] * up - vals[s] * down]
  <1>1. a.level \in Nat /\ a.den \in Nat \ {0} /\ a.slots \in [1 .. n -> Int]
    BY DEF Ciphertexts
  <1>2. common \in Nat \ {0}
    BY <1>1 DEF Common
  <1>3. up \in Int /\ down \in Int
    BY <1>1, <1>2
  <1>4. EvalSubConst(a, vals, d) = [level |-> a.level, den |-> common, slots |-> sl]
    BY <1>1 DEF EvalSubConst, Common
  <1> HIDE DEF common
  <1>5. /\ sl \in [1 .. n -> Int]
        /\ \A s \in 1 .. n : sl[s] = a.slots[s] * up - vals[s] * down
    <2> HIDE DEF up, down
    <2>1. \A s \in 1 .. n : a.slots[s] * up - vals[s] * down \in Int
      <3>1. TAKE s \in 1 .. n
      <3>2. a.slots[s] * up \in Int /\ vals[s] * down \in Int
        BY <1>1, <1>3, IntProduct
      <3>3. QED
        BY <3>2
    <2>2. QED
      BY <2>1
  <1> HIDE DEF sl, up, down
  <1>6. EvalSubConst(a, vals, d) \in Ciphertexts(n)
    BY <1>1, <1>2, <1>4, <1>5 DEF Ciphertexts
  <1>7. QED
    BY <1>4, <1>5, <1>6 DEF common, up, down

LEMMA SubStays ==
  ASSUME NEW n \in Nat, NEW a \in Ciphertexts(n), NEW d \in Nat \ {0}, NEW vals,
         \A s \in 1 .. n : vals[s] \in Int
  PROVE  /\ EvalSubConst(a, vals, d) \in Ciphertexts(n)
         /\ EvalSubConst(a, vals, d).level = a.level
  BY SubIs, ZenonT(30)

(* How many slots a ciphertext has.                                        *)
LEMMA FillIs ==
  ASSUME NEW n \in Nat, NEW x \in Ciphertexts(n), NEW v
  PROVE  Len(x.slots) = n /\ \A s \in 1 .. n : Fill(n, v)[s] = v
  <1>1. x.slots \in [1 .. n -> Int]
    BY DEF Ciphertexts
  <1>2. x.slots \in Seq(Int) /\ DOMAIN x.slots = 1 .. n
    BY <1>1
  <1>3. Len(x.slots) \in Nat /\ DOMAIN x.slots = 1 .. Len(x.slots)
    BY <1>2
  <1>4. QED
    BY <1>2, <1>3 DEF Fill

LEMMA EncIs ==
  ASSUME NEW n \in Nat, NEW v \in Int, NEW d \in Nat \ {0}
  PROVE  /\ Enc(Fill(n, v), d) \in Fresh(n)
         /\ Enc(Fill(n, v), d).den = d
         /\ \A s \in 1 .. n : Enc(Fill(n, v), d).slots[s] = v
  BY DEF Enc, Fill, Ciphertexts, Fresh

-----------------------------------------------------------------------------
(* The levels of the sign polynomial, of the step map and of a row.        *)
LEMMA CoeffsAre ==
  ASSUME NEW degree \in Degrees
  PROVE  /\ degree \in Nat
         /\ SignCoeffs(degree) \in Seq(Int) /\ Len(SignCoeffs(degree)) = degree + 1
         /\ Last(SignCoeffs(degree)) \in Int /\ CoeffDen(degree) \in Nat \ {0}
         /\ \A k \in 1 .. degree + 1 : SignCoeffs(degree)[k] \in Int
  <1> DEFINE cs == SignCoeffs(degree)
  <1>1. cs \in Seq(Int) /\ Len(cs) = degree + 1
    <2>1. CASE degree = 3
      <3>1. cs = <<0, 3, 0, -1>>
        BY <2>1 DEF SignCoeffs
      <3> HIDE DEF cs
      <3>2. cs \in Seq(Int) /\ Len(cs) = 4
        BY <3>1
      <3>3. QED
        BY <2>1, <3>2
    <2>2. CASE degree = 9
      <3>1. cs = <<0, 315, 0, -420, 0, 378, 0, -180, 0, 35>>
        BY <2>2 DEF SignCoeffs
      <3> HIDE DEF cs
      <3>2. Len(cs) = 10
        BY <3>1
      <3>3. cs \in Seq(Int)
        BY <3>1
      <3>4. QED
        BY <2>2, <3>2, <3>3
    <2>3. QED
      BY <2>1, <2>2 DEF Degrees
  <1>2. degree \in Nat /\ CoeffDen(degree) \in Nat \ {0}
    BY DEF CoeffDen, Degrees
  <1> HIDE DEF cs
  <1>3. \A k \in 1 .. degree + 1 : cs[k] \in Int
    BY <1>1, <1>2
  <1>4. Last(cs) \in Int
    BY <1>1, <1>2, <1>3 DEF Last
  <1>5. QED
    BY <1>1, <1>2, <1>3, <1>4 DEF cs

(* A round of Horner costs one level at most.                              *)
LEMMA RoundIs ==
  ASSUME NEW n \in Nat, NEW acc \in Ciphertexts(n), NEW x \in Ciphertexts(n),
         NEW coeff \in Int, NEW degree \in Degrees
  PROVE  /\ HornerRound(acc, x, coeff, degree) \in Ciphertexts(n)
         /\ HornerRound(acc, x, coeff, degree).level =
              1 + (IF acc.level < x.level THEN x.level ELSE acc.level)
  <1> DEFINE m == EvalMult(acc, x)
             vals == Fill(Len(x.slots), -coeff)
  <1>1. m \in Ciphertexts(n) /\ m.level = 1 + (IF acc.level < x.level THEN x.level ELSE acc.level)
    BY MultIs
  <1>2. \A s \in 1 .. n : vals[s] \in Int
    BY FillIs
  <1>3. CoeffDen(degree) \in Nat \ {0}
    BY CoeffsAre
  <1>4. HornerRound(acc, x, coeff, degree) =
          IF coeff = 0 THEN m ELSE EvalSubConst(m, vals, CoeffDen(degree))
    BY DEF HornerRound
  <1> HIDE DEF m, vals
  <1>5. /\ EvalSubConst(m, vals, CoeffDen(degree)) \in Ciphertexts(n)
        /\ EvalSubConst(m, vals, CoeffDen(degree)).level = m.level
    BY <1>1, <1>2, <1>3, SubIs
  <1>6. QED
    BY <1>1, <1>4, <1>5

HornerStep(n, x, degree) ==
  [p \in Nat \X Ciphertexts(n) |->
     IF p[1] \in 1 .. degree
     THEN HornerRound(p[2], x, SignCoeffs(degree)[degree - p[1] + 1], degree) ELSE p[2]]

(* hornerEval iterates HornerRound.                                        *)
LEMMA HornerSteps ==
  ASSUME NEW n \in Nat, NEW x \in Ciphertexts(n), NEW seed \in Ciphertexts(n),
         NEW degree \in Degrees
  PROVE  /\ HornerStep(n, x, degree) \in [Nat \X Ciphertexts(n) -> Ciphertexts(n)]
         /\ \E acc : /\ Iterates(acc, Ciphertexts(n), seed, HornerStep(n, x, degree), degree)
                     /\ HornerEval(x, seed, degree) = acc[degree]
  <1> DEFINE cs == SignCoeffs(degree)
             S == Ciphertexts(n)
             step == HornerStep(n, x, degree)
             Recurses(f) == f = [d \in 0 .. degree |->
                                   IF d = 0 THEN seed
                                   ELSE HornerRound(f[d - 1], x, cs[degree - d + 1], degree)]
  <1>0. degree \in Nat
    BY CoeffsAre
  <1>1. \A k \in 1 .. degree : cs[degree - k + 1] \in Int
    <2>1. degree \in Nat /\ \A k \in 1 .. degree + 1 : cs[k] \in Int
      BY CoeffsAre
    <2>2. \A k \in 1 .. degree : degree - k + 1 \in 1 .. degree + 1
      BY <2>1
    <2> HIDE DEF cs
    <2>3. QED
      BY <2>1, <2>2
  <1>2. \A k \in Nat, y \in S : (IF k \in 1 .. degree
                                 THEN HornerRound(y, x, cs[degree - k + 1], degree) ELSE y) \in S
    BY <1>1, RoundIs
  <1>3. step \in [Nat \X S -> S]
    BY <1>2 DEF HornerStep
  <1>4. \A k \in 1 .. degree, y \in S : step[<<k, y>>] = HornerRound(y, x, cs[degree - k + 1], degree)
    BY DEF HornerStep
  <1>5. PICK f : Iterates(f, S, seed, step, degree)
    <2>1. degree \in Nat
      BY CoeffsAre
    <2> HIDE DEF S, step
    <2>2. QED
      BY <1>3, <2>1, Iteration DEF S
  <1>6. Recurses(f)
    <2> HIDE DEF step
    <2>1. f \in [0 .. degree -> S] /\ f[0] = seed
      BY <1>5 DEF Iterates
    <2>2. \A k \in 1 .. degree : f[k - 1] \in S
      BY <1>0, <2>1
    <2>3. \A k \in 1 .. degree : f[k] = HornerRound(f[k - 1], x, cs[degree - k + 1], degree)
      BY <1>4, <1>5, <2>2 DEF Iterates
    <2>4. QED
      BY <2>1, <2>3
  <1>7. Len(cs) - 1 = degree
    <2>1. degree \in Nat /\ Len(cs) = degree + 1
      BY CoeffsAre
    <2>2. QED
      BY <2>1
  <1>8. HornerEval(x, seed, degree) = (CHOOSE f1 : Recurses(f1))[degree]
    BY <1>7 DEF HornerEval
  <1>9. PICK acc : Recurses(acc) /\ HornerEval(x, seed, degree) = acc[degree]
    BY <1>6, <1>8
  <1>10. Iterates(acc, S, seed, step, degree)
    <2>1. acc = [k \in 0 .. degree |-> acc[k]] /\ acc[0] = seed
      BY <1>0, <1>9
    <2>2. \A k \in 1 .. degree : acc[k] = HornerRound(acc[k - 1], x, cs[degree - k + 1], degree)
      BY <1>0, <1>9
    <2>3. \A k \in 1 .. degree : acc[k - 1] \in S => acc[k] = step[<<k, acc[k - 1]>>]
      BY <1>4, <2>2
    <2>4. degree \in Nat
      BY CoeffsAre
    <2> HIDE DEF step, S, Recurses, cs
    <2>5. QED
      BY <1>3, <2>1, <2>3, <2>4, Stepping DEF S
  <1>11. QED
    BY <1>3, <1>9, <1>10

(* The polynomial costs its degree.                                        *)
LEMMA HornerIs ==
  ASSUME NEW n \in Nat, NEW x \in Ciphertexts(n), NEW seed \in Ciphertexts(n),
         NEW degree \in Degrees, seed.level <= x.level
  PROVE  /\ HornerEval(x, seed, degree) \in Ciphertexts(n)
         /\ HornerEval(x, seed, degree).level = x.level + degree
  <1> DEFINE S == Ciphertexts(n)
             step == HornerStep(n, x, degree)
  <1>1. PICK acc : Iterates(acc, S, seed, step, degree) /\ HornerEval(x, seed, degree) = acc[degree]
    BY HornerSteps
  <1>2. x.level \in Nat /\ seed.level \in Nat /\ degree \in Nat
    <2>1. degree \in Nat
      BY CoeffsAre
    <2>2. QED
      BY <2>1 DEF Ciphertexts
  <1> DEFINE T == {k \in Nat : k \in 1 .. degree => acc[k].level = x.level + k}
  <1>3. acc \in [0 .. degree -> S] /\ acc[0] = seed
    BY <1>1 DEF Iterates
  <1>4. ASSUME NEW k \in 1 .. degree
        PROVE  acc[k].level = 1 + (IF acc[k - 1].level < x.level THEN x.level ELSE acc[k - 1].level)
    <2>1. SignCoeffs(degree)[degree - k + 1] \in Int
      <3>1. degree \in Nat /\ \A j \in 1 .. degree + 1 : SignCoeffs(degree)[j] \in Int
        BY CoeffsAre
      <3>2. degree - k + 1 \in 1 .. degree + 1
        BY <3>1
      <3>3. QED
        BY <3>1, <3>2
    <2>2. acc[k - 1] \in S
      BY <1>2, <1>3
    <2>3. acc[k] = HornerRound(acc[k - 1], x, SignCoeffs(degree)[degree - k + 1], degree)
      <3>1. k \in Nat
        OBVIOUS
      <3>2. acc[k] = step[<<k, acc[k - 1]>>]
        BY <1>1 DEF Iterates
      <3>3. QED
        BY <2>2, <3>1, <3>2 DEF HornerStep
    <2>4. PICK y \in S, b \in Int : y = acc[k - 1] /\ b = SignCoeffs(degree)[degree - k + 1]
      BY <2>1, <2>2
    <2>5. HornerRound(y, x, b, degree).level = 1 + (IF y.level < x.level THEN x.level ELSE y.level)
      BY RoundIs
    <2>6. QED
      BY <2>3, <2>4, <2>5
  <1>5. 0 \in T
    OBVIOUS
  <1>6. ASSUME NEW k \in Nat, k \in T PROVE k + 1 \in T
    <2>1. SUFFICES ASSUME k + 1 \in 1 .. degree PROVE acc[k + 1].level = x.level + (k + 1)
      OBVIOUS
    <2>2. acc[k + 1].level = 1 + (IF acc[k].level < x.level THEN x.level ELSE acc[k].level)
      BY <1>4, <2>1
    <2>3. CASE k = 0
      BY <1>2, <1>3, <2>2, <2>3
    <2>4. CASE k # 0
      <3>1. degree \in Nat
        BY CoeffsAre
      <3>2. k \in 1 .. degree
        BY <2>1, <2>4, <3>1
      <3>3. acc[k].level = x.level + k
        BY <1>6, <3>2
      <3>4. QED
        BY <1>2, <2>2, <3>3
    <2>5. QED
      BY <2>3, <2>4
  <1>7. \A k \in Nat : k \in T
    <2> HIDE DEF T
    <2>1. QED
      BY <1>5, <1>6, Induction
  <1>8. degree \in T /\ degree \in 1 .. degree /\ acc[degree] \in S
    BY <1>2, <1>3, <1>7 DEF Degrees
  <1>9. QED
    BY <1>1, <1>8

Compose(n, first, other, degree) ==
  [p \in Nat \X Ciphertexts(n) |->
     HornerEval(p[2], IF p[1] = 1 THEN first ELSE other, degree)]

(* The seed of a later composition, and the half of the step map. *)
Other(n, zeros, degree) ==
  EvalSubConst(zeros, Fill(n, -Last(SignCoeffs(degree))), CoeffDen(degree))
Half(n, zeros) == EvalSubConst(zeros, Fill(n, -1), 2)

(* evalStep composes hornerEval with itself.                               *)
LEMMA StepSteps ==
  ASSUME NEW n \in Nat, NEW x \in Ciphertexts(n),
         NEW zeros \in Fresh(n), NEW seed \in Fresh(n),
         NEW degree \in Degrees, NEW iters \in Nat
  PROVE  /\ Other(n, zeros, degree) \in Fresh(n) /\ Half(n, zeros) \in Fresh(n)
         /\ \E v : /\ Iterates(v, Ciphertexts(n), x,
                                Compose(n, seed, Other(n, zeros, degree), degree), iters)
                   /\ EvalStep(x, zeros, seed, degree, iters) =
                        EvalSubConst(EvalMult(v[iters], Half(n, zeros)), Fill(n, -1), 2)
  <1> DEFINE S == Ciphertexts(n)
             other == Other(n, zeros, degree)
             half  == Half(n, zeros)
             step == Compose(n, seed, other, degree)
             Recurses(f) == f = [it \in 0 .. iters |->
                                   IF it = 0 THEN x
                                   ELSE HornerEval(f[it - 1], IF it = 1 THEN seed ELSE other, degree)]
  <1>1. other \in Fresh(n) /\ zeros \in S /\ seed \in S
    <2>1. Last(SignCoeffs(degree)) \in Int /\ CoeffDen(degree) \in Nat \ {0}
      BY CoeffsAre
    <2>2. PICK b \in Int : b = -Last(SignCoeffs(degree))
      BY <2>1
    <2>3. \A s \in 1 .. n : Fill(n, b)[s] \in Int
      BY <2>2, FillIs
    <2>4. zeros \in S /\ zeros.level = 0 /\ seed \in S
      BY DEF Fresh
    <2>5. QED
      BY <2>1, <2>2, <2>3, <2>4, SubStays DEF Fresh, Other
  <1>2. half \in Fresh(n)
    <2>1. PICK vals : vals = Fill(n, -1)
      OBVIOUS
    <2>2. \A s \in 1 .. n : vals[s] \in Int
      BY <2>1 DEF Fill
    <2>3. zeros \in S /\ zeros.level = 0 /\ 2 \in Nat \ {0}
      BY DEF Fresh
    <2>4. EvalSubConst(zeros, vals, 2) \in S /\ EvalSubConst(zeros, vals, 2).level = zeros.level
      BY <2>2, <2>3, SubStays
    <2>5. QED
      BY <2>1, <2>3, <2>4 DEF Fresh, Half
  <1> HIDE DEF other, half
  <1>3. step \in [Nat \X S -> S]
    <2>1. ASSUME NEW k \in Nat, NEW y \in S
          PROVE  HornerEval(y, IF k = 1 THEN seed ELSE other, degree) \in S
      <3>1. PICK z \in S : z = (IF k = 1 THEN seed ELSE other) /\ z.level = 0
        BY <1>1 DEF Fresh
      <3>2. y.level \in Nat
        BY DEF Ciphertexts
      <3>3. HornerEval(y, z, degree) \in S
        BY <3>1, <3>2, HornerIs
      <3>4. QED
        BY <3>1, <3>3
    <2>2. QED
      BY <2>1 DEF Compose
  <1>4. \A k \in Nat, y \in S :
          step[<<k, y>>] = HornerEval(y, IF k = 1 THEN seed ELSE other, degree)
    BY DEF Compose
  <1>5. PICK f : Iterates(f, S, x, step, iters)
    <2> HIDE DEF S, step
    <2>1. QED
      BY <1>3, Iteration DEF S
  <1>6. Recurses(f)
    <2> HIDE DEF step
    <2>1. f \in [0 .. iters -> S] /\ f[0] = x
      BY <1>5 DEF Iterates
    <2>2. \A k \in 1 .. iters : f[k - 1] \in S
      BY <2>1
    <2>3. ASSUME NEW k \in 1 .. iters
          PROVE  f[k] = HornerEval(f[k - 1], IF k = 1 THEN seed ELSE other, degree)
      <3>1. k \in Nat /\ f[k - 1] \in S /\ f[k] = step[<<k, f[k - 1]>>]
        BY <1>5, <2>2 DEF Iterates
      <3>2. QED
        BY <1>4, <3>1
    <2>4. QED
      BY <2>1, <2>3
  <1>7. Len(x.slots) = n
    BY FillIs
  <1>8. EvalStep(x, zeros, seed, degree, iters) =
          EvalSubConst(EvalMult((CHOOSE f1 : Recurses(f1))[iters], half), Fill(n, -1), 2)
    BY <1>7 DEF EvalStep, Other, Half, other, half
  <1>9. PICK v : /\ Recurses(v)
                 /\ EvalStep(x, zeros, seed, degree, iters) =
                      EvalSubConst(EvalMult(v[iters], half), Fill(n, -1), 2)
    BY <1>6, <1>8
  <1>10. Iterates(v, S, x, step, iters)
    <2>1. v = [k \in 0 .. iters |-> v[k]] /\ v[0] = x
      BY <1>9
    <2>2. \A k \in 1 .. iters :
            v[k] = HornerEval(v[k - 1], IF k = 1 THEN seed ELSE other, degree)
      BY <1>9
    <2>3. \A k \in 1 .. iters : v[k - 1] \in S => v[k] = step[<<k, v[k - 1]>>]
      BY <1>4, <2>2
    <2> HIDE DEF step, S, Recurses
    <2>4. QED
      BY <1>3, <2>1, <2>3, Stepping DEF S
  <1>11. QED
    BY <1>1, <1>2, <1>9, <1>10 DEF other, half

StepLevels(degree, iters) == degree * iters + 1

(* The step map costs the degree of every composition, and one level.      *)
LEMMA StepIs ==
  ASSUME NEW n \in Nat, NEW x \in Ciphertexts(n),
         NEW zeros \in Fresh(n), NEW seed \in Fresh(n),
         NEW degree \in Degrees, NEW iters \in Nat
  PROVE  /\ EvalStep(x, zeros, seed, degree, iters) \in Ciphertexts(n)
         /\ EvalStep(x, zeros, seed, degree, iters).level = x.level + StepLevels(degree, iters)
  <1> DEFINE S == Ciphertexts(n)
             other == Other(n, zeros, degree)
             half  == Half(n, zeros)
             step == Compose(n, seed, other, degree)
  <1>1. PICK v : /\ Iterates(v, S, x, step, iters)
                 /\ EvalStep(x, zeros, seed, degree, iters) =
                      EvalSubConst(EvalMult(v[iters], half), Fill(n, -1), 2)
    BY StepSteps
  <1>2. /\ other \in S /\ other.level = 0 /\ half \in S /\ half.level = 0
        /\ seed \in S /\ seed.level = 0
    <2>1. other \in Fresh(n) /\ half \in Fresh(n)
      BY StepSteps
    <2> HIDE DEF other, half
    <2>2. QED
      BY <2>1 DEF Fresh
  <1> HIDE DEF other, half
  <1>3. v \in [0 .. iters -> S] /\ v[0] = x /\ x.level \in Nat /\ degree \in Nat
    <2>1. degree \in Nat
      BY CoeffsAre
    <2>2. QED
      BY <1>1, <2>1 DEF Iterates, Ciphertexts
  <1>4. ASSUME NEW k \in 1 .. iters
        PROVE  v[k].level = v[k - 1].level + degree
    <2>1. PICK y \in S, z \in S : y = v[k - 1] /\ z = (IF k = 1 THEN seed ELSE other) /\ z.level = 0
      BY <1>2, <1>3
    <2>2. v[k] = HornerEval(y, z, degree)
      <3>1. k \in Nat /\ v[k] = step[<<k, v[k - 1]>>]
        BY <1>1 DEF Iterates
      <3>2. QED
        BY <2>1, <3>1 DEF Compose
    <2>3. y.level \in Nat
      BY DEF Ciphertexts
    <2>4. HornerEval(y, z, degree).level = y.level + degree
      BY <2>1, <2>3, HornerIs
    <2>5. QED
      BY <2>1, <2>2, <2>4
  <1> DEFINE T == {k \in Nat : k \in 0 .. iters => v[k].level = x.level + degree * k}
  <1>5. 0 \in T
    BY <1>3
  <1>6. ASSUME NEW k \in Nat, k \in T PROVE k + 1 \in T
    <2>1. SUFFICES ASSUME k + 1 \in 0 .. iters PROVE v[k + 1].level = x.level + degree * (k + 1)
      OBVIOUS
    <2>2. k + 1 \in 1 .. iters /\ k \in 0 .. iters /\ (k + 1) - 1 = k
      BY <2>1
    <2>3. v[k].level = x.level + degree * k
      BY <1>6, <2>2
    <2>4. v[k + 1].level = v[k].level + degree
      BY <1>4, <2>2
    <2>5. degree * (k + 1) = degree * k + degree
      BY <1>3
    <2>6. degree * k \in Int
      BY <1>3
    <2>7. QED
      BY <1>3, <2>3, <2>4, <2>5, <2>6
  <1>7. \A k \in Nat : k \in T
    <2> HIDE DEF T
    <2>1. QED
      BY <1>5, <1>6, Induction
  <1>8. PICK y \in S : y = v[iters] /\ y.level = x.level + degree * iters
    BY <1>3, <1>7
  <1>9. PICK m \in S : m = EvalMult(y, half) /\ m.level = y.level + 1
    <2>1. y.level \in Nat
      BY DEF Ciphertexts
    <2>2. QED
      BY <1>2, <2>1, MultIs
  <1>10. /\ EvalSubConst(m, Fill(n, -1), 2) \in S
         /\ EvalSubConst(m, Fill(n, -1), 2).level = m.level
    <2>1. \A s \in 1 .. n : Fill(n, -1)[s] \in Int
      BY FillIs
    <2>2. 2 \in Nat \ {0}
      OBVIOUS
    <2>3. QED
      BY <2>1, <2>2, SubStays
  <1>11. m.level = x.level + StepLevels(degree, iters)
    <2>1. degree * iters \in Int
      BY <1>3
    <2>2. QED
      BY <1>3, <1>8, <1>9, <2>1 DEF StepLevels
  <1>12. QED
    BY <1>1, <1>8, <1>9, <1>10, <1>11

(* A circuit that Eval takes. *)
IsCircuit(c) ==
  /\ c.keys \in Seq(Int) /\ Len(c.keys) >= 2
  /\ c.den \in Nat \ {0} /\ c.degree \in Degrees /\ c.iters \in Int

LEMMA ItersIs == ASSUME NEW c, IsCircuit(c) PROVE Iters(c) \in Nat \ {0}
  BY DEF IsCircuit, Iters

(* What a row starts from: the key differences, at level 0.                *)
Zeros(c) == Enc(Fill(Len(c.keys), 0), 1)
Seed(c)  == Enc(Fill(Len(c.keys), Last(SignCoeffs(c.degree))), CoeffDen(c.degree))
Diff(c, j) ==
  EvalSubConst(EvalSubConst(Zeros(c), c.keys, c.den), Fill(Len(c.keys), -c.keys[j]), c.den)

LEMMA RowStart ==
  ASSUME NEW c, IsCircuit(c), NEW j \in DOMAIN c.keys
  PROVE  /\ Zeros(c) \in Fresh(Len(c.keys)) /\ Seed(c) \in Fresh(Len(c.keys))
         /\ Diff(c, j) \in Fresh(Len(c.keys)) /\ Diff(c, j).den = c.den
         /\ \A s \in DOMAIN c.keys : Diff(c, j).slots[s] = c.keys[j] - c.keys[s]
  <1>0. PICK size : size = Len(c.keys)
    OBVIOUS
  <1> DEFINE S == Ciphertexts(size)
  <1>1. /\ size \in Nat /\ c.keys \in Seq(Int) /\ DOMAIN c.keys = 1 .. size /\ c.den \in Nat \ {0}
        /\ c.keys[j] \in Int /\ \A s \in 1 .. size : c.keys[s] \in Int
    BY <1>0 DEF IsCircuit
  <1>2. Last(SignCoeffs(c.degree)) \in Int /\ CoeffDen(c.degree) \in Nat \ {0}
    BY CoeffsAre DEF IsCircuit
  <1>3. PICK z \in S : /\ z = Zeros(c) /\ z.level = 0 /\ z.den = 1 /\ z \in Fresh(size)
                       /\ \A s \in 1 .. size : z.slots[s] = 0
    <2>1. Zeros(c) = Enc(Fill(size, 0), 1) /\ 1 \in Nat \ {0} /\ 0 \in Int /\ size \in Nat
      BY <1>0, <1>1 DEF Zeros
    <2>2. /\ Enc(Fill(size, 0), 1) \in Fresh(size) /\ Enc(Fill(size, 0), 1).den = 1
          /\ \A s \in 1 .. size : Enc(Fill(size, 0), 1).slots[s] = 0
      BY <2>1, EncIs
    <2>3. QED
      BY <2>1, <2>2 DEF Fresh
  <1>4. Seed(c) \in Fresh(size)
    <2>1. Seed(c) = Enc(Fill(size, Last(SignCoeffs(c.degree))), CoeffDen(c.degree))
      BY <1>0 DEF Seed
    <2>2. PICK lead, cd : lead = Last(SignCoeffs(c.degree)) /\ cd = CoeffDen(c.degree)
      OBVIOUS
    <2>3. size \in Nat /\ lead \in Int /\ cd \in Nat \ {0}
      BY <1>1, <1>2, <2>2
    <2>4. Enc(Fill(size, lead), cd) \in Fresh(size)
      BY <2>3, EncIs
    <2>5. QED
      BY <2>1, <2>2, <2>4
  <1> DEFINE D == c.den
  <1>5. /\ D \div D = 1 /\ D \div 1 = D
    BY <1>1
  <1> HIDE DEF D
  <1>6. PICK k \in S : /\ k = EvalSubConst(z, c.keys, D) /\ k.level = 0 /\ k.den = D
                       /\ \A s \in 1 .. size : k.slots[s] = 0 - c.keys[s]
    <2>1. \A s \in 1 .. size : c.keys[s] \in Int
      BY <1>1
    <2>2. D \in Nat \ {0} /\ Common(1, D) = D
      BY <1>1 DEF D, Common
    <2>3. /\ EvalSubConst(z, c.keys, D) \in S /\ EvalSubConst(z, c.keys, D).level = 0
          /\ EvalSubConst(z, c.keys, D).den = D
          /\ \A s \in 1 .. size : EvalSubConst(z, c.keys, D).slots[s] =
                                 z.slots[s] * (D \div 1) - c.keys[s] * (D \div D)
      <3>1. z \in S /\ z.level = 0 /\ z.den = 1 /\ size \in Nat /\ D \in Nat \ {0}
        BY <1>1, <1>3, <2>2
      <3>2. QED
        BY <2>1, <2>2, <3>1, SubIs
    <2>4. \A s \in 1 .. size : z.slots[s] * (D \div 1) - c.keys[s] * (D \div D) = 0 - c.keys[s]
      BY <1>1, <1>3, <1>5, <2>2
    <2>5. QED
      BY <2>3, <2>4
  <1>7. PICK b \in Int : b = c.keys[j]
    BY <1>1
  <1>8. /\ EvalSubConst(k, Fill(size, -b), D) \in S /\ EvalSubConst(k, Fill(size, -b), D).level = 0
        /\ EvalSubConst(k, Fill(size, -b), D).den = D
        /\ \A s \in 1 .. size : EvalSubConst(k, Fill(size, -b), D).slots[s] = b - c.keys[s]
    <2>1. \A s \in 1 .. size : Fill(size, -b)[s] = -b
      BY <1>1, <1>3, FillIs
    <2>2. D \in Nat \ {0} /\ Common(D, D) = D
      BY <1>1 DEF D, Common
    <2>3. PICK f : f = Fill(size, -b)
      OBVIOUS
    <2>4. \A s \in 1 .. size : f[s] \in Int
      BY <2>1, <2>3
    <2>5. /\ EvalSubConst(k, f, D) \in S /\ EvalSubConst(k, f, D).level = 0
          /\ EvalSubConst(k, f, D).den = D
          /\ \A s \in 1 .. size : EvalSubConst(k, f, D).slots[s] =
                                 k.slots[s] * (D \div D) - f[s] * (D \div D)
      BY <1>1, <1>6, <2>2, <2>4, SubIs
    <2>6. \A s \in 1 .. size : k.slots[s] * (D \div D) - f[s] * (D \div D) = b - c.keys[s]
      BY <1>1, <1>5, <1>6, <2>1, <2>3
    <2>7. QED
      BY <2>3, <2>5, <2>6
  <1>9. Diff(c, j) = EvalSubConst(k, Fill(size, -b), D)
    BY <1>0, <1>3, <1>6, <1>7 DEF Diff, D
  <1>10. Diff(c, j) \in Fresh(size)
    BY <1>8, <1>9 DEF Fresh
  <1>11. QED
    BY <1>0, <1>1, <1>3, <1>4, <1>7, <1>8, <1>9, <1>10 DEF D

(* A row is pinned to 1 in its own slot, at no cost.                       *)
LEMMA RowIs ==
  ASSUME NEW c, IsCircuit(c), NEW j \in DOMAIN c.keys
  PROVE  LET size == Len(c.keys)
             step == EvalStep(Diff(c, j), Zeros(c), Seed(c), c.degree, Iters(c))
             pin == [s \in 1 .. size |-> IF s = j THEN -1 ELSE 0]
         IN  /\ step \in Ciphertexts(size) /\ Row(c, j) = EvalSubConst(step, pin, 2)
             /\ Row(c, j) \in Ciphertexts(size)
             /\ Row(c, j).level = StepLevels(c.degree, Iters(c))
  <1>0. PICK size : size = Len(c.keys)
    OBVIOUS
  <1> DEFINE step == EvalStep(Diff(c, j), Zeros(c), Seed(c), c.degree, Iters(c))
             pin == [s \in 1 .. size |-> IF s = j THEN -1 ELSE 0]
  <1>1. size \in Nat /\ c.degree \in Degrees /\ Iters(c) \in Nat
    BY <1>0, ItersIs DEF IsCircuit
  <1>2. Row(c, j) = EvalSubConst(step, pin, 2)
    BY <1>0 DEF Row, Diff, Zeros, Seed
  <1>3. /\ Zeros(c) \in Fresh(size) /\ Seed(c) \in Fresh(size)
        /\ Diff(c, j) \in Ciphertexts(size) /\ Diff(c, j).level = 0
    BY <1>0, RowStart DEF Fresh
  <1>4. step \in Ciphertexts(size) /\ step.level = 0 + StepLevels(c.degree, Iters(c))
    <2>1. PICK d, it, x, z, s :
            d = c.degree /\ it = Iters(c) /\ x = Diff(c, j) /\ z = Zeros(c) /\ s = Seed(c)
      OBVIOUS
    <2>2. x \in Ciphertexts(size) /\ x.level = 0 /\ z \in Fresh(size) /\ s \in Fresh(size)
      BY <1>3, <2>1
    <2>3. size \in Nat /\ d \in Degrees /\ it \in Nat
      BY <1>1, <2>1
    <2>4. /\ EvalStep(x, z, s, d, it) \in Ciphertexts(size)
          /\ EvalStep(x, z, s, d, it).level = x.level + StepLevels(d, it)
      BY <2>2, <2>3, StepIs
    <2>5. QED
      BY <2>1, <2>2, <2>4
  <1>5. \A s \in 1 .. size : pin[s] \in Int
    OBVIOUS
  <1>6. 2 \in Nat \ {0}
    OBVIOUS
  <1>7. StepLevels(c.degree, Iters(c)) \in Int
    <2>1. c.degree \in Nat
      BY <1>1, CoeffsAre
    <2>2. QED
      BY <1>1, <2>1 DEF StepLevels
  <1> HIDE DEF step, pin
  <1>8. EvalSubConst(step, pin, 2) \in Ciphertexts(size) /\ EvalSubConst(step, pin, 2).level = step.level
    <2>1. step \in Ciphertexts(size) /\ size \in Nat
      BY <1>1, <1>4
    <2>2. QED
      BY <2>1, <1>5, <1>6, SubStays
  <1>9. QED
    BY <1>0, <1>2, <1>4, <1>7, <1>8 DEF step, pin

-----------------------------------------------------------------------------
(* The product tree: how long a stage is, and at which level.              *)
Stages(n) == Seq(Ciphertexts(n)) \ {<<>>}

(* One stage: half as many, rounded up, each a pair or the odd one.        *)
LEMMA PairsIs ==
  ASSUME NEW n \in Nat, NEW s \in Stages(n)
  PROVE  /\ Pairs(s) \in Stages(n) /\ Len(s) \in Nat \ {0}
         /\ Len(Pairs(s)) = (Len(s) + 1) \div 2
         /\ \A p \in 1 .. Len(Pairs(s)) :
              /\ 2 * p - 1 \in 1 .. Len(s)
              /\ 2 * p > Len(s) => Pairs(s)[p] = s[2 * p - 1]
              /\ 2 * p <= Len(s) => /\ 2 * p \in 1 .. Len(s)
                                    /\ Pairs(s)[p] = EvalMult(s[2 * p - 1], s[2 * p])
  <1> DEFINE S == Ciphertexts(n)
             len == Len(s)
             half == (len + 1) \div 2
  <1>1. s \in Seq(S) /\ len \in Nat \ {0}
    BY DEF Stages
  <1>2. half \in Nat \ {0} /\ 2 * half <= len + 1
    BY <1>1
  <1> HIDE DEF half
  <1>3. \A p \in 1 .. half : 2 * p - 1 \in 1 .. len /\ (2 * p <= len => 2 * p \in 1 .. len)
    BY <1>1, <1>2
  <1>4. ASSUME NEW p \in 1 .. half
        PROVE  (IF 2 * p > len THEN s[2 * p - 1] ELSE EvalMult(s[2 * p - 1], s[2 * p])) \in S
    <2>1. s[2 * p - 1] \in S
      BY <1>1, <1>3
    <2>2. CASE 2 * p > len
      BY <2>1, <2>2
    <2>3. CASE ~(2 * p > len)
      <3>1. s[2 * p] \in S
        BY <1>1, <1>3, <2>3
      <3>2. QED
        BY <2>1, <2>3, <3>1, MultIs
    <2>4. QED
      BY <2>2, <2>3
  <1>5. Pairs(s) = [p \in 1 .. half |->
                      IF 2 * p > len THEN s[2 * p - 1] ELSE EvalMult(s[2 * p - 1], s[2 * p])]
    BY DEF Pairs, half
  <1> HIDE DEF S, len
  <1>6. Pairs(s) \in [1 .. half -> S]
    BY <1>4, <1>5
  <1>7. Pairs(s) \in Seq(S) /\ Len(Pairs(s)) = half
    BY <1>2, <1>6
  <1>8. Pairs(s) # <<>>
    BY <1>2, <1>7
  <1>9. \A p \in 1 .. half : Pairs(s)[p] =
          IF 2 * p > len THEN s[2 * p - 1] ELSE EvalMult(s[2 * p - 1], s[2 * p])
    BY <1>5
  <1>10. ASSUME NEW p \in 1 .. Len(Pairs(s))
         PROVE  /\ 2 * p - 1 \in 1 .. len
                /\ 2 * p > len => Pairs(s)[p] = s[2 * p - 1]
                /\ 2 * p <= len => /\ 2 * p \in 1 .. len
                                   /\ Pairs(s)[p] = EvalMult(s[2 * p - 1], s[2 * p])
    <2>1. p \in 1 .. half
      BY <1>7
    <2>2. 2 * p <= len => ~(2 * p > len)
      BY <1>1, <2>1
    <2>3. QED
      BY <1>3, <1>9, <2>1, <2>2
  <1>11. QED
    BY <1>1, <1>7, <1>8, <1>10 DEF Stages, S, len, half

PairUp(n) == [p \in Nat \X Stages(n) |-> Pairs(p[2])]

(* balancedProduct pairs up stage by stage.                                *)
LEMMA TreeSteps ==
  ASSUME NEW n \in Nat, NEW cts \in Stages(n)
  PROVE  \E tree : /\ Iterates(tree, Stages(n), cts, PairUp(n), Len(cts))
                   /\ BalancedProduct(cts) = tree[Len(cts)][1]
  <1> DEFINE S == Stages(n)
             step == PairUp(n)
             Recurses(f) == f = [k \in 0 .. Len(cts) |-> IF k = 0 THEN cts ELSE Pairs(f[k - 1])]
  <1>0. Len(cts) \in Nat
    BY PairsIs
  <1>1. step \in [Nat \X S -> S]
    BY PairsIs DEF PairUp
  <1>2. \A k \in Nat, y \in S : step[<<k, y>>] = Pairs(y)
    BY DEF PairUp
  <1>3. PICK f : Iterates(f, S, cts, step, Len(cts))
    <2> HIDE DEF S, step
    <2>1. QED
      BY <1>0, <1>1, Iteration DEF S
  <1>4. Recurses(f)
    <2> HIDE DEF step, S
    <2>1. f \in [0 .. Len(cts) -> S] /\ f[0] = cts
      BY <1>3 DEF Iterates
    <2>2. ASSUME NEW k \in 1 .. Len(cts) PROVE f[k] = Pairs(f[k - 1])
      <3>1. k \in Nat /\ f[k - 1] \in S /\ f[k] = step[<<k, f[k - 1]>>]
        BY <1>0, <1>3, <2>1 DEF Iterates
      <3>2. QED
        BY <1>2, <3>1
    <2>3. QED
      BY <1>0, <2>1, <2>2
  <1>5. BalancedProduct(cts) = (CHOOSE f1 : Recurses(f1))[Len(cts)][1]
    BY DEF BalancedProduct
  <1>6. PICK tree : Recurses(tree) /\ BalancedProduct(cts) = tree[Len(cts)][1]
    BY <1>4, <1>5
  <1>7. tree = [k \in 0 .. Len(cts) |-> tree[k]] /\ tree[0] = cts
    BY <1>0, <1>6
  <1>8. \A k \in 1 .. Len(cts) : tree[k] = Pairs(tree[k - 1])
    BY <1>0, <1>6
  <1>9. Iterates(tree, S, cts, step, Len(cts))
    <2> HIDE DEF step, S, Recurses
    <2>1. \A k \in 1 .. Len(cts) : tree[k - 1] \in S => tree[k] = step[<<k, tree[k - 1]>>]
      BY <1>2, <1>8
    <2>2. QED
      BY <1>0, <1>1, <1>7, <2>1, Stepping DEF S
  <1>10. QED
    BY <1>6, <1>9

Twice == [p \in Nat \X Nat |-> 2 * p[2]]

(* The powers of 2, which outgrow their exponents.                         *)
LEMMA DoublingsAre ==
  ASSUME NEW n \in Nat
  PROVE  /\ Doublings(n) \in [0 .. n -> Nat] /\ Doublings(n)[0] = 1
         /\ \A k \in 1 .. n : Doublings(n)[k] = 2 * Doublings(n)[k - 1]
         /\ \A k \in 0 .. n : Doublings(n)[k] > k
  <1> DEFINE Recurses(f) == f = [k \in 0 .. n |-> IF k = 0 THEN 1 ELSE 2 * f[k - 1]]
  <1>1. Twice \in [Nat \X Nat -> Nat] /\ \A k \in Nat, y \in Nat : Twice[<<k, y>>] = 2 * y
    BY DEF Twice
  <1>2. PICK f : Iterates(f, Nat, 1, Twice, n)
    BY <1>1, Iteration
  <1>3. Recurses(f)
    <2>1. f \in [0 .. n -> Nat] /\ f[0] = 1
      BY <1>2 DEF Iterates
    <2>2. ASSUME NEW k \in 1 .. n PROVE f[k] = 2 * f[k - 1]
      <3>1. k \in Nat /\ f[k - 1] \in Nat /\ f[k] = Twice[<<k, f[k - 1]>>]
        BY <1>2, <2>1 DEF Iterates
      <3>2. QED
        BY <1>1, <3>1
    <2>3. QED
      BY <2>1, <2>2
  <1>4. PICK d : Recurses(d) /\ Doublings(n) = d
    BY <1>3 DEF Doublings
  <1>5. Iterates(d, Nat, 1, Twice, n)
    <2>1. d = [k \in 0 .. n |-> d[k]] /\ d[0] = 1
      BY <1>4
    <2>2. \A k \in 1 .. n : d[k - 1] \in Nat => d[k] = Twice[<<k, d[k - 1]>>]
      BY <1>1, <1>4
    <2> HIDE DEF Recurses
    <2>3. QED
      BY <1>1, <2>1, <2>2, Stepping
  <1>6. d \in [0 .. n -> Nat] /\ d[0] = 1 /\ \A k \in 1 .. n : d[k] = 2 * d[k - 1]
    BY <1>4, <1>5 DEF Iterates
  <1> DEFINE T == {k \in Nat : k <= n => d[k] > k}
  <1>7. 0 \in T
    BY <1>6
  <1>8. ASSUME NEW k \in Nat, k \in T PROVE k + 1 \in T
    <2>1. SUFFICES ASSUME k + 1 <= n PROVE d[k + 1] > k + 1
      OBVIOUS
    <2>2. k \in 0 .. n /\ k + 1 \in 1 .. n /\ (k + 1) - 1 = k
      BY <2>1
    <2>3. d[k] > k /\ d[k] \in Nat /\ d[k + 1] = 2 * d[k]
      BY <1>6, <1>8, <2>2
    <2>4. QED
      BY <2>3
  <1>9. \A k \in Nat : k \in T
    <2> HIDE DEF T
    <2>1. QED
      BY <1>7, <1>8, Induction
  <1>10. \A k \in 0 .. n : d[k] > k
    BY <1>9
  <1>11. QED
    BY <1>4, <1>6, <1>10

(* The least power that reaches n exists.                                  *)
LEMMA CeilLog2Is ==
  ASSUME NEW n \in Nat
  PROVE  /\ CeilLog2(n) \in 0 .. n /\ Doublings(n)[CeilLog2(n)] >= n
         /\ \A f \in 0 .. CeilLog2(n) - 1 : Doublings(n)[f] < n
  <1> DEFINE d == Doublings(n)
             T == {e \in 0 .. n : d[e] >= n}
             Right(e) == d[e] >= n /\ \A f \in 0 .. e - 1 : d[f] < n
  <1>1. d \in [0 .. n -> Nat] /\ d[n] > n
    BY DoublingsAre
  <1> HIDE DEF d
  <1>2. n \in T
    BY <1>1
  <1>3. PICK e \in T : \A m \in T : e <= m
    <2>1. T \subseteq Nat /\ T # {}
      BY <1>2
    <2> HIDE DEF T
    <2>2. QED
      BY <2>1, Least
  <1>4. e \in 0 .. n /\ Right(e)
    <2>1. ASSUME NEW f \in 0 .. e - 1 PROVE d[f] < n
      <3>1. f \in 0 .. n /\ ~(e <= f)
        BY <1>3
      <3>2. f \notin T
        BY <1>3, <3>1
      <3>3. d[f] \in Nat /\ ~(d[f] >= n)
        BY <1>1, <3>1, <3>2
      <3>4. QED
        BY <3>3
    <2>2. QED
      BY <1>3, <2>1
  <1>5. CeilLog2(n) = CHOOSE a \in 0 .. n : Right(a)
    BY DEF CeilLog2, d
  <1> HIDE DEF Right
  <1>6. CeilLog2(n) \in 0 .. n /\ Right(CeilLog2(n))
    BY <1>4, <1>5
  <1>7. QED
    BY <1>6 DEF Right, d

LEMMA TimesMonotone ==
  ASSUME NEW a \in Nat, NEW b \in Nat, NEW d \in Nat, a <= b
  PROVE  a * d <= b * d
  <1>1. PICK e \in Nat : b = a + e
    <2>1. b - a \in Nat /\ b = a + (b - a)
      OBVIOUS
    <2>2. QED
      BY <2>1
  <1>2. b * d = a * d + e * d /\ e * d \in Nat /\ a * d \in Nat
    BY <1>1
  <1>3. QED
    BY <1>2

(* A stage has as many factors as it takes to cover the cohort, each the   *)
(* product of at most 2^k.                                                 *)
Covers(len, d, size) == (len - 1) * d < size /\ size <= len * d

(* Pairing up halves the ciphertexts and doubles what each covers.         *)
LEMMA CoverHalves ==
  ASSUME NEW len \in Nat \ {0}, NEW d \in Nat, NEW size \in Nat, Covers(len, d, size)
  PROVE  Covers((len + 1) \div 2, 2 * d, size)
  <1>1. PICK h \in Nat \ {0} : h = (len + 1) \div 2 /\ len <= 2 * h /\ 2 * (h - 1) <= len - 1
    OBVIOUS
  <1>2. len * d <= (2 * h) * d /\ (2 * (h - 1)) * d <= (len - 1) * d
    <2>1. len \in Nat /\ 2 * h \in Nat /\ 2 * (h - 1) \in Nat /\ len - 1 \in Nat
      BY <1>1
    <2>2. QED
      BY <1>1, <2>1, TimesMonotone
  <1>3. (2 * h) * d = h * (2 * d) /\ (2 * (h - 1)) * d = (h - 1) * (2 * d)
    BY <1>1
  <1>4. PICK a, b, x, y : /\ a = len * d /\ b = h * (2 * d)
                          /\ x = (h - 1) * (2 * d) /\ y = (len - 1) * d
    OBVIOUS
  <1>5. a \in Int /\ b \in Int /\ x \in Int /\ y \in Int
    BY <1>1, <1>4
  <1>6. a <= b /\ x <= y /\ y < size /\ size <= a
    BY <1>2, <1>3, <1>4 DEF Covers
  <1>7. x < size /\ size <= b
    BY <1>5, <1>6
  <1>8. QED
    BY <1>1, <1>4, <1>7 DEF Covers

(* One ciphertext is left exactly when it covers all.                      *)
LEMMA CoverIsOne ==
  ASSUME NEW len \in Nat \ {0}, NEW d \in Nat, NEW size \in Nat, Covers(len, d, size)
  PROVE  /\ d < size => len > 1
         /\ d >= size => len = 1
  <1>1. ASSUME d < size PROVE len > 1
    <2>1. len = 1 => size <= d
      BY DEF Covers
    <2>2. QED
      BY <1>1, <2>1
  <1>2. ASSUME d >= size PROVE len = 1
    <2>1. SUFFICES ASSUME len > 1 PROVE FALSE
      OBVIOUS
    <2>2. 1 * d <= (len - 1) * d
      <3>1. 1 \in Nat /\ len - 1 \in Nat /\ 1 <= len - 1
        BY <2>1
      <3>2. QED
        BY <3>1, TimesMonotone
    <2>3. (len - 1) * d \in Int /\ 1 * d = d
      OBVIOUS
    <2>4. QED
      BY <1>2, <2>2, <2>3 DEF Covers
  <1>3. QED
    BY <1>1, <1>2

(* The first factor of a stage is the deepest, and never the odd one out   *)
(* but at the end.                                                         *)
Deepest(t, l) == t[1].level = l /\ \A p \in 1 .. Len(t) : t[p].level <= l

(* Pairing up costs a level while there are two, and nothing after.        *)
LEMMA PairsDeepen ==
  ASSUME NEW n \in Nat, NEW t \in Stages(n), NEW l \in Nat, Deepest(t, l)
  PROVE  /\ Len(t) > 1 => Deepest(Pairs(t), l + 1)
         /\ Len(t) = 1 => Len(Pairs(t)) = 1 /\ Pairs(t)[1] = t[1]
  <1>1. /\ Pairs(t) \in Stages(n) /\ Len(t) \in Nat \ {0} /\ Len(Pairs(t)) = (Len(t) + 1) \div 2
        /\ t \in Seq(Ciphertexts(n))
    BY PairsIs DEF Stages
  <1>2. \A p \in 1 .. Len(t) : t[p] \in Ciphertexts(n) /\ t[p].level \in Nat /\ t[p].level <= l
    <2>1. TAKE p \in 1 .. Len(t)
    <2>2. t[p] \in Ciphertexts(n) /\ t[p].level <= l
      BY <1>1 DEF Deepest
    <2>3. QED
      BY <2>2 DEF Ciphertexts
  <1>3. ASSUME NEW p \in 1 .. Len(Pairs(t)) PROVE Pairs(t)[p].level <= l + 1
    <2>1. 2 * p - 1 \in 1 .. Len(t)
      BY PairsIs
    <2>2. CASE 2 * p > Len(t)
      <3>1. Pairs(t)[p] = t[2 * p - 1]
        BY <2>2, PairsIs
      <3>2. QED
        BY <1>2, <2>1, <3>1
    <2>3. CASE 2 * p <= Len(t)
      <3>1. 2 * p \in 1 .. Len(t) /\ Pairs(t)[p] = EvalMult(t[2 * p - 1], t[2 * p])
        BY <2>3, PairsIs
      <3>2. PICK a \in Ciphertexts(n), b \in Ciphertexts(n) :
              a = t[2 * p - 1] /\ b = t[2 * p] /\ a.level \in Nat /\ a.level <= l
              /\ b.level \in Nat /\ b.level <= l
        BY <1>2, <2>1, <3>1
      <3>3. EvalMult(a, b).level = 1 + (IF a.level < b.level THEN b.level ELSE a.level)
        BY MultIs
      <3>4. QED
        BY <3>1, <3>2, <3>3
    <2>4. p \in Nat
      BY <1>1
    <2>5. QED
      BY <1>1, <2>2, <2>3, <2>4
  <1>4. ASSUME Len(t) > 1 PROVE Pairs(t)[1].level = l + 1
    <2>1. 1 \in 1 .. Len(Pairs(t)) /\ 2 <= Len(t) /\ 2 \in 1 .. Len(t) /\ 1 \in 1 .. Len(t)
      BY <1>1, <1>4
    <2>2. Pairs(t)[1] = EvalMult(t[1], t[2])
      <3>1. 2 * 1 = 2 /\ 2 * 1 - 1 = 1 /\ 2 * 1 <= Len(t)
        BY <2>1
      <3>2. 2 * 1 <= Len(t) => Pairs(t)[1] = EvalMult(t[2 * 1 - 1], t[2 * 1])
        BY <2>1, PairsIs
      <3>3. QED
        BY <3>1, <3>2
    <2>3. PICK a \in Ciphertexts(n), b \in Ciphertexts(n) :
            a = t[1] /\ b = t[2] /\ a.level = l /\ b.level \in Nat /\ b.level <= l
      BY <1>2, <2>1 DEF Deepest
    <2>4. EvalMult(a, b).level = 1 + (IF a.level < b.level THEN b.level ELSE a.level)
      BY MultIs
    <2>5. QED
      BY <2>2, <2>3, <2>4
  <1>5. ASSUME Len(t) = 1 PROVE Len(Pairs(t)) = 1 /\ Pairs(t)[1] = t[1]
    <2>1. Len(Pairs(t)) = 1
      BY <1>1, <1>5
    <2>2. 1 \in 1 .. Len(Pairs(t)) /\ 2 * 1 > Len(t) /\ 2 * 1 - 1 = 1
      BY <1>5, <2>1
    <2>3. 2 * 1 > Len(t) => Pairs(t)[1] = t[2 * 1 - 1]
      BY <2>2, PairsIs
    <2>4. QED
      BY <2>1, <2>2, <2>3
  <1>6. QED
    BY <1>3, <1>4, <1>5 DEF Deepest

(* The tree costs the logarithm of the cohort.                             *)
LEMMA TreeLevel ==
  ASSUME NEW n \in Nat, NEW cts \in Stages(n), NEW l \in Nat,
         \A p \in 1 .. Len(cts) : cts[p].level = l
  PROVE  /\ BalancedProduct(cts) \in Ciphertexts(n)
         /\ BalancedProduct(cts).level = l + CeilLog2(Len(cts))
  <1>1. PICK size : size = Len(cts) /\ size \in Nat \ {0}
    BY PairsIs
  <1>2. PICK tree : /\ Iterates(tree, Stages(n), cts, PairUp(n), size)
                    /\ BalancedProduct(cts) = tree[size][1]
    BY <1>1, TreeSteps
  <1>3. /\ tree[0] = cts /\ \A k \in 0 .. size : tree[k] \in Stages(n)
        /\ \A k \in 1 .. size : tree[k] = Pairs(tree[k - 1])
    <2>1. tree \in [0 .. size -> Stages(n)] /\ tree[0] = cts
      BY <1>2 DEF Iterates
    <2>2. ASSUME NEW k \in 1 .. size PROVE tree[k] = Pairs(tree[k - 1])
      <3>1. k \in Nat /\ tree[k - 1] \in Stages(n) /\ tree[k] = PairUp(n)[<<k, tree[k - 1]>>]
        BY <1>1, <1>2, <2>1 DEF Iterates
      <3>2. QED
        BY <3>1 DEF PairUp
    <2>3. QED
      BY <2>1, <2>2
  <1>4. PICK d, e : d = Doublings(size) /\ e = CeilLog2(size)
    OBVIOUS
  <1>5. /\ d \in [0 .. size -> Nat] /\ d[0] = 1
        /\ \A k \in 1 .. size : d[k] = 2 * d[k - 1]
    BY <1>1, <1>4, DoublingsAre
  <1>6. e \in 0 .. size /\ d[e] >= size /\ \A f \in 0 .. e - 1 : d[f] < size
    BY <1>1, <1>4, CeilLog2Is
  <1> DEFINE At(k) == /\ Covers(Len(tree[k]), d[k], size)
                      /\ k <= e => Deepest(tree[k], l + k)
                      /\ k >= e => Len(tree[k]) = 1 /\ tree[k][1].level = l + e
             T == {k \in Nat : k <= size => At(k)}
  <1>7. \A k \in 0 .. size : Len(tree[k]) \in Nat \ {0} /\ d[k] \in Nat
    BY <1>3, <1>5, PairsIs
  (* Where a stage is covered and its first factor is deepest, the rest    *)
  (* follows.                                                              *)
  <1>8. ASSUME NEW k \in 0 .. size, Covers(Len(tree[k]), d[k], size),
               k <= e => Deepest(tree[k], l + k),
               k > e => Len(tree[k]) = 1 /\ tree[k][1].level = l + e
        PROVE  At(k)
    <2>1. CASE k = e
      <3>1. d[k] >= size
        BY <1>6, <2>1
      <3>2. Len(tree[k]) = 1
        BY <1>1, <1>7, <1>8, <3>1, CoverIsOne
      <3>3. QED
        BY <1>6, <1>8, <2>1, <3>2 DEF Deepest
    <2>2. CASE k # e
      BY <1>6, <1>8, <2>2
    <2>3. QED
      BY <2>1, <2>2
  <1>9. 0 \in T
    <2>1. Covers(Len(tree[0]), d[0], size)
      BY <1>1, <1>3, <1>5 DEF Covers
    <2>2. Deepest(tree[0], l + 0)
      BY <1>1, <1>3 DEF Deepest
    <2>3. 0 \in 0 .. size /\ ~(0 > e)
      BY <1>1, <1>6
    <2> HIDE DEF At
    <2>4. At(0)
      BY <1>8, <2>1, <2>2, <2>3
    <2>5. QED
      BY <2>4
  <1>10. ASSUME NEW k \in Nat, k \in T PROVE k + 1 \in T
    <2>1. SUFFICES ASSUME k + 1 <= size PROVE At(k + 1)
      OBVIOUS
    <2>2. k \in 0 .. size /\ k + 1 \in 1 .. size /\ k + 1 \in 0 .. size /\ (k + 1) - 1 = k
      BY <1>1, <2>1
    <2>3. At(k)
      BY <1>10, <2>2
    <2>4. PICK t \in Stages(n) : t = tree[k] /\ tree[k + 1] = Pairs(t) /\ d[k + 1] = 2 * d[k]
      BY <1>3, <1>5, <2>2
    <2>5. Len(t) \in Nat \ {0} /\ d[k] \in Nat /\ Len(Pairs(t)) = (Len(t) + 1) \div 2
      BY <1>7, <2>2, <2>4, PairsIs
    <2>6. Covers(Len(tree[k + 1]), d[k + 1], size)
      BY <1>1, <2>3, <2>4, <2>5, CoverHalves
    <2>7. ASSUME k + 1 <= e PROVE Deepest(tree[k + 1], l + (k + 1))
      <3>1. k <= e /\ k \in 0 .. e - 1
        BY <1>6, <2>7
      <3>2. d[k] < size
        BY <1>6, <3>1
      <3>3. Len(t) > 1
        BY <1>1, <2>3, <2>4, <2>5, <3>2, CoverIsOne
      <3>4. Deepest(t, l + k) /\ l + k \in Nat
        BY <2>3, <2>4, <3>1
      <3>5. Deepest(Pairs(t), (l + k) + 1)
        BY <3>3, <3>4, PairsDeepen
      <3>6. (l + k) + 1 = l + (k + 1)
        OBVIOUS
      <3>7. QED
        BY <2>4, <3>5, <3>6
    <2>8. ASSUME k + 1 > e PROVE Len(tree[k + 1]) = 1 /\ tree[k + 1][1].level = l + e
      <3>1. k >= e
        BY <1>6, <2>8
      <3>2. Len(t) = 1 /\ t[1].level = l + e
        BY <2>3, <2>4, <3>1
      <3>3. l + e \in Nat /\ Deepest(t, l + e)
        <4>1. l + e \in Nat
          BY <1>6
        <4>2. \A p \in 1 .. Len(t) : p = 1
          BY <3>2
        <4>3. QED
          BY <3>2, <4>1, <4>2 DEF Deepest
      <3>4. Len(Pairs(t)) = 1 /\ Pairs(t)[1] = t[1]
        BY <3>2, <3>3, PairsDeepen
      <3>5. QED
        BY <2>4, <3>2, <3>4
    <2> HIDE DEF At
    <2>9. QED
      BY <1>8, <2>2, <2>6, <2>7, <2>8
  <1>11. \A k \in Nat : k \in T
    <2> HIDE DEF T
    <2>1. QED
      BY <1>9, <1>10, Induction
  <1>12. At(size)
    BY <1>1, <1>11
  <1>13. Len(tree[size]) = 1 /\ tree[size][1].level = l + e
    BY <1>1, <1>6, <1>12
  <1>14. tree[size][1] \in Ciphertexts(n)
    <2>1. PICK t \in Seq(Ciphertexts(n)) : t = tree[size]
      BY <1>1, <1>3 DEF Stages
    <2>2. QED
      BY <1>13, <2>1
  <1>15. QED
    BY <1>1, <1>2, <1>4, <1>13, <1>14

(* The depth of the circuit is that of the ledger.                         *)
LEMMA RowsAre ==
  ASSUME NEW c, IsCircuit(c)
  PROVE  LET rows == [j \in DOMAIN c.keys |-> Row(c, j)]
         IN  /\ rows \in Stages(Len(c.keys)) /\ Len(rows) = Len(c.keys)
             /\ Eval(c) = BalancedProduct(rows)
  <1> DEFINE rows == [j \in DOMAIN c.keys |-> Row(c, j)]
  <1>1. PICK size : size = Len(c.keys) /\ size \in Nat /\ size >= 2 /\ DOMAIN c.keys = 1 .. size
    BY DEF IsCircuit
  <1>2. \A j \in 1 .. size : Row(c, j) \in Ciphertexts(size)
    BY <1>1, RowIs
  <1>3. rows \in [1 .. size -> Ciphertexts(size)]
    BY <1>1, <1>2
  <1>4. Eval(c) = BalancedProduct(rows)
    BY DEF Eval
  <1> HIDE DEF rows
  <1>5. rows \in Seq(Ciphertexts(size)) /\ Len(rows) = size
    BY <1>1, <1>3
  <1>6. rows # <<>>
    BY <1>1, <1>5
  <1>7. QED
    BY <1>1, <1>4, <1>5, <1>6 DEF Stages, rows

LEMMA DepthIsLedger == ASSUME NEW c, IsCircuit(c) PROVE Eval(c).level = Ledger(c)
  <1> DEFINE rows == [j \in DOMAIN c.keys |-> Row(c, j)]
             l == StepLevels(c.degree, Iters(c))
  <1>1. PICK size : size = Len(c.keys) /\ size \in Nat /\ DOMAIN c.keys = 1 .. size
    BY DEF IsCircuit
  <1>2. rows \in Stages(size) /\ Len(rows) = size /\ Eval(c) = BalancedProduct(rows)
    BY <1>1, RowsAre
  <1>3. \A j \in 1 .. size : rows[j].level = l
    BY <1>1, RowIs
  <1>4. l \in Nat
    <2>1. c.degree \in Nat /\ Iters(c) \in Nat
      BY CoeffsAre, ItersIs DEF IsCircuit
    <2>2. QED
      BY <2>1 DEF StepLevels
  <1>5. l + CeilLog2(size) = Ledger(c)
    BY <1>1 DEF Ledger, StepLevels
  <1> HIDE DEF rows, l
  <1>6. BalancedProduct(rows).level = l + CeilLog2(size)
    BY <1>1, <1>2, <1>3, <1>4, TreeLevel
  <1>7. QED
    BY <1>2, <1>5, <1>6

(* The circuit uses up exactly the levels of the depth ledger of mask.go,  *)
(* whatever the cohort, the degree and the number of compositions.         *)
THEOREM LedgerKept == Spec => []LedgerHolds
  <1>1. ASSUME NEW d \in Depths PROVE d.level = Ledger(d.circuit)
    <2>1. PICK c \in Circuits : d = [circuit |-> c, level |-> Eval(c).level]
      BY DEF Depths
    <2>2. IsCircuit(c)
      BY CircuitsAssumption DEF IsCircuit, Degrees
    <2>3. d.circuit = c /\ d.level = Eval(c).level
      BY <2>1
    <2>4. QED
      BY <2>2, <2>3, DepthIsLedger
  <1>2. LedgerHolds
    BY <1>1 DEF LedgerHolds
  <1>3. QED
    BY <1>2, PTL

-----------------------------------------------------------------------------
(* What a row decrypts to, for the cubic sign polynomial.                  *)
Fractions == [num : Int, den : Nat \ {0}]
CubicStep == [p \in Nat \X Fractions |-> SignRound(p[2])]

LEMMA SignRoundIs ==
  ASSUME NEW y \in Fractions
  PROVE  /\ SignRound(y) \in Fractions
         /\ SignRound(y).num = 3 * y.num * y.den * y.den - y.num * y.num * y.num
         /\ SignRound(y).den = 2 * y.den * y.den * y.den
  <1>1. PICK x, d : x = y.num /\ d = y.den /\ x \in Int /\ d \in Nat \ {0}
    BY DEF Fractions
  <1>2. 3 * x * d * d - x * x * x \in Int
    BY <1>1
  <1>3. 2 * d * d * d \in Nat \ {0}
    <2>1. 2 * d \in Nat \ {0}
      BY <1>1
    <2>2. 2 * d * d \in Nat \ {0}
      BY <1>1, <2>1, PositiveProduct
    <2>3. QED
      BY <1>1, <2>2, PositiveProduct
  <1>4. SignRound(y) = [num |-> 3 * x * d * d - x * x * x, den |-> 2 * d * d * d]
    BY <1>1 DEF SignRound
  <1>5. PICK a \in Int, b \in Nat \ {0} : a = 3 * x * d * d - x * x * x /\ b = 2 * d * d * d
    BY <1>2, <1>3
  <1>6. SignRound(y) = [num |-> a, den |-> b]
    BY <1>4, <1>5
  <1>7. SignRound(y) \in Fractions /\ SignRound(y).num = a /\ SignRound(y).den = b
    BY <1>6 DEF Fractions
  <1>8. QED
    BY <1>1, <1>5, <1>7

IsSign(g, x, den, iters) ==
  /\ g \in [0 .. iters -> Fractions] /\ g[0] = [num |-> x, den |-> den]
  /\ \A k \in 1 .. iters : g[k] = SignRound(g[k - 1])

(* PlainSign iterates SignRound.                                           *)
LEMMA PlainSignSteps ==
  ASSUME NEW x \in Int, NEW den \in Nat \ {0}, NEW iters \in Nat
  PROVE  \E g : IsSign(g, x, den, iters) /\ PlainSign(x, den, iters) = g[iters]
  <1> DEFINE S == Fractions
             f0 == [num |-> x, den |-> den]
             Recurses(f) == f = [k \in 0 .. iters |-> IF k = 0 THEN f0 ELSE SignRound(f[k - 1])]
  <1>1. f0 \in S
    BY DEF Fractions
  <1>2. CubicStep \in [Nat \X S -> S] /\ \A k \in Nat, y \in S : CubicStep[<<k, y>>] = SignRound(y)
    BY SignRoundIs DEF CubicStep
  <1>3. PICK f : Iterates(f, S, f0, CubicStep, iters)
    <2> HIDE DEF S, f0
    <2>1. QED
      BY <1>1, <1>2, Iteration
  <1>4. Recurses(f)
    <2> HIDE DEF S, f0
    <2>1. f \in [0 .. iters -> S] /\ f[0] = f0
      BY <1>3 DEF Iterates
    <2>2. ASSUME NEW k \in 1 .. iters PROVE f[k] = SignRound(f[k - 1])
      <3>1. k \in Nat /\ f[k - 1] \in S /\ f[k] = CubicStep[<<k, f[k - 1]>>]
        BY <1>3, <2>1 DEF Iterates
      <3>2. QED
        BY <1>2, <3>1
    <2>3. QED
      BY <2>1, <2>2
  <1>5. PlainSign(x, den, iters) = (CHOOSE f1 : Recurses(f1))[iters]
    BY DEF PlainSign
  <1>6. PICK g : Recurses(g) /\ PlainSign(x, den, iters) = g[iters]
    BY <1>4, <1>5
  <1>7. g = [k \in 0 .. iters |-> g[k]] /\ g[0] = f0
    BY <1>6
  <1>8. \A k \in 1 .. iters : g[k] = SignRound(g[k - 1])
    BY <1>6
  <1>9. Iterates(g, S, f0, CubicStep, iters)
    <2> HIDE DEF S, f0, Recurses
    <2>1. \A k \in 1 .. iters : g[k - 1] \in S => g[k] = CubicStep[<<k, g[k - 1]>>]
      BY <1>2, <1>8
    <2>2. QED
      BY <1>1, <1>2, <1>7, <2>1, Stepping
  <1>10. g \in [0 .. iters -> S]
    BY <1>9 DEF Iterates
  <1>11. IsSign(g, x, den, iters)
    BY <1>7, <1>8, <1>10 DEF IsSign
  <1>12. QED
    BY <1>6, <1>11

(* Two recursions that start from the same denominator keep the same one,  *)
(* and 0 stays 0.                                                          *)
LEMMA PlainSignIs ==
  ASSUME NEW x \in Int, NEW den \in Nat \ {0}, NEW iters \in Nat
  PROVE  /\ PlainSign(x, den, iters) \in Fractions
         /\ \A y \in Int : PlainSign(y, den, iters).den = PlainSign(x, den, iters).den
         /\ PlainSign(0, den, iters).num = 0
  <1>1. ASSUME NEW y \in Int, NEW z \in Int
        PROVE  /\ PlainSign(y, den, iters) \in Fractions
               /\ PlainSign(z, den, iters).den = PlainSign(y, den, iters).den
               /\ y = 0 => PlainSign(y, den, iters).num = 0
    <2>1. PICK g : IsSign(g, y, den, iters) /\ PlainSign(y, den, iters) = g[iters]
      BY PlainSignSteps
    <2>2. PICK h : IsSign(h, z, den, iters) /\ PlainSign(z, den, iters) = h[iters]
      BY PlainSignSteps
    <2> DEFINE T == {k \in Nat : k <= iters =>
                       g[k].den = h[k].den /\ (y = 0 => g[k].num = 0)}
    <2>3. 0 \in T
      BY <2>1, <2>2 DEF IsSign
    <2>4. ASSUME NEW k \in Nat, k \in T PROVE k + 1 \in T
      <3>1. SUFFICES ASSUME k + 1 <= iters
                     PROVE  g[k + 1].den = h[k + 1].den /\ (y = 0 => g[k + 1].num = 0)
        OBVIOUS
      <3>2. k \in 0 .. iters /\ k + 1 \in 1 .. iters /\ (k + 1) - 1 = k
        BY <3>1
      <3>3. g[k].den = h[k].den /\ (y = 0 => g[k].num = 0)
        BY <2>4, <3>2
      <3>4. PICK a \in Fractions, b \in Fractions :
              a = g[k] /\ b = h[k] /\ g[k + 1] = SignRound(a) /\ h[k + 1] = SignRound(b)
        BY <2>1, <2>2, <3>2 DEF IsSign
      <3>5. /\ SignRound(a).den = 2 * a.den * a.den * a.den
            /\ SignRound(b).den = 2 * b.den * b.den * b.den
            /\ SignRound(a).num = 3 * a.num * a.den * a.den - a.num * a.num * a.num
        BY SignRoundIs
      <3>6. ASSUME y = 0 PROVE g[k + 1].num = 0
        <4>1. a.num = 0 /\ a.den \in Int
          BY <3>3, <3>4, <3>6 DEF Fractions
        <4>2. 3 * 0 * a.den * a.den - 0 * 0 * 0 = 0
          BY <4>1
        <4>3. QED
          BY <3>4, <3>5, <4>1, <4>2
      <3>7. g[k + 1].den = h[k + 1].den
        BY <3>3, <3>4, <3>5
      <3>8. QED
        BY <3>6, <3>7
    <2>5. \A k \in Nat : k \in T
      <3> HIDE DEF T
      <3>1. QED
        BY <2>3, <2>4, Induction
    <2>6. iters \in T /\ g[iters] \in Fractions
      BY <2>1, <2>5 DEF IsSign
    <2>7. QED
      BY <2>1, <2>2, <2>6
  <1>2. QED
    BY <1>1

(* Subtracting a constant vector from fractions of an even denominator.    *)
LEMMA SubHalves ==
  ASSUME NEW n \in Nat, NEW a \in Ciphertexts(n), NEW q \in Nat \ {0}, a.den = 2 * q,
         NEW vals, \A s \in 1 .. n : vals[s] \in Int
  PROVE  /\ EvalSubConst(a, vals, 2) \in Ciphertexts(n) /\ EvalSubConst(a, vals, 2).den = a.den
         /\ \A s \in 1 .. n : EvalSubConst(a, vals, 2).slots[s] = a.slots[s] - vals[s] * q
  <1>1. PICK d : d = a.den /\ d = 2 * q /\ d \in Nat \ {0} /\ a.slots \in [1 .. n -> Int]
    BY DEF Ciphertexts
  <1>2. Common(d, 2) = d /\ d \div d = 1 /\ d \div 2 = q /\ 2 \in Nat \ {0}
    BY <1>1 DEF Common
  <1>3. /\ EvalSubConst(a, vals, 2) \in Ciphertexts(n)
        /\ EvalSubConst(a, vals, 2).den = Common(a.den, 2)
        /\ \A s \in 1 .. n : EvalSubConst(a, vals, 2).slots[s] =
              a.slots[s] * (Common(a.den, 2) \div a.den) - vals[s] * (Common(a.den, 2) \div 2)
    <2>1. 2 \in Nat \ {0}
      OBVIOUS
    <2>2. QED
      BY <2>1, SubIs
  <1>4. \A s \in 1 .. n :
           EvalSubConst(a, vals, 2).slots[s] = a.slots[s] * (d \div d) - vals[s] * (d \div 2)
    BY <1>1, <1>2, <1>3
  <1>5. ASSUME NEW s \in 1 .. n
        PROVE  EvalSubConst(a, vals, 2).slots[s] = a.slots[s] - vals[s] * q
    <2>1. PICK x \in Int : x = a.slots[s]
      BY <1>1
    <2>2. x * 1 = x
      BY <2>1
    <2>3. QED
      BY <1>2, <1>4, <2>1, <2>2
  <1>6. QED
    BY <1>1, <1>2, <1>3, <1>5

(* A public constant from an encryption of 0.                              *)
LEMMA SubZeros ==
  ASSUME NEW n \in Nat, NEW zeros \in Ciphertexts(n), zeros.den = 1,
         \A s \in 1 .. n : zeros.slots[s] = 0, NEW v \in Int
  PROVE  /\ EvalSubConst(zeros, Fill(n, v), 2).den = 2
         /\ \A s \in 1 .. n : EvalSubConst(zeros, Fill(n, v), 2).slots[s] = -v
  <1>1. PICK vals : vals = Fill(n, v)
    OBVIOUS
  <1>2. \A s \in 1 .. n : vals[s] = v
    BY <1>1 DEF Fill
  <1>3. Common(1, 2) = 2 /\ 2 \div 1 = 2 /\ 2 \div 2 = 1 /\ 2 \in Nat \ {0}
    BY DEF Common
  <1>4. /\ EvalSubConst(zeros, vals, 2).den = Common(1, 2)
        /\ \A s \in 1 .. n : EvalSubConst(zeros, vals, 2).slots[s] =
              zeros.slots[s] * (Common(1, 2) \div 1) - vals[s] * (Common(1, 2) \div 2)
    <2>1. (\A s \in 1 .. n : vals[s] \in Int) /\ 2 \in Nat \ {0}
      BY <1>2
    <2>2. /\ EvalSubConst(zeros, vals, 2).den = Common(zeros.den, 2)
          /\ \A s \in 1 .. n : EvalSubConst(zeros, vals, 2).slots[s] =
                zeros.slots[s] * (Common(zeros.den, 2) \div zeros.den)
                - vals[s] * (Common(zeros.den, 2) \div 2)
      BY <2>1, SubIs
    <2>3. QED
      BY <2>2
  <1>5. \A s \in 1 .. n : EvalSubConst(zeros, vals, 2).slots[s] = 0 * 2 - v * 1
    BY <1>2, <1>3, <1>4
  <1>6. QED
    BY <1>1, <1>3, <1>4, <1>5

(* What slot s of a ciphertext decrypts to.                                *)
Slot(a, s) == [num |-> a.slots[s], den |-> a.den]

IsCubicSeed(seed, n) == seed.den = 2 /\ \A s \in 1 .. n : seed.slots[s] = -1

LEMMA CubicCoeffs ==
  /\ 3 \in Degrees /\ CoeffDen(3) = 2 /\ Last(SignCoeffs(3)) = -1
  /\ SignCoeffs(3)[1] = 0 /\ SignCoeffs(3)[2] = 3 /\ SignCoeffs(3)[3] = 0
  BY DEF Degrees, CoeffDen, SignCoeffs, Last

LEMMA CubicIdentity ==
  ASSUME NEW x \in Int, NEW d \in Int
  PROVE  ((-1 * x) * x - (-3) * (d * d)) * x = 3 * x * d * d - x * x * x
  OBVIOUS

(* In every slot hornerEval computes a round of the sign in the clear.     *)
LEMMA HornerCubic ==
  ASSUME NEW n \in Nat, NEW x \in Ciphertexts(n), NEW seed \in Ciphertexts(n),
         IsCubicSeed(seed, n), NEW s \in 1 .. n
  PROVE  Slot(HornerEval(x, seed, 3), s) = SignRound(Slot(x, s))
  <1> DEFINE S == Ciphertexts(n)
  <1>1. PICK acc : /\ Iterates(acc, S, seed, HornerStep(n, x, 3), 3)
                   /\ HornerEval(x, seed, 3) = acc[3]
    BY CubicCoeffs, HornerSteps
  <1>2. acc \in [0 .. 3 -> S] /\ acc[0] = seed
    BY <1>1 DEF Iterates
  <1>3. \A k \in 1 .. 3 : acc[k] = HornerRound(acc[k - 1], x, SignCoeffs(3)[3 - k + 1], 3)
    <2>1. TAKE k \in 1 .. 3
    <2>2. acc[k] = HornerStep(n, x, 3)[<<k, acc[k - 1]>>]
      BY <1>1 DEF Iterates
    <2>3. k \in Nat /\ acc[k - 1] \in S
      BY <1>2
    <2>4. QED
      BY <2>2, <2>3 DEF HornerStep
  <1>4. PICK a0 \in S, a1 \in S, a2 \in S, a3 \in S :
          a0 = acc[0] /\ a1 = acc[1] /\ a2 = acc[2] /\ a3 = acc[3]
    BY <1>2
  <1>5. /\ a1 = HornerRound(a0, x, 0, 3) /\ a2 = HornerRound(a1, x, 3, 3)
        /\ a3 = HornerRound(a2, x, 0, 3)
    <2>1. a1 = HornerRound(a0, x, SignCoeffs(3)[3], 3)
      BY <1>3, <1>4
    <2>2. a2 = HornerRound(a1, x, SignCoeffs(3)[2], 3)
      BY <1>3, <1>4
    <2>3. a3 = HornerRound(a2, x, SignCoeffs(3)[1], 3)
      BY <1>3, <1>4
    <2>4. QED
      BY <2>1, <2>2, <2>3, CubicCoeffs
  <1>6. PICK d, v : d = x.den /\ v = x.slots[s] /\ d \in Nat \ {0} /\ v \in Int
    BY DEF Ciphertexts
  <1>7. a1.den = 2 * d /\ a1.slots[s] = -1 * v
    <2>1. a1 = EvalMult(a0, x)
      BY <1>5 DEF HornerRound
    <2>2. EvalMult(a0, x).den = a0.den * x.den /\ EvalMult(a0, x).slots[s] = a0.slots[s] * x.slots[s]
      BY MultIs
    <2>3. a0.den = 2 /\ a0.slots[s] = -1
      BY <1>2, <1>4 DEF IsCubicSeed
    <2>4. QED
      BY <1>6, <2>1, <2>2, <2>3
  <1>8. a2.den = 2 * d * d /\ a2.slots[s] = (-1 * v) * v - (-3) * (d * d)
    <2>1. PICK m \in S : m = EvalMult(a1, x)
      BY MultIs
    <2>2. m.den = a1.den * x.den /\ m.slots[s] = a1.slots[s] * x.slots[s]
      BY <2>1, MultIs
    <2>3. m.den = 2 * d * d /\ m.slots[s] = (-1 * v) * v
      BY <1>6, <1>7, <2>2
    <2>4. Len(x.slots) = n
      BY FillIs
    <2>0. PICK vals : vals = Fill(n, -3)
      OBVIOUS
    <2>5. vals = Fill(n, -3) /\ \A t \in 1 .. n : vals[t] = -3
      BY <2>0 DEF Fill
    <2>6. a2 = EvalSubConst(m, vals, 2)
      BY <1>5, <2>1, <2>4, <2>5, CubicCoeffs DEF HornerRound
    <2>7. PICK q \in Nat \ {0} : q = d * d
      BY <1>6, PositiveProduct
    <2>8. m.den = 2 * q
      BY <1>6, <2>3, <2>7
    <2>9. \A t \in 1 .. n : vals[t] \in Int
      BY <2>5
    <2>10. /\ EvalSubConst(m, vals, 2).den = m.den
           /\ EvalSubConst(m, vals, 2).slots[s] = m.slots[s] - vals[s] * q
      BY <2>8, <2>9, SubHalves
    <2>11. QED
      BY <2>3, <2>5, <2>6, <2>7, <2>10
  <1>9. a3.den = 2 * d * d * d /\ a3.slots[s] = ((-1 * v) * v - (-3) * (d * d)) * v
    <2>1. a3 = EvalMult(a2, x)
      BY <1>5 DEF HornerRound
    <2>2. EvalMult(a2, x).den = a2.den * x.den /\ EvalMult(a2, x).slots[s] = a2.slots[s] * x.slots[s]
      BY MultIs
    <2>3. QED
      BY <1>6, <1>8, <2>1, <2>2
  <1>10. a3.slots[s] = 3 * v * d * d - v * v * v
    BY <1>6, <1>9, CubicIdentity
  <1>11. Slot(x, s) = [num |-> v, den |-> d] /\ Slot(HornerEval(x, seed, 3), s) = Slot(a3, s)
    BY <1>1, <1>4, <1>6 DEF Slot
  <1>12. SignRound(Slot(x, s)) = [num |-> 3 * v * d * d - v * v * v, den |-> 2 * d * d * d]
    BY <1>11 DEF SignRound
  <1>13. Slot(a3, s) = [num |-> 3 * v * d * d - v * v * v, den |-> 2 * d * d * d]
    BY <1>9, <1>10 DEF Slot
  <1>14. QED
    BY <1>11, <1>12, <1>13

IsZeros(zeros, n) == zeros.den = 1 /\ \A s \in 1 .. n : zeros.slots[s] = 0

(* In every slot evalStep computes (sign + 1) / 2.                         *)
LEMMA StepValue ==
  ASSUME NEW n \in Nat, NEW x \in Ciphertexts(n),
         NEW zeros \in Fresh(n), IsZeros(zeros, n),
         NEW seed \in Fresh(n), IsCubicSeed(seed, n),
         NEW iters \in Nat, NEW s \in 1 .. n
  PROVE  LET g == PlainSign(x.slots[s], x.den, iters)
             y == EvalStep(x, zeros, seed, 3, iters)
         IN  g \in Fractions /\ y.den = 2 * g.den /\ y.slots[s] = g.num + g.den
  <1> DEFINE S == Ciphertexts(n)
  <1>1. PICK other, half : other = Other(n, zeros, 3) /\ half = Half(n, zeros)
    OBVIOUS
  <1>2. PICK v : /\ Iterates(v, S, x, Compose(n, seed, other, 3), iters)
                 /\ EvalStep(x, zeros, seed, 3, iters) =
                      EvalSubConst(EvalMult(v[iters], half), Fill(n, -1), 2)
    BY <1>1, CubicCoeffs, StepSteps
  <1>3. other \in S /\ half \in S /\ seed \in S /\ zeros \in S
    <2>1. other \in Fresh(n) /\ half \in Fresh(n)
      BY <1>1, CubicCoeffs, StepSteps
    <2>2. QED
      BY <2>1 DEF Fresh
  <1>4. IsCubicSeed(other, n)
    <2>1. other = EvalSubConst(zeros, Fill(n, 1), 2)
      BY <1>1, CubicCoeffs DEF Other
    <2>2. /\ EvalSubConst(zeros, Fill(n, 1), 2).den = 2
          /\ \A t \in 1 .. n : EvalSubConst(zeros, Fill(n, 1), 2).slots[t] = -1
      BY <1>3, SubZeros DEF IsZeros
    <2>3. QED
      BY <2>1, <2>2 DEF IsCubicSeed
  <1>5. half.den = 2 /\ half.slots[s] = 1
    <2>1. half = EvalSubConst(zeros, Fill(n, -1), 2)
      BY <1>1 DEF Half
    <2>2. /\ EvalSubConst(zeros, Fill(n, -1), 2).den = 2
          /\ \A t \in 1 .. n : EvalSubConst(zeros, Fill(n, -1), 2).slots[t] = -(-1)
      BY <1>3, SubZeros DEF IsZeros
    <2>3. QED
      BY <2>1, <2>2
  <1>6. x.slots[s] \in Int /\ x.den \in Nat \ {0}
    BY DEF Ciphertexts
  <1>7. PICK g : IsSign(g, x.slots[s], x.den, iters) /\ PlainSign(x.slots[s], x.den, iters) = g[iters]
    BY <1>6, PlainSignSteps
  <1>8. v \in [0 .. iters -> S] /\ v[0] = x
    BY <1>2 DEF Iterates
  <1>9. ASSUME NEW k \in 1 .. iters PROVE Slot(v[k], s) = SignRound(Slot(v[k - 1], s))
    <2>1. PICK y \in S, z \in S :
            y = v[k - 1] /\ z = (IF k = 1 THEN seed ELSE other) /\ IsCubicSeed(z, n)
      BY <1>3, <1>4, <1>8
    <2>2. v[k] = HornerEval(y, z, 3)
      <3>1. k \in Nat /\ v[k] = Compose(n, seed, other, 3)[<<k, v[k - 1]>>]
        BY <1>2 DEF Iterates
      <3>2. QED
        BY <2>1, <3>1 DEF Compose
    <2>3. Slot(HornerEval(y, z, 3), s) = SignRound(Slot(y, s))
      BY <2>1, HornerCubic
    <2>4. QED
      BY <2>1, <2>2, <2>3
  <1> DEFINE T == {k \in Nat : k <= iters => Slot(v[k], s) = g[k]}
  <1>10. 0 \in T
    BY <1>7, <1>8 DEF Slot, IsSign
  <1>11. ASSUME NEW k \in Nat, k \in T PROVE k + 1 \in T
    <2>1. SUFFICES ASSUME k + 1 <= iters PROVE Slot(v[k + 1], s) = g[k + 1]
      OBVIOUS
    <2>2. k + 1 \in 1 .. iters /\ (k + 1) - 1 = k /\ Slot(v[k], s) = g[k]
      BY <1>11, <2>1
    <2>3. g[k + 1] = SignRound(g[k]) /\ Slot(v[k + 1], s) = SignRound(Slot(v[k], s))
      BY <1>7, <1>9, <2>2 DEF IsSign
    <2>4. QED
      BY <2>2, <2>3
  <1>12. \A k \in Nat : k \in T
    <2> HIDE DEF T
    <2>1. QED
      BY <1>10, <1>11, Induction
  <1>13. PICK y \in S, f \in Fractions : y = v[iters] /\ f = g[iters] /\ Slot(y, s) = f
    BY <1>7, <1>8, <1>12 DEF IsSign
  <1>14. y.slots[s] = f.num /\ y.den = f.den /\ f.num \in Int /\ f.den \in Nat \ {0}
    BY <1>13 DEF Slot, Fractions
  <1>15. PICK m \in S : m = EvalMult(y, half) /\ m.den = 2 * f.den /\ m.slots[s] = f.num
    <2>1. /\ EvalMult(y, half) \in S /\ EvalMult(y, half).den = y.den * half.den
          /\ EvalMult(y, half).slots[s] = y.slots[s] * half.slots[s]
      BY <1>3, MultIs
    <2>2. y.den * half.den = 2 * f.den /\ y.slots[s] * half.slots[s] = f.num
      BY <1>5, <1>14
    <2>3. QED
      BY <2>1, <2>2
  <1>0. PICK vals : vals = Fill(n, -1)
    OBVIOUS
  <1>16. vals = Fill(n, -1) /\ \A t \in 1 .. n : vals[t] = -1
    BY <1>0 DEF Fill
  <1>17. /\ EvalSubConst(m, vals, 2).den = m.den
         /\ EvalSubConst(m, vals, 2).slots[s] = m.slots[s] - vals[s] * f.den
    <2>1. \A t \in 1 .. n : vals[t] \in Int
      BY <1>16
    <2>2. QED
      BY <1>14, <1>15, <2>1, SubHalves
  <1>18. m.slots[s] - vals[s] * f.den = f.num + f.den
    BY <1>14, <1>15, <1>16
  <1>19. QED
    BY <1>2, <1>7, <1>13, <1>15, <1>16, <1>17, <1>18

(* A circuit of the cubic sign polynomial; the denominator of its rows is  *)
(* the same in every row.                                                  *)
IsCubic(c) == IsCircuit(c) /\ c.degree = 3

Unit(c) == 2 * PlainSign(0, c.den, Iters(c)).den

LEMMA CubicKeys ==
  ASSUME NEW c, IsCubic(c) PROVE Len(c.keys) \in Nat /\ DOMAIN c.keys = 1 .. Len(c.keys)
  BY DEF IsCubic, IsCircuit

(* All factors in the clear have the denominator of the circuit.           *)
LEMMA FactorIs ==
  ASSUME NEW c, IsCubic(c), NEW j \in DOMAIN c.keys, NEW s \in DOMAIN c.keys
  PROVE  LET g == PlainSign(c.keys[j] - c.keys[s], c.den, Iters(c))
         IN  /\ g \in Fractions /\ 2 * g.den = Unit(c) /\ Unit(c) \in Nat \ {0}
             /\ PlainFactor(c, j, s).num = g.num + g.den
             /\ PlainFactor(c, j, s).den = Unit(c)
             /\ PlainFactor(c, j, s).num \in Int
  <1>1. PICK x, d, it : x = c.keys[j] - c.keys[s] /\ d = c.den /\ it = Iters(c)
    OBVIOUS
  <1>2. x \in Int /\ d \in Nat \ {0} /\ it \in Nat
    BY <1>1, ItersIs DEF IsCubic, IsCircuit
  <1>3. PICK g : g = PlainSign(x, d, it) /\ g \in Fractions /\ PlainSign(0, d, it).den = g.den
    BY <1>2, PlainSignIs
  <1>4. g.num \in Int /\ g.den \in Nat \ {0}
    BY <1>3 DEF Fractions
  <1>5. PlainFactor(c, j, s) = [num |-> g.num + g.den, den |-> 2 * g.den]
    BY <1>1, <1>3 DEF PlainFactor
  <1>6. Unit(c) = 2 * g.den
    BY <1>1, <1>3 DEF Unit
  <1>7. QED
    BY <1>1, <1>3, <1>4, <1>5, <1>6

(* A row holds the factor in the clear, but for 1 in its own slot.         *)
LEMMA RowValue ==
  ASSUME NEW c, IsCubic(c), NEW j \in DOMAIN c.keys, NEW s \in DOMAIN c.keys
  PROVE  /\ Row(c, j).den = Unit(c)
         /\ Row(c, j).slots[s] = IF s = j THEN Unit(c) ELSE PlainFactor(c, j, s).num
  <1>1. PICK size : /\ size = Len(c.keys) /\ size \in Nat /\ DOMAIN c.keys = 1 .. size
                    /\ c.degree = 3 /\ IsCircuit(c)
    <2>1. c.degree = 3 /\ IsCircuit(c)
      BY DEF IsCubic
    <2>2. QED
      BY <2>1, CubicKeys
  <1>2. PICK x, z, e, it : x = Diff(c, j) /\ z = Zeros(c) /\ e = Seed(c) /\ it = Iters(c)
    OBVIOUS
  <1>3. /\ x \in Ciphertexts(size) /\ z \in Fresh(size) /\ e \in Fresh(size) /\ it \in Nat
        /\ x.den = c.den /\ x.slots[s] = c.keys[j] - c.keys[s]
    BY <1>1, <1>2, RowStart, ItersIs DEF Fresh
  <1>4. IsZeros(z, size)
    <2>1. z = Enc(Fill(size, 0), 1)
      BY <1>1, <1>2 DEF Zeros
    <2>2. QED
      BY <2>1 DEF Enc, Fill, IsZeros
  <1>5. IsCubicSeed(e, size)
    <2>1. e = Enc(Fill(size, -1), 2)
      BY <1>1, <1>2, CubicCoeffs DEF Seed
    <2>2. QED
      BY <2>1 DEF Enc, Fill, IsCubicSeed
  <1>6. PICK y, pin : /\ y = EvalStep(x, z, e, 3, it)
                      /\ pin = [t \in 1 .. size |-> IF t = j THEN -1 ELSE 0]
    OBVIOUS
  <1>7. y \in Ciphertexts(size) /\ Row(c, j) = EvalSubConst(y, pin, 2)
    BY <1>1, <1>2, <1>6, RowIs
  <1>8. PICK g : g = PlainSign(c.keys[j] - c.keys[s], c.den, it)
    OBVIOUS
  <1>9. g \in Fractions /\ y.den = 2 * g.den /\ y.slots[s] = g.num + g.den
    <2>1. s \in 1 .. size
      BY <1>1
    <2>2. QED
      BY <1>1, <1>3, <1>4, <1>5, <1>6, <1>8, <2>1, StepValue
  <1>10. g.num \in Int /\ g.den \in Nat \ {0}
    BY <1>9 DEF Fractions
  <1>11. /\ 2 * g.den = Unit(c) /\ Unit(c) \in Nat \ {0}
         /\ PlainFactor(c, j, s).num = g.num + g.den
    BY <1>2, <1>8, FactorIs
  <1>12. /\ EvalSubConst(y, pin, 2).den = y.den
         /\ EvalSubConst(y, pin, 2).slots[s] = y.slots[s] - pin[s] * g.den
    <2>1. \A t \in 1 .. size : pin[t] \in Int
      BY <1>6
    <2>2. s \in 1 .. size /\ size \in Nat /\ y \in Ciphertexts(size)
      BY <1>1, <1>7
    <2>3. PICK q \in Nat \ {0} : q = g.den /\ y.den = 2 * q
      BY <1>9, <1>10
    <2>4. /\ EvalSubConst(y, pin, 2).den = y.den
          /\ \A t \in 1 .. size : EvalSubConst(y, pin, 2).slots[t] = y.slots[t] - pin[t] * q
      BY <2>1, <2>2, <2>3, SubHalves
    <2>5. QED
      BY <2>2, <2>3, <2>4
  <1>13. CASE s = j
    <2>1. g.num = 0
      <3>1. c.keys[j] - c.keys[s] = 0
        BY <1>13 DEF IsCubic, IsCircuit
      <3>2. c.den \in Nat \ {0}
        BY <1>1 DEF IsCircuit
      <3>3. QED
        BY <1>3, <1>8, <3>1, <3>2, PlainSignIs
    <2>2. pin[s] = -1
      BY <1>1, <1>6, <1>13
    <2>3. y.slots[s] - pin[s] * g.den = 2 * g.den
      BY <1>9, <1>10, <2>1, <2>2
    <2>4. QED
      BY <1>7, <1>9, <1>11, <1>12, <1>13, <2>3
  <1>14. CASE s # j
    <2>1. pin[s] = 0
      BY <1>1, <1>6, <1>14
    <2>2. y.slots[s] - pin[s] * g.den = g.num + g.den
      BY <1>9, <1>10, <2>1
    <2>3. QED
      BY <1>7, <1>9, <1>11, <1>12, <1>14, <2>2
  <1>15. QED
    BY <1>13, <1>14

-----------------------------------------------------------------------------
(* Products of fractions, one factor after the other.                      *)
One == [num |-> 1, den |-> 1]

LEMMA TimesIs ==
  ASSUME NEW x \in Fractions, NEW y \in Fractions
  PROVE  /\ Times(x, y) \in Fractions /\ One \in Fractions
         /\ Times(x, y).num = x.num * y.num /\ Times(x, y).den = x.den * y.den
         /\ Times(One, x) = x
  <1>1. x.num \in Int /\ y.num \in Int /\ x.den \in Nat \ {0} /\ y.den \in Nat \ {0}
    BY DEF Fractions
  <1>2. x.num * y.num \in Int /\ x.den * y.den \in Nat \ {0}
    BY <1>1, PositiveProduct, IntProduct
  <1>3. 1 * x.num = x.num /\ 1 * x.den = x.den
    BY <1>1
  <1>4. x = [num |-> x.num, den |-> x.den]
    BY DEF Fractions
  <1>5. Times(One, x) = [num |-> 1 * x.num, den |-> 1 * x.den]
    BY DEF Times, One
  <1>6. Times(One, x) = x
    BY <1>3, <1>4, <1>5
  <1>7. Times(x, y) \in Fractions /\ Times(x, y).num = x.num * y.num /\ Times(x, y).den = x.den * y.den
    BY <1>2 DEF Times, Fractions
  <1>8. QED
    BY <1>6, <1>7 DEF One, Fractions

LEMMA TimesReorders ==
  ASSUME NEW x \in Fractions, NEW y \in Fractions, NEW z \in Fractions
  PROVE  /\ Times(Times(x, y), z) = Times(x, Times(y, z))
         /\ Times(Times(x, y), z) = Times(Times(x, z), y)
  <1>1. PICK a, b, c, d, e, f : /\ a = x.num /\ b = y.num /\ c = z.num
                                /\ d = x.den /\ e = y.den /\ f = z.den
    OBVIOUS
  <1>2. a \in Int /\ b \in Int /\ c \in Int /\ d \in Int /\ e \in Int /\ f \in Int
    BY <1>1 DEF Fractions
  <1>3. /\ (a * b) * c = a * (b * c) /\ (a * b) * c = (a * c) * b
        /\ (d * e) * f = d * (e * f) /\ (d * e) * f = (d * f) * e
    BY <1>2
  <1>4. /\ Times(Times(x, y), z) = [num |-> (a * b) * c, den |-> (d * e) * f]
        /\ Times(x, Times(y, z)) = [num |-> a * (b * c), den |-> d * (e * f)]
        /\ Times(Times(x, z), y) = [num |-> (a * c) * b, den |-> (d * f) * e]
    BY <1>1 DEF Times
  <1>5. QED
    BY <1>3, <1>4

IsProduct(f, v, m) ==
  /\ f \in [0 .. m -> Fractions] /\ f[0] = One
  /\ \A k \in 1 .. m : f[k] = Times(f[k - 1], v[k])

Multiply(v, m) ==
  [p \in Nat \X Fractions |-> IF p[1] \in 1 .. m THEN Times(p[2], v[p[1]]) ELSE p[2]]

(* The products of the first factors.                                      *)
LEMMA ProductExists ==
  ASSUME NEW m \in Nat, NEW v, \A k \in 1 .. m : v[k] \in Fractions
  PROVE  \E f : IsProduct(f, v, m)
  <1>1. Multiply(v, m) \in [Nat \X Fractions -> Fractions]
    BY TimesIs DEF Multiply
  <1>2. One \in Fractions
    BY DEF One, Fractions
  <1>3. PICK f : Iterates(f, Fractions, One, Multiply(v, m), m)
    BY <1>1, <1>2, Iteration
  <1>4. f \in [0 .. m -> Fractions] /\ f[0] = One
    BY <1>3 DEF Iterates
  <1>5. ASSUME NEW k \in 1 .. m PROVE f[k] = Times(f[k - 1], v[k])
    <2>1. k \in Nat /\ f[k - 1] \in Fractions /\ f[k] = Multiply(v, m)[<<k, f[k - 1]>>]
      BY <1>3, <1>4 DEF Iterates
    <2>2. QED
      BY <2>1 DEF Multiply
  <1>6. QED
    BY <1>4, <1>5 DEF IsProduct

(* The product of pairs, the odd one as it is, is the product.             *)
Paired(v, w, m, h) ==
  /\ h = (m + 1) \div 2
  /\ \A k \in 1 .. m : v[k] \in Fractions
  /\ \A p \in 1 .. h : /\ 2 * p > m => w[p] = v[2 * p - 1]
                       /\ 2 * p <= m => w[p] = Times(v[2 * p - 1], v[2 * p])

LEMMA PairedProduct ==
  ASSUME NEW m \in Nat \ {0}, NEW h \in Nat, NEW v, NEW w, Paired(v, w, m, h),
         NEW f, IsProduct(f, v, m), NEW g, IsProduct(g, w, h)
  PROVE  g[h] = f[m]
  <1>0. h = (m + 1) \div 2
    BY DEF Paired
  <1>7. \A k \in 1 .. m : v[k] \in Fractions
    BY DEF Paired
  <1>8. \A p \in 1 .. h : 2 * p > m => w[p] = v[2 * p - 1]
    BY DEF Paired
  <1>9. \A p \in 1 .. h : 2 * p <= m => w[p] = Times(v[2 * p - 1], v[2 * p])
    BY DEF Paired
  <1> DEFINE T == {k \in Nat : k <= h => (2 * k <= m => g[k] = f[2 * k])
                                         /\ (2 * k > m => g[k] = f[m])}
  <1>1. 0 \in T
    BY DEF IsProduct
  <1>2. ASSUME NEW k \in Nat, k \in T PROVE k + 1 \in T
    <2>1. SUFFICES ASSUME k + 1 <= h
                   PROVE  /\ 2 * (k + 1) <= m => g[k + 1] = f[2 * (k + 1)]
                          /\ 2 * (k + 1) > m => g[k + 1] = f[m]
      OBVIOUS
    <2>2. /\ 2 * k + 1 \in 1 .. m /\ 2 * k \in 0 .. m /\ 2 * k <= m /\ k <= h
          /\ k + 1 \in 1 .. h /\ (k + 1) - 1 = k /\ (2 * k + 1) - 1 = 2 * k
          /\ 2 * (k + 1) - 1 = 2 * k + 1 /\ 2 * (k + 1) = 2 * k + 2
      BY <1>0, <2>1
    <2>3. g[k] = f[2 * k] /\ g[k + 1] = Times(g[k], w[k + 1])
      BY <1>2, <2>2 DEF IsProduct
    <2>4. f[2 * k + 1] = Times(f[2 * k], v[2 * k + 1]) /\ f[2 * k] \in Fractions
      BY <2>2 DEF IsProduct
    <2>5. ASSUME 2 * (k + 1) > m PROVE g[k + 1] = f[m]
      <3>1. 2 * k + 1 = m
        BY <1>0, <2>2, <2>5
      <3>2. w[k + 1] = v[2 * k + 1]
        <4>1. PICK p \in 1 .. h : p = k + 1 /\ 2 * p > m /\ 2 * p - 1 = 2 * k + 1
          BY <2>2, <2>5
        <4>2. w[p] = v[2 * p - 1]
          BY <1>8, <4>1
        <4>3. QED
          BY <4>1, <4>2
      <3>3. QED
        BY <2>3, <2>4, <3>1, <3>2
    <2>6. ASSUME 2 * (k + 1) <= m PROVE g[k + 1] = f[2 * (k + 1)]
      <3>1. w[k + 1] = Times(v[2 * k + 1], v[2 * k + 2])
        <4>1. PICK p \in 1 .. h : /\ p = k + 1 /\ 2 * p <= m
                                 /\ 2 * p - 1 = 2 * k + 1 /\ 2 * p = 2 * k + 2
          BY <2>2, <2>6
        <4>2. w[p] = Times(v[2 * p - 1], v[2 * p])
          BY <1>9, <4>1
        <4>3. QED
          BY <4>1, <4>2
      <3>2. 2 * k + 2 \in 1 .. m /\ (2 * k + 2) - 1 = 2 * k + 1
        BY <1>0, <2>2, <2>6
      <3>3. f[2 * k + 2] = Times(f[2 * k + 1], v[2 * k + 2])
        BY <3>2 DEF IsProduct
      <3>4. v[2 * k + 1] \in Fractions /\ v[2 * k + 2] \in Fractions
        BY <1>7, <2>2, <3>2
      <3>5. QED
        BY <2>2, <2>3, <2>4, <3>1, <3>3, <3>4, TimesReorders
    <2>7. QED
      BY <2>5, <2>6
  <1>3. \A k \in Nat : k \in T
    <2> HIDE DEF T
    <2>1. QED
      BY <1>1, <1>2, Induction
  <1>4. h \in T
    BY <1>3
  <1>5. 2 * h <= m => 2 * h = m
    BY <1>0
  <1>6. QED
    BY <1>0, <1>4, <1>5

(* Every stage of the tree has the same product, and the last one a single *)
(* factor.                                                                 *)
SlotsOf(t, s) == [p \in 1 .. Len(t) |-> Slot(t[p], s)]

LEMMA SlotIs ==
  ASSUME NEW n \in Nat, NEW s \in 1 .. n, NEW a \in Ciphertexts(n), NEW b \in Ciphertexts(n)
  PROVE  Slot(a, s) \in Fractions /\ Slot(EvalMult(a, b), s) = Times(Slot(a, s), Slot(b, s))
  <1>1. a.slots[s] \in Int /\ a.den \in Nat \ {0}
    BY DEF Ciphertexts
  <1>2. Slot(a, s) \in Fractions
    BY <1>1 DEF Slot, Fractions
  <1>3. EvalMult(a, b).den = a.den * b.den /\ EvalMult(a, b).slots[s] = a.slots[s] * b.slots[s]
    BY MultIs
  <1>4. Slot(EvalMult(a, b), s) = [num |-> a.slots[s] * b.slots[s], den |-> a.den * b.den]
    BY <1>3 DEF Slot
  <1>5. Times(Slot(a, s), Slot(b, s)) = [num |-> a.slots[s] * b.slots[s], den |-> a.den * b.den]
    BY DEF Slot, Times
  <1>6. QED
    BY <1>2, <1>4, <1>5

(* A stage and the next one have the same product in every slot.           *)
LEMMA StageProduct ==
  ASSUME NEW n \in Nat, NEW s \in 1 .. n, NEW t \in Stages(n),
         NEW f, IsProduct(f, SlotsOf(t, s), Len(t)),
         NEW g, IsProduct(g, SlotsOf(Pairs(t), s), Len(Pairs(t)))
  PROVE  g[Len(Pairs(t))] = f[Len(t)]
  <1>1. PICK m, h : m = Len(t) /\ h = Len(Pairs(t))
    OBVIOUS
  <1>2. /\ m \in Nat \ {0} /\ h = (m + 1) \div 2 /\ t \in Seq(Ciphertexts(n))
        /\ Pairs(t) \in Stages(n)
    BY <1>1, PairsIs DEF Stages
  <1>3. h \in Nat
    BY <1>2
  <1>4. \A k \in 1 .. m : t[k] \in Ciphertexts(n)
    BY <1>1, <1>2
  <1>5. PICK v, w : v = SlotsOf(t, s) /\ w = SlotsOf(Pairs(t), s)
    OBVIOUS
  <1>6. \A k \in 1 .. m : v[k] = Slot(t[k], s) /\ v[k] \in Fractions
    BY <1>1, <1>4, <1>5, SlotIs DEF SlotsOf
  <1>7. \A p \in 1 .. h : w[p] = Slot(Pairs(t)[p], s)
    BY <1>1, <1>5 DEF SlotsOf
  <1>8. ASSUME NEW p \in 1 .. h
        PROVE  /\ 2 * p > m => w[p] = v[2 * p - 1]
               /\ 2 * p <= m => w[p] = Times(v[2 * p - 1], v[2 * p])
    <2>1. /\ 2 * p - 1 \in 1 .. m
          /\ 2 * p > m => Pairs(t)[p] = t[2 * p - 1]
          /\ 2 * p <= m => 2 * p \in 1 .. m /\ Pairs(t)[p] = EvalMult(t[2 * p - 1], t[2 * p])
      BY <1>1, PairsIs
    <2>2. ASSUME 2 * p > m PROVE w[p] = v[2 * p - 1]
      BY <1>6, <1>7, <2>1, <2>2
    <2>3. ASSUME 2 * p <= m PROVE w[p] = Times(v[2 * p - 1], v[2 * p])
      <3>1. PICK a \in Ciphertexts(n), b \in Ciphertexts(n) : a = t[2 * p - 1] /\ b = t[2 * p]
        BY <1>4, <2>1, <2>3
      <3>2. Slot(EvalMult(a, b), s) = Times(Slot(a, s), Slot(b, s))
        BY SlotIs
      <3>3. QED
        BY <1>6, <1>7, <2>1, <2>3, <3>1, <3>2
    <2>4. QED
      BY <2>2, <2>3
  <1>9. IsProduct(f, v, m) /\ IsProduct(g, w, h)
    BY <1>1, <1>5
  <1>10. g[h] = f[m]
    <2>1. Paired(v, w, m, h)
      BY <1>2, <1>6, <1>8 DEF Paired
    <2>2. QED
      BY <1>2, <1>3, <1>9, <2>1, PairedProduct
  <1>11. QED
    BY <1>1, <1>10

(* The root is the product of the leaves.                                  *)
LEMMA TreeProduct ==
  ASSUME NEW n \in Nat, NEW s \in 1 .. n, NEW cts \in Stages(n),
         NEW f, IsProduct(f, SlotsOf(cts, s), Len(cts))
  PROVE  Slot(BalancedProduct(cts), s) = f[Len(cts)]
  <1>1. PICK size : size = Len(cts) /\ size \in Nat \ {0}
    BY PairsIs
  <1>2. PICK tree : /\ Iterates(tree, Stages(n), cts, PairUp(n), size)
                    /\ BalancedProduct(cts) = tree[size][1]
    BY <1>1, TreeSteps
  <1>3. /\ tree[0] = cts /\ \A k \in 0 .. size : tree[k] \in Stages(n)
        /\ \A k \in 1 .. size : tree[k] = Pairs(tree[k - 1])
    <2>1. tree \in [0 .. size -> Stages(n)] /\ tree[0] = cts
      BY <1>2 DEF Iterates
    <2>2. ASSUME NEW k \in 1 .. size PROVE tree[k] = Pairs(tree[k - 1])
      <3>1. k \in Nat /\ tree[k - 1] \in Stages(n) /\ tree[k] = PairUp(n)[<<k, tree[k - 1]>>]
        BY <1>1, <1>2, <2>1 DEF Iterates
      <3>2. QED
        BY <3>1 DEF PairUp
    <2>3. QED
      BY <2>1, <2>2
  <1> DEFINE Whole(t) == \E g : IsProduct(g, SlotsOf(t, s), Len(t)) /\ g[Len(t)] = f[size]
             T == {k \in Nat : k <= size => /\ Len(tree[k]) <= size - k \/ Len(tree[k]) = 1
                                            /\ Whole(tree[k])}
  <1>4. 0 \in T
    <2>1. Len(tree[0]) <= size - 0
      BY <1>1, <1>3
    <2>2. Whole(tree[0])
      BY <1>1, <1>3
    <2> HIDE DEF Whole
    <2>3. QED
      BY <2>1, <2>2
  <1>5. ASSUME NEW k \in Nat, k \in T PROVE k + 1 \in T
    <2>1. SUFFICES ASSUME k + 1 <= size
                   PROVE  /\ Len(tree[k + 1]) <= size - (k + 1) \/ Len(tree[k + 1]) = 1
                          /\ Whole(tree[k + 1])
      OBVIOUS
    <2>2. k \in 0 .. size /\ k + 1 \in 1 .. size /\ (k + 1) - 1 = k
      BY <1>1, <2>1
    <2>3. PICK t \in Stages(n) : t = tree[k] /\ tree[k + 1] = Pairs(t)
      BY <1>3, <2>2
    <2>4. (Len(t) <= size - k \/ Len(t) = 1) /\ Whole(t)
      BY <1>5, <2>2, <2>3
    <2>5. /\ Len(t) \in Nat \ {0} /\ Len(Pairs(t)) = (Len(t) + 1) \div 2
          /\ Pairs(t) \in Stages(n) /\ Len(Pairs(t)) \in Nat
      <3>1. Len(t) \in Nat \ {0} /\ Len(Pairs(t)) = (Len(t) + 1) \div 2 /\ Pairs(t) \in Stages(n)
        BY PairsIs
      <3>2. QED
        BY <3>1
    <2>6. Len(Pairs(t)) <= size - (k + 1) \/ Len(Pairs(t)) = 1
      <3>1. PICK len, half : len = Len(t) /\ half = Len(Pairs(t))
        OBVIOUS
      <3>2. /\ len \in Nat \ {0} /\ half \in Nat /\ half = (len + 1) \div 2
            /\ len <= size - k \/ len = 1
        BY <2>4, <2>5, <3>1
      <3>3. half = 1 \/ half < len
        BY <3>2
      <3>4. len = 1 => half = 1
        BY <3>2
      <3>5. half <= size - (k + 1) \/ half = 1
        BY <1>1, <2>2, <3>2, <3>3, <3>4
      <3>6. QED
        BY <3>1, <3>5
    <2>7. Whole(Pairs(t))
      <3>1. PICK g : IsProduct(g, SlotsOf(t, s), Len(t)) /\ g[Len(t)] = f[size]
        BY <2>4
      <3>2. PICK u : u = Pairs(t) /\ u \in Seq(Ciphertexts(n)) /\ Len(u) \in Nat
        BY <2>5 DEF Stages
      <3>3. \A p \in 1 .. Len(u) : u[p] \in Ciphertexts(n)
        BY <3>2
      <3>4. \A p \in 1 .. Len(u) : SlotsOf(u, s)[p] \in Fractions
        BY <3>3, SlotIs DEF SlotsOf
      <3>5. PICK h : IsProduct(h, SlotsOf(u, s), Len(u))
        BY <3>2, <3>4, ProductExists
      <3>6. h[Len(u)] = g[Len(t)]
        BY <3>1, <3>2, <3>5, StageProduct
      <3>7. QED
        BY <3>1, <3>2, <3>5, <3>6
    <2> HIDE DEF Whole
    <2>8. QED
      BY <2>3, <2>6, <2>7
  <1>6. \A k \in Nat : k \in T
    <2> HIDE DEF T
    <2>1. QED
      BY <1>4, <1>5, Induction
  <1>7. PICK t \in Stages(n) : t = tree[size]
    BY <1>1, <1>3
  <1>8. (Len(t) <= size - size \/ Len(t) = 1) /\ Whole(t)
    BY <1>1, <1>6, <1>7
  <1>9. Len(t) = 1 /\ t \in Seq(Ciphertexts(n))
    <2>1. Len(t) \in Nat \ {0} /\ t \in Seq(Ciphertexts(n))
      BY PairsIs DEF Stages
    <2> HIDE DEF Whole
    <2>2. QED
      BY <1>1, <1>8, <2>1
  <1>10. PICK a \in Ciphertexts(n) : a = t[1]
    BY <1>9
  <1>11. PICK g : IsProduct(g, SlotsOf(t, s), 1) /\ g[1] = f[size]
    BY <1>8, <1>9
  <1>12. g[1] = Times(One, Slot(a, s))
    <2>1. 1 \in 1 .. 1 /\ 1 - 1 = 0
      OBVIOUS
    <2>2. g[1] = Times(g[0], SlotsOf(t, s)[1]) /\ g[0] = One
      BY <1>11, <2>1 DEF IsProduct
    <2>3. SlotsOf(t, s)[1] = Slot(a, s)
      BY <1>9, <1>10 DEF SlotsOf
    <2>4. QED
      BY <2>2, <2>3
  <1>13. Slot(a, s) \in Fractions
    BY SlotIs
  <1>14. g[1] = Slot(a, s)
    BY <1>12, <1>13, TimesIs
  <1>15. QED
    BY <1>1, <1>2, <1>7, <1>10, <1>11, <1>14

-----------------------------------------------------------------------------
(* The circuit's mask is the product of the steps in the clear, but for    *)
(* the factor 1 of a slot's own row.                                       *)
RowFactors(c, s) == [j \in DOMAIN c.keys |-> Slot(Row(c, j), s)]
PlainFactors(c, s) == [j \in DOMAIN c.keys |-> IF j = s THEN One ELSE PlainFactor(c, j, s)]
Full(c) == [num |-> Unit(c), den |-> Unit(c)]

(* The factors of the circuit and those in the clear, one by one.          *)
LEMMA FactorsAre ==
  ASSUME NEW c, IsCubic(c), NEW s \in DOMAIN c.keys
  PROVE  /\ Full(c) \in Fractions
         /\ \A j \in DOMAIN c.keys :
              /\ RowFactors(c, s)[j] \in Fractions /\ PlainFactors(c, s)[j] \in Fractions
              /\ j # s => RowFactors(c, s)[j] = PlainFactors(c, s)[j]
              /\ j = s => RowFactors(c, s)[j] = Full(c) /\ PlainFactors(c, s)[j] = One
  <1>1. Unit(c) \in Nat \ {0}
    BY FactorIs
  <1>2. Full(c) \in Fractions
    BY <1>1 DEF Full, Fractions
  <1>3. ASSUME NEW j \in DOMAIN c.keys
        PROVE  /\ RowFactors(c, s)[j] \in Fractions /\ PlainFactors(c, s)[j] \in Fractions
               /\ j # s => RowFactors(c, s)[j] = PlainFactors(c, s)[j]
               /\ j = s => RowFactors(c, s)[j] = Full(c) /\ PlainFactors(c, s)[j] = One
    <2>1. /\ Row(c, j).den = Unit(c)
          /\ Row(c, j).slots[s] = IF s = j THEN Unit(c) ELSE PlainFactor(c, j, s).num
      BY RowValue
    <2>2. /\ PlainFactor(c, j, s).num \in Int /\ PlainFactor(c, j, s).den = Unit(c)
          /\ PlainFactor(c, j, s) = [num |-> PlainFactor(c, j, s).num, den |-> Unit(c)]
      <3>1. PlainFactor(c, j, s).num \in Int /\ PlainFactor(c, j, s).den = Unit(c)
        BY FactorIs
      <3>2. QED
        BY <3>1 DEF PlainFactor
    <2>3. RowFactors(c, s)[j] = [num |-> Row(c, j).slots[s], den |-> Row(c, j).den]
      BY DEF RowFactors, Slot
    <2>4. CASE j = s
      <3>1. RowFactors(c, s)[j] = Full(c)
        BY <2>1, <2>3, <2>4 DEF Full
      <3>2. PlainFactors(c, s)[j] = One /\ One \in Fractions
        BY <2>4 DEF PlainFactors, One, Fractions
      <3>3. QED
        BY <1>2, <2>4, <3>1, <3>2
    <2>5. CASE j # s
      <3>1. RowFactors(c, s)[j] = PlainFactor(c, j, s)
        BY <2>1, <2>2, <2>3, <2>5
      <3>2. PlainFactors(c, s)[j] = PlainFactor(c, j, s)
        BY <2>5 DEF PlainFactors
      <3>3. PlainFactor(c, j, s) \in Fractions
        BY <1>1, <2>2 DEF Fractions
      <3>4. QED
        BY <2>5, <3>1, <3>2, <3>3
    <2>6. QED
      BY <2>4, <2>5
  <1>4. QED
    BY <1>2, <1>3

(* The mask is the product of the rows.                                    *)
LEMMA MaskIsProduct ==
  ASSUME NEW c, IsCubic(c), NEW s \in DOMAIN c.keys
  PROVE  \E f : /\ IsProduct(f, RowFactors(c, s), Len(c.keys))
                /\ Slot(Eval(c), s) = f[Len(c.keys)]
  <1>1. PICK n : n = Len(c.keys) /\ n \in Nat /\ DOMAIN c.keys = 1 .. n
    BY CubicKeys
  <1>2. PICK rows \in Stages(n) : /\ rows = [j \in DOMAIN c.keys |-> Row(c, j)]
                                  /\ Len(rows) = n /\ Eval(c) = BalancedProduct(rows)
    BY <1>1, RowsAre DEF IsCubic
  <1>3. SlotsOf(rows, s) = RowFactors(c, s)
    BY <1>1, <1>2 DEF SlotsOf, RowFactors
  <1>4. \A j \in 1 .. n : RowFactors(c, s)[j] \in Fractions
    BY <1>1, FactorsAre
  <1>5. PICK f : IsProduct(f, RowFactors(c, s), n)
    BY <1>1, <1>4, ProductExists
  <1>6. Slot(BalancedProduct(rows), s) = f[n]
    <2>1. IsProduct(f, SlotsOf(rows, s), Len(rows)) /\ s \in 1 .. n
      BY <1>1, <1>2, <1>3, <1>5
    <2>2. QED
      BY <1>1, <1>2, <2>1, TreeProduct
  <1>7. QED
    BY <1>1, <1>2, <1>5, <1>6

LEMMA OneIsNeutral == ASSUME NEW x \in Fractions PROVE Times(x, One) = x
  <1>1. x.num \in Int /\ x.den \in Nat \ {0} /\ x = [num |-> x.num, den |-> x.den]
    BY DEF Fractions
  <1>2. x.num * 1 = x.num /\ x.den * 1 = x.den
    BY <1>1
  <1>3. Times(x, One) = [num |-> x.num * 1, den |-> x.den * 1]
    BY DEF Times, One
  <1>4. QED
    BY <1>1, <1>2, <1>3

(* plaintextMask is the product of its factors, 1 for the own key.         *)
LEMMA PlainMaskSteps ==
  ASSUME NEW c, IsCubic(c), NEW s \in DOMAIN c.keys
  PROVE  \E p : /\ IsProduct(p, PlainFactors(c, s), Len(c.keys))
                /\ PlainMask(c, s) = p[Len(c.keys)]
  <1>1. PICK n : n = Len(c.keys) /\ n \in Nat /\ DOMAIN c.keys = 1 .. n
    BY CubicKeys
  <1>2. PICK u : u = PlainFactors(c, s)
    OBVIOUS
  <1>3. \A j \in 1 .. n : u[j] \in Fractions /\ u[j] = IF j = s THEN One ELSE PlainFactor(c, j, s)
    BY <1>1, <1>2, FactorsAre DEF PlainFactors
  <1> DEFINE Recurses(f) == f = [j \in 0 .. n |->
                                   IF j = 0 THEN One
                                   ELSE IF j = s THEN f[j - 1]
                                   ELSE Times(f[j - 1], PlainFactor(c, j, s))]
  <1>4. PICK f : IsProduct(f, u, n)
    BY <1>1, <1>3, ProductExists
  <1>5. \A k \in 1 .. n : k - 1 \in 0 .. n
    BY <1>1
  <1>6. Recurses(f)
    <2>1. f \in [0 .. n -> Fractions] /\ f[0] = One
      BY <1>4 DEF IsProduct
    <2>2. ASSUME NEW k \in 1 .. n
          PROVE  f[k] = IF k = s THEN f[k - 1] ELSE Times(f[k - 1], PlainFactor(c, k, s))
      <3>1. f[k] = Times(f[k - 1], u[k]) /\ f[k - 1] \in Fractions
        BY <1>4, <1>5, <2>1 DEF IsProduct
      <3>2. QED
        BY <1>3, <3>1, OneIsNeutral
    <2>3. QED
      BY <2>1, <2>2
  <1>7. PlainMask(c, s) = (CHOOSE f1 : Recurses(f1))[n]
    BY <1>1 DEF PlainMask, One
  <1>8. PICK p : Recurses(p) /\ PlainMask(c, s) = p[n]
    BY <1>6, <1>7
  <1>9. p = [k \in 0 .. n |-> p[k]] /\ p[0] = One
    BY <1>1, <1>8
  <1>10. \A k \in 1 .. n :
           p[k] = IF k = s THEN p[k - 1] ELSE Times(p[k - 1], PlainFactor(c, k, s))
    BY <1>1, <1>8
  <1> HIDE DEF Recurses
  <1>11. \A k \in 1 .. n : p[k - 1] \in Fractions => p[k] = Times(p[k - 1], u[k])
    <2>1. TAKE k \in 1 .. n
    <2>2. HAVE p[k - 1] \in Fractions
    <2>3. CASE k = s
      BY <1>3, <1>10, <2>2, <2>3, OneIsNeutral
    <2>4. CASE k # s
      BY <1>3, <1>10, <2>2, <2>4
    <2>5. QED
      BY <2>3, <2>4
  <1> DEFINE T == {k \in Nat : k <= n => p[k] \in Fractions}
  <1>12. 0 \in T
    BY <1>9 DEF One, Fractions
  <1>13. ASSUME NEW k \in Nat, k \in T PROVE k + 1 \in T
    <2>1. SUFFICES ASSUME k + 1 <= n PROVE p[k + 1] \in Fractions
      OBVIOUS
    <2>2. k + 1 \in 1 .. n /\ (k + 1) - 1 = k /\ p[k] \in Fractions
      BY <1>1, <1>13, <2>1
    <2>3. p[k + 1] = Times(p[k], u[k + 1]) /\ u[k + 1] \in Fractions
      BY <1>3, <1>11, <2>2
    <2>4. QED
      BY <2>2, <2>3, TimesIs
  <1>14. \A k \in Nat : k \in T
    <2> HIDE DEF T
    <2>1. QED
      BY <1>12, <1>13, Induction
  <1>15. \A k \in 0 .. n : p[k] \in Fractions
    BY <1>14
  <1>16. p \in [0 .. n -> Fractions]
    BY <1>9, <1>15
  <1>17. \A k \in 1 .. n : p[k] = Times(p[k - 1], u[k])
    BY <1>5, <1>11, <1>15
  <1>18. IsProduct(p, u, n)
    BY <1>9, <1>16, <1>17 DEF IsProduct
  <1>19. QED
    BY <1>1, <1>2, <1>8, <1>18

(* The mask is the plain mask, its numerator and denominator by the same   *)
(* factor.                                                                 *)
LEMMA MaskIsScaled ==
  ASSUME NEW c, IsCubic(c), NEW s \in DOMAIN c.keys
  PROVE  /\ PlainMask(c, s) \in Fractions
         /\ Slot(Eval(c), s) = Times(PlainMask(c, s), Full(c))
  <1>1. PICK n : n = Len(c.keys) /\ n \in Nat /\ DOMAIN c.keys = 1 .. n
    BY CubicKeys
  <1>2. PICK v, u, e : v = RowFactors(c, s) /\ u = PlainFactors(c, s) /\ e = Full(c)
    OBVIOUS
  <1>3. /\ e \in Fractions /\ s \in 1 .. n
        /\ \A j \in 1 .. n : /\ v[j] \in Fractions /\ u[j] \in Fractions
                             /\ j # s => v[j] = u[j]
                             /\ j = s => v[j] = e /\ u[j] = One
    BY <1>1, <1>2, FactorsAre
  <1>4. PICK f : IsProduct(f, v, n) /\ Slot(Eval(c), s) = f[n]
    BY <1>1, <1>2, MaskIsProduct
  <1>5. PICK p : IsProduct(p, u, n) /\ PlainMask(c, s) = p[n]
    BY <1>1, <1>2, PlainMaskSteps
  <1> DEFINE T == {k \in Nat : k <= n => f[k] = IF k < s THEN p[k] ELSE Times(p[k], e)}
  <1>6. 0 \in T
    BY <1>3, <1>4, <1>5 DEF IsProduct
  <1>7. ASSUME NEW k \in Nat, k \in T PROVE k + 1 \in T
    <2>1. SUFFICES ASSUME k + 1 <= n
                   PROVE  f[k + 1] = IF k + 1 < s THEN p[k + 1] ELSE Times(p[k + 1], e)
      OBVIOUS
    <2>2. k + 1 \in 1 .. n /\ k \in 0 .. n /\ (k + 1) - 1 = k
      BY <1>1, <2>1
    <2>3. f[k] = IF k < s THEN p[k] ELSE Times(p[k], e)
      BY <1>7, <2>2
    <2>4. PICK x \in Fractions, y \in Fractions, z \in Fractions :
            /\ x = p[k] /\ y = u[k + 1] /\ z = v[k + 1]
            /\ p[k + 1] = Times(x, y) /\ f[k + 1] = Times(f[k], z)
      BY <1>3, <1>4, <1>5, <2>2 DEF IsProduct
    <2>5. CASE k + 1 < s
      <3>1. k < s /\ k + 1 # s
        BY <1>3, <2>5
      <3>2. f[k] = x /\ z = y
        BY <1>3, <2>2, <2>3, <2>4, <3>1
      <3>3. QED
        BY <2>4, <2>5, <3>2
    <2>6. CASE k + 1 = s
      <3>1. k < s
        BY <1>3, <2>6
      <3>2. f[k] = x /\ z = e /\ y = One
        BY <1>3, <2>2, <2>3, <2>4, <2>6, <3>1
      <3>3. Times(x, One) = x
        BY OneIsNeutral
      <3>4. p[k + 1] = x /\ f[k + 1] = Times(x, e) /\ ~(k + 1 < s)
        BY <1>3, <2>4, <2>6, <3>2, <3>3
      <3>5. QED
        BY <3>4
    <2>7. CASE k + 1 > s
      <3>1. ~(k < s) /\ k + 1 # s /\ ~(k + 1 < s)
        BY <1>3, <2>7
      <3>2. f[k] = Times(x, e) /\ z = y
        BY <1>3, <2>2, <2>3, <2>4, <3>1
      <3>3. Times(Times(x, e), y) = Times(Times(x, y), e)
        BY <1>3, TimesReorders
      <3>4. f[k + 1] = Times(p[k + 1], e)
        BY <2>4, <3>2, <3>3
      <3>5. QED
        BY <3>1, <3>4
    <2>8. QED
      BY <1>3, <2>5, <2>6, <2>7
  <1>8. \A k \in Nat : k \in T
    <2> HIDE DEF T
    <2>1. QED
      BY <1>6, <1>7, Induction
  <1>9. f[n] = Times(p[n], e)
    <2>1. n \in T /\ ~(n < s)
      BY <1>1, <1>3, <1>8
    <2>2. QED
      BY <2>1
  <1>10. p[n] \in Fractions
    BY <1>1, <1>5 DEF IsProduct
  <1>11. QED
    BY <1>2, <1>4, <1>5, <1>9, <1>10

LEMMA DivExact == ASSUME NEW d \in Nat \ {0}, NEW u \in Nat PROVE (d * u) \div d = u
  OBVIOUS

(* The keys of a model vector make a cubic circuit.                        *)
LEMMA VectorsAreCubic ==
  ASSUME NEW keys \in Vectors
  PROVE  IsCubic(Circuit(keys)) /\ DOMAIN keys = 1 .. Len(keys) /\ keys \in Seq(Int)
  <1>1. PICK n \in 2 .. MaxDriverBids : keys \in [1 .. n -> 0 .. Grid]
    BY DEF Vectors
  <1>2. \A s \in 1 .. n : keys[s] \in Int
    BY <1>1, GridAssumption
  <1>3. n \in Nat /\ n >= 2
    BY MaxDriverBidsAssumption
  <1>4. keys \in [1 .. n -> Int]
    BY <1>1, <1>2
  <1>5. keys \in Seq(Int) /\ Len(keys) = n
    BY <1>3, <1>4
  <1>6. Circuit(keys) = [keys |-> keys, den |-> Grid, degree |-> 3, iters |-> SignIters]
    BY DEF Circuit
  <1>7. 3 \in Degrees
    BY CubicCoeffs
  <1>8. IsCubic(Circuit(keys))
    BY <1>3, <1>5, <1>6, <1>7, GridAssumption DEF IsCubic, IsCircuit
  <1>9. QED
    BY <1>4, <1>5, <1>8

(* What ArgminCircuit.Eval computes on ciphertexts, through Horner rounds, *)
(* the step map, the pinned slots and the tree of products, is the product *)
(* of steps over all other keys that plaintextMask computes one after the  *)
(* other.                                                                  *)
THEOREM MaskFaithful == Spec => []MaskIsPlain
  <1>1. ASSUME NEW m \in Masks, NEW s \in DOMAIN m.keys
        PROVE  LET plain == PlainMask(Circuit(m.keys), s)
               IN  m.mask.slots[s] = plain.num * (m.mask.den \div plain.den)
    <2>1. PICK keys \in Vectors : m = [keys |-> keys, mask |-> Eval(Circuit(keys))]
      BY DEF Masks
    <2>2. PICK c : c = Circuit(keys) /\ IsCubic(c) /\ c.keys = keys /\ s \in DOMAIN c.keys
      BY <2>1, VectorsAreCubic DEF Circuit
    <2>3. m.keys = keys /\ m.mask = Eval(c)
      BY <2>1, <2>2
    <2>4. PICK plain \in Fractions : /\ plain = PlainMask(c, s)
                                     /\ Slot(Eval(c), s) = Times(plain, Full(c))
      BY <2>2, MaskIsScaled
    <2>5. PICK u : u = Unit(c) /\ u \in Nat \ {0}
      BY <2>2, FactorIs
    <2>6. /\ Eval(c).slots[s] = plain.num * u /\ Eval(c).den = plain.den * u
      BY <2>4, <2>5 DEF Slot, Times, Full
    <2>7. plain.den \in Nat \ {0}
      BY DEF Fractions
    <2>8. (plain.den * u) \div plain.den = u
      BY <2>5, <2>7, DivExact
    <2>9. QED
      BY <2>2, <2>3, <2>4, <2>6, <2>8
  <1>2. MaskIsPlain
    BY <1>1 DEF MaskIsPlain
  <1>3. QED
    BY <1>2, PTL

-----------------------------------------------------------------------------
(* The cubic sign polynomial rises on [-1, 1] and stays within it, and so  *)
(* does every composition of it.                                           *)
LEMMA CubicRises ==
  ASSUME NEW d \in Nat \ {0}, NEW a \in Int, NEW b \in Int, -d <= b, b < a, a <= d
  PROVE  3 * b * d * d - b * b * b < 3 * a * d * d - a * a * a
  <1>1. PICK p \in Nat, q \in Nat, r \in Nat \ {0} : p = d - a /\ q = d + b /\ r = a - b
    <2>1. d - a \in Nat /\ d + b \in Nat /\ a - b \in Nat \ {0}
      OBVIOUS
    <2>2. QED
      BY <2>1
  <1>2. 2 * (3 * a * d * d - a * a * a) - 2 * (3 * b * d * d - b * b * b) =
          (a - b) * (6 * ((d - a) * (d + b)) + 3 * ((d - a) * (a - b))
                     + 3 * ((d + b) * (a - b)) + (a - b) * (a - b))
    OBVIOUS
  <1>3. PICK pq \in Nat, pr \in Nat, qr \in Nat, rr \in Nat \ {0} :
          pq = p * q /\ pr = p * r /\ qr = q * r /\ rr = r * r
    <2>1. p * q \in Nat /\ p * r \in Nat /\ q * r \in Nat
      BY ProductInNat
    <2>2. r * r \in Nat \ {0}
      BY PositiveProduct
    <2>3. QED
      BY <2>1, <2>2
  <1>4. PICK t \in Nat \ {0} : t = 6 * pq + 3 * pr + 3 * qr + rr
    <2>1. 6 * pq + 3 * pr + 3 * qr + rr \in Nat \ {0}
      OBVIOUS
    <2>2. QED
      BY <2>1
  <1>5. r * t \in Nat \ {0}
    BY PositiveProduct
  <1>6. 2 * (3 * a * d * d - a * a * a) - 2 * (3 * b * d * d - b * b * b) = r * t
    BY <1>1, <1>2, <1>3, <1>4
  <1>7. PICK x \in Int, y \in Int : x = 3 * a * d * d - a * a * a /\ y = 3 * b * d * d - b * b * b
    <2>1. 3 * a * d * d - a * a * a \in Int /\ 3 * b * d * d - b * b * b \in Int
      OBVIOUS
    <2>2. QED
      BY <2>1
  <1>8. y < x
    <2>1. PICK z \in Nat \ {0} : z = r * t
      BY <1>5
    <2>2. 2 * x - 2 * y = z
      BY <1>6, <1>7, <2>1
    <2>3. QED
      BY <2>2
  <1>9. QED
    BY <1>7, <1>8

(* The cubic of an argument in [-1, 1] is at most 1.                       *)
LEMMA CubicBelow ==
  ASSUME NEW d \in Nat \ {0}, NEW a \in Int, -d <= a, a <= d
  PROVE  3 * a * d * d - a * a * a <= 2 * d * d * d
  <1>1. PICK p \in Nat, q \in Nat : p = d - a /\ q = 2 * d + a
    <2>1. d - a \in Nat /\ 2 * d + a \in Nat
      OBVIOUS
    <2>2. QED
      BY <2>1
  <1>2. 2 * d * d * d - (3 * a * d * d - a * a * a) = ((d - a) * (d - a)) * (2 * d + a)
    OBVIOUS
  <1>3. PICK z \in Nat : z = (p * p) * q
    <2>1. p * p \in Nat
      BY ProductInNat
    <2>2. (p * p) * q \in Nat
      BY <2>1, ProductInNat
    <2>3. QED
      BY <2>2
  <1>4. PICK x \in Int, y \in Int : x = 2 * d * d * d /\ y = 3 * a * d * d - a * a * a
    <2>1. 2 * d * d * d \in Int /\ 3 * a * d * d - a * a * a \in Int
      OBVIOUS
    <2>2. QED
      BY <2>1
  <1>5. x - y = z
    BY <1>1, <1>2, <1>3, <1>4
  <1>6. y <= x
    BY <1>5
  <1>7. QED
    BY <1>4, <1>6

LEMMA CubicStays ==
  ASSUME NEW d \in Nat \ {0}, NEW a \in Int, -d <= a, a <= d
  PROVE  /\ 3 * a * d * d - a * a * a <= 2 * d * d * d
         /\ -(2 * d * d * d) <= 3 * a * d * d - a * a * a
  <1>1. PICK b \in Int : b = -a
    OBVIOUS
  <1>2. 3 * b * d * d - b * b * b <= 2 * d * d * d
    BY <1>1, CubicBelow
  <1>3. 3 * (-a) * d * d - (-a) * (-a) * (-a) = -(3 * a * d * d - a * a * a)
    OBVIOUS
  <1>4. PICK x \in Int, y \in Int : x = 2 * d * d * d /\ y = 3 * a * d * d - a * a * a
    <2>1. 2 * d * d * d \in Int /\ 3 * a * d * d - a * a * a \in Int
      OBVIOUS
    <2>2. QED
      BY <2>1
  <1>5. -y <= x
    BY <1>1, <1>2, <1>3, <1>4
  <1>6. y <= x
    BY <1>4, CubicBelow
  <1>7. QED
    BY <1>4, <1>5, <1>6

Within(y) == -y.den <= y.num /\ y.num <= y.den
Lower(x, y) == x.den = y.den /\ x.num < y.num

(* A round keeps the order of two arguments, and keeps within [-1, 1].     *)
LEMMA RoundRises ==
  ASSUME NEW x \in Fractions, NEW y \in Fractions, Within(x), Within(y)
  PROVE  /\ Within(SignRound(x))
         /\ Lower(x, y) => Lower(SignRound(x), SignRound(y))
  <1>1. PICK a, b, d, e : /\ a = x.num /\ b = y.num /\ d = x.den /\ e = y.den
                          /\ a \in Int /\ b \in Int /\ d \in Nat \ {0} /\ e \in Nat \ {0}
    BY DEF Fractions
  <1>2. -d <= a /\ a <= d /\ -e <= b /\ b <= e
    BY <1>1 DEF Within
  <1>3. /\ SignRound(x).num = 3 * a * d * d - a * a * a /\ SignRound(x).den = 2 * d * d * d
        /\ SignRound(y).num = 3 * b * e * e - b * b * b /\ SignRound(y).den = 2 * e * e * e
    BY <1>1, SignRoundIs
  <1>4. Within(SignRound(x))
    BY <1>1, <1>2, <1>3, CubicStays DEF Within
  <1>5. ASSUME Lower(x, y) PROVE Lower(SignRound(x), SignRound(y))
    <2>1. d = e /\ a < b
      BY <1>1, <1>5 DEF Lower
    <2>2. 3 * a * d * d - a * a * a < 3 * b * d * d - b * b * b
      BY <1>1, <1>2, <2>1, CubicRises
    <2>3. QED
      BY <1>3, <2>1, <2>2 DEF Lower
  <1>6. QED
    BY <1>4, <1>5

(* So does every number of rounds.                                         *)
LEMMA SignRises ==
  ASSUME NEW den \in Nat \ {0}, NEW iters \in Nat,
         NEW x \in -den .. den, NEW y \in -den .. den
  PROVE  /\ Within(PlainSign(x, den, iters))
         /\ x < y => Lower(PlainSign(x, den, iters), PlainSign(y, den, iters))
  <1>1. x \in Int /\ y \in Int /\ -den <= x /\ x <= den /\ -den <= y /\ y <= den
    OBVIOUS
  <1>2. PICK g : IsSign(g, x, den, iters) /\ PlainSign(x, den, iters) = g[iters]
    BY <1>1, PlainSignSteps
  <1>3. PICK h : IsSign(h, y, den, iters) /\ PlainSign(y, den, iters) = h[iters]
    BY <1>1, PlainSignSteps
  <1> DEFINE T == {k \in Nat : k <= iters => /\ Within(g[k]) /\ Within(h[k])
                                             /\ x < y => Lower(g[k], h[k])}
  <1>4. 0 \in T
    <2>1. g[0] = [num |-> x, den |-> den] /\ h[0] = [num |-> y, den |-> den]
      BY <1>2, <1>3 DEF IsSign
    <2>2. Within(g[0]) /\ Within(h[0])
      BY <1>1, <2>1 DEF Within
    <2>3. x < y => Lower(g[0], h[0])
      BY <2>1 DEF Lower
    <2>4. QED
      BY <2>2, <2>3
  <1>5. ASSUME NEW k \in Nat, k \in T PROVE k + 1 \in T
    <2>1. SUFFICES ASSUME k + 1 <= iters
                   PROVE  /\ Within(g[k + 1]) /\ Within(h[k + 1])
                          /\ x < y => Lower(g[k + 1], h[k + 1])
      OBVIOUS
    <2>2. k \in 0 .. iters /\ k + 1 \in 1 .. iters /\ (k + 1) - 1 = k
      BY <2>1
    <2>3. Within(g[k]) /\ Within(h[k]) /\ (x < y => Lower(g[k], h[k]))
      BY <1>5, <2>2
    <2>4. PICK a \in Fractions, b \in Fractions :
            a = g[k] /\ b = h[k] /\ g[k + 1] = SignRound(a) /\ h[k + 1] = SignRound(b)
      BY <1>2, <1>3, <2>2 DEF IsSign
    <2>5. /\ Within(SignRound(a)) /\ Within(SignRound(b))
          /\ Lower(a, b) => Lower(SignRound(a), SignRound(b))
      BY <2>3, <2>4, RoundRises
    <2>6. QED
      BY <2>3, <2>4, <2>5
  <1>6. \A k \in Nat : k \in T
    <2> HIDE DEF T
    <2>1. QED
      BY <1>4, <1>5, Induction
  <1>7. iters \in T
    BY <1>6
  <1>8. QED
    BY <1>2, <1>3, <1>7

(* The step over a key difference, in fractions of Unit(c).                *)
StepOf(c, d) == PlainSign(d, c.den, Iters(c)).num + PlainSign(d, c.den, Iters(c)).den

OnGrid(c) == \A j \in DOMAIN c.keys : c.keys[j] \in 0 .. c.den

(* The step over key differences rises, and is positive from 0 on.         *)
LEMMA StepRises ==
  ASSUME NEW c, IsCubic(c), NEW x \in -c.den .. c.den, NEW y \in -c.den .. c.den
  PROVE  /\ StepOf(c, x) \in Nat /\ StepOf(c, 0) \in Nat \ {0}
         /\ x < y => StepOf(c, x) < StepOf(c, y)
         /\ x <= y => StepOf(c, x) <= StepOf(c, y)
  <1>1. PICK den, it : den = c.den /\ it = Iters(c) /\ den \in Nat \ {0} /\ it \in Nat
    BY ItersIs DEF IsCubic, IsCircuit
  <1>2. x \in -den .. den /\ y \in -den .. den /\ x \in Int /\ y \in Int
    BY <1>1
  <1>3. PICK f \in Fractions, g \in Fractions, z \in Fractions :
          f = PlainSign(x, den, it) /\ g = PlainSign(y, den, it) /\ z = PlainSign(0, den, it)
    <2>1. /\ PlainSign(x, den, it) \in Fractions /\ PlainSign(y, den, it) \in Fractions
          /\ PlainSign(0, den, it) \in Fractions
      BY <1>1, <1>2, PlainSignIs
    <2>2. QED
      BY <2>1
  <1>4. f.den = g.den /\ z.num = 0
    BY <1>1, <1>2, <1>3, PlainSignIs
  <1>5. Within(f) /\ (x < y => Lower(f, g))
    BY <1>1, <1>2, <1>3, SignRises
  <1>6. /\ f.num \in Int /\ f.den \in Nat \ {0} /\ g.num \in Int /\ g.den \in Nat \ {0}
        /\ z.den \in Nat \ {0}
    BY DEF Fractions
  <1>7. /\ StepOf(c, x) = f.num + f.den /\ StepOf(c, y) = g.num + g.den
        /\ StepOf(c, 0) = z.num + z.den
    BY <1>1, <1>3 DEF StepOf
  <1>8. f.num + f.den \in Nat
    BY <1>5, <1>6 DEF Within
  <1>9. ASSUME x < y PROVE StepOf(c, x) < StepOf(c, y)
    <2>1. f.num < g.num
      BY <1>5, <1>9 DEF Lower
    <2>2. QED
      BY <1>4, <1>6, <1>7, <2>1
  <1>10. x = y => StepOf(c, x) = StepOf(c, y)
    OBVIOUS
  <1>11. StepOf(c, x) \in Int /\ StepOf(c, y) \in Int
    BY <1>6, <1>7
  <1>12. StepOf(c, 0) \in Nat \ {0}
    BY <1>4, <1>6, <1>7
  <1>13. x <= y => StepOf(c, x) <= StepOf(c, y)
    BY <1>2, <1>9, <1>10, <1>11
  <1>14. QED
    BY <1>7, <1>8, <1>9, <1>12, <1>13

(* The factors of the slot of a lowest key are positive, and none is less  *)
(* than that of another slot.                                              *)
LEMMA FactorsOf ==
  ASSUME NEW c, IsCubic(c), OnGrid(c), NEW b \in DOMAIN c.keys, NEW s \in DOMAIN c.keys,
         \A j \in DOMAIN c.keys : c.keys[b] <= c.keys[j], NEW j \in DOMAIN c.keys
  PROVE  /\ PlainFactor(c, j, b).num \in Nat \ {0} /\ PlainFactor(c, j, s).num \in Nat
         /\ PlainFactor(c, j, s).num <= PlainFactor(c, j, b).num
         /\ PlainFactor(c, b, s).num <= PlainFactor(c, s, b).num
         /\ c.keys[b] < c.keys[s] => PlainFactor(c, b, s).num < PlainFactor(c, s, b).num
         /\ PlainFactor(c, s, b).num \in Nat /\ PlainFactor(c, b, s).num \in Nat
  <1>1. PICK kb, ks, kj, den :
          /\ kb = c.keys[b] /\ ks = c.keys[s] /\ kj = c.keys[j] /\ den = c.den
          /\ den \in Nat \ {0}
    BY DEF IsCubic, IsCircuit
  <1>2. kb \in 0 .. den /\ ks \in 0 .. den /\ kj \in 0 .. den /\ kb <= ks /\ kb <= kj
    BY <1>1 DEF OnGrid
  <1>3. PICK ab \in -den .. den, as \in -den .. den, up \in -den .. den, down \in -den .. den :
          ab = kj - kb /\ as = kj - ks /\ up = ks - kb /\ down = kb - ks
    <2>1. /\ kj - kb \in -den .. den /\ kj - ks \in -den .. den
          /\ ks - kb \in -den .. den /\ kb - ks \in -den .. den
      BY <1>1, <1>2
    <2>2. QED
      BY <2>1
  <1>4. /\ 0 \in -den .. den /\ 0 <= ab /\ as <= ab /\ down <= up
        /\ kb < ks => down < up
    BY <1>1, <1>2, <1>3
  <1>5. /\ PlainFactor(c, j, b).num = StepOf(c, ab) /\ PlainFactor(c, j, s).num = StepOf(c, as)
        /\ PlainFactor(c, s, b).num = StepOf(c, up) /\ PlainFactor(c, b, s).num = StepOf(c, down)
    BY <1>1, <1>3 DEF PlainFactor, StepOf
  <1>6. StepOf(c, 0) \in Nat \ {0} /\ StepOf(c, 0) <= StepOf(c, ab) /\ StepOf(c, ab) \in Nat
    BY <1>1, <1>4, StepRises
  <1>7. StepOf(c, as) \in Nat /\ StepOf(c, as) <= StepOf(c, ab)
    BY <1>1, <1>4, StepRises
  <1>8. /\ StepOf(c, down) \in Nat /\ StepOf(c, up) \in Nat /\ StepOf(c, down) <= StepOf(c, up)
        /\ kb < ks => StepOf(c, down) < StepOf(c, up)
    BY <1>1, <1>4, StepRises
  <1>9. StepOf(c, ab) \in Nat \ {0}
    <2>1. PICK x \in Nat \ {0}, y \in Nat : x = StepOf(c, 0) /\ y = StepOf(c, ab) /\ x <= y
      BY <1>6
    <2>2. y # 0
      BY <2>1
    <2>3. QED
      BY <2>1, <2>2
  <1>10. QED
    BY <1>1, <1>5, <1>7, <1>8, <1>9

(* Products of a larger number by a larger factor.                         *)
LEMMA Outweighs ==
  ASSUME NEW x \in Nat, NEW y \in Nat, NEW a \in Nat \ {0}, NEW b \in Nat, y <= x, b <= a
  PROVE  /\ x * a \in Nat /\ y * b \in Nat /\ y * b <= x * a
         /\ y < x => y * b < x * a
  <1>1. PICK e \in Nat, f \in Nat : x = y + e /\ a = b + f
    <2>1. x - y \in Nat /\ a - b \in Nat /\ x = y + (x - y) /\ a = b + (a - b)
      OBVIOUS
    <2>2. QED
      BY <2>1
  <1>2. PICK yb \in Nat, yf \in Nat, ea \in Nat : yb = y * b /\ yf = y * f /\ ea = e * a
    <2>1. y * b \in Nat /\ y * f \in Nat /\ e * a \in Nat
      BY ProductInNat
    <2>2. QED
      BY <2>1
  <1>3. (y + e) * a = y * a + e * a /\ y * (b + f) = y * b + y * f
    OBVIOUS
  <1>4. x * a = yb + yf + ea
    BY <1>1, <1>2, <1>3
  <1>5. y < x => ea \in Nat \ {0}
    <2>1. HAVE y < x
    <2>2. e \in Nat \ {0}
      BY <1>1, <2>1
    <2>3. QED
      BY <1>2, <2>2, PositiveProduct
  <1>6. QED
    BY <1>2, <1>4, <1>5

(* What each of two slots still lacks of the factor over the other one is  *)
(* counted ahead, so that at every stage of their products the slot of a   *)
(* lowest key is not behind.                                               *)
LEMMA LowestOutweighs ==
  ASSUME NEW c, IsCubic(c), OnGrid(c), NEW b \in DOMAIN c.keys, NEW s \in DOMAIN c.keys, b # s,
         \A j \in DOMAIN c.keys : c.keys[b] <= c.keys[j]
  PROVE  /\ PlainMask(c, s).num <= PlainMask(c, b).num
         /\ c.keys[b] < c.keys[s] => PlainMask(c, s).num < PlainMask(c, b).num
  <1>1. PICK n : n = Len(c.keys) /\ n \in Nat /\ DOMAIN c.keys = 1 .. n
    BY CubicKeys
  <1>2. PICK u, v : u = PlainFactors(c, b) /\ v = PlainFactors(c, s)
    OBVIOUS
  <1>3. PICK p : IsProduct(p, u, n) /\ PlainMask(c, b) = p[n]
    BY <1>1, <1>2, PlainMaskSteps
  <1>4. PICK q : IsProduct(q, v, n) /\ PlainMask(c, s) = q[n]
    BY <1>1, <1>2, PlainMaskSteps
  <1>5. PICK up, down : up = PlainFactor(c, s, b).num /\ down = PlainFactor(c, b, s).num
    OBVIOUS
  <1>6. /\ up \in Nat /\ down \in Nat /\ down <= up /\ (c.keys[b] < c.keys[s] => down < up)
        /\ b \in 1 .. n /\ s \in 1 .. n
    BY <1>1, <1>5, FactorsOf
  <1>7. /\ u[b].num = 1 /\ v[s].num = 1 /\ u[s].num = up /\ v[b].num = down
        /\ \A j \in 1 .. n : j # b /\ j # s =>
             /\ u[j].num \in Nat \ {0} /\ v[j].num \in Nat /\ v[j].num <= u[j].num
    <2>1. \A j \in 1 .. n : /\ u[j] = IF j = b THEN One ELSE PlainFactor(c, j, b)
                            /\ v[j] = IF j = s THEN One ELSE PlainFactor(c, j, s)
      BY <1>1, <1>2 DEF PlainFactors
    <2>2. u[b].num = 1 /\ v[s].num = 1 /\ u[s].num = up /\ v[b].num = down
      BY <1>5, <1>6, <2>1 DEF One
    <2>3. ASSUME NEW j \in 1 .. n, j # b, j # s
          PROVE  u[j].num \in Nat \ {0} /\ v[j].num \in Nat /\ v[j].num <= u[j].num
      <3>1. u[j] = PlainFactor(c, j, b) /\ v[j] = PlainFactor(c, j, s) /\ j \in DOMAIN c.keys
        BY <1>1, <2>1, <2>3
      <3>2. QED
        BY <3>1, FactorsOf
    <2>4. QED
      BY <2>2, <2>3
  <1>8. /\ p[0].num = 1 /\ q[0].num = 1
        /\ \A k \in 0 .. n : p[k].num \in Int /\ q[k].num \in Int
        /\ \A k \in 1 .. n : /\ p[k].num = p[k - 1].num * u[k].num
                             /\ q[k].num = q[k - 1].num * v[k].num
    <2>1. p[0].num = 1 /\ q[0].num = 1
      BY <1>3, <1>4 DEF IsProduct, One
    <2>2. \A k \in 0 .. n : p[k].num \in Int /\ q[k].num \in Int
      BY <1>3, <1>4 DEF IsProduct, Fractions
    <2>3. \A k \in 1 .. n : p[k] = Times(p[k - 1], u[k]) /\ q[k] = Times(q[k - 1], v[k])
      BY <1>3, <1>4 DEF IsProduct
    <2>5. \A k \in 1 .. n : /\ Times(p[k - 1], u[k]).num = p[k - 1].num * u[k].num
                            /\ Times(q[k - 1], v[k]).num = q[k - 1].num * v[k].num
      BY DEF Times
    <2>6. \A k \in 1 .. n : /\ p[k].num = p[k - 1].num * u[k].num
                            /\ q[k].num = q[k - 1].num * v[k].num
      BY <2>3, <2>5
    <2>4. QED
      BY <2>1, <2>2, <2>6
  <1> DEFINE X(k) == IF k < s THEN p[k].num * up ELSE p[k].num
             Y(k) == IF k < b THEN q[k].num * down ELSE q[k].num
             Good(x, y) == x \in Nat /\ y \in Nat /\ y <= x /\ (down < up => y < x)
             T == {k \in Nat : k <= n => Good(X(k), Y(k))}
  <1>9. 0 \in T
    <2>1. 0 < s /\ 0 < b /\ 1 * up = up /\ 1 * down = down
      BY <1>6
    <2>2. X(0) = up /\ Y(0) = down
      BY <1>8, <2>1
    <2> HIDE DEF X, Y
    <2>3. QED
      BY <1>6, <2>2
  <1>10. ASSUME NEW k \in Nat, k \in T PROVE k + 1 \in T
    <2>1. SUFFICES ASSUME k + 1 <= n PROVE Good(X(k + 1), Y(k + 1))
      OBVIOUS
    <2>2. k \in 0 .. n /\ k + 1 \in 1 .. n /\ (k + 1) - 1 = k
      BY <1>1, <2>1
    <2>3. Good(X(k), Y(k))
      <3> HIDE DEF X, Y, Good
      <3>1. QED
        BY <1>1, <1>10, <2>1
    <2>4. PICK x \in Int, y \in Int : x = p[k].num /\ y = q[k].num
      BY <1>8, <2>2
    <2>5. p[k + 1].num = x * u[k + 1].num /\ q[k + 1].num = y * v[k + 1].num
      BY <1>8, <2>2, <2>4
    <2>6. b \in Nat /\ s \in Nat
      BY <1>6
    <2> HIDE DEF Good
    <2>7. CASE k + 1 = s
      <3>1. k < s /\ ~(k + 1 < s) /\ (k < b <=> k + 1 < b)
        BY <2>6, <2>7
      <3>2. p[k + 1].num = x * up /\ q[k + 1].num = y
        BY <1>7, <2>4, <2>5, <2>7
      <3>3. X(k + 1) = X(k) /\ Y(k + 1) = Y(k)
        BY <2>4, <3>1, <3>2
      <3>4. QED
        BY <2>3, <3>3
    <2>8. CASE k + 1 = b
      <3>1. k < b /\ ~(k + 1 < b) /\ (k < s <=> k + 1 < s)
        BY <2>6, <2>8
      <3>2. p[k + 1].num = x /\ q[k + 1].num = y * down
        BY <1>7, <2>4, <2>5, <2>8
      <3>3. X(k + 1) = X(k) /\ Y(k + 1) = Y(k)
        BY <2>4, <3>1, <3>2
      <3>4. QED
        BY <2>3, <3>3
    <2>9. CASE k + 1 # s /\ k + 1 # b
      <3>1. PICK a \in Nat \ {0}, e \in Nat : a = u[k + 1].num /\ e = v[k + 1].num /\ e <= a
        BY <1>7, <2>2, <2>9
      <3>2. (k < s <=> k + 1 < s) /\ (k < b <=> k + 1 < b)
        BY <2>6, <2>9
      <3>3. (x * a) * up = (x * up) * a /\ (y * e) * down = (y * down) * e
        BY <1>6
      <3>4. p[k + 1].num = x * a /\ q[k + 1].num = y * e
        BY <2>5, <3>1
      <3>5. X(k + 1) = X(k) * a
        BY <2>4, <3>2, <3>3, <3>4
      <3>6. Y(k + 1) = Y(k) * e
        BY <2>4, <3>2, <3>3, <3>4
      <3> HIDE DEF X, Y
      <3>7. PICK xx, yy : xx = X(k) /\ yy = Y(k)
        OBVIOUS
      <3>8. xx \in Nat /\ yy \in Nat /\ yy <= xx /\ (down < up => yy < xx)
        BY <2>3, <3>7 DEF Good
      <3>9. /\ xx * a \in Nat /\ yy * e \in Nat /\ yy * e <= xx * a
            /\ yy < xx => yy * e < xx * a
        BY <3>1, <3>8, Outweighs
      <3>10. X(k + 1) = xx * a /\ Y(k + 1) = yy * e
        BY <3>5, <3>6, <3>7
      <3>11. Good(xx * a, yy * e)
        BY <3>8, <3>9 DEF Good
      <3>12. QED
        BY <3>10, <3>11
    <2>10. QED
      BY <2>7, <2>8, <2>9
  <1>11. \A k \in Nat : k \in T
    <2> HIDE DEF T
    <2>1. QED
      BY <1>9, <1>10, Induction
  <1>12. Good(X(n), Y(n))
    <2> HIDE DEF X, Y, Good
    <2>1. QED
      BY <1>1, <1>11
  <1>13. X(n) = p[n].num /\ Y(n) = q[n].num
    BY <1>1, <1>6
  <1>14. QED
    BY <1>3, <1>4, <1>6, <1>12, <1>13

(* The mask has a slot for every key.                                      *)
LEMMA MaskShape ==
  ASSUME NEW c, IsCubic(c)
  PROVE  Eval(c) \in Ciphertexts(Len(c.keys))
  <1>1. PICK n : n = Len(c.keys) /\ n \in Nat
    BY CubicKeys
  <1>2. PICK rows \in Stages(n) : Len(rows) = n /\ Eval(c) = BalancedProduct(rows)
    BY <1>1, RowsAre DEF IsCubic
  <1>3. PICK tree : /\ Iterates(tree, Stages(n), rows, PairUp(n), Len(rows))
                    /\ BalancedProduct(rows) = tree[Len(rows)][1]
    BY <1>1, <1>2, TreeSteps
  <1>4. PICK t \in Stages(n) : t = tree[n]
    BY <1>1, <1>2, <1>3 DEF Iterates
  <1>5. t \in Seq(Ciphertexts(n)) /\ Len(t) \in Nat \ {0}
    BY <1>1, PairsIs DEF Stages
  <1>6. t[1] \in Ciphertexts(n)
    BY <1>5
  <1>7. QED
    BY <1>1, <1>2, <1>3, <1>4, <1>6

(* The mask of a lowest key is highest, and higher than that of a key that *)
(* is not lowest.                                                          *)
LEMMA MasksOrdered ==
  ASSUME NEW c, IsCubic(c), OnGrid(c), NEW b \in DOMAIN c.keys, NEW s \in DOMAIN c.keys, b # s,
         \A j \in DOMAIN c.keys : c.keys[b] <= c.keys[j]
  PROVE  /\ Eval(c).slots[s] <= Eval(c).slots[b]
         /\ c.keys[b] < c.keys[s] => Eval(c).slots[s] < Eval(c).slots[b]
  <1>1. PICK u : u = Unit(c) /\ u \in Nat \ {0}
    BY FactorIs
  <1>2. PICK x \in Fractions, y \in Fractions : x = PlainMask(c, s) /\ y = PlainMask(c, b)
    BY MaskIsScaled
  <1>3. Slot(Eval(c), s) = Times(x, Full(c)) /\ Slot(Eval(c), b) = Times(y, Full(c))
    BY <1>2, MaskIsScaled
  <1>4. Eval(c).slots[s] = x.num * u /\ Eval(c).slots[b] = y.num * u
    BY <1>1, <1>3 DEF Slot, Times, Full
  <1>5. PICK v, w : v = x.num /\ w = y.num /\ v \in Int /\ w \in Int
    BY DEF Fractions
  <1>6. v <= w /\ (c.keys[b] < c.keys[s] => v < w)
    BY <1>2, <1>5, LowestOutweighs
  <1>7. v < w => v * u < w * u
    <2>1. HAVE v < w
    <2>2. PICK e \in Nat \ {0} : e = w - v
      BY <1>5, <2>1
    <2>3. w * u = v * u + e * u
      BY <1>1, <1>5, <2>2
    <2>4. PICK eu \in Nat \ {0} : eu = e * u
      BY <1>1, PositiveProduct
    <2>5. PICK vu \in Int : vu = v * u
      BY <1>1, <1>5
    <2>6. QED
      BY <2>3, <2>4, <2>5
  <1>8. v * u \in Int /\ w * u \in Int
    BY <1>1, <1>5
  <1>9. v = w => v * u = w * u
    OBVIOUS
  <1>10. v * u <= w * u
    BY <1>5, <1>6, <1>7, <1>8, <1>9
  <1>11. QED
    BY <1>4, <1>5, <1>6, <1>7, <1>10

LEMMA VectorsOnGrid == ASSUME NEW keys \in Vectors PROVE OnGrid(Circuit(keys))
  BY DEF OnGrid, Vectors, Circuit

(* At the end of the scan the best bid has a lowest key, and a lower one   *)
(* than every bid before it.                                               *)
LEMMA BestIsLowest ==
  ASSUME TypeOK, BestSoFar, i = Len(bids)
  PROVE  /\ best \in DOMAIN bids
         /\ \A j \in DOMAIN bids : /\ ~(BuildKey(bids[j]) < BuildKey(bids[best]))
                                   /\ j < best => BuildKey(bids[best]) < BuildKey(bids[j])
  <1>1. /\ Len(bids) \in Nat \ {0} /\ DOMAIN bids = 1 .. Len(bids) /\ best \in 0 .. Len(bids)
        /\ \A j \in DOMAIN bids : bids[j] \in DriverBids
    BY DEF TypeOK
  <1>2. best \in DOMAIN bids
    BY <1>1 DEF BestSoFar
  <1>3. ASSUME NEW a \in DriverBids, NEW b \in DriverBids
        PROVE  Beats(a, b) <=> BuildKey(a) < BuildKey(b)
    <2>1. Mask(a) > Mask(b) <=> Beats(a, b)
      BY KeyIsLexicographic
    <2>2. BuildKey(a) \in Int /\ BuildKey(b) \in Int
      BY KeyIsInt
    <2>3. QED
      BY <2>1, <2>2 DEF Mask
  <1>4. ASSUME NEW j \in DOMAIN bids
        PROVE  /\ ~(BuildKey(bids[j]) < BuildKey(bids[best]))
               /\ j < best => BuildKey(bids[best]) < BuildKey(bids[j])
    <2>1. PICK a \in DriverBids, b \in DriverBids : a = bids[j] /\ b = bids[best]
      BY <1>1, <1>2
    <2>2. ~Beats(a, b) /\ (j < best => Beats(b, a))
      BY <1>1, <1>2, <2>1 DEF BestSoFar
    <2>3. QED
      BY <1>3, <2>1, <2>2
  <1>5. QED
    BY <1>2, <1>4

(* The rider's scan over the soft masks of the circuit ends at the bid     *)
(* that the scan over the keys ends at: a lowest one, the first of them    *)
(* when keys are equal.                                                    *)
THEOREM CircuitAgrees == Spec => []CircuitPicksWinner
  <1>1. TypeOK /\ BestSoFar => CircuitPicksWinner
    <2>1. SUFFICES ASSUME TypeOK, BestSoFar, i = Len(bids), NEW m \in Masks, Normalises(m.keys)
                   PROVE  LET slots == m.mask.slots
                          IN  /\ \A s \in DOMAIN slots : /\ slots[s] <= slots[best]
                                                         /\ s < best => slots[s] < slots[best]
                              /\ Expected(m.keys)[best] = 1
      BY DEF CircuitPicksWinner
    <2>2. PICK keys \in Vectors : m = [keys |-> keys, mask |-> Eval(Circuit(keys))]
      BY DEF Masks
    <2>3. PICK c : /\ c = Circuit(keys) /\ IsCubic(c) /\ OnGrid(c) /\ c.keys = keys
                   /\ m.keys = keys /\ m.mask = Eval(c)
      BY <2>2, VectorsAreCubic, VectorsOnGrid DEF Circuit
    <2>4. /\ best \in DOMAIN bids
          /\ \A j \in DOMAIN bids : /\ ~(BuildKey(bids[j]) < BuildKey(bids[best]))
                                    /\ j < best => BuildKey(bids[best]) < BuildKey(bids[j])
      BY <2>1, BestIsLowest
    <2>5. DOMAIN keys = DOMAIN bids /\ \A j \in DOMAIN keys : keys[j] \in Int
      BY <2>1, <2>3, VectorsAreCubic DEF Normalises
    <2>6. \A j \in DOMAIN keys : ~(keys[j] < keys[best]) /\ (j < best => keys[best] < keys[j])
      BY <2>1, <2>3, <2>4, <2>5 DEF Normalises
    <2>7. best \in DOMAIN keys /\ \A j \in DOMAIN keys : keys[best] <= keys[j]
      BY <2>4, <2>5, <2>6
    <2>8. DOMAIN Eval(c).slots = DOMAIN keys /\ \A s \in DOMAIN keys : Eval(c).slots[s] \in Int
      <3>1. PICK n : n = Len(c.keys) /\ DOMAIN c.keys = 1 .. n
        BY <2>3, CubicKeys
      <3>2. Eval(c) \in Ciphertexts(n)
        BY <2>3, <3>1, MaskShape
      <3>3. Eval(c).slots \in [1 .. n -> Int]
        BY <3>2 DEF Ciphertexts
      <3>4. QED
        BY <2>3, <3>1, <3>3
    <2>9. ASSUME NEW s \in DOMAIN keys
          PROVE  /\ Eval(c).slots[s] <= Eval(c).slots[best]
                 /\ s < best => Eval(c).slots[s] < Eval(c).slots[best]
      <3>1. CASE s = best
        <4>1. Eval(c).slots[s] \in Int /\ s \in Int
          BY <2>8, VectorsAreCubic
        <4>2. QED
          BY <3>1, <4>1
      <3>2. CASE s # best
        <4>1. /\ Eval(c).slots[s] <= Eval(c).slots[best]
              /\ keys[best] < keys[s] => Eval(c).slots[s] < Eval(c).slots[best]
          BY <2>3, <2>7, <3>2, MasksOrdered
        <4>2. QED
          BY <2>6, <4>1
      <3>3. QED
        BY <3>1, <3>2
    <2>10. Expected(keys)[best] = 1
      BY <2>6, <2>7 DEF Expected
    <2>11. QED
      BY <2>3, <2>8, <2>9, <2>10
  <1>2. QED
    BY <1>1, TypeCorrect, BestSoFarHolds, PTL
=============================================================================
