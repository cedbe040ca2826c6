------------------------------ MODULE Discovery ------------------------------
(***************************************************************************)
(* The H3 grid as far as discovery uses it, and Registry.Discover.         *)
(*                                                                         *)
(* A cell is a value with a resolution and, unless its resolution is 0, a  *)
(* parent one resolution coarser.  Ancestry follows the cell index, so the *)
(* cells form a forest.  H3 itself is a library: only Parent and           *)
(* Resolution of it are used here.                                         *)
(***************************************************************************)
EXTENDS Integers, FiniteSets

CONSTANTS
  Cells,      \* the valid cells
  NoCell,     \* no cell: what the parent of a resolution 0 cell would be
  ParentOf,   \* [Cells -> Cells \cup {NoCell}]
  Resolution  \* [Cells -> Nat]

ASSUME NoCellAssumption == NoCell \notin Cells
ASSUME GridAssumption ==
  /\ IsFiniteSet(Cells)
  /\ ParentOf \in [Cells -> Cells \cup {NoCell}]
  /\ Resolution \in [Cells -> Nat]
  /\ \A c \in Cells :
       IF Resolution[c] = 0
       THEN ParentOf[c] = NoCell
       ELSE ParentOf[c] \in Cells /\ Resolution[ParentOf[c]] = Resolution[c] - 1

(* Ancestor[<<c, k>>] is the ancestor of c that is k resolutions coarser,  *)
(* NoCell beyond 0.                                                        *)
Ancestor[x \in Cells \X Nat] ==
  IF x[2] = 0 THEN x[1]
  ELSE IF ParentOf[x[1]] = NoCell THEN NoCell ELSE Ancestor[<<ParentOf[x[1]], x[2] - 1>>]

(* contains: q is c, or c.Parent(q.Resolution()) yields q.  Parent fails   *)
(* for a resolution finer than c's own, and contains is then false.        *)
Contains(q, c) ==
  \/ q = c
  \/ /\ Resolution[q] <= Resolution[c]
     /\ Ancestor[<<c, Resolution[c] - Resolution[q]>>] = q

(* SetCell and, with NoCell, Remove. *)
Register(driver, p, c) == [driver EXCEPT ![p] = c]

(* The drivers of a registry that the query cell q contains. *)
Within(driver, q) ==
  {p \in DOMAIN driver : driver[p] # NoCell /\ Contains(q, driver[p])}

(* A cell and how often the query was widened to it. *)
Widened == (Cells \cup {NoCell}) \X Nat

(* Slip: one candidate more than asked for has to be found. *)
FinalCellSlip(driver, start, target, maxWiden) ==
  LET EndsAt(q, w) ==
        q = NoCell \/ Cardinality(Within(driver, q)) > target \/ w >= maxWiden
      Query[x \in Widened] ==
        IF EndsAt(x[1], x[2]) THEN x[1] ELSE Query[<<ParentOf[x[1]], x[2] + 1>>]
  IN  Query[<<start, 0>>]

(* The cell where a query ends: it is widened until there are target       *)
(* candidates, but no more than maxWiden times.  Widen panics at           *)
(* resolution 0; the query then ends at NoCell.                            *)
FinalCell(driver, start, target, maxWiden) ==
  LET EndsAt(q, w) ==
        q = NoCell \/ Cardinality(Within(driver, q)) >= target \/ w >= maxWiden
      Query[x \in Widened] ==
        IF EndsAt(x[1], x[2]) THEN x[1] ELSE Query[<<ParentOf[x[1]], x[2] + 1>>]
  IN  Query[<<start, 0>>]

(* Registry.Discover: the candidates in the final cell. *)
Discover(driver, start, target, maxWiden) ==
  LET q == FinalCell(driver, start, target, maxWiden)
  IN  [cands |-> IF q = NoCell THEN {} ELSE Within(driver, q), final |-> q]
=============================================================================
