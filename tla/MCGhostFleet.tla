---------------------------- MODULE MCGhostFleet ----------------------------
(* A region of three nodes, two of them in one place: a slow road with a   *)
(* faster edge beside it leads there, a road of no length joins the two,   *)
(* and a motorway leads back; a cell around either place, and a cell       *)
(* elsewhere.                                                              *)
EXTENDS GhostFleet, TLC

CONSTANTS cell1, cell2, elsewhere, fair, low

MCLength ==
  <<>> @@ [r \in {<<1, 2>>, <<2, 3>>, <<3, 2>>, <<3, 1>>} |-> IF 1 \in {r[1], r[2]} THEN 4 ELSE 0]

(* Two units a tick on the slow road, eight on the motorway. *)
MCEdges ==
  <<>> @@ [r \in DOMAIN MCLength |->
     CASE r = <<1, 2>> -> <<[len |-> 4, time |-> 4], [len |-> 4, time |-> 2]>>
       [] r = <<3, 1>> -> <<[len |-> 4, time |-> 1]>>
       [] OTHER -> <<[len |-> 0, time |-> 0]>>]

(* The nearer end's cell; an unknown node has the coordinates 0, 0. *)
MCCellAt(f, t, off) ==
  LET near == IF f = t \/ 2 * off <= MCLength[<<f, t>>] THEN f ELSE t
  IN CASE near = 1 -> cell1 [] near \in {2, 3} -> cell2 [] OTHER -> elsewhere

MCOffered == [s \in Sids |-> IF s = low THEN 7 ELSE 8]
=============================================================================
