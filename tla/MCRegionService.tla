-------------------------- MODULE MCRegionService --------------------------
(* Three nodes on a line, 0, 2 and 4: the A17 between the first two, in    *)
(* both directions and beside a street between the same nodes, and the A4  *)
(* from the second to the third.  The place of closure is near them all.   *)
EXTENDS RegionService, TLC

MCPoints == 0 .. 4
Apart == [pq \in MCPoints \X MCPoints |->
            IF pq[1] < pq[2] THEN pq[2] - pq[1] ELSE pq[1] - pq[2]] @@ <<>>
Halves == [pq \in MCPoints \X MCPoints |-> (pq[1] + pq[2]) \div 2] @@ <<>>
MCDistance == Apart
MCMidway == Halves
MCInf == -1

MCClassOf == [motorway |-> "motorway", residential |-> "local"]
MCDefaultPace == [motorway |-> 2, local |-> 4]

Road(from, to, class, ref, pace) ==
  [from |-> from, to |-> to, len |-> 2, class |-> class, ref |-> ref, pace |-> pace]

MCRegion ==
  [at |-> <<0, 2, 4>>,
   edges |-> << Road(1, 2, "motorway", "A17", 1), Road(2, 1, "motorway", "A17", 1),
                Road(1, 2, "local", "", 4), Road(2, 3, "trunk", "A4", 2) >>]

MCRefs == <<"A4", "A17">>

MCRequests == { << <<1, 2>>, <<2, 3>> >>, << <<1, 2, 3>> >>, << <<1>>, <<2>>, <<3>> >> }
=============================================================================
