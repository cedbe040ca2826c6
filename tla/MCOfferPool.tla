---------------------------- MODULE MCOfferPool ----------------------------
(* The offer pool on a small instance: three ids for a pool of two, two    *)
(* drivers, and a life of three units that is no multiple of the sweeper's *)
(* period of two, so that offers expire on a tick and between two ticks.   *)
EXTENDS OfferPool
=============================================================================
