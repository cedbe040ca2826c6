----------------------------- MODULE MCDemoLoop -----------------------------
(* The demo with three drivers, so that two may bid while one does not.    *)
EXTENDS DemoLoop
=============================================================================
