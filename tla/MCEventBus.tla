----------------------------- MODULE MCEventBus -----------------------------
(* Two dashboards on a bus whose channels hold two events. *)
EXTENDS EventBus
=============================================================================
