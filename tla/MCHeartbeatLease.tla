-------------------------- MODULE MCHeartbeatLease --------------------------
(* The runners' own durations in seconds: see the .cfg files. *)
EXTENDS HeartbeatLease
=============================================================================
