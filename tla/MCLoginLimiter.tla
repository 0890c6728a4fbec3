--------------------------- MODULE MCLoginLimiter ---------------------------
(* Three clients, more than the table holds, and three requests. *)
EXTENDS LoginLimiter
==============================================================================
