---------------------------- MODULE MCLifecycle -----------------------------
(* Two owners of at most two repositories. *)
EXTENDS Lifecycle
=============================================================================
