----------------------------- MODULE MCJobQueue -----------------------------
(* The job table on a small instance.  Bounds: as many rows, leases and     *)
(* attempts as the cfg gives, and at most InFlight job values in the hands  *)
(* of workers, claimers and reapers together.                               *)
EXTENDS JobQueue, TLC, FiniteSets

CONSTANT InFlight

Symmetry == Permutations(Ids) \cup Permutations(Leases)

Bounds ==
    Cardinality(handles) + Cardinality(observed) + Cardinality(selected) <= InFlight

\* With one target at most one row is pending, so the created_at order never
\* decides anything.
View == <<jobs, handles, observed, selected, unseen, unseenForce>>

=============================================================================
