------------------------ MODULE MCSearchPublication ------------------------
(* One repository, two revisions. *)
EXTENDS SearchPublication

=============================================================================
