----------------------------- MODULE MCRepoLock -----------------------------
(* Three callers, two mirrors, one of them reached under two spellings. *)
EXTENDS RepoLock

MCNames == {"api", "API", "web"}
MCFold == [n \in MCNames |-> IF n = "API" THEN "api" ELSE n]

=============================================================================
