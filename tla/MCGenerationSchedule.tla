------------------------ MODULE MCGenerationSchedule ------------------------
(* Three cases in one run: one generation of two pages with a short last    *)
(* chunk, one serial plan of two chunks, and any two of three generations   *)
(* of one chunk, of the same stage or of two stages that share the          *)
(* repository's tokens, one of them typed.                                  *)
EXTENDS GenerationSchedule, TLC

CONSTANTS g1, g2, g3, g4, g5, s1, s2, InFlight

Generations ==
    g1 :> [stage |-> s1, totalItems |-> 3, chunkItems |-> 2, maxAttempts |-> 2, repositoryTokens |-> 2]
 @@ g2 :> [stage |-> s1, totalItems |-> 1, chunkItems |-> 2, maxAttempts |-> 1, repositoryTokens |-> 1]
 @@ g3 :> [stage |-> s1, totalItems |-> 1, chunkItems |-> 1, maxAttempts |-> 1, repositoryTokens |-> 2]
 @@ g4 :> [stage |-> s2, totalItems |-> 1, chunkItems |-> 1, maxAttempts |-> 1, repositoryTokens |-> 1]
 @@ g5 :> [stage |-> s1, totalItems |-> 2, chunkItems |-> 1, maxAttempts |-> 1, repositoryTokens |-> 1]

MCSpecs == [e \in Digests |-> Generations[e]]

Symmetry == Permutations(Leases) \cup Permutations(Workers)

Existing == {e \in Digests : schedule[e].status # "absent"}

\* Bound on values held by workers and reapers together, and the three cases
\* kept apart: the long generations run alone.
Bounds ==
    /\ Cardinality(handles) + Cardinality(observed) <= InFlight
    /\ \/ Existing \subseteq {g1} /\ collecting = {}
       \/ Existing \subseteq {g5} /\ collecting = {}
       \/ Existing \cap {g1, g5} = {} /\ Cardinality(Existing) <= 2

=============================================================================
