------------------------- MODULE MCDispatchAdmission -------------------------
(* A parent, its child, both with a persistent site, and the child's successor,
   which has a thread of its own only in the larger instance. *)
EXTENDS DispatchAdmission, TLC
CONSTANTS a, c1, c2, s
MCWorkers == [p \in Producers |-> CASE p = Parent -> {a} [] p = Child -> {c1, c2} [] OTHER -> {}]
MCAllWorkers == [MCWorkers EXCEPT ![Successor] = {s}]
MCSymmetry == Permutations({c1, c2})

\* Of the child's threads only the first runs a persistent command.  The bound is
\* on what threads begin, which no fairness asks for.
OneSite == ~ work'[Child][c2].persistent
==============================================================================
