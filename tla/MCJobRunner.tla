----------------------------- MODULE MCJobRunner ----------------------------
(* The workers on small instances. *)
EXTENDS JobRunner, TLC

Symmetry == Permutations(Ids) \cup Permutations(Leases) \cup Permutations(Workers)

\* Record ids and lease tokens are interchangeable.  Where liveness rules a
\* symmetry reduction out, rows and claims take them in one fixed order.
InOrder ==
    \A i \in Ids :
        /\ jobs[i].status = "free" /\ jobs'[i].status # "free" =>
              i = CHOOSE j \in Ids : jobs[j].status = "free"
        /\ jobs[i].status = "pending" /\ jobs'[i].status = "claimed" =>
              jobs'[i].lease = CHOOSE l \in Leases : Q!Fresh(l)

\* What a worker still needs of its turn: the crossing while the handler runs,
\* what it returned until that is reported.
TurnOf(w) ==
    CASE pc[w] = "handle" -> <<crossed[w]>>
      [] pc[w] = "report" -> <<outcome[w], tagged[w], Unmarked(w)>>
      [] OTHER -> <<>>

\* With one target at most one row is pending, so the created_at order never
\* decides anything.
View == <<jobs, unseen, unseenForce, pc, job, sel, batch, [w \in Workers |-> TurnOf(w)],
          drainBy, canceled, faults, yields>>

=============================================================================
