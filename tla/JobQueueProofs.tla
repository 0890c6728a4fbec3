--------------------------- MODULE JobQueueProofs ---------------------------
(* Machine-checked safety of the job table, for any number of rows,         *)
(* targets, leases, workers, reapers and any attempt limit.  Every          *)
(* operation is first shown to keep the types and then to have a few        *)
(* effects on the rows; the inductive invariant and the action properties   *)
(* follow from the effects alone.                                           *)
EXTENDS JobQueue, TLAPS

-----------------------------------------------------------------------------
(* The inductive invariant *)

\* A value read or claimed earlier still describes its row while it owns it.
ValuesFresh ==
    \A h \in handles \cup observed :
        Owned(h, Active) => /\ jobs[h.id].target = h.target
                            /\ jobs[h.id].attempts = h.attempts
                            /\ jobs[h.id].force = h.force

\* The pending row that stands for an unseen event belongs to no lease.
EventUntagged ==
    \A t \in unseen : \E p \in PendingFor(t) : jobs[p].recovery = NoLease

ForceUntagged ==
    \A t \in unseenForce :
        \E p \in PendingFor(t) : jobs[p].recovery = NoLease /\ jobs[p].force

IInv ==
    /\ TypeOK
    /\ OnePendingPerTarget
    /\ ValuesFresh
    /\ EventUntagged
    /\ ForceUntagged
    /\ AttemptsBounded

-----------------------------------------------------------------------------
(* Type correctness *)

\* What a created row holds.
LEMMA NewRowFields ==
    ASSUME NEW t \in Targets, NEW f \in BOOLEAN, NEW r \in Leases \cup {NoLease}
    PROVE  /\ NewRow(t, f, r) \in Row
           /\ NewRow(t, f, r).target = t
           /\ NewRow(t, f, r).status = "pending"
           /\ NewRow(t, f, r).attempts = 0
           /\ NewRow(t, f, r).force = f
           /\ NewRow(t, f, r).lease = NoLease
           /\ NewRow(t, f, r).recovery = r
  BY DEF NewRow, Row, Status

\* What settling a leased row changes and keeps.
LEMMA SettledFields ==
    ASSUME NEW row \in Row, NEW s \in Status, NEW n \in Nat
    PROVE  /\ Settled(row, s, n) \in Row
           /\ Settled(row, s, n).target = row.target
           /\ Settled(row, s, n).status = s
           /\ Settled(row, s, n).attempts = n
           /\ Settled(row, s, n).lease = NoLease
  BY DEF Settled, Row

\* What a coalescing event changes and keeps.
LEMMA CoalescedFields ==
    ASSUME NEW row \in Row, NEW f \in BOOLEAN
    PROVE  /\ Coalesced(row, f) \in Row
           /\ Coalesced(row, f).target = row.target
           /\ Coalesced(row, f).status = row.status
           /\ Coalesced(row, f).attempts = row.attempts
           /\ Coalesced(row, f).force = (row.force \/ f)
           /\ Coalesced(row, f).lease = row.lease
           /\ Coalesced(row, f).recovery = NoLease
  <1>1. (row.force \/ f) \in BOOLEAN
    OBVIOUS
  <1> QED
    BY <1>1 DEF Coalesced, Row

\* What handing a leased row back changes and keeps.
LEMMA ReturnedFields ==
    ASSUME NEW row \in Row, NEW n \in Nat, NEW g \in BOOLEAN
    PROVE  /\ Returned(row, n, g) \in Row
           /\ Returned(row, n, g).target = row.target
           /\ Returned(row, n, g).status = "pending"
           /\ Returned(row, n, g).attempts = n
           /\ Returned(row, n, g).force = row.force
           /\ Returned(row, n, g).lease = NoLease
           /\ Returned(row, n, g).recovery = NoLease
  BY DEF Returned, Row, Status

\* What folding a leased row into a pending one changes and keeps.
LEMMA MergedFields ==
    ASSUME NEW row \in Row, NEW f \in BOOLEAN, NEW n \in Nat, NEW g \in BOOLEAN
    PROVE  /\ Merged(row, f, n, g) \in Row
           /\ Merged(row, f, n, g).target = row.target
           /\ Merged(row, f, n, g).status = row.status
           /\ Merged(row, f, n, g).attempts = n
           /\ Merged(row, f, n, g).force = (row.force \/ f)
           /\ Merged(row, f, n, g).lease = row.lease
           /\ Merged(row, f, n, g).recovery = NoLease
  <1>1. (row.force \/ f) \in BOOLEAN
    OBVIOUS
  <1> QED
    BY <1>1 DEF Merged, Row

\* What taking a force request over changes and keeps.
LEMMA UpgradedFields ==
    ASSUME NEW row \in Row, NEW f \in BOOLEAN
    PROVE  /\ Upgraded(row, f) \in Row
           /\ Upgraded(row, f).target = row.target
           /\ Upgraded(row, f).status = row.status
           /\ Upgraded(row, f).attempts = row.attempts
           /\ Upgraded(row, f).force = (row.force \/ f)
           /\ Upgraded(row, f).lease = row.lease
           /\ Upgraded(row, f).recovery = row.recovery
  <1>1. (row.force \/ f) \in BOOLEAN
    OBVIOUS
  <1> QED
    BY <1>1 DEF Upgraded, Row

\* What claiming a pending row changes and keeps.
LEMMA ClaimedFields ==
    ASSUME NEW row \in Row, NEW l \in Leases
    PROVE  /\ Claimed(row, l) \in Row
           /\ Claimed(row, l).target = row.target
           /\ Claimed(row, l).status = "claimed"
           /\ Claimed(row, l).attempts = row.attempts
           /\ Claimed(row, l).force = row.force
           /\ Claimed(row, l).lease = l
  BY DEF Claimed, Row, Status

\* What withdrawing or exhausting a pending row changes and keeps.
LEMMA DroppedFields ==
    ASSUME NEW row \in Row, NEW n \in Nat
    PROVE  /\ Canceled(row) \in Row
           /\ Canceled(row).status = "canceled"
           /\ Canceled(row).lease = row.lease
           /\ Failed(row, n) \in Row
           /\ Failed(row, n).status = "failed"
           /\ Failed(row, n).lease = row.lease
  BY DEF Canceled, Failed, Row, Status

\* What the single-field writes change and keep.
LEMMA FlagFields ==
    ASSUME NEW row \in Row, NEW b \in BOOLEAN
    PROVE  /\ Running(row) \in Row /\ Aged(row, b) \in Row /\ Opened(row) \in Row
           /\ Running(row).status = "running"
           /\ Aged(row, b).status = row.status
           /\ Opened(row).status = row.status
           /\ Running(row).lease = row.lease
           /\ Aged(row, b).lease = row.lease
           /\ Opened(row).lease = row.lease
           /\ Running(row).target = row.target
           /\ Aged(row, b).target = row.target
           /\ Opened(row).target = row.target
           /\ Running(row).attempts = row.attempts
           /\ Aged(row, b).attempts = row.attempts
           /\ Opened(row).attempts = row.attempts
           /\ Running(row).force = row.force
           /\ Aged(row, b).force = row.force
           /\ Opened(row).force = row.force
           /\ Aged(row, b).recovery = row.recovery
           /\ Opened(row).recovery = row.recovery
  BY DEF Row, Status, Running, Aged, Opened

\* The initial table is empty and every history variable with it.
LEMMA InitTypeOK == Init => TypeOK
  <1> SUFFICES ASSUME Init PROVE TypeOK
    OBVIOUS
  <1>1. FreeRow \in Row /\ FreeRow.status = "free" /\ FreeRow.lease = NoLease
    BY TargetsAssumption, NewRowFields DEF FreeRow, NewRow, Row, Status
  <1> QED
    BY <1>1 DEF Init, TypeOK, RowsOK, Active

\* A held or observed value names a row.
LEMMA HandleOfType ==
    ASSUME RowsOK, NEW i \in Ids, NEW l \in Leases
    PROVE  /\ [HandleOf(i) EXCEPT !.lease = l] \in Handle
           /\ jobs[i].lease \in Leases => HandleOf(i) \in Handle
  BY DEF RowsOK, HandleOf, Handle, Row

\* The created_at order stays an order on rows.
LEMMA ToTailType ==
    ASSUME before \in [Ids -> SUBSET Ids], NEW i \in Ids
    PROVE  ToTail(i) \in [Ids -> SUBSET Ids]
  BY DEF ToTail

\* A row that keeps the pairing of status and lease.
Paired(r) == r \in Row /\ (r.status \in Active <=> r.lease # NoLease)

\* Settling, returning and merging write paired rows.
LEMMA PairedWrites ==
    ASSUME LeaseAssumption, NEW row \in Row, NEW n \in Nat, NEW g \in BOOLEAN, NEW f \in BOOLEAN
    PROVE  /\ \A s \in Status \ Active : Paired(Settled(row, s, n))
           /\ Paired(Returned(row, n, g))
           /\ Paired(row) => Paired(Merged(row, f, n, g))
  <1>1. ASSUME NEW s \in Status \ Active PROVE Paired(Settled(row, s, n))
    BY <1>1, SettledFields DEF Paired
  <1>2. Paired(Returned(row, n, g))
    BY ReturnedFields DEF Paired, Active
  <1>3. ASSUME Paired(row) PROVE Paired(Merged(row, f, n, g))
    BY <1>3, MergedFields DEF Paired
  <1> QED
    BY <1>1, <1>2, <1>3

\* Every operation of the table preserves the types and the pairing of a
\* lease token with an active status.
LEMMA NextTypeOK == TypeOK /\ [Next]_vars => TypeOK'
  <1> SUFFICES ASSUME TypeOK, [Next]_vars PROVE TypeOK'
    OBVIOUS
  <1> USE LeaseAssumption
  <1>20. /\ "failed" \in Status \ Active /\ "canceled" \in Status \ Active
         /\ "done" \in Status \ Active
         /\ "pending" \notin Active /\ "done" \notin Active
         /\ "failed" \notin Active /\ "canceled" \notin Active
         /\ "claimed" \in Active /\ "running" \in Active
    BY DEF Status, Active
  <1>21. /\ \A i \in Ids : jobs[i] \in Row /\ Paired(jobs[i]) /\ jobs[i].attempts \in Nat
                          /\ jobs[i].lease \in Leases \cup {NoLease}
         /\ \A t \in Targets : PendingFor(t) \subseteq Ids
         /\ \A t \in Targets : \A p \in PendingFor(t) : jobs[p].status = "pending"
    BY DEF TypeOK, RowsOK, Paired, Row, PendingFor
  <1>23. RowsOK /\ before \in [Ids -> SUBSET Ids]
    BY DEF TypeOK
  <1>22. \A h \in Handle : /\ h.id \in Ids /\ h.lease \in Leases /\ h.target \in Targets
                           /\ h.attempts \in Nat /\ h.force \in BOOLEAN
                           /\ h.attempts + 1 \in Nat
    BY DEF Handle
  <1>0. CASE UNCHANGED vars
    BY <1>0 DEF vars, TypeOK, RowsOK
  <1>1. ASSUME NEW t \in Targets, NEW f \in BOOLEAN, NEW r \in Leases \cup {NoLease},
               NEW i \in Ids, Create(i, t, f, r)
        PROVE  RowsOK' /\ before' \in [Ids -> SUBSET Ids]
    <2>1. Paired(NewRow(t, f, r))
      BY <1>20, NewRowFields DEF Paired
    <2> QED
      BY <1>1, <1>23, <2>1, ToTailType DEF Create, RowsOK, Paired
  <1>2. ASSUME NEW t \in Targets, CreateJob(t) PROVE TypeOK'
    BY <1>1, <1>2 DEF CreateJob, TypeOK
  <1>3. ASSUME NEW t \in Targets, NEW f \in BOOLEAN, EnqueuePending(t, f) PROVE TypeOK'
    <2>1. CASE PendingFor(t) = {} /\ \E i \in Ids : Create(i, t, f, NoLease)
      BY <1>1, <1>3, <2>1 DEF EnqueuePending, TypeOK
    <2>2. ASSUME NEW p \in PendingFor(t), jobs' = [jobs EXCEPT ![p] = Coalesced(@, f)],
                 UNCHANGED before
          PROVE  TypeOK'
      <3>1. p \in Ids /\ Paired(Coalesced(jobs[p], f))
        BY <1>21, CoalescedFields DEF Paired
      <3>2. RowsOK'
        BY <1>23, <2>2, <3>1 DEF RowsOK, Paired
      <3> QED
        BY <1>3, <2>2, <3>2 DEF EnqueuePending, TypeOK
    <2> QED
      BY <1>3, <2>1, <2>2 DEF EnqueuePending
  <1>4. ASSUME NEW t \in Targets, CancelPendingJobs(t) PROVE TypeOK'
    <2>1. \A p \in PendingFor(t) : Paired(Canceled(jobs[p]))
      BY <1>20, <1>21, DroppedFields DEF Paired
    <2>2. RowsOK'
      BY <1>4, <1>21, <2>1 DEF CancelPendingJobs, RowsOK, Paired
    <2> QED
      BY <1>4, <2>2 DEF CancelPendingJobs, TypeOK
  <1>5. ASSUME NEW i \in Ids, NEW l \in Leases, ClaimSelected(i, l) PROVE TypeOK'
    <2>1. Paired(Claimed(jobs[i], l))
      BY <1>20, <1>21, ClaimedFields DEF Paired
    <2>2. RowsOK'
      BY <1>5, <1>23, <2>1 DEF ClaimSelected, ClaimRow, RowsOK, Paired
    <2>3. handles' \subseteq Handle
      BY <1>5, <1>23, HandleOfType DEF ClaimSelected, ClaimRow, TypeOK
    <2>4. selected' \subseteq Ids
      BY <1>5 DEF ClaimSelected, ClaimRow, TypeOK
    <2> QED
      BY <1>5, <2>2, <2>3, <2>4 DEF ClaimSelected, ClaimRow, TypeOK
  <1>6. ASSUME NEW i \in Ids, ClaimSelect(i) \/ Deselect(i) PROVE TypeOK'
    BY <1>6 DEF ClaimSelect, Deselect, TypeOK, RowsOK
  <1>7. ASSUME NEW S, ReapSelect(S) PROVE TypeOK'
    <2>1. ASSUME NEW i \in StaleRows PROVE HandleOf(i) \in Handle
      <3>1. i \in Ids /\ jobs[i].lease \in Leases
        BY <1>21, <2>1 DEF StaleRows, Paired
      <3> QED
        BY <1>23, <3>1, HandleOfType
    <2>2. observed' \subseteq Handle
      BY <1>7, <2>1 DEF ReapSelect, TypeOK
    <2> QED
      BY <1>7, <2>2 DEF ReapSelect, TypeOK, RowsOK
  <1>8. ASSUME NEW i \in Ids, LeaseAges(i) \/ GateOpens(i) PROVE TypeOK'
    <2>0. jobs[i] \in Row /\ Paired(jobs[i])
      BY <1>21
    <2>1. Paired(Aged(jobs[i], TRUE)) /\ Paired(Opened(jobs[i]))
      BY <2>0, FlagFields DEF Paired
    <2>2. RowsOK'
      BY <1>8, <1>23, <2>1 DEF LeaseAges, GateOpens, RowsOK, Paired
    <2> QED
      BY <1>8, <2>2 DEF LeaseAges, GateOpens, Leased, TypeOK
  <1>9. ASSUME NEW h \in Handle, SetRunning(h) PROVE TypeOK'
    <2>0. /\ h.id \in Ids /\ jobs[h.id] \in Row /\ Paired(jobs[h.id])
          /\ jobs[h.id].attempts \in Nat /\ h.attempts + 1 \in Nat /\ h.force \in BOOLEAN
      BY <1>21, <1>22
    <2>1. Paired(Running(jobs[h.id]))
      BY <1>9, <1>20, <2>0, FlagFields DEF Paired, SetRunning, Owned, Active
    <2>2. RowsOK'
      BY <1>9, <1>23, <2>0, <2>1 DEF SetRunning, RowsOK, Paired
    <2> QED
      BY <1>9, <2>2 DEF SetRunning, Leased, TypeOK
  <1>10. ASSUME NEW h \in Handle, NEW s \in {"done", "failed"}, Settle(h, s) PROVE TypeOK'
    <2>0. /\ h.id \in Ids /\ jobs[h.id] \in Row /\ Paired(jobs[h.id])
          /\ jobs[h.id].attempts \in Nat /\ h.attempts + 1 \in Nat /\ h.force \in BOOLEAN
      BY <1>21, <1>22
    <2>1. Paired(Settled(jobs[h.id], s, jobs[h.id].attempts))
      <3>1. s \in Status \ Active
        BY <1>20
      <3> QED
        BY <2>0, <3>1, PairedWrites
    <2>2. RowsOK'
      BY <1>10, <1>23, <2>0, <2>1 DEF Settle, RowsOK, Paired
    <2> QED
      BY <1>10, <2>2 DEF Settle, Leased, TypeOK
  <1>11. ASSUME NEW h \in Handle, HeartbeatJob(h) PROVE TypeOK'
    <2>0. /\ h.id \in Ids /\ jobs[h.id] \in Row /\ Paired(jobs[h.id])
          /\ jobs[h.id].attempts \in Nat /\ h.attempts + 1 \in Nat /\ h.force \in BOOLEAN
      BY <1>21, <1>22
    <2>1. Paired(Aged(jobs[h.id], FALSE))
      BY <2>0, FlagFields DEF Paired
    <2>2. RowsOK'
      BY <1>11, <1>23, <2>0, <2>1 DEF HeartbeatJob, RowsOK, Paired
    <2> QED
      BY <1>11, <2>2 DEF HeartbeatJob, TypeOK
  <1>12. ASSUME NEW h \in Handle, NEW inc \in BOOLEAN, NEW g \in BOOLEAN,
                Owned(h, Active), HandBack(h, inc, g)
         PROVE  RowsOK'
    <2>0. /\ h.id \in Ids /\ jobs[h.id] \in Row /\ Paired(jobs[h.id])
          /\ jobs[h.id].attempts \in Nat /\ h.attempts + 1 \in Nat /\ h.force \in BOOLEAN
      BY <1>21, <1>22
    <2>1. ASSUME NEW n \in Nat, jobs' = [jobs EXCEPT ![h.id] = Returned(@, n, g)]
          PROVE  RowsOK'
      <3>1. Paired(Returned(jobs[h.id], n, g))
        BY <2>0, PairedWrites
      <3> QED
        BY <1>23, <2>0, <2>1, <3>1 DEF RowsOK, Paired
    <2>2. ASSUME NEW p \in PendingFor(h.target), NEW n \in Nat,
                 jobs' = [jobs EXCEPT
                   ![p] = Merged(@, h.force, n, g),
                   ![h.id] = Settled(@, "canceled", jobs[h.id].attempts)]
          PROVE  RowsOK'
      <3>1. p \in Ids /\ p # h.id /\ jobs[p] \in Row /\ Paired(jobs[p])
        BY <1>12, <1>20, <1>21, <1>22 DEF Owned
      <3>2. Paired(Merged(jobs[p], h.force, n, g))
        BY <2>0, <3>1, PairedWrites
      <3>3. Paired(Settled(jobs[h.id], "canceled", jobs[h.id].attempts))
        BY <1>20, <2>0, PairedWrites
      <3> QED
        BY <1>23, <2>0, <2>2, <3>1, <3>2, <3>3 DEF RowsOK, Paired
    <2>3. /\ (IF inc THEN h.attempts + 1 ELSE h.attempts) \in Nat
          /\ \A p \in PendingFor(h.target) :
                (IF inc THEN h.attempts + 1 ELSE jobs[p].attempts) \in Nat
      BY <1>21, <1>22
    <2> QED
      BY <1>12, <2>1, <2>2, <2>3 DEF HandBack
  <1>13. ASSUME NEW h \in Handle, RequeueJob(h) \/ ReleaseJob(h) PROVE TypeOK'
    BY <1>12, <1>13 DEF RequeueJob, ReleaseJob, ReturnToPending, Leased, TypeOK
  <1>14. ASSUME NEW h \in Handle, DeferJob(h) PROVE TypeOK'
    <2>0. /\ h.id \in Ids /\ jobs[h.id] \in Row /\ Paired(jobs[h.id])
          /\ jobs[h.id].attempts \in Nat /\ h.attempts + 1 \in Nat /\ h.force \in BOOLEAN
      BY <1>21, <1>22
    <2>1. CASE /\ jobs' = [jobs EXCEPT ![h.id] = Returned(@, jobs[h.id].attempts, TRUE)]
               /\ before' = ToTail(h.id)
      <3>1. Paired(Returned(jobs[h.id], jobs[h.id].attempts, TRUE))
        BY <2>0, PairedWrites
      <3>2. RowsOK' /\ before' \in [Ids -> SUBSET Ids]
        BY <1>23, <2>0, <2>1, <3>1, ToTailType DEF RowsOK, Paired
      <3> QED
        BY <1>14, <3>2 DEF DeferJob, TypeOK
    <2>2. ASSUME NEW p \in PendingFor(h.target),
                 jobs' = [jobs EXCEPT
                   ![p] = Upgraded(@, h.force),
                   ![h.id] = Settled(@, "canceled", jobs[h.id].attempts)],
                 UNCHANGED before
          PROVE  TypeOK'
      <3>1. p \in Ids /\ p # h.id /\ jobs[p] \in Row /\ Paired(jobs[p])
        BY <1>14, <1>20, <1>21, <1>22 DEF DeferJob, Owned
      <3>2. Paired(Upgraded(jobs[p], h.force))
        BY <2>0, <3>1, UpgradedFields DEF Paired
      <3>3. Paired(Settled(jobs[h.id], "canceled", jobs[h.id].attempts))
        BY <1>20, <2>0, PairedWrites
      <3>4. RowsOK'
        BY <1>23, <2>0, <2>2, <3>1, <3>2, <3>3 DEF RowsOK, Paired
      <3> QED
        BY <1>14, <2>2, <3>4 DEF DeferJob, TypeOK
    <2> QED
      BY <1>14, <2>1, <2>2 DEF DeferJob
  <1>15. ASSUME NEW h \in Handle, NEW f \in BOOLEAN, EnsureJobSuccessor(h, f) PROVE TypeOK'
    <2>0. /\ h.id \in Ids /\ jobs[h.id] \in Row /\ Paired(jobs[h.id])
          /\ jobs[h.id].attempts \in Nat /\ h.attempts + 1 \in Nat /\ h.force \in BOOLEAN
      BY <1>21, <1>22
    <2>1. CASE \E i \in Ids : Create(i, h.target, f, h.lease)
      BY <1>1, <1>15, <1>22, <2>1 DEF EnsureJobSuccessor, TypeOK
    <2>2. ASSUME NEW p \in PendingFor(h.target),
                 jobs' = [jobs EXCEPT ![p] = Upgraded(@, f)], UNCHANGED before
          PROVE  TypeOK'
      <3>0. p \in Ids /\ jobs[p] \in Row /\ Paired(jobs[p])
        BY <1>21, <1>22
      <3>1. p \in Ids /\ Paired(Upgraded(jobs[p], f))
        BY <3>0, UpgradedFields DEF Paired
      <3>2. RowsOK'
        BY <1>23, <2>2, <3>1 DEF RowsOK, Paired
      <3> QED
        BY <1>15, <2>2, <3>2 DEF EnsureJobSuccessor, TypeOK
    <2> QED
      BY <1>15, <2>1, <2>2 DEF EnsureJobSuccessor
  <1>16. ASSUME NEW h \in Handle, FailJobWithSuccessor(h) PROVE TypeOK'
    <2>0. /\ h.id \in Ids /\ jobs[h.id] \in Row /\ Paired(jobs[h.id])
          /\ jobs[h.id].attempts \in Nat /\ h.attempts + 1 \in Nat /\ h.force \in BOOLEAN
      BY <1>21, <1>22
    <2>1. ASSUME jobs' = [jobs EXCEPT ![h.id] = Settled(@, "failed", h.attempts + 1)]
          PROVE  RowsOK'
      <3>1. Paired(Settled(jobs[h.id], "failed", h.attempts + 1))
        BY <1>20, <2>0, PairedWrites
      <3> QED
        BY <1>23, <2>0, <2>1, <3>1 DEF RowsOK, Paired
    <2>2. ASSUME NEW s \in RecoveryFor(h.target, h.lease),
                 jobs' = [jobs EXCEPT
                   ![s] = Failed(@, h.attempts + 1),
                   ![h.id] = Settled(@, "canceled", jobs[h.id].attempts)]
          PROVE  RowsOK'
      <3>1. /\ s \in Ids /\ s # h.id /\ jobs[s] \in Row /\ Paired(jobs[s])
            /\ jobs[s].status = "pending"
        BY <1>16, <1>20, <1>21, <1>22 DEF FailJobWithSuccessor, Owned, RecoveryFor
      <3>2. Paired(Failed(jobs[s], h.attempts + 1))
        BY <1>20, <2>0, <3>1, DroppedFields DEF Paired
      <3>3. Paired(Settled(jobs[h.id], "canceled", jobs[h.id].attempts))
        BY <1>20, <2>0, PairedWrites
      <3> QED
        BY <1>23, <2>0, <2>2, <3>1, <3>2, <3>3 DEF RowsOK, Paired
    <2>3. RowsOK'
      BY <1>16, <2>1, <2>2 DEF FailJobWithSuccessor
    <2> QED
      BY <1>16, <2>3 DEF FailJobWithSuccessor, Leased, TypeOK
  <1>17. ASSUME NEW o \in Handle, ReapOne(o) PROVE TypeOK'
    <2>0. /\ o.id \in Ids /\ jobs[o.id] \in Row /\ Paired(jobs[o.id])
          /\ jobs[o.id].attempts \in Nat /\ o.attempts + 1 \in Nat /\ o.force \in BOOLEAN
      BY <1>21, <1>22
    <2>1. ASSUME jobs' = [jobs EXCEPT ![o.id] = Settled(@, "failed", jobs[o.id].attempts)]
          PROVE  RowsOK'
      <3>1. Paired(Settled(jobs[o.id], "failed", jobs[o.id].attempts))
        BY <1>20, <2>0, PairedWrites
      <3> QED
        BY <1>23, <2>0, <2>1, <3>1 DEF RowsOK, Paired
    <2>2. RowsOK'
      BY <1>12, <1>17, <2>1 DEF ReapOne
    <2> QED
      BY <1>17, <2>2 DEF ReapOne, TypeOK
  <1>18. ASSUME NEW h, Forget(h) \/ ReapForget(h) PROVE TypeOK'
    BY <1>18 DEF Forget, ReapForget, TypeOK, RowsOK
  <1>19. handles \subseteq Handle /\ observed \subseteq Handle /\ Forces \subseteq BOOLEAN
    BY ForcesAssumption DEF TypeOK
  <1> QED
    BY <1>0, <1>2, <1>3, <1>4, <1>5, <1>6, <1>7, <1>8, <1>9, <1>10, <1>11, <1>13,
       <1>14, <1>15, <1>16, <1>17, <1>18, <1>19
    DEF Next, Produce, UseLease, Step

\* Every reachable state of the job table is well formed.
THEOREM TypeCorrect == Spec => []TypeOK
  BY InitTypeOK, NextTypeOK, PTL DEF Spec

-----------------------------------------------------------------------------
(* Effects of a step on the rows *)

\* A row becomes pending only where its target had none, and only one does.
PendingEffect ==
    /\ \A i \in Ids : jobs'[i].status = "pending" =>
         \/ jobs[i].status = "pending" /\ jobs'[i].target = jobs[i].target
         \/ /\ jobs[i].status # "pending"
            /\ \A j \in Ids : ~(jobs[j].status = "pending" /\ jobs[j].target = jobs'[i].target)
    /\ \A i, j \in Ids :
         /\ jobs'[i].status = "pending" /\ jobs[i].status # "pending"
         /\ jobs'[j].status = "pending" /\ jobs[j].status # "pending"
         => i = j

AttemptsEffect ==
    \A i \in Ids : jobs'[i].status \in Live => jobs'[i].attempts < MaxAttempts

\* A leased row keeps what its holder knows; a new lease is fresh.
LeaseEffect ==
    \A i \in Ids : jobs'[i].status \in Active =>
        \/ /\ jobs[i].status \in Active
           /\ jobs'[i].lease = jobs[i].lease
           /\ jobs'[i].target = jobs[i].target
           /\ jobs'[i].attempts = jobs[i].attempts
           /\ jobs'[i].force = jobs[i].force
        \/ \A h \in handles \cup observed : h.lease # jobs'[i].lease

\* A pending row that no lease tagged stays one with its force flag, unless it
\* is claimed or withdrawn, which settles the events it stands for.
KeptEffect ==
    \A i \in Ids : jobs[i].status = "pending" /\ jobs[i].recovery = NoLease =>
        \/ /\ jobs'[i].status = "pending"
           /\ jobs'[i].recovery = NoLease
           /\ jobs'[i].target = jobs[i].target
           /\ jobs[i].force => jobs'[i].force
        \/ /\ jobs[i].target \notin unseen'
           /\ jobs[i].force => jobs[i].target \notin unseenForce'

\* A new event has an untagged pending row.
EventEffect ==
    /\ \A t \in unseen' \ unseen : \E p \in Ids :
         jobs'[p].status = "pending" /\ jobs'[p].target = t /\ jobs'[p].recovery = NoLease
    /\ \A t \in unseenForce' \ unseenForce : \E p \in Ids :
         /\ jobs'[p].status = "pending" /\ jobs'[p].target = t
         /\ jobs'[p].recovery = NoLease /\ jobs'[p].force

\* A new value in somebody's hands copies its row.
ValueEffect ==
    \A h \in handles' \cup observed' :
        \/ h \in handles \cup observed
        \/ /\ h.target = jobs'[h.id].target
           /\ h.attempts = jobs'[h.id].attempts
           /\ h.force = jobs'[h.id].force

Effects ==
    /\ PendingEffect
    /\ AttemptsEffect
    /\ LeaseEffect
    /\ KeptEffect
    /\ EventEffect
    /\ ValueEffect

-----------------------------------------------------------------------------
(* The invariant follows from the effects *)

\* Steps with these effects preserve the inductive invariant.
LEMMA EffectsPreserve == IInv /\ TypeOK' /\ Effects => IInv'
  <1> SUFFICES ASSUME IInv, TypeOK', Effects PROVE IInv'
    OBVIOUS
  <1>1. OnePendingPerTarget'
    <2> SUFFICES ASSUME NEW t \in Targets, NEW i \in Ids, NEW j \in Ids,
                        jobs'[i].status = "pending", jobs'[i].target = t,
                        jobs'[j].status = "pending", jobs'[j].target = t
                 PROVE  i = j
      BY DEF OnePendingPerTarget, PendingFor
    <2>1. CASE jobs[i].status = "pending" /\ jobs[j].status = "pending"
      <3>1. jobs[i].target = t /\ jobs[j].target = t
        BY <2>1 DEF Effects, PendingEffect
      <3> QED
        BY <2>1, <3>1 DEF IInv, OnePendingPerTarget, PendingFor
    <2>2. CASE jobs[i].status # "pending" /\ jobs[j].status # "pending"
      BY <2>2 DEF Effects, PendingEffect
    <2>3. CASE jobs[i].status # "pending" /\ jobs[j].status = "pending"
      BY <2>3 DEF Effects, PendingEffect
    <2>4. CASE jobs[i].status = "pending" /\ jobs[j].status # "pending"
      BY <2>4 DEF Effects, PendingEffect
    <2> QED
      BY <2>1, <2>2, <2>3, <2>4
  <1>2. ValuesFresh'
    <2> SUFFICES ASSUME NEW h \in handles' \cup observed',
                        jobs'[h.id].status \in Active, jobs'[h.id].lease = h.lease
                 PROVE  /\ jobs'[h.id].target = h.target
                        /\ jobs'[h.id].attempts = h.attempts
                        /\ jobs'[h.id].force = h.force
      BY DEF ValuesFresh, Owned
    <2>1. h.id \in Ids
      BY DEF TypeOK, Handle
    <2>2. CASE h \in handles \cup observed
      BY <2>1, <2>2 DEF IInv, ValuesFresh, Owned, Effects, LeaseEffect
    <2> QED
      BY <2>2 DEF Effects, ValueEffect
  <1>3. EventUntagged'
    <2> SUFFICES ASSUME NEW t \in unseen'
                 PROVE  \E p \in Ids : /\ jobs'[p].status = "pending" /\ jobs'[p].target = t
                                       /\ jobs'[p].recovery = NoLease
      BY DEF EventUntagged, PendingFor
    <2>1. CASE t \in unseen
      BY <2>1 DEF IInv, EventUntagged, PendingFor, Effects, KeptEffect
    <2> QED
      BY <2>1 DEF Effects, EventEffect
  <1>4. ForceUntagged'
    <2> SUFFICES ASSUME NEW t \in unseenForce'
                 PROVE  \E p \in Ids : /\ jobs'[p].status = "pending" /\ jobs'[p].target = t
                                       /\ jobs'[p].recovery = NoLease /\ jobs'[p].force
      BY DEF ForceUntagged, PendingFor
    <2>1. CASE t \in unseenForce
      BY <2>1 DEF IInv, ForceUntagged, PendingFor, Effects, KeptEffect
    <2> QED
      BY <2>1 DEF Effects, EventEffect
  <1>5. AttemptsBounded'
    BY DEF AttemptsBounded, Effects, AttemptsEffect
  <1> QED
    BY <1>1, <1>2, <1>3, <1>4, <1>5 DEF IInv

-----------------------------------------------------------------------------
(* Every operation has the effects *)

\* No event and no new value: at most a reaper gave one up.
Quiet ==
    /\ observed' \subseteq observed
    /\ UNCHANGED <<handles, unseen, unseenForce>>

\* Every step of the job table has the effects.
LEMMA NextEffects == IInv /\ [Next]_vars => Effects
  <1> SUFFICES ASSUME IInv, [Next]_vars PROVE Effects
    OBVIOUS
  <1> USE LeaseAssumption, MaxAttemptsAssumption
  <1> USE DEF Effects, PendingEffect, AttemptsEffect, LeaseEffect, KeptEffect,
              EventEffect, ValueEffect, Active, Live
  <1>1. /\ \A i \in Ids : /\ jobs[i] \in Row /\ jobs[i].attempts \in Nat
                          /\ jobs[i].force \in BOOLEAN
                          /\ jobs[i].target \in Targets
                          /\ jobs[i].status \in Live => jobs[i].attempts < MaxAttempts
        /\ \A h \in handles \cup observed :
              /\ h \in Handle /\ h.id \in Ids /\ h.target \in Targets
              /\ h.attempts \in Nat /\ h.attempts + 1 \in Nat
              /\ h.force \in BOOLEAN /\ h.lease \in Leases
              /\ Owned(h, Active) => /\ jobs[h.id].target = h.target
                                     /\ jobs[h.id].attempts = h.attempts
                                     /\ jobs[h.id].force = h.force
        /\ jobs \in [Ids -> Row]
    BY DEF IInv, TypeOK, RowsOK, Row, Handle, AttemptsBounded, ValuesFresh
  <1>2. CASE UNCHANGED vars
    BY <1>1, <1>2 DEF vars
  <1>3. ASSUME NEW t \in Targets, NEW f \in BOOLEAN, NEW r \in Leases \cup {NoLease},
               NEW i \in Ids, Create(i, t, f, r), PendingFor(t) = {},
               UNCHANGED <<handles, observed>>,
               r = NoLease \/ (unseen' = unseen /\ unseenForce' = unseenForce),
               unseen' \subseteq unseen \cup {t},
               unseenForce' \subseteq unseenForce \cup {t},
               f \/ unseenForce' = unseenForce
        PROVE  Effects
    <2>1. /\ NewRow(t, f, r).target = t /\ NewRow(t, f, r).status = "pending"
          /\ NewRow(t, f, r).attempts = 0 /\ NewRow(t, f, r).force = f
          /\ NewRow(t, f, r).recovery = r
      BY NewRowFields
    <2>2. /\ jobs[i].status = "free"
          /\ jobs'[i] = NewRow(t, f, r)
          /\ \A j \in Ids \ {i} : jobs'[j] = jobs[j]
      BY <1>1, <1>3 DEF Create
    <2>3. \A j \in Ids : ~(jobs[j].status = "pending" /\ jobs[j].target = t)
      BY <1>3 DEF PendingFor
    <2> QED
      BY <1>1, <1>3, <2>1, <2>2, <2>3
  <1>4. ASSUME NEW t \in Targets, CreateJob(t) PROVE Effects
    BY <1>3, <1>4 DEF CreateJob
  <1>5. ASSUME NEW t \in Targets, NEW f \in BOOLEAN, EnqueuePending(t, f) PROVE Effects
    <2>1. CASE PendingFor(t) = {} /\ \E i \in Ids : Create(i, t, f, NoLease)
      BY <1>3, <1>5, <2>1 DEF EnqueuePending
    <2>2. ASSUME NEW p \in PendingFor(t), jobs' = [jobs EXCEPT ![p] = Coalesced(@, f)]
          PROVE  Effects
      <3>1. p \in Ids /\ jobs[p] \in Row /\ jobs[p].status = "pending" /\ jobs[p].target = t
        BY <1>1 DEF PendingFor
      <3>2. /\ Coalesced(jobs[p], f).target = t /\ Coalesced(jobs[p], f).status = "pending"
            /\ Coalesced(jobs[p], f).attempts = jobs[p].attempts
            /\ Coalesced(jobs[p], f).force = (jobs[p].force \/ f)
            /\ Coalesced(jobs[p], f).recovery = NoLease
        BY <3>1, CoalescedFields
      <3>3. /\ jobs'[p] = Coalesced(jobs[p], f)
            /\ \A j \in Ids \ {p} : jobs'[j] = jobs[j]
        BY <1>1, <2>2, <3>1
      <3>4. unseen' = unseen \cup {t} /\ unseenForce' = (IF f THEN unseenForce \cup {t} ELSE unseenForce)
            /\ UNCHANGED <<handles, observed>>
        BY <1>5 DEF EnqueuePending
      <3> QED
        BY <1>1, <3>1, <3>2, <3>3, <3>4
    <2> QED
      BY <1>5, <2>1, <2>2 DEF EnqueuePending
  <1>6. ASSUME NEW t \in Targets, CancelPendingJobs(t) PROVE Effects
    <2>1. \A p \in PendingFor(t) : p \in Ids /\ Canceled(jobs[p]).status = "canceled"
      BY <1>1, DroppedFields DEF PendingFor
    <2>2. \A j \in Ids : \/ j \in PendingFor(t) /\ jobs'[j].status = "canceled"
                         \/ j \notin PendingFor(t) /\ jobs'[j] = jobs[j]
      BY <1>6, <2>1 DEF CancelPendingJobs
    <2>3. \A j \in Ids : j \in PendingFor(t) <=> jobs[j].status = "pending" /\ jobs[j].target = t
      BY DEF PendingFor
    <2>4. unseen' = unseen \ {t} /\ unseenForce' = unseenForce \ {t}
          /\ UNCHANGED <<handles, observed>>
      BY <1>6 DEF CancelPendingJobs
    <2> QED
      BY <1>1, <2>2, <2>3, <2>4
  <1>7. ASSUME NEW i \in Ids, NEW l \in Leases, ClaimSelected(i, l) PROVE Effects
    <2>1. /\ jobs'[i] = Claimed(jobs[i], l) /\ jobs[i].status = "pending"
          /\ \A j \in Ids \ {i} : jobs'[j] = jobs[j]
          /\ \A h \in handles \cup observed : h.lease # l
          /\ unseen' = unseen \ {jobs[i].target}
          /\ unseenForce' = IF jobs[i].force THEN unseenForce \ {jobs[i].target} ELSE unseenForce
          /\ observed' = observed
          /\ handles' \subseteq handles \cup {[HandleOf(i) EXCEPT !.lease = l]}
      BY <1>1, <1>7 DEF ClaimSelected, ClaimRow, Fresh
    <2>2. /\ Claimed(jobs[i], l).status = "claimed" /\ Claimed(jobs[i], l).lease = l
          /\ Claimed(jobs[i], l).target = jobs[i].target
          /\ Claimed(jobs[i], l).attempts = jobs[i].attempts
          /\ Claimed(jobs[i], l).force = jobs[i].force
      BY <1>1, ClaimedFields
    <2>3. /\ [HandleOf(i) EXCEPT !.lease = l].id = i
          /\ [HandleOf(i) EXCEPT !.lease = l].target = jobs[i].target
          /\ [HandleOf(i) EXCEPT !.lease = l].attempts = jobs[i].attempts
          /\ [HandleOf(i) EXCEPT !.lease = l].force = jobs[i].force
      BY DEF HandleOf
    <2>4. ValueEffect
      BY <2>1, <2>2, <2>3
    <2>5. PendingEffect /\ AttemptsEffect /\ LeaseEffect /\ KeptEffect /\ EventEffect
      BY <1>1, <2>1, <2>2
    <2> QED
      BY <2>4, <2>5
  <1> HIDE DEF Effects
  <1>8. ASSUME NEW i \in Ids, NEW r, jobs' = [jobs EXCEPT ![i] = r],
               r.status = jobs[i].status \/ (r.status = "running" /\ jobs[i].status = "claimed"),
               r.target = jobs[i].target, r.attempts = jobs[i].attempts,
               r.force = jobs[i].force, r.lease = jobs[i].lease,
               r.recovery = jobs[i].recovery \/ jobs[i].status # "pending",
               Quiet
        PROVE  Effects
    <2>1. jobs'[i] = r /\ \A j \in Ids \ {i} : jobs'[j] = jobs[j]
      BY <1>1, <1>8
    <2> QED
      BY <1>1, <1>8, <2>1 DEF Effects, Quiet
  <1>9. ASSUME NEW h \in handles, SetRunning(h) PROVE Effects
    <2>1. /\ h.id \in Ids /\ jobs[h.id].status = "claimed"
          /\ Running(jobs[h.id]).status = "running"
          /\ Running(jobs[h.id]).target = jobs[h.id].target
          /\ Running(jobs[h.id]).attempts = jobs[h.id].attempts
          /\ Running(jobs[h.id]).force = jobs[h.id].force
          /\ Running(jobs[h.id]).lease = jobs[h.id].lease
      BY <1>1, <1>9, FlagFields DEF SetRunning, Owned
    <2> QED
      BY <1>8, <1>9, <2>1 DEF SetRunning, Leased, Quiet
  <1>10. ASSUME NEW h \in handles, HeartbeatJob(h) PROVE Effects
    <2>1. /\ h.id \in Ids
          /\ Aged(jobs[h.id], FALSE).status = jobs[h.id].status
          /\ Aged(jobs[h.id], FALSE).target = jobs[h.id].target
          /\ Aged(jobs[h.id], FALSE).attempts = jobs[h.id].attempts
          /\ Aged(jobs[h.id], FALSE).force = jobs[h.id].force
          /\ Aged(jobs[h.id], FALSE).lease = jobs[h.id].lease
          /\ Aged(jobs[h.id], FALSE).recovery = jobs[h.id].recovery
      BY <1>1, FlagFields
    <2> QED
      BY <1>8, <1>10, <2>1 DEF HeartbeatJob, Quiet
  <1>11. ASSUME NEW i \in Ids, LeaseAges(i) PROVE Effects
    <2>1. /\ Aged(jobs[i], TRUE).status = jobs[i].status
          /\ Aged(jobs[i], TRUE).target = jobs[i].target
          /\ Aged(jobs[i], TRUE).attempts = jobs[i].attempts
          /\ Aged(jobs[i], TRUE).force = jobs[i].force
          /\ Aged(jobs[i], TRUE).lease = jobs[i].lease
          /\ Aged(jobs[i], TRUE).recovery = jobs[i].recovery
      BY <1>1, FlagFields
    <2> QED
      BY <1>8, <1>11, <2>1 DEF LeaseAges, Leased, Quiet
  <1>12. ASSUME NEW i \in Ids, GateOpens(i) PROVE Effects
    <2>1. /\ Opened(jobs[i]).status = jobs[i].status
          /\ Opened(jobs[i]).target = jobs[i].target
          /\ Opened(jobs[i]).attempts = jobs[i].attempts
          /\ Opened(jobs[i]).force = jobs[i].force
          /\ Opened(jobs[i]).lease = jobs[i].lease
          /\ Opened(jobs[i]).recovery = jobs[i].recovery
      BY <1>1, FlagFields
    <2> QED
      BY <1>8, <1>12, <2>1 DEF GateOpens, Leased, Quiet
  <1>13. ASSUME NEW i \in Ids, NEW r, jobs' = [jobs EXCEPT ![i] = r],
                r.status \notin Live, jobs[i].status \in Active, Quiet
         PROVE  Effects
    <2>1. jobs'[i] = r /\ \A j \in Ids \ {i} : jobs'[j] = jobs[j]
      BY <1>1, <1>13
    <2> QED
      BY <1>1, <1>13, <2>1 DEF Effects, Quiet
  <1>14. ASSUME NEW i \in Ids, NEW r, jobs' = [jobs EXCEPT ![i] = r],
                jobs[i].status \in Active, r.status = "pending",
                r.target = jobs[i].target, r.attempts < MaxAttempts,
                PendingFor(jobs[i].target) = {}, Quiet
         PROVE  Effects
    <2>1. jobs'[i] = r /\ \A j \in Ids \ {i} : jobs'[j] = jobs[j]
      BY <1>1, <1>14
    <2>2. \A j \in Ids : ~(jobs[j].status = "pending" /\ jobs[j].target = jobs[i].target)
      BY <1>14 DEF PendingFor
    <2> QED
      BY <1>1, <1>14, <2>1, <2>2 DEF Effects, Quiet
  <1>15. ASSUME NEW i \in Ids, NEW p \in Ids,
                \A j \in Ids \ {i, p} : jobs'[j] = jobs[j],
                jobs[i].status \in Active, jobs'[i].status \notin Live,
                jobs[p].status = "pending", jobs'[p].status = "pending",
                jobs'[p].target = jobs[p].target,
                jobs'[p].attempts < MaxAttempts,
                jobs'[p].recovery \in {NoLease, jobs[p].recovery},
                jobs[p].force => jobs'[p].force,
                Quiet
         PROVE  Effects
    <2>1. i # p
      BY <1>15
    <2>2. PendingEffect
      BY <1>1, <1>15, <2>1
    <2>3. AttemptsEffect /\ LeaseEffect
      BY <1>1, <1>15, <2>1
    <2>4. KeptEffect
      BY <1>1, <1>15, <2>1 DEF Quiet
    <2>5. EventEffect /\ ValueEffect
      BY <1>15 DEF Quiet
    <2> QED
      BY <2>2, <2>3, <2>4, <2>5 DEF Effects
  <1>16. ASSUME NEW h \in handles, NEW s \in {"done", "failed"}, Settle(h, s) PROVE Effects
    <2>0. /\ h.id \in Ids /\ s \in Status /\ s \notin Live
          /\ jobs[h.id].status \in Active
      BY <1>1, <1>16 DEF Settle, Owned, Status
    <2>1. Settled(jobs[h.id], s, jobs[h.id].attempts).status = s
      BY <1>1, <2>0, SettledFields
    <2> QED
      BY <1>13, <1>16, <2>0, <2>1 DEF Settle, Leased, Quiet
  <1>17. ASSUME NEW h \in handles \cup observed, NEW inc \in BOOLEAN, NEW g \in BOOLEAN,
                Owned(h, Active), HandBack(h, inc, g), Quiet,
                inc => h.attempts + 1 < MaxAttempts
         PROVE  Effects
    <2>0. /\ h.id \in Ids /\ jobs[h.id] \in Row /\ jobs[h.id].status \in Active
          /\ jobs[h.id].target = h.target /\ jobs[h.id].attempts = h.attempts
          /\ h.attempts < MaxAttempts /\ h.force \in BOOLEAN
          /\ h.attempts \in Nat /\ h.attempts + 1 \in Nat
      BY <1>1, <1>17 DEF Owned
    <2>1. CASE PendingFor(h.target) = {}
      <3> DEFINE n == IF inc THEN h.attempts + 1 ELSE h.attempts
      <3>0. n \in Nat /\ n < MaxAttempts
        BY <1>17, <2>0
      <3> HIDE DEF n
      <3>1. /\ Returned(jobs[h.id], n, g).status = "pending"
            /\ Returned(jobs[h.id], n, g).target = jobs[h.id].target
            /\ Returned(jobs[h.id], n, g).attempts = n
        <4>1. jobs[h.id] \in Row /\ n \in Nat
          BY <2>0, <3>0
        <4> QED
          BY <4>1, ReturnedFields
      <3>2. jobs' = [jobs EXCEPT ![h.id] = Returned(jobs[h.id], n, g)]
        BY <1>17, <2>1 DEF HandBack, n
      <3> QED
        BY <1>14, <1>17, <2>0, <2>1, <3>0, <3>1, <3>2
    <2>2. CASE PendingFor(h.target) # {}
      <3>1. PICK p \in PendingFor(h.target) :
              jobs' = [jobs EXCEPT
                ![p] = Merged(@, h.force, IF inc THEN h.attempts + 1 ELSE jobs[p].attempts, g),
                ![h.id] = Settled(@, "canceled", jobs[h.id].attempts)]
        BY <1>17, <2>2 DEF HandBack
      <3> DEFINE n == IF inc THEN h.attempts + 1 ELSE jobs[p].attempts
      <3>2. p \in Ids /\ jobs[p] \in Row /\ jobs[p].status = "pending" /\ p # h.id
        BY <1>1, <2>0 DEF PendingFor
      <3>3. n \in Nat /\ n < MaxAttempts
        BY <1>1, <1>17, <2>0, <3>2
      <3> HIDE DEF n
      <3>4. /\ Merged(jobs[p], h.force, n, g).status = "pending"
            /\ Merged(jobs[p], h.force, n, g).target = jobs[p].target
            /\ Merged(jobs[p], h.force, n, g).attempts = n
            /\ Merged(jobs[p], h.force, n, g).force = (jobs[p].force \/ h.force)
            /\ Merged(jobs[p], h.force, n, g).recovery = NoLease
        <4>1. jobs[p] \in Row /\ h.force \in BOOLEAN /\ n \in Nat
          BY <2>0, <3>2, <3>3
        <4> QED
          BY <3>2, <4>1, MergedFields
      <3>5. Settled(jobs[h.id], "canceled", jobs[h.id].attempts).status = "canceled"
        <4>1. jobs[h.id] \in Row /\ "canceled" \in Status /\ jobs[h.id].attempts \in Nat
          BY <2>0 DEF Status
        <4> QED
          BY <4>1, SettledFields
      <3>6. /\ jobs'[p] = Merged(jobs[p], h.force, n, g)
            /\ jobs'[h.id] = Settled(jobs[h.id], "canceled", jobs[h.id].attempts)
            /\ \A j \in Ids \ {h.id, p} : jobs'[j] = jobs[j]
        BY <1>1, <2>0, <3>1, <3>2 DEF n
      <3>7. /\ jobs'[h.id].status \notin Live
            /\ jobs'[p].status = "pending" /\ jobs'[p].target = jobs[p].target
            /\ jobs'[p].attempts < MaxAttempts
            /\ jobs'[p].recovery \in {NoLease, jobs[p].recovery}
            /\ jobs[p].force => jobs'[p].force
        BY <3>3, <3>4, <3>5, <3>6
      <3> QED
        BY <1>15, <1>17, <2>0, <3>2, <3>6, <3>7
    <2> QED
      BY <2>1, <2>2
  <1>18. ASSUME NEW h \in handles, RequeueJob(h) PROVE Effects
    <2>1. h.attempts + 1 < MaxAttempts
      BY <1>1, <1>18 DEF RequeueJob, Exhausted
    <2> QED
      BY <1>17, <1>18, <2>1 DEF RequeueJob, ReturnToPending, Leased, Quiet
  <1>19. ASSUME NEW h \in handles, ReleaseJob(h) PROVE Effects
    BY <1>17, <1>19 DEF ReleaseJob, ReturnToPending, Leased, Quiet
  <1>20. ASSUME NEW h \in handles, DeferJob(h) PROVE Effects
    <2>0. /\ h.id \in Ids /\ jobs[h.id] \in Row /\ jobs[h.id].status \in Active
          /\ jobs[h.id].target = h.target /\ jobs[h.id].attempts \in Nat
          /\ jobs[h.id].attempts < MaxAttempts /\ h.force \in BOOLEAN
          /\ Quiet
      BY <1>1, <1>20 DEF DeferJob, Owned, Quiet
    <2>1. ASSUME PendingFor(h.target) = {},
                 jobs' = [jobs EXCEPT ![h.id] = Returned(@, jobs[h.id].attempts, TRUE)]
          PROVE  Effects
      <3>1. /\ Returned(jobs[h.id], jobs[h.id].attempts, TRUE).status = "pending"
            /\ Returned(jobs[h.id], jobs[h.id].attempts, TRUE).target = jobs[h.id].target
            /\ Returned(jobs[h.id], jobs[h.id].attempts, TRUE).attempts = jobs[h.id].attempts
        BY <2>0, ReturnedFields
      <3> QED
        BY <1>14, <2>0, <2>1, <3>1
    <2>2. ASSUME NEW p \in PendingFor(h.target),
                 jobs' = [jobs EXCEPT
                   ![p] = Upgraded(@, h.force),
                   ![h.id] = Settled(@, "canceled", jobs[h.id].attempts)]
          PROVE  Effects
      <3>1. /\ p \in Ids /\ jobs[p] \in Row /\ jobs[p].status = "pending" /\ p # h.id
            /\ jobs[p].attempts < MaxAttempts
        BY <1>1, <2>0 DEF PendingFor
      <3>2. /\ Upgraded(jobs[p], h.force).status = "pending"
            /\ Upgraded(jobs[p], h.force).target = jobs[p].target
            /\ Upgraded(jobs[p], h.force).attempts = jobs[p].attempts
            /\ Upgraded(jobs[p], h.force).force = (jobs[p].force \/ h.force)
            /\ Upgraded(jobs[p], h.force).recovery = jobs[p].recovery
        BY <2>0, <3>1, UpgradedFields
      <3>3. Settled(jobs[h.id], "canceled", jobs[h.id].attempts).status = "canceled"
        <4>1. jobs[h.id] \in Row /\ "canceled" \in Status /\ jobs[h.id].attempts \in Nat
          BY <2>0 DEF Status
        <4> QED
          BY <4>1, SettledFields
      <3>4. /\ jobs'[p] = Upgraded(jobs[p], h.force)
            /\ jobs'[h.id] = Settled(jobs[h.id], "canceled", jobs[h.id].attempts)
            /\ \A j \in Ids \ {h.id, p} : jobs'[j] = jobs[j]
        BY <1>1, <2>0, <2>2, <3>1
      <3>5. /\ jobs'[h.id].status \notin Live
            /\ jobs'[p].status = "pending" /\ jobs'[p].target = jobs[p].target
            /\ jobs'[p].attempts < MaxAttempts
            /\ jobs'[p].recovery \in {NoLease, jobs[p].recovery}
            /\ jobs[p].force => jobs'[p].force
        BY <3>1, <3>2, <3>3, <3>4
      <3> QED
        BY <1>15, <2>0, <3>1, <3>4, <3>5
    <2> QED
      BY <1>20, <2>1, <2>2 DEF DeferJob
  <1>21. ASSUME NEW h \in handles, NEW f \in BOOLEAN, EnsureJobSuccessor(h, f) PROVE Effects
    <2>0. /\ h.target \in Targets /\ h.lease \in Leases /\ Quiet
          /\ UNCHANGED <<handles, observed, unseen, unseenForce>>
      BY <1>1, <1>21 DEF EnsureJobSuccessor, Quiet
    <2>1. ASSUME PendingFor(h.target) = {}, NEW i \in Ids, Create(i, h.target, f, h.lease)
          PROVE  Effects
      BY <1>3, <2>0, <2>1
    <2>2. ASSUME NEW p \in PendingFor(h.target), jobs' = [jobs EXCEPT ![p] = Upgraded(@, f)]
          PROVE  Effects
      <3>1. /\ p \in Ids /\ jobs[p] \in Row /\ jobs[p].status = "pending"
            /\ jobs[p].attempts < MaxAttempts
        BY <1>1 DEF PendingFor
      <3>2. /\ Upgraded(jobs[p], f).status = "pending"
            /\ Upgraded(jobs[p], f).target = jobs[p].target
            /\ Upgraded(jobs[p], f).attempts = jobs[p].attempts
            /\ Upgraded(jobs[p], f).force = (jobs[p].force \/ f)
            /\ Upgraded(jobs[p], f).recovery = jobs[p].recovery
        BY <3>1, UpgradedFields
      <3>3. /\ jobs'[p] = Upgraded(jobs[p], f)
            /\ \A j \in Ids \ {p} : jobs'[j] = jobs[j]
        BY <1>1, <2>2, <3>1
      <3> QED
        BY <1>1, <2>0, <3>1, <3>2, <3>3 DEF Effects, Quiet
    <2> QED
      BY <1>21, <2>1, <2>2 DEF EnsureJobSuccessor
  <1>22. ASSUME NEW h \in handles, FailJobWithSuccessor(h) PROVE Effects
    <2>0. /\ h.id \in Ids /\ jobs[h.id] \in Row /\ jobs[h.id].status \in Active
          /\ h.lease \in Leases /\ jobs[h.id].attempts \in Nat
          /\ Quiet
      BY <1>1, <1>22 DEF FailJobWithSuccessor, Owned, Leased, Quiet
    <2> DEFINE n == h.attempts + 1
    <2>a. n \in Nat
      BY <1>1
    <2> HIDE DEF n
    <2>1. ASSUME jobs' = [jobs EXCEPT ![h.id] = Settled(@, "failed", n)]
          PROVE  Effects
      <3>1. Settled(jobs[h.id], "failed", n).status = "failed"
        BY <2>0, <2>a, SettledFields DEF Status
      <3> QED
        BY <1>13, <2>0, <2>1, <3>1
    <2>2. ASSUME NEW s \in RecoveryFor(h.target, h.lease),
                 jobs' = [jobs EXCEPT
                   ![s] = Failed(@, n),
                   ![h.id] = Settled(@, "canceled", jobs[h.id].attempts)]
          PROVE  Effects
      <3>1. /\ s \in Ids /\ jobs[s] \in Row /\ jobs[s].status = "pending" /\ s # h.id
            /\ jobs[s].recovery # NoLease
        BY <1>1, <2>0 DEF RecoveryFor, PendingFor
      <3>2. Failed(jobs[s], n).status = "failed"
        BY <2>a, <3>1, DroppedFields
      <3>3. Settled(jobs[h.id], "canceled", jobs[h.id].attempts).status = "canceled"
        <4>1. jobs[h.id] \in Row /\ jobs[h.id].attempts \in Nat /\ "canceled" \in Status
          BY <2>0 DEF Status
        <4> QED
          BY <4>1, SettledFields
      <3>4. /\ jobs'[s].status = "failed" /\ jobs'[h.id].status = "canceled"
            /\ \A j \in Ids \ {h.id, s} : jobs'[j] = jobs[j]
        BY <1>1, <2>0, <2>2, <3>1, <3>2, <3>3
      <3>5. PendingEffect /\ AttemptsEffect /\ LeaseEffect
        BY <1>1, <2>0, <3>1, <3>4
      <3>6. KeptEffect
        BY <1>1, <2>0, <3>1, <3>4
      <3>7. EventEffect /\ ValueEffect
        BY <2>0 DEF Quiet
      <3> QED
        BY <3>5, <3>6, <3>7 DEF Effects
    <2> QED
      BY <1>22, <2>1, <2>2 DEF FailJobWithSuccessor, n
  <1>23. ASSUME NEW o \in observed, ReapOne(o) PROVE Effects
    <2>0. /\ o.id \in Ids /\ jobs[o.id] \in Row /\ jobs[o.id].status \in Active
          /\ jobs[o.id].attempts \in Nat /\ Owned(o, Active) /\ Quiet
      BY <1>1, <1>23 DEF ReapOne, Owned, Quiet
    <2>1. ASSUME jobs' = [jobs EXCEPT ![o.id] = Settled(@, "failed", jobs[o.id].attempts)]
          PROVE  Effects
      <3>1. Settled(jobs[o.id], "failed", jobs[o.id].attempts).status = "failed"
        <4>1. jobs[o.id] \in Row /\ "failed" \in Status /\ jobs[o.id].attempts \in Nat
          BY <2>0 DEF Status
        <4> QED
          BY <4>1, SettledFields
      <3> QED
        BY <1>13, <2>0, <2>1, <3>1
    <2>2. ASSUME ~Exhausted(o.attempts), HandBack(o, TRUE, FALSE) PROVE Effects
      <3>1. o.attempts + 1 < MaxAttempts
        BY <1>1, <2>2 DEF Exhausted
      <3> QED
        BY <1>17, <2>0, <2>2, <3>1
    <2> QED
      BY <1>23, <2>1, <2>2 DEF ReapOne
  <1>24. ASSUME NEW S \in SUBSET StaleRows, ReapSelect(S) PROVE Effects
    <2>1. /\ observed' = observed \cup {HandleOf(i) : i \in S} /\ jobs' = jobs
          /\ UNCHANGED <<handles, unseen, unseenForce>>
      BY <1>24 DEF ReapSelect
    <2>2. \A i : /\ HandleOf(i).id = i /\ HandleOf(i).target = jobs[i].target
                 /\ HandleOf(i).attempts = jobs[i].attempts
                 /\ HandleOf(i).force = jobs[i].force
      BY DEF HandleOf
    <2>3. ValueEffect
      BY <2>1, <2>2
    <2> QED
      BY <1>1, <2>1, <2>3 DEF Effects
  <1>25. ASSUME jobs' = jobs, unseen' = unseen, unseenForce' = unseenForce,
                handles' \subseteq handles, observed' \subseteq observed
         PROVE  Effects
    BY <1>1, <1>25 DEF Effects
  <1>26. ASSUME NEW h \in handles, Forget(h) PROVE Effects
    BY <1>25, <1>26 DEF Forget
  <1>27. ASSUME NEW S \in SUBSET observed, ReapForget(S) PROVE Effects
    BY <1>25, <1>27 DEF ReapForget
  <1>28. ASSUME NEW i \in Ids, ClaimSelect(i) \/ Deselect(i) PROVE Effects
    BY <1>25, <1>28 DEF ClaimSelect, Deselect
  <1>29. ASSUME NEW t \in Targets, Produce(t) PROVE Effects
    BY <1>4, <1>5, <1>6, <1>29, ForcesAssumption DEF Produce
  <1>30. ASSUME NEW h \in handles, UseLease(h) PROVE Effects
    BY <1>9, <1>10, <1>16, <1>18, <1>19, <1>20, <1>21, <1>22, <1>26, <1>30,
       ForcesAssumption DEF UseLease
  <1>31. ASSUME NEW i \in Ids, Step(i) PROVE Effects
    BY <1>7, <1>11, <1>12, <1>28, <1>31 DEF Step
  <1> QED
    BY <1>2, <1>23, <1>24, <1>27, <1>29, <1>30, <1>31 DEF Next

-----------------------------------------------------------------------------
(* The theorems *)

\* The inductive invariant holds in every reachable state.
LEMMA Inductive == Spec => []IInv
  <1>1. Init => IInv
    <2> SUFFICES ASSUME Init PROVE IInv
      OBVIOUS
    <2>1. TypeOK
      BY InitTypeOK
    <2>2. \A i \in Ids : jobs[i].status = "free"
      BY DEF Init, FreeRow, NewRow
    <2> QED
      BY <2>1, <2>2 DEF IInv, Init, OnePendingPerTarget, ValuesFresh, EventUntagged,
                        ForceUntagged, AttemptsBounded, PendingFor, Live, Active
  <1>2. IInv /\ [Next]_vars => IInv'
    BY NextTypeOK, NextEffects, EffectsPreserve DEF IInv
  <1> QED
    BY <1>1, <1>2, PTL DEF Spec

\* At most one pending row per target in every reachable state, however the
\* producers, hand-backs, deferrals, successors and reaps interleave.
THEOREM PendingUnique == Spec => []OnePendingPerTarget
  <1>1. IInv => OnePendingPerTarget
    BY DEF IInv
  <1> QED
    BY <1>1, Inductive, PTL

\* No interleaving of lease holders, reapers and claimers loses an event that
\* EnqueuePending or CreateJob recorded before a claim follows it.
THEOREM EventsSurvive == Spec => []EventNotLost
  <1>1. IInv => EventNotLost
    BY DEF IInv, EventUntagged, EventNotLost
  <1> QED
    BY <1>1, Inductive, PTL

\* Nor a force request before a forced claim picks it up.
THEOREM ForcesSurvive == Spec => []ForceNotLost
  <1>1. IInv => ForceNotLost
    BY DEF IInv, ForceUntagged, ForceNotLost
  <1> QED
    BY <1>1, Inductive, PTL

\* No row that may still be executed has used up its attempts.
THEOREM AttemptsStayBounded == Spec => []AttemptsBounded
  <1>1. IInv => AttemptsBounded
    BY DEF IInv
  <1> QED
    BY <1>1, Inductive, PTL

\* A job value that the fence refused once is refused by every later step,
\* even after its row was claimed again: new leases are fresh.
THEOREM LeaseLossIsFinal == Spec => LostLeaseStaysLost
  <1>1. IInv /\ IInv' /\ [Next]_vars =>
          [\A h \in handles : ~Owned(h, Active) => ~Owned(h, Active)']_vars
    <2> SUFFICES ASSUME IInv, [Next]_vars, NEW h \in handles, ~Owned(h, Active)
                 PROVE  ~Owned(h, Active)'
      OBVIOUS
    <2>1. LeaseEffect
      BY NextEffects DEF Effects
    <2>2. h.id \in Ids
      BY DEF IInv, TypeOK, Handle
    <2> QED
      BY <2>1, <2>2 DEF LeaseEffect, Owned
  <1> QED
    BY <1>1, Inductive, PTL DEF Spec, LostLeaseStaysLost

-----------------------------------------------------------------------------
(* Work that is handed back *)

Left(i) == jobs[i].status \in Active /\ jobs'[i].status \in {"pending", "canceled"}

\* What a worker that leaves row i leaves behind.
WorkKept(i) ==
    \/ \E p \in Ids : /\ jobs'[p].status = "pending"
                      /\ jobs'[p].target = jobs[i].target
                      /\ jobs[i].force => jobs'[p].force
    \/ \E p \in Ids : /\ p \in RecoveryFor(jobs[i].target, jobs[i].lease)
                      /\ jobs'[p].status = "failed"

\* A holder whose lease the row still carries knows its target and force flag.
LEMMA HolderKnows ==
    ASSUME IInv, NEW h \in handles \cup observed, Owned(h, Active)
    PROVE  /\ h.id \in Ids /\ h.target \in Targets /\ h.force \in BOOLEAN /\ h.attempts \in Nat
           /\ jobs \in [Ids -> Row] /\ jobs[h.id] \in Row /\ jobs[h.id].attempts \in Nat
           /\ jobs[h.id].status \in Active /\ jobs[h.id].lease = h.lease
           /\ jobs[h.id].target = h.target /\ jobs[h.id].force = h.force
  BY DEF IInv, TypeOK, RowsOK, Row, Handle, ValuesFresh, Owned

\* The pending row of the target takes the leased row's place.
LEMMA FoldKeepsWork ==
    ASSUME IInv, NEW h \in handles \cup observed, Owned(h, Active), NEW p \in PendingFor(h.target),
           NEW row, row.status = "pending", row.target = h.target, h.force => row.force,
           NEW gone, jobs' = [jobs EXCEPT ![p] = row, ![h.id] = gone], NEW i \in Ids, Left(i)
    PROVE  WorkKept(i)
  <1>1. p \in Ids /\ jobs[p].status = "pending"
    BY DEF PendingFor
  <1>2. p # h.id
    BY <1>1, HolderKnows DEF Active
  <1>3. jobs'[p] = row /\ \A j \in Ids \ {p, h.id} : jobs'[j] = jobs[j]
    BY <1>1, <1>2, HolderKnows
  <1>4. i = h.id
    BY <1>1, <1>3 DEF Left, Active
  <1> QED
    BY <1>1, <1>3, <1>4, HolderKnows DEF WorkKept

\* The leased row goes back itself.
LEMMA ReturnKeepsWork ==
    ASSUME IInv, NEW h \in handles \cup observed, Owned(h, Active), NEW n \in Nat, NEW gate \in BOOLEAN,
           jobs' = [jobs EXCEPT ![h.id] = Returned(@, n, gate)], NEW i \in Ids, Left(i)
    PROVE  WorkKept(i)
  <1>1. jobs'[h.id] = Returned(jobs[h.id], n, gate) /\ \A j \in Ids \ {h.id} : jobs'[j] = jobs[j]
    BY HolderKnows
  <1>2. /\ Returned(jobs[h.id], n, gate).status = "pending"
        /\ Returned(jobs[h.id], n, gate).target = jobs[h.id].target
        /\ Returned(jobs[h.id], n, gate).force = jobs[h.id].force
    BY HolderKnows, ReturnedFields
  <1>3. i = h.id
    BY <1>1 DEF Left, Active
  <1> QED
    BY <1>1, <1>2, <1>3 DEF WorkKept

\* A requeue, release, deferral or reap keeps the work of the row it gives up.
LEMMA HandBackStep ==
    ASSUME IInv, NEW h \in handles \cup observed, Owned(h, Active),
           NEW increment \in BOOLEAN, NEW gate \in BOOLEAN, HandBack(h, increment, gate),
           NEW i \in Ids, Left(i)
    PROVE  WorkKept(i)
  <1>0. h.attempts \in Nat /\ h.attempts + 1 \in Nat /\ h.force \in BOOLEAN
    BY HolderKnows
  <1>1. CASE /\ PendingFor(h.target) = {}
             /\ jobs' = [jobs EXCEPT ![h.id] =
                   Returned(@, IF increment THEN h.attempts + 1 ELSE h.attempts, gate)]
    BY <1>0, <1>1, ReturnKeepsWork
  <1>2. ASSUME NEW p \in PendingFor(h.target),
               jobs' = [jobs EXCEPT
                   ![p] = Merged(@, h.force, IF increment THEN h.attempts + 1 ELSE jobs[p].attempts, gate),
                   ![h.id] = Settled(@, "canceled", jobs[h.id].attempts)]
        PROVE  WorkKept(i)
    <2>1. p \in Ids /\ jobs[p] \in Row /\ jobs[p].status = "pending" /\ jobs[p].target = h.target
          /\ jobs[p].attempts \in Nat
      BY HolderKnows DEF PendingFor, Row
    <2>2. PICK n \in Nat : n = IF increment THEN h.attempts + 1 ELSE jobs[p].attempts
      BY <1>0, <2>1
    <2>3. PICK row : /\ row = Merged(jobs[p], h.force, n, gate)
                     /\ row.status = "pending" /\ row.target = h.target /\ (h.force => row.force)
      <3>1. PICK f \in BOOLEAN : f = h.force
        BY <1>0
      <3>2. jobs[p] \in Row /\ f \in BOOLEAN /\ n \in Nat /\ gate \in BOOLEAN
        BY <2>1
      <3>3. /\ Merged(jobs[p], f, n, gate).status = jobs[p].status
            /\ Merged(jobs[p], f, n, gate).target = jobs[p].target
            /\ Merged(jobs[p], f, n, gate).force = (jobs[p].force \/ f)
        BY <3>2, MergedFields
      <3> QED
        BY <2>1, <3>1, <3>3
    <2>4. PICK gone : jobs' = [jobs EXCEPT ![p] = row, ![h.id] = gone]
      BY <1>2, <2>1, <2>2, <2>3, HolderKnows
    <2> QED
      BY <2>3, <2>4, FoldKeepsWork
  <1> QED
    BY <1>1, <1>2 DEF HandBack

\* The step of a holder that leaves its row behind.
LEMMA UseLeaseKeepsWork ==
    ASSUME IInv, NEW h \in handles, UseLease(h), NEW i \in Ids, Left(i)
    PROVE  WorkKept(i)
  <1>0. /\ h \in handles \cup observed /\ jobs \in [Ids -> Row] /\ h.id \in Ids
        /\ \A s \in SUBSET Active : Owned(h, s) => Owned(h, Active)
    BY DEF IInv, TypeOK, RowsOK, Handle, Owned
  <1>1. ASSUME \A j \in Ids : jobs[j].status \in Active => jobs'[j].status \notin {"pending", "canceled"}
        PROVE  FALSE
    BY <1>1 DEF Left
  <1>2. ASSUME NEW row, row.status \notin {"pending", "canceled"}, jobs' = [jobs EXCEPT ![h.id] = row]
        PROVE  FALSE
    <2>1. jobs'[h.id] = row /\ \A j \in Ids \ {h.id} : jobs'[j] = jobs[j]
      BY <1>0, <1>2
    <2> QED
      BY <1>1, <1>2, <2>1 DEF Active
  <1>3. jobs[h.id] \in Row /\ jobs[h.id].attempts \in Nat
    BY <1>0 DEF Row
  <1>4. CASE SetRunning(h)
    BY <1>2, <1>3, <1>4, FlagFields DEF SetRunning
  <1>5. CASE \E s \in {"done", "failed"} : Settle(h, s)
    <2>1. PICK s \in {"done", "failed"} : jobs' = [jobs EXCEPT ![h.id] = Settled(@, s, jobs[h.id].attempts)]
      BY <1>5 DEF Settle
    <2>2. Settled(jobs[h.id], s, jobs[h.id].attempts).status = s
      <3>1. s \in Status
        BY DEF Status
      <3> QED
        BY <1>3, <3>1, SettledFields
    <2> QED
      BY <1>2, <2>1, <2>2
  <1>6. CASE HeartbeatJob(h)
    <2>1. PICK b \in BOOLEAN : b = FALSE
      OBVIOUS
    <2>2. jobs' = [jobs EXCEPT ![h.id] = Aged(jobs[h.id], b)] /\ jobs[h.id].status = "running"
      BY <1>6, <2>1 DEF HeartbeatJob, Owned
    <2>3. Aged(jobs[h.id], b).status = "running"
      BY <1>3, <2>2, FlagFields
    <2> QED
      BY <1>2, <2>2, <2>3
  <1>7. CASE RequeueJob(h)
    <2>1. Owned(h, Active) /\ HandBack(h, TRUE, TRUE) /\ TRUE \in BOOLEAN
      BY <1>7 DEF RequeueJob, ReturnToPending
    <2> QED
      BY <1>0, <2>1, HandBackStep, Zenon
  <1>8. CASE ReleaseJob(h)
    <2>1. Owned(h, Active) /\ HandBack(h, FALSE, FALSE) /\ FALSE \in BOOLEAN
      BY <1>8 DEF ReleaseJob, ReturnToPending
    <2> QED
      BY <1>0, <2>1, HandBackStep, Zenon
  <1>9. CASE DeferJob(h)
    <2>0. Owned(h, Active) /\ h.force \in BOOLEAN
      BY <1>0, <1>9, HolderKnows DEF DeferJob
    <2>1. CASE jobs' = [jobs EXCEPT ![h.id] = Returned(@, jobs[h.id].attempts, TRUE)]
      <3>1. PICK gate \in BOOLEAN : gate = TRUE
        OBVIOUS
      <3>2. jobs' = [jobs EXCEPT ![h.id] = Returned(@, jobs[h.id].attempts, gate)]
        BY <2>1, <3>1
      <3> QED
        BY <1>0, <1>3, <2>0, <3>2, ReturnKeepsWork
    <2>2. ASSUME NEW p \in PendingFor(h.target),
                 jobs' = [jobs EXCEPT ![p] = Upgraded(@, h.force),
                                      ![h.id] = Settled(@, "canceled", jobs[h.id].attempts)]
          PROVE  WorkKept(i)
      <3>1. p \in Ids /\ jobs[p] \in Row /\ jobs[p].status = "pending" /\ jobs[p].target = h.target
        BY <1>0 DEF PendingFor
      <3>2. PICK row : /\ row = Upgraded(jobs[p], h.force)
                       /\ row.status = "pending" /\ row.target = h.target /\ (h.force => row.force)
        BY <2>0, <3>1, UpgradedFields
      <3>3. PICK gone : jobs' = [jobs EXCEPT ![p] = row, ![h.id] = gone]
        BY <1>0, <2>2, <3>1, <3>2
      <3> QED
        BY <1>0, <2>0, <3>2, <3>3, FoldKeepsWork
    <2> QED
      BY <1>9, <2>1, <2>2 DEF DeferJob
  <1>10. CASE \E f \in Forces : EnsureJobSuccessor(h, f)
    <2>1. PICK f \in Forces : EnsureJobSuccessor(h, f)
      BY <1>10
    <2>2. PICK j \in Ids :
                /\ jobs[j].status \in {"free", "pending"}
                /\ \E row : jobs' = [jobs EXCEPT ![j] = row]
      BY <2>1 DEF EnsureJobSuccessor, Create, PendingFor
    <2>3. \A k \in Ids \ {j} : jobs'[k] = jobs[k]
      BY <1>0, <2>2
    <2> QED
      BY <1>1, <2>2, <2>3 DEF Active
  <1>11. CASE FailJobWithSuccessor(h)
    <2>0. Owned(h, Active) /\ h.attempts + 1 \in Nat
      BY <1>0, <1>11, HolderKnows DEF FailJobWithSuccessor, Owned, Active
    <2>1. CASE jobs' = [jobs EXCEPT ![h.id] = Settled(@, "failed", h.attempts + 1)]
      <3>1. Settled(jobs[h.id], "failed", h.attempts + 1).status = "failed"
        <4>1. "failed" \in Status
          BY DEF Status
        <4> QED
          BY <1>3, <2>0, <4>1, SettledFields
      <3> QED
        BY <1>2, <2>1, <3>1
    <2>2. ASSUME NEW s \in RecoveryFor(h.target, h.lease),
                 jobs' = [jobs EXCEPT ![s] = Failed(@, h.attempts + 1),
                                      ![h.id] = Settled(@, "canceled", jobs[h.id].attempts)]
          PROVE  WorkKept(i)
      <3>1. s \in Ids /\ jobs[s] \in Row /\ jobs[s].status = "pending"
        BY <1>0 DEF RecoveryFor, PendingFor
      <3>2. s # h.id
        BY <1>0, <2>0, <3>1, HolderKnows DEF Active
      <3>3. jobs'[s] = Failed(jobs[s], h.attempts + 1) /\ \A j \in Ids \ {s, h.id} : jobs'[j] = jobs[j]
        BY <1>0, <2>2, <3>1, <3>2
      <3>4. jobs'[s].status = "failed"
        BY <2>0, <3>1, <3>3, DroppedFields
      <3>5. i = h.id
        BY <3>1, <3>3 DEF Left, Active
      <3> QED
        BY <1>0, <2>0, <3>1, <3>4, <3>5, HolderKnows DEF WorkKept
    <2> QED
      BY <1>11, <2>1, <2>2 DEF FailJobWithSuccessor
  <1>12. CASE Forget(h)
    BY <1>1, <1>12 DEF Forget, Active
  <1> QED
    BY <1>4, <1>5, <1>6, <1>7, <1>8, <1>9, <1>10, <1>11, <1>12 DEF UseLease

\* A worker that leaves a target leaves its work behind: every requeue, release,
\* deferral and reap ends with a pending row that carries the force flag, or
\* with the exhausted recovery row of the same lease.
THEOREM WorkIsHandedBack == Spec => HandBackKeepsWork
  <1>1. ASSUME IInv, [Next]_vars, NEW i \in Ids, Left(i) PROVE WorkKept(i)
    <2>0. jobs \in [Ids -> Row] /\ jobs[i].status \in Active /\ jobs'[i].status \in {"pending", "canceled"}
      BY <1>1 DEF IInv, TypeOK, RowsOK, Left
    <2>1. ASSUME \A j \in Ids : jobs[j].status \in Active => jobs'[j].status \notin {"pending", "canceled"}
          PROVE  FALSE
      BY <1>1, <2>1 DEF Left
    <2>2. CASE UNCHANGED jobs
      BY <2>1, <2>2 DEF Active
    <2>3. ASSUME NEW j \in Ids, jobs[j].status \in {"free", "pending"},
                 \A k \in Ids \ {j} : jobs'[k] = jobs[k]
          PROVE  FALSE
      BY <2>1, <2>3 DEF Active
    <2>4. ASSUME NEW t \in Targets, Produce(t) PROVE WorkKept(i)
      <3>1. CASE CreateJob(t) \/ \E f \in Forces : EnqueuePending(t, f)
        <4>1. \E j \in Ids : /\ jobs[j].status \in {"free", "pending"}
                             /\ \A k \in Ids \ {j} : jobs'[k] = jobs[k]
          <5>1. ASSUME NEW j \in Ids, NEW f, Create(j, t, f, NoLease)
                PROVE  jobs[j].status \in {"free", "pending"} /\ \A k \in Ids \ {j} : jobs'[k] = jobs[k]
            BY <2>0, <5>1 DEF Create
          <5>2. ASSUME NEW j \in PendingFor(t), NEW f, jobs' = [jobs EXCEPT ![j] = Coalesced(@, f)]
                PROVE  j \in Ids /\ jobs[j].status \in {"free", "pending"}
                       /\ \A k \in Ids \ {j} : jobs'[k] = jobs[k]
            BY <2>0, <5>2 DEF PendingFor
          <5>3. CASE CreateJob(t)
            BY <5>1, <5>3 DEF CreateJob
          <5>4. CASE \E f \in Forces : EnqueuePending(t, f)
            BY <5>1, <5>2, <5>4 DEF EnqueuePending
          <5> QED
            BY <3>1, <5>3, <5>4
        <4> QED
          BY <2>3, <4>1
      <3>2. CASE CancelPendingJobs(t)
        <4>1. \A j \in Ids : jobs[j].status # "pending" => jobs'[j] = jobs[j]
          BY <3>2 DEF CancelPendingJobs, PendingFor
        <4> QED
          BY <2>1, <4>1 DEF Active
      <3> QED
        BY <2>4, <3>1, <3>2 DEF Produce
    <2>5. ASSUME NEW j \in Ids, Step(j) PROVE WorkKept(i)
      <3>1. CASE ClaimSelect(j) \/ Deselect(j)
        BY <2>2, <3>1 DEF ClaimSelect, Deselect
      <3>2. CASE \E l \in Leases : ClaimSelected(j, l)
        <4>1. jobs[j].status = "pending" /\ \A k \in Ids \ {j} : jobs'[k] = jobs[k]
          BY <2>0, <3>2 DEF ClaimSelected, ClaimRow
        <4> QED
          BY <2>3, <4>1
      <3>3. CASE GateOpens(j)
        <4>1. jobs[j].status = "pending" /\ \A k \in Ids \ {j} : jobs'[k] = jobs[k]
          BY <2>0, <3>3 DEF GateOpens
        <4> QED
          BY <2>3, <4>1
      <3>4. CASE LeaseAges(j)
        <4>1. PICK b \in BOOLEAN : b = TRUE
          OBVIOUS
        <4>2. jobs'[j] = Aged(jobs[j], b) /\ \A k \in Ids \ {j} : jobs'[k] = jobs[k]
          BY <2>0, <3>4, <4>1 DEF LeaseAges
        <4>3. Aged(jobs[j], b).status = jobs[j].status
          BY <2>0, FlagFields
        <4> QED
          BY <2>1, <4>2, <4>3 DEF Active
      <3> QED
        BY <2>5, <3>1, <3>2, <3>3, <3>4 DEF Step
    <2>6. ASSUME NEW o \in observed, ReapOne(o) PROVE WorkKept(i)
      <3>0. o \in handles \cup observed /\ Owned(o, Active)
        BY <2>6 DEF ReapOne
      <3>1. CASE jobs' = [jobs EXCEPT ![o.id] = Settled(@, "failed", jobs[o.id].attempts)]
        <4>1. /\ jobs'[o.id] = Settled(jobs[o.id], "failed", jobs[o.id].attempts)
              /\ \A k \in Ids \ {o.id} : jobs'[k] = jobs[k]
          BY <1>1, <2>0, <3>0, <3>1, HolderKnows
        <4>2. Settled(jobs[o.id], "failed", jobs[o.id].attempts).status = "failed"
          BY <1>1, <3>0, HolderKnows, SettledFields DEF Status
        <4> QED
          BY <2>1, <4>1, <4>2 DEF Active
      <3>2. CASE HandBack(o, TRUE, FALSE)
        <4>1. TRUE \in BOOLEAN /\ FALSE \in BOOLEAN
          OBVIOUS
        <4> QED
          BY <1>1, <3>0, <3>2, <4>1, HandBackStep, Zenon
      <3> QED
        BY <2>6, <3>1, <3>2 DEF ReapOne
    <2>7. ASSUME NEW h \in handles, UseLease(h) PROVE WorkKept(i)
      BY <1>1, <2>7, UseLeaseKeepsWork
    <2> QED
      BY <1>1, <2>2, <2>4, <2>5, <2>6, <2>7 DEF Next, ReapSelect, ReapForget, vars
  <1>2. IInv /\ [Next]_vars =>
          [\A i \in Ids :
            jobs[i].status \in Active /\ jobs'[i].status \in {"pending", "canceled"} =>
                \/ \E p \in Ids : /\ jobs'[p].status = "pending"
                                  /\ jobs'[p].target = jobs[i].target
                                  /\ jobs[i].force => jobs'[p].force
                \/ \E p \in Ids : /\ p \in RecoveryFor(jobs[i].target, jobs[i].lease)
                                  /\ jobs'[p].status = "failed"]_vars
    BY <1>1 DEF Left, WorkKept
  <1> QED
    BY <1>2, Inductive, PTL DEF Spec, HandBackKeepsWork

=============================================================================
