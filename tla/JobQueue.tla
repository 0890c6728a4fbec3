------------------------------ MODULE JobQueue ------------------------------
(***************************************************************************)
(* One durable job table of the store (internal/store/surreal.go).  A row  *)
(* is pending, leased to a worker (claimed, running) or terminal.  Every   *)
(* operation is one database transaction and therefore one action.  The    *)
(* callers are unconstrained: whoever was ever handed a lease may invoke   *)
(* any lease operation with it at any time, repeatedly, until it forgets   *)
(* it, which covers slow workers, workers whose lease was reaped, and      *)
(* writes retried after an answer was lost.                                *)
(*                                                                         *)
(* Time is abstracted to what the queries compare: `stale' says that       *)
(* heartbeat_at of a leased row is older than a reaper's cutoff, `gated'   *)
(* that not_before of a pending row lies in the future (both are FALSE     *)
(* elsewhere), `before' is the created_at order of the rows.               *)
(* claimed_by is compared together with lease_token everywhere and tokens  *)
(* are unique, so the lease stands for both; pending_key holds the target  *)
(* exactly while a row is pending, so it is read off the status.           *)
(***************************************************************************)
EXTENDS Naturals

CONSTANTS
    Ids,         \* record ids of the table (the bound on rows ever created)
    Targets,     \* connection or repository names
    Leases,      \* lease tokens
    NoLease,     \* the absent token (NONE)
    MaxAttempts, \* Runner.MaxAttempts
    Forces       \* the force flags that callers pass

ASSUME MaxAttemptsAssumption == MaxAttempts \in Nat \ {0}
ASSUME LeaseAssumption == NoLease \notin Leases
ASSUME TargetsAssumption == Targets # {}
ASSUME ForcesAssumption == Forces \subseteq BOOLEAN

VARIABLES
    jobs,      \* the rows of the table
    before,    \* before[i]: the live rows whose created_at precedes that of i
    handles,   \* leased job values held by workers (what ClaimJob returned)
    observed,  \* job values a reaper has read and may still act on
    selected,  \* candidates a claimer has read and may still try to claim
    unseen,    \* history: targets with an event no claim has followed yet
    unseenForce \* history: the same for forced events

vars == <<jobs, before, handles, observed, selected, unseen, unseenForce>>

Status == {"free", "pending", "claimed", "running", "done", "failed", "canceled"}
Active == {"claimed", "running"}
Live == Active \cup {"pending"}
Terminal == {"done", "failed", "canceled"}

Row == [target: Targets, status: Status, attempts: Nat, force: BOOLEAN,
        lease: Leases \cup {NoLease}, recovery: Leases \cup {NoLease},
        gated: BOOLEAN, stale: BOOLEAN]

\* The leased part of a job value: what every fenced statement is given.
Handle == [id: Ids, lease: Leases, target: Targets, attempts: Nat, force: BOOLEAN]

\* Rows are rows, and exactly the leased ones carry a token.
RowsOK ==
    /\ jobs \in [Ids -> Row]
    /\ \A i \in Ids : jobs[i].status \in Active <=> jobs[i].lease # NoLease

\* The type invariant: every column and every held value is well formed, and a
\* row carries a lease token exactly while it is claimed or running.
TypeOK ==
    /\ RowsOK
    /\ before \in [Ids -> SUBSET Ids]
    /\ handles \subseteq Handle
    /\ observed \subseteq Handle
    /\ selected \subseteq Ids
    /\ unseen \subseteq Targets
    /\ unseenForce \subseteq Targets

-----------------------------------------------------------------------------
(* Queries *)

PendingFor(t) == {i \in Ids : jobs[i].status = "pending" /\ jobs[i].target = t}

\* Mutant of RecoveryFor: any pending row passes for this lease's own.
RecoveryAny(t, l) == PendingFor(t)

\* queueRecoverySelection: the pending row this exact lease created.
RecoveryFor(t, l) == {i \in PendingFor(t) : jobs[i].recovery = l}

\* claimCandidateSQL: pending rows whose backoff gate is open, oldest first.
Claimable == {i \in Ids : jobs[i].status = "pending" /\ ~jobs[i].gated}
Oldest == {i \in Claimable : before[i] \cap Claimable = {}}

\* Mutant of Exhausted: the failure being recorded is not counted.
ExhaustedLate(n) == n >= MaxAttempts

\* The execution that had n failures before it was the last one allowed.
Exhausted(n) == n + 1 >= MaxAttempts

\* Mutant of Owned: the row is fenced by its status alone.
OwnedByStatus(h, statuses) == jobs[h.id].status \in statuses

\* The WHERE clause of every fenced statement.
Owned(h, statuses) == jobs[h.id].status \in statuses /\ jobs[h.id].lease = h.lease

HandleOf(i) == [id |-> i, lease |-> jobs[i].lease, target |-> jobs[i].target,
                attempts |-> jobs[i].attempts, force |-> jobs[i].force]

\* A lease token nobody refers to: rand.Read of 16 bytes never repeats one.
Fresh(l) ==
    /\ \A i \in Ids : jobs[i].lease # l /\ jobs[i].recovery # l
    /\ \A h \in handles \cup observed : h.lease # l

-----------------------------------------------------------------------------
(* Row writes shared by the operations *)

NewRow(t, f, r) ==
    [target |-> t, status |-> "pending", attempts |-> 0, force |-> f,
     lease |-> NoLease, recovery |-> r, gated |-> FALSE, stale |-> FALSE]

\* A record id not yet used by a CREATE.
FreeRow == [NewRow(CHOOSE t \in Targets : TRUE, FALSE, NoLease)
              EXCEPT !.status = "free"]

\* created_at = time::now(): the row moves behind every live row.
ToTail(i) ==
    [k \in Ids |-> IF k = i THEN {j \in Ids \ {i} : jobs[j].status \in Live}
                   ELSE before[k] \ {i}]

Create(i, t, f, r) ==
    /\ jobs[i].status = "free"
    /\ jobs' = [jobs EXCEPT ![i] = NewRow(t, f, r)]
    /\ before' = ToTail(i)

\* A leased row reaches a terminal status; its token is cleared.
Settled(row, s, n) ==
    [row EXCEPT !.status = s, !.attempts = n, !.lease = NoLease, !.stale = FALSE]

\* Mutant of Coalesced: a later ordinary event overwrites the force flag.
CoalescedOverwrites(row, f) ==
    [row EXCEPT !.force = f, !.recovery = NoLease, !.gated = FALSE]

\* An event joins the pending row: claimable at once, no longer owned by the
\* lease that may have created the row as its crash-recovery successor.
Coalesced(row, f) ==
    [row EXCEPT !.force = @ \/ f, !.recovery = NoLease, !.gated = FALSE]

\* A pending row takes a force request over and is otherwise untouched.
Upgraded(row, f) == [row EXCEPT !.force = @ \/ f]

\* A leased row goes back to the queue; the claim is cleared.
Returned(row, n, gate) ==
    [row EXCEPT !.status = "pending", !.attempts = n, !.gated = gate,
                !.stale = FALSE, !.lease = NoLease, !.recovery = NoLease]

\* Mutant of Merged: the force flag of the folded row is dropped.
MergedDropsForce(row, f, n, gate) ==
    [row EXCEPT !.attempts = n, !.gated = gate, !.recovery = NoLease]

\* A pending row is leased.
Claimed(row, l) ==
    [row EXCEPT !.status = "claimed", !.lease = l, !.recovery = NoLease,
                !.gated = FALSE]

Running(row) == [row EXCEPT !.status = "running"]
Aged(row, b) == [row EXCEPT !.stale = b]
Opened(row) == [row EXCEPT !.gated = FALSE]

\* A pending row is withdrawn.
Canceled(row) == [row EXCEPT !.status = "canceled", !.gated = FALSE]

\* A pending row is exhausted before it was ever claimed.
Failed(row, n) ==
    [row EXCEPT !.status = "failed", !.attempts = n, !.gated = FALSE]

\* A leased row is folded into the pending row of its target.
Merged(row, f, n, gate) ==
    [row EXCEPT !.force = @ \/ f, !.attempts = n, !.gated = gate,
                !.recovery = NoLease]

-----------------------------------------------------------------------------
(* Producers *)

\* CreateJob: the unique pending_key index refuses a second pending row.
CreateJob(t) ==
    /\ PendingFor(t) = {}
    /\ \E i \in Ids : Create(i, t, FALSE, NoLease)
    /\ unseen' = unseen \cup {t}
    /\ UNCHANGED <<handles, observed, selected, unseenForce>>

\* EnqueuePending: create the one pending row of t or coalesce into it.
EnqueuePending(t, f) ==
    /\ \/ /\ PendingFor(t) = {}
          /\ \E i \in Ids : Create(i, t, f, NoLease)
       \/ \E p \in PendingFor(t) :
            /\ jobs' = [jobs EXCEPT ![p] = Coalesced(@, f)]
            /\ UNCHANGED before
    /\ unseen' = unseen \cup {t}
    /\ unseenForce' = IF f THEN unseenForce \cup {t} ELSE unseenForce
    /\ UNCHANGED <<handles, observed, selected>>

\* CancelPendingJobs: repository deletion withdraws the pending work of t.
CancelPendingJobs(t) ==
    /\ PendingFor(t) # {}
    /\ jobs' = [i \in Ids |-> IF i \in PendingFor(t) THEN Canceled(jobs[i])
                              ELSE jobs[i]]
    /\ unseen' = unseen \ {t}
    /\ unseenForce' = unseenForce \ {t}
    /\ UNCHANGED <<before, handles, observed, selected>>

-----------------------------------------------------------------------------
(* Claiming: a read-only selection, then a conditional write *)

ClaimSelect(i) ==
    /\ i \in Oldest
    /\ selected' = selected \cup {i}
    /\ UNCHANGED <<jobs, before, handles, observed, unseen, unseenForce>>

\* The answer may be lost after the commit: then nobody holds the new lease.
ClaimRow(i, l) ==
    /\ i \in selected
    /\ Fresh(l)
    /\ jobs' = [jobs EXCEPT ![i] = Claimed(@, l)]
    /\ handles' \in {handles, handles \cup {[HandleOf(i) EXCEPT !.lease = l]}}
    /\ selected' \in {selected, selected \ {i}}
    /\ unseen' = unseen \ {jobs[i].target}
    /\ unseenForce' = IF jobs[i].force THEN unseenForce \ {jobs[i].target}
                      ELSE unseenForce
    /\ UNCHANGED <<before, observed>>

\* claimSelectedJobSQL rechecks only that the row is still pending.
ClaimSelected(i, l) ==
    /\ jobs[i].status = "pending"
    /\ ClaimRow(i, l)

\* A claimer gives its selection up (lost race, error, shutdown, crash).
Deselect(i) ==
    /\ i \in selected
    /\ selected' = selected \ {i}
    /\ UNCHANGED <<jobs, before, handles, observed, unseen, unseenForce>>

-----------------------------------------------------------------------------
(* Lease-fenced transitions; a statement that matches no row changes       *)
(* nothing and answers ErrLeaseLost, so it is not a step.                  *)

Leased == <<before, handles, observed, selected, unseen, unseenForce>>

SetRunning(h) ==
    /\ Owned(h, {"claimed"})
    /\ jobs' = [jobs EXCEPT ![h.id] = Running(@)]
    /\ UNCHANGED Leased

\* SetJobStatus to done or failed.
Settle(h, s) ==
    /\ s \in {"done", "failed"}
    /\ Owned(h, {"running"})
    /\ jobs' = [jobs EXCEPT ![h.id] = Settled(@, s, jobs[h.id].attempts)]
    /\ UNCHANGED Leased

\* HeartbeatJob: a renewed heartbeat_at no longer equals what a reaper saw.
HeartbeatJob(h) ==
    /\ Owned(h, {"running"})
    /\ jobs' = [jobs EXCEPT ![h.id] = Aged(@, FALSE)]
    /\ observed' = {o \in observed : o.id # h.id}
    /\ UNCHANGED <<before, handles, selected, unseen, unseenForce>>

\* returnToPending: back to the queue, or merged into the pending successor.
HandBack(h, increment, gate) ==
    \/ /\ PendingFor(h.target) = {}
       /\ jobs' = [jobs EXCEPT ![h.id] =
             Returned(@, IF increment THEN h.attempts + 1 ELSE h.attempts, gate)]
    \/ \E p \in PendingFor(h.target) :
         jobs' = [jobs EXCEPT
             ![p] = Merged(@, h.force,
                           IF increment THEN h.attempts + 1 ELSE jobs[p].attempts, gate),
             ![h.id] = Settled(@, "canceled", jobs[h.id].attempts)]

ReturnToPending(h, increment, gate) ==
    /\ Owned(h, Active)
    /\ HandBack(h, increment, gate)
    /\ UNCHANGED Leased

\* RequeueJob: Runner.execute calls it only below the attempt limit.
RequeueJob(h) ==
    /\ ~Exhausted(h.attempts)
    /\ ReturnToPending(h, TRUE, TRUE)

ReleaseJob(h) == ReturnToPending(h, FALSE, FALSE)

\* Mutant of DeferJob: the row keeps its place in the queue.
DeferInPlace(h) ==
    /\ Owned(h, Active)
    /\ PendingFor(h.target) = {}
    /\ jobs' = [jobs EXCEPT ![h.id] = Returned(@, jobs[h.id].attempts, TRUE)]
    /\ UNCHANGED Leased

\* DeferJob: no attempt is consumed and the row moves to the tail; a pending
\* freshness successor wins and the leased row is canceled.
DeferJob(h) ==
    /\ Owned(h, Active)
    /\ \/ /\ PendingFor(h.target) = {}
          /\ jobs' = [jobs EXCEPT ![h.id] = Returned(@, jobs[h.id].attempts, TRUE)]
          /\ before' = ToTail(h.id)
       \/ \E p \in PendingFor(h.target) :
            /\ jobs' = [jobs EXCEPT
                  ![p] = Upgraded(@, h.force),
                  ![h.id] = Settled(@, "canceled", jobs[h.id].attempts)]
            /\ UNCHANGED before
    /\ UNCHANGED <<handles, observed, selected, unseen, unseenForce>>

\* EnsureJobSuccessor: a crash-recovery row tagged with the caller's lease,
\* unless an event already left a pending row, which is only upgraded.
EnsureJobSuccessor(h, f) ==
    /\ Owned(h, {"running"})
    /\ \/ /\ PendingFor(h.target) = {}
          /\ \E i \in Ids : Create(i, h.target, f, h.lease)
       \/ \E p \in PendingFor(h.target) :
            /\ jobs' = [jobs EXCEPT ![p] = Upgraded(@, f)]
            /\ UNCHANGED before
    /\ UNCHANGED <<handles, observed, selected, unseen, unseenForce>>

\* FailJobWithSuccessor: exhausts the recovery row this lease still owns, or
\* only the leased row when an event has coalesced into the successor.
FailJobWithSuccessor(h) ==
    /\ Owned(h, {"running"})
    /\ \/ /\ RecoveryFor(h.target, h.lease) = {}
          /\ jobs' = [jobs EXCEPT ![h.id] = Settled(@, "failed", h.attempts + 1)]
       \/ \E s \in RecoveryFor(h.target, h.lease) :
            jobs' = [jobs EXCEPT
                ![s] = Failed(@, h.attempts + 1),
                ![h.id] = Settled(@, "canceled", jobs[h.id].attempts)]
    /\ UNCHANGED Leased

-----------------------------------------------------------------------------
(* Reaping: a read of the stale leases, then one fenced write per row *)

\* Mutant of StaleRows: a claim that never started is not reaped.
StaleRunning == {i \in Ids : jobs[i].status = "running" /\ jobs[i].stale}

StaleRows == {i \in Ids : jobs[i].status \in Active /\ jobs[i].stale}

\* One batch of the stale rows.
ReapSelect(S) ==
    /\ S \subseteq StaleRows
    /\ observed' = observed \cup {HandleOf(i) : i \in S}
    /\ UNCHANGED <<jobs, before, handles, selected, unseen, unseenForce>>

\* reapOne: the row must still carry the lease and heartbeat that were read.
\* Another reaper may have read the same row and keeps its own copy.
ReapOne(o) ==
    /\ o \in observed
    /\ Owned(o, Active)
    /\ \/ /\ Exhausted(o.attempts)
          /\ jobs' = [jobs EXCEPT ![o.id] = Settled(@, "failed", jobs[o.id].attempts)]
       \/ /\ ~Exhausted(o.attempts)
          /\ HandBack(o, TRUE, FALSE)
    /\ observed' \in {observed, observed \ {o}}
    /\ UNCHANGED <<before, handles, selected, unseen, unseenForce>>

-----------------------------------------------------------------------------
(* Time, and processes that give a value up *)

LeaseAges(i) ==
    /\ jobs[i].status \in Active
    /\ ~jobs[i].stale
    /\ jobs' = [jobs EXCEPT ![i] = Aged(@, TRUE)]
    /\ UNCHANGED Leased

GateOpens(i) ==
    /\ jobs[i].status = "pending"
    /\ jobs[i].gated
    /\ jobs' = [jobs EXCEPT ![i] = Opened(@)]
    /\ UNCHANGED Leased

\* A worker finishes with its job value, or its process dies.
Forget(h) ==
    /\ handles' = handles \ {h}
    /\ UNCHANGED <<jobs, before, observed, selected, unseen, unseenForce>>

ReapForget(S) ==
    /\ observed' = observed \ S
    /\ UNCHANGED <<jobs, before, handles, selected, unseen, unseenForce>>

-----------------------------------------------------------------------------

Init ==
    /\ jobs = [i \in Ids |-> FreeRow]
    /\ before = [i \in Ids |-> {}]
    /\ handles = {}
    /\ observed = {}
    /\ selected = {}
    /\ unseen = {}
    /\ unseenForce = {}

Produce(t) ==
    \/ CreateJob(t)
    \/ CancelPendingJobs(t)
    \/ \E f \in Forces : EnqueuePending(t, f)

UseLease(h) ==
    \/ SetRunning(h)
    \/ \E s \in {"done", "failed"} : Settle(h, s)
    \/ HeartbeatJob(h)
    \/ RequeueJob(h)
    \/ ReleaseJob(h)
    \/ DeferJob(h)
    \/ \E f \in Forces : EnsureJobSuccessor(h, f)
    \/ FailJobWithSuccessor(h)
    \/ Forget(h)

Step(i) ==
    \/ ClaimSelect(i)
    \/ \E l \in Leases : ClaimSelected(i, l)
    \/ Deselect(i)
    \/ LeaseAges(i)
    \/ GateOpens(i)

Next ==
    \/ \E t \in Targets : Produce(t)
    \/ \E h \in handles : UseLease(h)
    \/ \E i \in Ids : Step(i)
    \/ \E S \in SUBSET StaleRows : ReapSelect(S)
    \/ \E o \in observed : ReapOne(o)
    \/ \E S \in SUBSET observed : ReapForget(S)

Spec == Init /\ [][Next]_vars

-----------------------------------------------------------------------------
(* Properties *)

\* At most one pending row per target: EnqueuePending and every hand-back
\* coalesce, and the unique pending_key index backs CreateJob.
OnePendingPerTarget ==
    \A t \in Targets : \A i, j \in PendingFor(t) : i = j

\* An event recorded by EnqueuePending or CreateJob stays visible as a pending
\* row until a claim follows it, whatever running jobs of the same target do:
\* in particular FailJobWithSuccessor never consumes a row an event joined.
EventNotLost ==
    \A t \in unseen : PendingFor(t) # {}

\* The same for the force flag: no hand-back, deferral, recovery successor or
\* reap drops a force request that no forced claim has picked up.
ForceNotLost ==
    \A t \in unseenForce : \E p \in PendingFor(t) : jobs[p].force

\* A row that may still execute has an execution left: reaping and requeuing
\* stop at MaxAttempts, and merging never revives an exhausted row.
AttemptsBounded ==
    \A i \in Ids : jobs[i].status \in Live => jobs[i].attempts < MaxAttempts

\* A worker that leaves a target (requeue, release, deferral, reap) leaves a
\* pending row of that target that carries its force flag, unless the leased
\* row was exhausted together with the recovery row its own lease created.
HandBackKeepsWork ==
    [][\A i \in Ids :
        jobs[i].status \in Active /\ jobs'[i].status \in {"pending", "canceled"} =>
            \/ \E p \in Ids : /\ jobs'[p].status = "pending"
                              /\ jobs'[p].target = jobs[i].target
                              /\ jobs[i].force => jobs'[p].force
            \/ \E p \in Ids : /\ p \in RecoveryFor(jobs[i].target, jobs[i].lease)
                              /\ jobs'[p].status = "failed"]_vars

\* Once the fence has refused a job value it refuses it forever, even when the
\* same row is claimed again: a worker told ErrLeaseLost can never write again.
LostLeaseStaysLost ==
    [][\A h \in handles : ~Owned(h, Active) => ~Owned(h, Active)']_vars

=============================================================================
