---------------------------- MODULE RepoDeletion ----------------------------
(***************************************************************************)
(* The life of one repository: a sync mirrors it and upserts its row, a    *)
(* fetch refreshes the mirror, Index publishes its bytes, and once no      *)
(* connection claims it the reconciliation deletes it again                *)
(* (internal/sync: sync.go, fetch.go, reconcile.go).                       *)
(*                                                                         *)
(* Deletion first marks the row, which takes the repository out of search, *)
(* then cancels its pending jobs, takes its work lock, cancels again and   *)
(* looks again; only then does it remove bytes, and the row goes last.     *)
(* Until the first removal a failure undoes the mark, afterwards it keeps  *)
(* it and a later reconciliation resumes.                                  *)
(*                                                                         *)
(* One runner executes the sync jobs (RunnerConcurrencyPerKind) and a sync *)
(* reconciles before it ends, so syncs and reconciliations are one process *)
(* here; the fetch and index runners are two others.  The index files are  *)
(* the shards and manifests that search opens.                             *)
(***************************************************************************)
EXTENDS Naturals

CONSTANTS
    MaxChanges, \* bound on changes of the connection's listing
    MaxHooks,   \* bound on webhook fetches
    MaxFaults,  \* bound on canceled calls and failed steps
    MaxCrashes  \* bound on process crashes

ASSUME BoundsAssumption ==
    {MaxChanges, MaxHooks, MaxFaults, MaxCrashes} \subseteq Nat

VARIABLES
    wanted,  \* the connection's listing names the repository
    listed,  \* ... as the running sync read it
    member,  \* repo_connection has a row: some connection claims it
    row,     \* "absent", "live" or "deleting"
    indexed, \* the row records an indexed revision
    mirror,  \* the bare mirror is on disk
    files,   \* the shards and manifests that search opens are on disk
    jobs,    \* its pending jobs; "force": the pending index job is forced
    lock,    \* holder of the work lock
    sync, fetch, index, \* what each runner does
    hook,    \* a webhook has found the row live and is about to queue a fetch
    failed,  \* the running reconciliation met an error
    up,      \* the startup reconciliation finished
    changes, hooks, faults, crashes

bounds == <<changes, hooks, faults, crashes>>
claim == <<wanted, listed, member>>
repoVars == <<claim, row, indexed, mirror, files, jobs, lock, sync, fetch, index, hook, failed,
          up, bounds>>

SyncSteps == {"idle", "mirror", "upsert", "reactivate", "enqueue", "members",
              "orphans", "mark", "lock", "plan", "busy", "undo", "files", "tree", "row",
              "trees", "mirrors", "audit", "end"}

\* The type invariant.
RepoTypeOK ==
    /\ {wanted, listed, member, indexed, mirror, files, hook, failed, up} \subseteq BOOLEAN
    /\ row \in {"absent", "live", "deleting"}
    /\ jobs \subseteq {"fetch", "index", "force"}
    /\ lock \in {"none", "sync", "fetch", "index"}
    /\ sync \in SyncSteps
    /\ fetch \in {"idle", "start", "recheck"} /\ index \in {"idle", "start", "forced", "publish", "commit"}
    /\ changes \in 0 .. MaxChanges /\ hooks \in 0 .. MaxHooks
    /\ faults \in 0 .. MaxFaults /\ crashes \in 0 .. MaxCrashes

RepoInit ==
    /\ wanted = TRUE /\ listed = FALSE /\ member = FALSE
    /\ row = "absent" /\ indexed = FALSE /\ mirror = FALSE /\ files = FALSE
    /\ jobs = {} /\ lock = "none"
    /\ sync = "idle" /\ fetch = "idle" /\ index = "idle"
    /\ hook = FALSE /\ failed = FALSE /\ up = FALSE
    /\ changes = 0 /\ hooks = 0 /\ faults = 0 /\ crashes = 0

Fault == faults < MaxFaults /\ faults' = faults + 1 /\ UNCHANGED <<changes, hooks, crashes>>
UnlockSync == IF lock = "sync" THEN "none" ELSE lock
EnqueueIndex(forced) == jobs' = jobs \cup {"index"} \cup (IF forced THEN {"force"} ELSE {})
CancelPending == jobs' = {}

------------------------------------------------------------------------------
(* HandlerWithLifecycles: a sync *)

\* The host is listed.
SyncBegin ==
    /\ up /\ sync = "idle"
    /\ listed' = wanted
    /\ sync' = IF wanted THEN "mirror" ELSE "members"
    /\ UNCHANGED <<wanted, member, row, indexed, mirror, files, jobs, lock, fetch,
                   index, failed, hook, up, bounds>>

\* mirrorAndUpsert under the work lock: clone or fetch,
SyncMirror ==
    /\ sync = "mirror" /\ lock = "none"
    /\ lock' = "sync" /\ mirror' = TRUE /\ sync' = "upsert"
    /\ UNCHANGED <<claim, row, indexed, files, jobs, fetch, index, failed, hook, up, bounds>>

\* then the row, whose deleting mark and index state an upsert leaves alone,
SyncUpsert ==
    /\ sync = "upsert"
    /\ row' = IF row = "absent" THEN "live" ELSE row
    /\ sync' = "reactivate"
    /\ UNCHANGED <<claim, indexed, mirror, files, jobs, lock, fetch, index, failed, hook, up,
                   bounds>>

\* Mutant of SyncReactivate: the mark of an earlier deletion stays.
SyncReactivateNot ==
    /\ sync = "reactivate"
    /\ lock' = "none" /\ sync' = "enqueue"
    /\ UNCHANGED <<claim, row, indexed, mirror, files, jobs, fetch, index, failed, hook, up, bounds>>

\* then SetRepoDeleting(false).
SyncReactivate ==
    /\ sync = "reactivate"
    /\ row' = "live" /\ lock' = "none" /\ sync' = "enqueue"
    /\ UNCHANGED <<claim, indexed, mirror, files, jobs, fetch, index, failed, hook, up, bounds>>

SyncEnqueue ==
    /\ sync = "enqueue"
    /\ EnqueueIndex(FALSE)
    /\ sync' = "members"
    /\ UNCHANGED <<claim, row, indexed, mirror, files, lock, fetch, index, failed, hook, up, bounds>>

\* SetRepoConnections replaces the claims after a complete sync only.
SyncMembers ==
    /\ sync = "members"
    /\ member' = listed /\ sync' = "orphans" /\ failed' = FALSE
    /\ UNCHANGED <<wanted, listed, row, indexed, mirror, files, jobs, lock, fetch,
                   index, hook, up, bounds>>

\* A step of the sync fails: the lock is released and the job is retried.
SyncFail ==
    /\ sync \in {"mirror", "upsert", "reactivate", "enqueue", "members"} /\ Fault
    /\ sync' = "idle" /\ lock' = UnlockSync
    /\ UNCHANGED <<claim, row, indexed, mirror, files, jobs, fetch, index, failed, hook, up>>

------------------------------------------------------------------------------
(* ReconcileArtifacts, at startup and at the end of a sync *)

Startup ==
    /\ ~up /\ sync = "idle"
    /\ sync' = "orphans" /\ failed' = FALSE
    /\ UNCHANGED <<claim, row, indexed, mirror, files, jobs, lock, fetch, index, hook, up,
                   bounds>>

\* Mutant of Orphaned: a row that is already marked is not taken up again.
OrphanedUnmarked == row = "live" /\ ~member

\* RepoStatuses: a row no connection claims is an orphan.
Orphaned == row # "absent" /\ ~member

Orphans ==
    /\ sync = "orphans"
    /\ sync' = IF Orphaned THEN "mark" ELSE "trees"
    /\ UNCHANGED <<claim, row, indexed, mirror, files, jobs, lock, fetch, index, failed,
                   hook, up, bounds>>

\* SetRepoDeleting(true), and the pending jobs are canceled.
MarkDeleting ==
    /\ sync = "mark"
    /\ row' = "deleting" /\ CancelPending /\ sync' = "lock"
    /\ UNCHANGED <<claim, indexed, mirror, files, lock, fetch, index, failed, hook, up, bounds>>

\* Mutant of Lockable: deletion does not wait for the running job.
LockableAlways == TRUE

Lockable == lock = "none"

\* The work lock within its bounded wait; jobs queued meanwhile are canceled.  A
\* row that is no longer marked ends the deletion, which releases the lock.
LockForDeletion ==
    /\ sync = "lock" /\ Lockable
    /\ CancelPending
    /\ IF row = "deleting" THEN lock' = "sync" /\ sync' = "plan"
                           ELSE lock' = "none" /\ sync' = "trees"
    /\ UNCHANGED <<claim, row, indexed, mirror, files, fetch, index, failed, hook, up, bounds>>

\* The lock stays busy for the whole wait, or a call before the removals fails.
GiveUp ==
    /\ \/ sync = "lock" /\ lock # "none" /\ sync' = "busy" /\ UNCHANGED bounds
       \/ sync \in {"lock", "plan"} /\ Fault /\ sync' = "undo"
    /\ failed' = TRUE
    /\ UNCHANGED <<claim, row, indexed, mirror, files, jobs, lock, fetch, index, hook, up>>

\* rollback: SetRepoDeleting(false) without the caller's cancellation.  A busy
\* lock or a canceled context ends the reconciliation.
Undo ==
    /\ sync \in {"busy", "undo"}
    /\ \/ row' = "live" /\ UNCHANGED bounds
       \/ Fault /\ UNCHANGED row
    /\ lock' = UnlockSync
    /\ sync' \in IF sync = "busy" THEN {"end"} ELSE {"trees", "end"}
    /\ UNCHANGED <<claim, indexed, mirror, files, jobs, fetch, index, failed, hook, up>>

\* The preflight passed; the removals begin.
Plan ==
    /\ sync = "plan"
    /\ sync' = "files"
    /\ UNCHANGED <<claim, row, indexed, mirror, files, jobs, lock, fetch, index, failed,
                   hook, up, bounds>>

RemoveFiles ==
    /\ sync = "files"
    /\ files' = FALSE /\ sync' = "tree"
    /\ UNCHANGED <<claim, row, indexed, mirror, jobs, lock, fetch, index, failed, hook, up,
                   bounds>>

RemoveMirror ==
    /\ sync = "tree"
    /\ mirror' = FALSE /\ sync' = "row"
    /\ UNCHANGED <<claim, row, indexed, files, jobs, lock, fetch, index, failed, hook, up,
                   bounds>>

\* DeleteRepo takes the row with its index state.  A fetch or an index job queued
\* since the lock was taken stays pending.
DeleteRow ==
    /\ sync = "row"
    /\ row' = "absent" /\ indexed' = FALSE
    /\ lock' = "none" /\ sync' = "trees"
    /\ UNCHANGED <<claim, mirror, files, jobs, fetch, index, failed, hook, up, bounds>>

\* destructiveFailure: the row stays marked.
DestructiveFailure ==
    /\ sync \in {"files", "tree", "row"} /\ Fault
    /\ lock' = "none" /\ sync' = "trees" /\ failed' = TRUE
    /\ UNCHANGED <<claim, row, indexed, mirror, files, jobs, fetch, index, hook, up>>

\* reconcileUntrackedShards and reconcileFocusedArtifacts remove the shards and
\* manifests that no live row owns, without a lock; controls and generations stay.
UntrackedFiles ==
    /\ sync = "trees"
    /\ files' = (files /\ row = "live") /\ sync' = "mirrors"
    /\ UNCHANGED <<claim, row, indexed, mirror, jobs, lock, fetch, index, failed, hook, up, bounds>>

\* reconcileUntrackedMirrors: a mirror without a live row goes; a busy lock
\* ends the audit.
UntrackedMirror ==
    /\ sync = "mirrors"
    /\ IF row = "live" \/ ~mirror
       THEN sync' = "audit" /\ UNCHANGED <<mirror, failed>>
       ELSE IF lock = "none"
       THEN mirror' = FALSE /\ sync' = "audit" /\ UNCHANGED failed
       ELSE failed' = TRUE /\ sync' = "end" /\ UNCHANGED mirror
    /\ UNCHANGED <<claim, row, indexed, files, jobs, lock, fetch, index, hook, up, bounds>>

\* reconcileIndexedRevisions: a live row without its files loses its index
\* state; a row without index state is queued when its mirror exists.
RevisionAudit ==
    /\ sync = "audit"
    /\ IF row # "live" \/ (indexed /\ files)
       THEN UNCHANGED <<indexed, jobs, failed>>
       ELSE IF lock # "none"
       THEN failed' = TRUE /\ UNCHANGED <<indexed, jobs>>
       ELSE /\ indexed' = FALSE
            /\ IF mirror THEN EnqueueIndex(indexed \/ files) ELSE UNCHANGED jobs
            /\ UNCHANGED failed
    /\ sync' = "end"
    /\ UNCHANGED <<claim, row, mirror, files, lock, fetch, index, hook, up, bounds>>

\* A failed startup reconciliation stops the process, which starts again.
ReconcileEnd ==
    /\ sync = "end"
    /\ sync' = "idle" /\ up' = (up \/ ~failed) /\ failed' = FALSE
    /\ UNCHANGED <<claim, row, indexed, mirror, files, jobs, lock, fetch, index, hook, bounds>>

Sync ==
    \/ SyncBegin \/ SyncMirror \/ SyncUpsert \/ SyncReactivate \/ SyncEnqueue \/ SyncMembers
    \/ SyncFail \/ Startup \/ Orphans \/ MarkDeleting \/ LockForDeletion \/ GiveUp \/ Undo
    \/ Plan \/ RemoveFiles \/ RemoveMirror \/ DeleteRow \/ DestructiveFailure
    \/ UntrackedFiles \/ UntrackedMirror \/ RevisionAudit \/ ReconcileEnd

------------------------------------------------------------------------------
(* FetchHandler *)

FetchClaim ==
    /\ up /\ fetch = "idle" /\ "fetch" \in jobs
    /\ jobs' = jobs \ {"fetch"} /\ fetch' = "start"
    /\ UNCHANGED <<claim, row, indexed, mirror, files, lock, sync, index, failed, hook, up,
                   bounds>>

\* Under the lock: nothing for a row that is gone or marked, an error for a
\* repository nobody claims; otherwise the mirror is fetched or cloned.
FetchMirror ==
    /\ fetch = "start" /\ lock = "none"
    /\ IF row = "live" /\ member
       THEN lock' = "fetch" /\ mirror' = TRUE /\ fetch' = "recheck" /\ UNCHANGED jobs
       ELSE /\ fetch' = "idle" /\ UNCHANGED <<lock, mirror>>
            /\ \/ UNCHANGED jobs
               \/ row = "live" /\ jobs' = jobs \cup {"fetch"}
    /\ UNCHANGED <<claim, row, indexed, files, sync, index, failed, hook, up, bounds>>

\* The row is read again: a deletion that began meanwhile gets its mirror removed.
FetchRecheck ==
    /\ fetch = "recheck"
    /\ IF row = "live"
       THEN EnqueueIndex(FALSE) /\ UNCHANGED mirror
       ELSE mirror' = FALSE /\ UNCHANGED jobs
    /\ fetch' = "idle" /\ lock' = "none"
    /\ UNCHANGED <<claim, row, indexed, files, sync, index, failed, hook, up, bounds>>

Fetch == FetchClaim \/ FetchMirror \/ FetchRecheck

------------------------------------------------------------------------------
(* Indexer.Index; SearchPublication has its publication in detail *)

IndexClaim ==
    /\ up /\ index = "idle" /\ "index" \in jobs
    /\ jobs' = jobs \ {"index", "force"}
    /\ index' = IF "force" \in jobs THEN "forced" ELSE "start"
    /\ UNCHANGED <<claim, row, indexed, mirror, files, lock, sync, fetch, failed, hook, up,
                   bounds>>

\* Under the lock: nothing for a row that is gone or marked or, unless forced,
\* already at HEAD; an error without a mirror, which may be retried.
IndexStart ==
    /\ index \in {"start", "forced"} /\ lock = "none"
    /\ IF row = "live" /\ mirror /\ (index = "forced" \/ ~indexed)
       THEN lock' = "index" /\ index' = "publish" /\ UNCHANGED jobs
       ELSE /\ index' = "idle" /\ UNCHANGED lock
            /\ \/ UNCHANGED jobs
               \/ row = "live" /\ ~mirror /\ EnqueueIndex(index = "forced")
    /\ UNCHANGED <<claim, row, indexed, mirror, files, sync, fetch, failed, hook, up, bounds>>

IndexPublish ==
    /\ index = "publish"
    /\ files' = TRUE /\ index' = "commit"
    /\ UNCHANGED <<claim, row, indexed, mirror, jobs, lock, sync, fetch, failed, hook, up,
                   bounds>>

IndexCommit ==
    /\ index = "commit"
    /\ indexed' = TRUE /\ lock' = "none" /\ index' = "idle"
    /\ UNCHANGED <<claim, row, mirror, files, jobs, sync, fetch, failed, hook, up, bounds>>

Index == IndexClaim \/ IndexStart \/ IndexPublish \/ IndexCommit

------------------------------------------------------------------------------
(* The environment *)

\* The host's listing, or the configured filter, gains or loses the repository.
Relist ==
    /\ changes < MaxChanges /\ changes' = changes + 1
    /\ wanted' = ~wanted
    /\ UNCHANGED <<listed, member, row, indexed, mirror, files, jobs, lock, sync, fetch,
                   index, failed, hook, up, hooks, faults, crashes>>

\* A webhook looks the repository up and, unless it is gone or marked,
WebhookFind ==
    /\ up /\ ~hook /\ row = "live"
    /\ hooks < MaxHooks /\ hooks' = hooks + 1
    /\ hook' = TRUE
    /\ UNCHANGED <<claim, row, indexed, mirror, files, jobs, lock, sync, fetch, index, failed,
                   up, changes, faults, crashes>>

\* queues a fetch, whatever has become of it meanwhile.
WebhookEnqueue ==
    /\ hook /\ hook' = FALSE
    /\ jobs' = jobs \cup {"fetch"}
    /\ UNCHANGED <<claim, row, indexed, mirror, files, lock, sync, fetch, index, failed,
                   up, bounds>>

\* The process stops; running jobs are handed back to the queue.
Crash ==
    /\ crashes < MaxCrashes /\ crashes' = crashes + 1
    /\ sync' = "idle" /\ fetch' = "idle" /\ index' = "idle" /\ lock' = "none"
    /\ \E f \in {{}, {"force"}} :
         /\ (index \in {"idle", "start"} => f = {}) /\ (index = "forced" => f # {})
         /\ jobs' = jobs \cup (IF fetch # "idle" THEN {"fetch"} ELSE {})
                         \cup (IF index # "idle" THEN {"index"} \cup f ELSE {})
    /\ listed' = FALSE /\ hook' = FALSE /\ failed' = FALSE /\ up' = FALSE
    /\ UNCHANGED <<wanted, member, row, indexed, mirror, files, changes, hooks, faults>>

RepoNext == Sync \/ Fetch \/ Index \/ Relist \/ WebhookFind \/ WebhookEnqueue \/ Crash

RepoSpec == RepoInit /\ [][RepoNext]_repoVars

\* Each runner keeps polling, syncs recur, and the work lock is first come,
\* first served; nobody has to change a listing, push or crash.
RepoFairSpec ==
    /\ RepoSpec
    /\ WF_repoVars(Sync) /\ WF_repoVars(Fetch) /\ WF_repoVars(Index)
    /\ SF_repoVars(SyncMirror) /\ SF_repoVars(FetchMirror) /\ SF_repoVars(IndexStart)

------------------------------------------------------------------------------
(* Properties *)

\* A repository without a row has no index files, and nobody is about to
\* publish some: deletion removes the bytes before the row, under the work
\* lock that every publication holds, so no index job that was running or
\* queued when deletion began can leave searchable bytes behind.
DeletedLeavesNothing ==
    row = "absent" => ~files /\ index \notin {"publish", "commit"}

\* A repository that no connection lists any more is deleted with its mirror
\* and its index files, through busy locks, failed removals and restarts.
OrphanGoes == <>[]~wanted => <>[](row = "absent" /\ ~mirror /\ ~files)

\* A repository that stays listed is in the end live and indexed, with its
\* files, also when a deletion of it had begun or had failed half way.
ClaimedIsServed == <>[]wanted => <>[](row = "live" /\ indexed /\ files /\ mirror)

\* "reactivation would expose a searchable row without its bytes"
\* (reconcile.go:658): no row is searchable without its index files.
SearchableHasBytes == row = "live" /\ indexed => files

==============================================================================
