# TLA+ models of phebs

phebs indexes the repositories of an organisation, extracts facts from their
source and publishes search indexes, catalogs and caller maps. One Go process
supervises a SurrealDB child and runs many loops over the tables in it: job
runners, generation schedulers, a lifecycle controller, HTTP handlers. The hard
part of the program is not any one of these loops but what they do to each
other: leases that go stale under a living worker, work that is superseded while
it runs, answers lost after a commit, fences that must drain without losing a
wakeup. That is what this directory models.

    tlc -workers 2 -config MCJobQueue.cfg MCJobQueue     # one run
    tlapm JobQueueProofs.tla                             # one module's proofs

`PROJECT.json` lists the components, runs, mutants, source lines of every
definition, hazards and theorems.

## Inventory

| Component | State | Operations | Interacts through | Hard behaviour | Correct when |
|---|---|---|---|---|---|
| Job queue (`store/surreal.go`) | one table per job kind: status, attempts, force, lease token, heartbeat, gate, recovery provenance | enqueue, create, cancel, two-step claim, heartbeat, settle, requeue, release, defer, ensure/fail with successor, reap | transactions on shared rows | stale selections, stale reaper reads, merging of rows, retried writes | one pending row per target; no event or force flag lost; attempts bounded; a lost lease stays lost |
| Job runner (`store/runner.go`) | per worker: job, handler result, drain deadline, context | poll, reap, drain, execute, persist | the queue; the owner barrier | shutdown, death, ambiguous errors, heartbeat races | implements the queue; fails only what is refused or exhausted; every event is claimed, every lease ends |
| Heartbeats (`store/runner.go`, `generationscheduler/runner.go`) | last confirmation, ticker, call in flight | tick, beat, confirm, give up | the row's `heartbeat_at`, the reaper's cutoff | slow calls against the cutoff | belief is conservative; overlap with a successor is bounded |
| Generation schedules (`store/generation_schedule.go`) | schedule rows with counters, current pointers, chunk rows, a token counter per repository | enqueue, retire, expand, claim, heartbeat, complete, fail, retry, release, defer, reap, reconcile | transactions over four tables | superseding under running work, settling, lost answers | counters agree with rows; one live attempt per range; settles exactly when complete |
| Scheduler loops (`generationscheduler`) | admission, worker slots, handler, terminal and marker measurement | plan, reap, work, executeOwned | schedules; the barrier | outcome switch under cancellation | implements the schedules |
| Repository lock (`repowork/lock.go`) | registry of reference-counted channel locks | lock with context, unlock | fetch, index, deletion | entry removed while a waiter arrives; cancellation | mutual exclusion per directory, no leak, no lost token |
| Owner barrier (`dispatchadmission/owners.go`) | slot masks, generations, fences, retentions, sticky error | Enter, EnterRequest, End, Pause/Resume, FenceRequests/OpenRequests, FenceTerminal, FenceMeasurement | every loop and HTTP handler | wakeups, stray ends, fences that meet | a drained fence is empty, a retained owner alone, nobody sleeps for good |
| Dispatch admission (`dispatchadmission/client.go`, `controller.go`, `phase_control.go`) | controller: phase, fence, counts, tokens per producer; client: pause, fence, checkpoint, tokens, one request gate | start, settle, pause, checkpoint, resume, close, expected death and reopening | one socket per producer; the owner's calls | a pause against the gate, the gap between echo and start, carried commands, a killed child | commands run in the phase they are counted in, a complete count is exact, no false refusal, plans end |
| Sync and deletion (`sync`) | repository rows, memberships, mirrors, index files, jobs | sync, fetch, reconcile, delete, audit, startup | queue, lock, publications, webhook | reactivation during deletion, failure half-way | nothing outlives its row; an orphan goes, a listed repository is served |
| Lifecycle (`lifecycle`, the owners' sweeps) | rotation and owner cursors, the runner's cycle state, capacity latch | tick, sweep, save, check, turn | all publications; admissions | two compare-and-swaps, malformed siblings, restarts | idle is earned; every namespace is collected; the latch opens |
| Search publication (`indexer`, `focusedindex`) | row, flat files, generation directories, lifecycle root, transition and publishing markers | index, publish, commit, roll back, recover, audit, sweep | the work lock, the store, the lifecycle runner | crash between any two files, lost answers, an audit without the lock | what is visible is what the row says; the row is selectable; the index reaches HEAD |
| Other publications, resolver catalogs, caller leaves | marker, files, store row | install, publish, clear, reconcile | job handlers | crash between any two | never authority without bytes |
| Login limiter (`auth/limiter.go`) | per client: failures, attempts in flight, end of the window; Argon2 slots | reserve, cancel, fail, succeed, sweep | login and setup handlers | windows that end with attempts in flight, a full table | reservations exact, limit kept, failures stand |
| Recovery (`recovery`) | archive, spool, store | checkpoint, restore, replay | store | crash in the middle | replay is idempotent |
| Extractors, typed builds, search, API, MCP, config | inputs and outputs | parse, query, format | | | data transformation: not modelled |

## Modules

| Module | Models | State and actions |
|---|---|---|
| `JobQueue` | one job table | every transaction of `store/surreal.go` on jobs is one action; a claim and a reap are two (read, fenced write), with the value read kept in `selected` and `observed`. Whoever was handed a lease may use it at any time, again and again (`handles`) |
| `JobRunner` | `Runner.Run`, `execute`, `persist` | a program counter per worker; writes are the actions of `JobQueue` (`Q == INSTANCE JobQueue WITH ...`), with faults that leave the transaction committed or not |
| `HeartbeatLease` | the heartbeat goroutine of either runner against the reaper, in discrete time | `Tick`, `SendBeat`, `Commit`, `Succeed`, `Fail`, `Refuse`, `Finish`, `Reap`, `Pass` |
| `GenerationSchedule` | schedules, chunks and their counters | one action per transaction, those of `typed_index_lifecycle.go` and `service_state_v3.go` that fence or gate a schedule included; `ReconcileCompletion` and `ReconcileExhaustion` are what a worker concludes from a row |
| `RepoLock` | `repowork.LockContext` | `Register`, `Take`, `Cancel`, `Unlock`, `ReleaseEntry`, split where the code gives up the registry's mutex |
| `OwnerBarrier` | `Owners`, `OwnerTurn`, `OwnerMeasurement` | one action per critical section; `asleep` are the goroutines waiting on the current channel |
| `SearchPublication` | `Indexer.Index`, `startPublication` and its relatives, the audit and the sweep, for one repository | one action per file operation or store call of an agent (`index`, `audit`), each a possible crash point; a publishing marker remembers whose process wrote it |
| `RepoDeletion` | sync, fetch, index, reconciliation, webhook and startup of one repository | a program counter per runner; every destructive step of a deletion is an action |
| `Lifecycle` | `Controller.tick`, `runnerState.turn`, `Gate` | `Sweep`, `SaveCursor`, `SaveRotation`, `Probe`, `EndTurn`, `Wake`, and admissions (`AdmitProbe`, `AdmitCheck`) that share the latch |
| `DispatchAdmission` | `Client`, `Controller`, their socket, and the owner's calls | threads of a producer (`Enter` ... `Settled`), the owner's call in a client (`Pause` ... `Resume`), the receiver (`Accept`, `EndStream`, `StreamBreaks`), the owner (`Begin` ... `CancelUnused`) |
| `LoginLimiter` | `loginLimiter` under `handleLogin` and `handleSetup` | one action per locked section; the clock lowers the time left of each window |
| `JobQueueProofs`, `JobRunnerProofs`, `GenerationScheduleProofs`, `OwnerBarrierProofs`, `SearchPublicationProofs`, `DispatchAdmissionProofs` | theorems about the module each is named for; `JobRunnerProofs` also about `HeartbeatLease` | see below |
| `RepositoryProofs` | theorems about `RepoLock`, and about `RepoDeletion`, whose one `lock` variable they justify | see below |
| `PacingProofs` | theorems about what paces the rest: `Lifecycle` and `LoginLimiter` | see below |
| `MC*` | the instances for TLC | bounds, symmetry, values |

Conventions. Names follow the source. `stale` and `gated` stand for the two time
comparisons the queries make (`heartbeat_at` before a reaper's cutoff,
`not_before` in the future), so only `HeartbeatLease` and `LoginLimiter` have a clock. Lease tokens
are random in the code and fresh in the models. A transaction is atomic; an
answer lost after its commit is a fault of the caller. SurrealDB evaluates the
right-hand sides of one `SET` on the record as it was, so `Settles` compares
`running = 1` with the value before the decrement, as the statements do.
Operators whose comment says "Mutant of" are deliberately broken variants, used
only to show that a property notices such a bug; nothing else refers to them.

## Runs

| Run | Checks | Shows |
|---|---|---|
| `job_queue` | `EventNotLost`, `ForceNotLost`, `AttemptsBounded`, `HandBackKeepsWork`, `LostLeaseStaysLost` | the queue under callers that obey no protocol at all |
| `job_runner` | `QueueSpec`, `FailureConsumesRecovery`, `NoEarlyFailure` | two workers, one fault: the runner refines the queue, fails a job only when it may, and then takes the recovery row of its own lease along unless the handler's error came without the tag |
| `job_runner_live` | `EventClaimed`, `LeaseEnds` | two targets, deferrals, yields, one fault: nothing starves, nothing stays leased |
| `generation_schedule` | `OneLiveAttempt`, `CountersAgree`, `SettlesExactly`, `EvidenceIsTruthful`, `ActiveIsCurrent`, `FencedStaysFenced` | one generation of two pages with a short last chunk, one serial plan, or any two of three generations, one of them typed, that supersede each other or share the repository's tokens |
| `heartbeat_job` | `OverlapBounded` | the job runner's durations in seconds |
| `repo_lock` | `MutualExclusion`, `WaiterServed` | three callers, two directories, one with two spellings |
| `owner_barrier` | `QuiescenceIsReal`, `TurnOwnsSlot`, `NoLostWakeup`, `DrainEnds` | three loops on two slots and one request |
| `search_publication` | `VisibleMatchesRow`, `RowIsSelectable`, `Converges` | Index, audit and sweep with a push, two faults and a crash between any two steps |
| `repo_deletion` | `DeletedLeavesNothing`, `OrphanGoes`, `ClaimedIsServed` | a repository that is listed, dropped and listed again, with failures at every step and a restart |
| `lifecycle` | `IdleIsEarned`, `Collected`, `LatchReleases` | two owners, a malformed namespace, pressure, admissions, one fault |
| `dispatch_admission` | `PhaseIsolation`, `RunningIsCounted`, `CompleteIsExact`, `NoFalseRefusal`, `PlanEnds` | two phases, persistent commands of the parent and of the child, a killed child and its successor, one fault |
| `login_limiter` | `ReservationsCounted`, `WithinBudget`, `FailuresStand` | three clients on a table of two, three requests |

Bounds, and why they are enough:

- `job_queue`: three rows of one target hold a leased row, its successor and one
  of a later event at once; two leases and at most two values in flight
  (`InFlight`) are a holder and a reaper, or two claimants, in a race. Two
  attempts give a first and a final execution. With one target the `created_at`
  order decides nothing and is left out of the view.
- `job_runner`: two rows, two workers, one fault (`MaxFaults`) of any kind.
  `job_runner_live` has two targets, so that a deferred row can starve another;
  symmetry is unsound for liveness, so `InOrder` fixes the choice of
  interchangeable ids and tokens instead.
- `generation_schedule`: two chunks (one page each, `MaxFanoutPage = 1`), two
  attempts and two tokens for the generation that runs alone; one chunk each for
  two of the others, since only superseding and the shared tokens matter between
  generations. The serial plan has two chunks, so that one waits for the other and
  one drains after the other's failure, and one attempt: a chunk applied but not
  completed comes back through a release or the reaper. With two attempts it was
  checked alone (602,000 states), and so were the three short generations at once
  (1.4 million states).
- `heartbeat_job`: the code's defaults, one unit per second. `Horizon` cuts time off
  at twice the cutoff, later than any handler survives (`OverlapBounded`).
- `owner_barrier`: three loops for two slots reach the waiter limit and slot
  reuse, `MaxGeneration = 2` the end of a generation counter.
- `search_publication`: two revisions and one push are an index and its
  replacement, three generations the code's own limit of a current, a prior and a
  candidate; two faults are a lost answer and a lost re-read, one crash falls
  between any two steps. With two pushes (1.73 million states) nothing changes.
- `repo_deletion`: three changes of the listing are listed, dropped, listed and
  dropped again; two faults make a deletion fail after its first removal and again
  before its second attempt's; two webhooks and one restart.
- `lifecycle`: two owners of up to two repositories, of which one may be
  malformed; usage below and between the marks, with an admission whose estimate
  crosses the hard mark; one artifact, one change of usage, one fault. Two faults
  and a third level of usage were checked as well.
- `dispatch_admission`: two threads of the child meet at the gate, a thread of the
  parent counts into the same phases, and the successor takes over with none of its
  own; two commands tried altogether, a budget of two per phase, one fault. Only the
  first thread of the child runs persistent commands (`OneSite`). The safety invariants also
  hold without that bound, with a thread in the successor and three commands, more than
  the budget (`MCDispatchLarge.cfg`, 6.89 million states). `Active` is not below the
  number of threads: the code fails a client whose callers exceed it, by design.
- `login_limiter`: a table smaller than the set of clients, so that sweeps happen;
  a limit of two and three requests, so that attempts outlive a window beside a
  failure of the next.

Deadlock is a stop the system may make in the queue and schedule models (all rows
used up), in the barrier and the dispatch protocol (a failure is final, a run
ends), and in the search publication and the runs whose configuration says so; it
is not checked there. The other models are deadlock free.

### Fairness

- `JobRunner`: a worker keeps taking its own steps (`Run` polls on a timer and
  handlers end, since their context is canceled with the lease), stopped processes
  are restarted, gates open, and a heartbeat nobody renews grows older. Beats,
  successors, faults and events are never forced to happen.
- `RepoLock`: holders release, and a Go channel serves its receivers in order
  (strong fairness of `Take`).
- `OwnerBarrier`: admitted turns end and woken goroutines run. Turns that are
  retained need not end: the drain that waits for them has its own deadline.
- `SearchPublication`, `RepoDeletion`: the runners, the audit and the sweep keep
  going; taking the work lock is strongly fair, since it is a channel whose waiters
  are served in order. A job that failed for good is queued again by the next sync.
- `Lifecycle`: the runner's timer fires and its steps return. Publications,
  admissions, faults and changes of usage are never forced.
- `DispatchAdmission`: threads, receivers and the owner keep going. The request gate is
  a Go channel that serves its waiters in turn; here the attempts are bounded, so
  contention for it ends and weak fairness is enough. One-shot commands end;
  persistent ones when their producer closes, which is when the code stops them, and the
  parent's, which is the session of its child, also when that child was killed.

`HeartbeatLease` needs none: `Pass` is disabled while anything of the goroutine is due,
so a due goroutine runs before the clock advances and a call ends by its deadline
(`context.WithTimeout`). One clock is assumed for process and store; the code says so
too ("same host today"). `JobQueue`, `GenerationSchedule` and `LoginLimiter` state
safety only.

### Where the code and its documentation disagree

Six configurations state what a comment or a guide says; TLC refutes each. They are
reproductions to run by hand: the runs above hold with all of these behaviours in the
model.

1. *A marker that nobody resolves.* `focusedindex/search_generation.go:1218` calls
   `RecoverSearchPublication` "the startup repair for every publication crash
   point". A process that stops after the transition marker was written (line 1113)
   and before the publishing marker (line 1178) of a repository's first index leaves
   a marker that is out of reach: the startup audit looks for publishing markers
   (`sync/reconcile.go:446`), `Index` recovers only a row with revisions or a
   publishing marker (`indexer/indexer.go:376`), and the next publication cannot
   write its marker because control files are created exclusively
   (`focusedindex/model.go:219`). `Converges` excepts the
   state, so that its run shows everything else converges.
   `tlc -config MCSearchMarker.cfg MCSearchPublication` gives the schedule.
2. *A runner that never rests.* `docs/guides/OPERATIONS.md:5064`: "a completed
   unpressured cycle returns to one hour". The search owner reports `More` whenever
   it has more than one repository (`focusedindex/search_generation_lifecycle.go:110`;
   the observation and relationship owners do the same), and any turn with `More`
   keeps the cycle open (`lifecycle/runner.go:147`). The runner turns at the
   backlog delay for ever with nothing to collect:
   `tlc -config MCLifecycleIdle.cfg MCLifecycle`.

The smaller ones:

- `tlc -config MCHeartbeatJobCutoff.cfg MCHeartbeatLease`: `store/runner.go:217` says
  "a sibling runner can never reap and re-execute the target while this handler still
  runs". The ticker's grid is offset from the claim's heartbeat; a failure just before
  the margin is tolerated, and the next beat blocks past the cutoff.
- `tlc -config MCHeartbeatGenerationCutoff.cfg MCHeartbeatLease`:
  `generationscheduler/runner.go:549`, the same without any margin. In both cases
  every write of the late worker is refused by its lease; what overlaps is work
  outside the store, for the time `OverlapBounded` gives.
- `tlc -config MCSearchSweep.cfg MCSearchPublication`: the sweep reads root and marker
  and renames afterwards, so a transition marker, or the root of adopted flat files, written between
  the two may name a generation that is collected. `Converges` excepts this state too.
- `tlc -config MCRepoReactivation.cfg MCRepoDeletion`: `sync/reconcile.go:655-657`
  keeps the mark after a failed removal because "reactivation would expose a
  searchable row without its bytes"; a second attempt that gives up before its own
  first removal reactivates the row all the same. `ClaimedIsServed` and `OrphanGoes`
  show that the state is repaired.

## Proofs

TLC shows the properties on small instances. TLAPS proves these for every value of
the constants:

| Theorem | Statement |
|---|---|
| `JobQueueProofs!TypeCorrect` | `Spec => []TypeOK` |
| `JobQueueProofs!PendingUnique` | `Spec => []OnePendingPerTarget` |
| `JobQueueProofs!EventsSurvive` | `Spec => []EventNotLost` |
| `JobQueueProofs!ForcesSurvive` | `Spec => []ForceNotLost` |
| `JobQueueProofs!AttemptsStayBounded` | `Spec => []AttemptsBounded` |
| `JobQueueProofs!LeaseLossIsFinal` | `Spec => LostLeaseStaysLost` |
| `JobQueueProofs!WorkIsHandedBack` | `Spec => HandBackKeepsWork` |
| `JobRunnerProofs!RunnerImplementsQueue` | `Spec => QueueSpec`: `JobRunner` implements `JobQueue` |
| `JobRunnerProofs!RunnerKeepsQueueSafe` | the invariants of `JobQueue` hold of the table in `JobRunner` |
| `JobRunnerProofs!FailuresLeaveNoRecovery` | `Spec => FailureConsumesRecovery` |
| `JobRunnerProofs!FailuresAreEarned` | `Spec => NoEarlyFailure` |
| `JobRunnerProofs!ConfirmationIsConservative` | `LeaseSpec => []ConfirmedIsDurable` |
| `JobRunnerProofs!OverlapIsBounded` | `LeaseSpec => []OverlapBounded` |
| `PacingProofs!ReservationsAreCounted` | `LimiterSpec => []ReservationsCounted` |
| `PacingProofs!BudgetIsKept` | `LimiterSpec => []WithinBudget` |
| `PacingProofs!FailuresStandAlways` | `LimiterSpec => FailuresStand` |
| `PacingProofs!TableIsBounded` | `LimiterSpec => []TableBounded` |
| `GenerationScheduleProofs!TypesHold` | `Spec => []TypeOK` |
| `GenerationScheduleProofs!AttemptsAreSerial` | `Spec => []OneLiveAttempt` |
| `GenerationScheduleProofs!CountersAreExact` | `Spec => []CountersAgree` |
| `GenerationScheduleProofs!PlannerIsNeverStuck` | `Spec => []ActiveIsCurrent` |
| `GenerationScheduleProofs!ReconciliationIsTruthful` | `Spec => []EvidenceIsTruthful` |
| `GenerationScheduleProofs!SettlementIsExact` | `Spec => []SettlesExactly` |
| `GenerationScheduleProofs!FencesHold` | `Spec => FencedStaysFenced` |
| `OwnerBarrierProofs!DrainIsReal` | `Spec => []QuiescenceIsReal` |
| `OwnerBarrierProofs!TurnsAreOwned` | `Spec => []TurnOwnsSlot` |
| `OwnerBarrierProofs!WakeupsArrive` | `Spec => []NoLostWakeup` |
| `RepositoryProofs!LockExcludes` | `Spec => []MutualExclusion` of `RepoLock` |
| `RepositoryProofs!RegistryStaysExact` | `Spec => [](TypeOK /\ RegistryAgrees)` of `RepoLock` |
| `RepositoryProofs!DeletionIsComplete` | `RepoSpec => []DeletedLeavesNothing` of `RepoDeletion` |
| `RepositoryProofs!OneWorksOnTheRepository` | `RepoSpec => []OneAtWork`: at most one of sync, fetch and index is past its check |
| `PacingProofs!IdlingIsEarned` | `Spec => []IdleIsEarned` |
| `PacingProofs!RecoveryIsExact` | `Spec => [](TypeOK /\ RecoveryIsPressure)` |
| `SearchPublicationProofs!VisibleIsRecorded` | `Spec => []VisibleMatchesRow` |
| `SearchPublicationProofs!RowStaysSelectable` | `Spec => []RowIsSelectable` |
| `DispatchAdmissionProofs!PhasesIsolated` | `Spec => []PhaseIsolation` |
| `DispatchAdmissionProofs!RunningStaysCounted` | `Spec => []RunningIsCounted` |
| `DispatchAdmissionProofs!CompleteCountIsExact` | `Spec => []CompleteIsExact` |
| `DispatchAdmissionProofs!NobodyIsRefused` | `Fits => (Spec => []NoFalseRefusal)` |

*Job queue.* Assumed are a positive `MaxAttempts`, a `NoLease` that is no lease, a
non-empty set of targets and Boolean force flags: nothing about how many rows,
targets, holders or reapers there are. The invariant `IInv` adds two ideas to the
properties. `EventNotLost` alone is not inductive: `FailJobWithSuccessor` fails
the pending row its lease created, so the pending row of an event must be known
*not* to carry recovery provenance (`EventUntagged`, `ForceUntagged`; the
coalescing statements clear it). `AttemptsBounded` is not inductive either: a
requeue writes the attempts the *holder* remembers, so a value in flight must agree
with the row it still owns (`ValuesFresh`). Instead of proving every conjunct
for every action, `NextEffects` shows that each step has a few effects (which
rows become pending, what happens to leases, what is kept), and `EffectsPreserve`
that those effects preserve the invariant. `LeaseLossIsFinal` follows from the
freshness of new leases. `WorkIsHandedBack` needs the same invariant: the row that
takes over the work exists because an owned row's holder knows its target and flags.

*Job runner.* Assumed is what `JobQueue` assumes of its table (`QueueAssumption`) and
that `NoJob` is no handle; the numbers of workers, faults and yields are not bounded.
`RunnerImplementsQueue` is a step simulation: every step of a worker is one transaction
of the queue or a stutter, with the candidate in hand as `selected`, the batch of a
reaper as `observed` and the jobs the workers hold as `handles`. A worker that
gives up between its read and its write maps to `Deselect`, `ReapForget` or `Forget`; a
write whose answer is lost maps to the transaction if it committed and to a stutter if
not. It needs only the types and that a worker holds one candidate at a time
(`OneSelected`). The queue's theorems then hold of the runner (`P == INSTANCE
JobQueueProofs`). The two action properties need two more parts: no two workers were
handed one lease (`LeasesDistinct`), and a pending row tagged with a worker's lease was
left by that worker's handler, which has crossed, for its own target (`TagsKnown`), so
`FailJobWithSuccessor` finds it and a handler that never crossed has left none. What
remains is a handler that crossed and returned an error without the tag, for which
`execute` writes a plain `failed` (`store/runner.go:325`); `FailureConsumesRecovery`
excepts it (`Unmarked`). That the
attempts a worker remembers are those of the row it fails is `ValuesFresh` of the queue.
TLC checked the conjunction in 2,114,109 states.

*Heartbeat.* Assumed: durations are natural numbers, the margin and one call fit
before the cutoff, and so do the margin and the start delay. The invariant says, beside
`ConfirmedIsDurable`, that a committed call is younger than its start
(`CommittedSinceSent`), that the goroutine starts in time (`StartingInTime`) and that
from any moment of a running handler the next beat ends in time
(`NextBeatInTime`); the bound is read off the last.

*Login limiter.* Assumed are finite sets of clients and requests and positive limits.
`WithinBudget` is not inductive alone: an attempt that ends must be known to be
counted, or a failure would add to a count without taking the reservation off
(`ReservationsCounted`); and the count survives a sweep or a deletion only because
such an entry has nothing in flight and a key outside the table has no counts at all
(`TableBounded`). The invariant is the conjunction of the three with the type.
`EndIInv` proves the end of a reservation once, for cancel, fail and success.

*Generation schedules.* Assumed is what an admitted specification says (positive
sizes, one item per typed root, chunks of one item and one token for typed and serial
plans) and that the three absent values are none of the present ones; nothing about how
many schedules, workers, leases and reapers there are, and no bound on items or
attempts. `IInv` was checked by TLC first (453,740 states). Its parts are needed by each
other:

- `Table`: types, a running row has a lease and a claimant, a row lies in the expanded
  part of a schedule that exists (`RowsExpanded`: or an expansion could overwrite it),
  and `OneLiveAttempt`.
- `Counters`: `CountersAgree` speaks of cardinalities, so every action is shown to move
  one identity from one set to another (`FiniteSetTheorems`), and the running set of the
  repository must be known to be finite.
- `Settling`: `SettlesExactly` is far from inductive. The counters of a live schedule
  add up to the part of the plan that was expanded (`Progress`: `nextOffset` is that
  sum times the chunk size, cut off at the last, short chunk), an expanded offset
  without a failure has a live or done attempt (`OffsetsCovered`), and a serial plan is
  done only up to its prefix (`PlanFollowed`). That every item is covered then is
  division with remainder; that an active serial schedule never has all its chunks
  held back is a least-offset argument (`ActiveHasWork`).
- `Evidence`: what a worker did is what the row says, per worker, since the token is
  gone when it asks (`DoneByHolder`, `FailedByHolder`, `HandlesDistinct`).
- `ActiveIsCurrent` with `CurrentIsLive`, its converse for settled schedules, from which
  the action property `FencesHold` follows.

*Owner barrier.* Assumed: at least one slot of each kind, a generation limit, loops
and requests disjoint, `NoSlot` no slot. `TurnOwnsSlot` needs to know that a stray copy
of an ended turn is never valid again: generations only grow past it (`TurnsPast`), no
two callers share a turn (`TurnsDistinct`), and a caller outside has none
(`OutsideEnded`). `QuiescenceIsReal` needs that whoever is retaining is the one the
barrier remembers and keeps both fences closed (`RetainerKnown`, `RetainedCloses`,
`FencingCloses`). `NoLostWakeup` needs that only those sleep who wait (`SleepersWait`).
TLC checked the conjunction in 461,202 states.

*Repository lock and deletion.* For the lock are assumed finitely many callers, a
non-empty set of spellings with an idempotent folding, and that `NoEntry` is no entry.
Mutual exclusion is per entry, so the proof shows that all callers of one key share one
entry: counts are exact (`RefsExact`), so an entry is removed only when nobody refers to
it, and whoever is not idle finds its own entry registered (`CallersRegistered`); the
token is in the channel or with one holder (`TokenExact`). `DeletionIsComplete` needs no
assumption, not even the bounds: whoever is past its check holds the lock
(`HolderActs`), a publication under way has its row, and a deletion past the files
does not meet them again (`BytesFollowRow`).

*Lifecycle.* Assumed are positive numbers of owners and repositories and percentages as
levels. The runner decides from flags; `IdleIsEarned` speaks of what happened.
`IInv` says what each flag remembers: what a turn's result says of rotation and owner
(`TurnShape`), that a cycle without a retry found every owner behind it clean
(`CycleIsClean`), that recovery is exactly pressure not yet idled after
(`RecoveryIsPressure`), and how many normal readings stand behind the flags
(`ReadingsCount`). TLC checked it with two faults and two changes of usage (6.9 million
states).

*Search publication.* Assumed are a non-empty set of revisions, absent values that are
none of the present ones, and that the bounds are numbers; nothing of the directories,
so the sweep may take any of them at any time. `RowIsSelectable` says that some control
file names the row's revision; the invariant says that the control which *decides* does
(`Selectable`: the marker's candidate or its previous root while there is a marker, else
the root, else the flat files), that the flat files are those of a generation that
control names (`FlatFollows`), and that files are hidden without a marker only when a
root selects them (`HiddenIsRooted`). Per agent it follows an installation, the removal of
the markers and the removal of all files, which only a row without a revision ever meets
(`Installing`, `Finishing`, `Wiping`). `Publishing` is what `Index` may rely on between
its first read and its last write: until the row is written, the previous root still
selects it (`Fallback`), and after a lost answer the row has either value. A recovery that
adopted the flat files writes its root in a later step (`adopt`); until then the flat files decide. The audit takes the
lock only to repair, so it needs an argument of its own: at startup it is alone and what it
listed is still the row (`Startup`); later, a publishing marker left by another process
has no row and can be resolved by nobody, so no later audit touches the files (`Runtime`).
TLC checked the conjunction in 1,732,004 states (two pushes).

*Dispatch admission.* Assumed are three different producers, "free" and "control" no
threads, persistent sites only of producers, and positive limits; how many threads,
phases, attempts, faults and crashes there are is open. There are four layers.

- `IInv` follows one admission. `RunningIsCounted` is not inductive: that an echo belongs to
  the thread that takes it needs the gate to be held by the thread whose request is on
  the wire (`GateHeld`, `OnWire`), also when a failed client left a request behind; that
  a settlement removes no other command's token needs ordinals to differ. A one-shot
  command is of the current phase because a checkpoint leaves persistent tokens only and
  an advance needs everybody's checkpoint (`CheckpointClean`).
- `Chain` follows the owner: an answer is one to the call of its current step, and a
  checkpoint or a close that was answered is the controller's too (`Answered`).
- `Counting` adds up: the count of the current phase is the number of commands tried in it and
  of those admitted whose start was not yet reported (`Exact`, over cardinalities of
  ordinals), and a producer that was checkpointed, is dying or has closed has none of
  the latter (`Tracked`).
- `Smooth` is for `NoFalseRefusal`, in runs without faults: everything a refusal is
  decided by is known to both sides. `Mode` is how far the owner's plan has come with a
  client; its flags and phase say the same (`InStep`), the handles it holds are the tokens
  the controller holds but for the request that is out (`Matched`), every handle has a
  thread (`Owned`), so there is always room for one more, and a request
  not yet read is one that will be accepted (`Asks`). A settlement sent before an advance
  and read after it is accepted because the phase it names is the one checkpointed. The
  clients of a child about to be killed are left out, as in the property.

`NobodyIsRefused` has one hypothesis, `Fits`: not more threads than `Active`, since a client
fails the callers beyond by design; the launcher computes that limit from what its owners
and requests can hold (`spike/t421/dispatch_flow.go:33`). Two facts about a restart enter
the argument:

- The parent holds nothing when it is reopened after the child's death
  (`local_successor.go`). The launcher's parent does start one persistent command, the
  server, which is the child itself; it waits for it and for its session before it
  checkpoints the parent (`spike/t421/epoch_checkpoint.go:299-324`). `Call` has that wait as its guard
  `Joined`, and `ParentJoined`, a part of `Smooth`, says that it lasts until the phase is reopened.
- A kill without any fault may still fail the run, and the property excepts exactly that
  (`CutOff`). The settlement of a carried command is committed at `transport.go:253`; when the
  child is killed before the echo is written (line 260) or before it was read, the
  write, or the next read (216-219), reports an error other than EOF, and the
  controller fails without looking at `hardDeath` (`StreamBreaks`). The theorem says that this
  is the only failure of a run without faults and within its budget.

TLC checked the first three layers in 1,284,207 states, and `Smooth` with `NoFalseRefusal` in
789,752, with three commands tried and no faults.

`OnePendingPerTarget`, `ConfirmedIsDurable`, `TableBounded`, `RegistryAgrees` and the
type invariants of the modules above are settled by these theorems and are not
invariants of a run; any of them can be added to a configuration.

Only model-checked: liveness (`EventClaimed`, `LeaseEnds`, `WaiterServed`, `DrainEnds`,
`Converges`, `OrphanGoes`, `ClaimedIsServed`, `Collected`, `LatchReleases`, `PlanEnds`),
which is outside the prover's reach: it has no rules for fairness and `ENABLED`. Every
safety property of the runs is also a theorem.

## Abstractions

- `JobRunner`: a handler's error after the crossing may be tagged or not, as each path of
  a handler chooses: most tag it, but `resolvermaterialize/worker.go:315` and
  `callerexecute/worker.go:673`, `729` and `766` return theirs as they are.
- `SearchPublication`: the whole posture only (the focused one builds more
  files by the same protocol); a generation is a number with the revision it was
  built from; a child's build, manifests and shard contents, disk errors, torn
  control files and generation pins are left out; startup that fails restarts the
  process. The shared mutation lock excludes only backups and is not a variable. `Recover` adopts
  flat files and writes their root in two steps; `Prepare` does both in one, in a branch
  that no state of the model reaches.
- `RepoDeletion`: one connection, `cleanup_orphans` on. `files` are what search opens,
  the `phebs-whole-*` and `phebs-focus-*` shards and their manifests, which are also what
  the untracked sweep removes; generation directories and controls belong to
  `SearchPublication`. Deleting the row leaves pending fetch and index jobs, as `DeleteRepo` does. `RunnerConcurrencyPerKind` is 1, so syncs do not overlap. Retries
  of a job may end, and the job with them.
- `Lifecycle`: deleting a generation takes `Steps` turns; the capacity probe is taken
  before the latch's mutex, so a stale reading may open the latch early, as in the code.
- `DispatchAdmission`: sequence numbers, bindings and the wire-byte budget are left
  out (a reliable stream with one request outstanding), as are the callback of
  `ServeChecked`, the store's accounting checkpoint, and the roles of a phase's budget
  (one role). The owner's order of calls is that of the measured runs in `spike/t421`. A
  caller that passed `waitUnpaused` and reaches the gate after `Close` latches an error
  on the closed client; nothing reads it, and `NoFalseRefusal` excepts it. An exchange
  also fails when another thread has failed the client meanwhile and closed its socket
  (`Unanswered`). An echo on the wire of a client that is gone stands for one not written
  and one not read; `EndStream` and `StreamBreaks` are what the receiver may make of it.
  A thread starts one command at a time, so a command that dispatches another behind a
  pause (`client.go:334`) appears only as the deadline of the checkpoint that waits for it, a
  fault. The phase check of `StartInPhase` (`client.go:243`) is left out.
- `GenerationSchedule`: whether a typed root is desired or published is left open, so
  retirement may choose any root that has no running chunk. A serial plan is the number
  of chunks applied; the catalog, selector and summary a chunk is fenced by fail it
  like any handler error, and what its commit writes is not represented. The retention
  sweep of settled schedules (`generation_lifecycle.go:125-205`) is left out, and with it
  a digest that is enqueued anew after its collection.
- `LoginLimiter`: a window's end is the time left instead of a date; password,
  token and store outcomes are free choices.

## Plan

What is left, in this order:

1. `GenerationRunner`: the plan, reap and work loops and `executeOwned`, refining
   `GenerationSchedule` as `JobRunner` refines `JobQueue`.
2. `PhaseControl`: the owner, request and terminal operations of phase control, which
   compose `DispatchAdmission` with `OwnerBarrier`.
3. The marker protocols of the resolver catalog, caller, observation and
   relationship publications; recovery and restore.

## Not modelled

Data transformation without shared state (extractors, postings, projections,
partition planning, search and navigation queries, formatting in API and MCP),
wrappers of other programs (git hosts, sandboxes, build tools, OIDC), start-up
validation, accounting, and the web client. By lines this is most of the repository:
measurement spikes, vendored corpora, generated queries and encoders, none of which
keeps state that two actors share. Of modelled components: the row projections a
job writes for its report, the migration of legacy rows, the resource
classes of `GenerationSchedule` and the repair plans of the service state, the two measurement variants of the
heartbeat loop, `RunnerControl`, the cycle collector and the status monitor of the
lifecycle runner, and the OIDC limiter.
