------------------------- MODULE GenerationSchedule -------------------------
(***************************************************************************)
(* The generation schedules of one repository                              *)
(* (internal/store/generation_schedule.go).  A schedule is the immutable   *)
(* plan of one generation of a stage; it is expanded page by page into     *)
(* chunks which workers claim under a lease.  One row per stage points at  *)
(* the current schedule; work of any other schedule is fenced.  Counters   *)
(* on the schedule and one counter of running chunks on the repository     *)
(* stand in for scans of the chunk table, so they are state of their own   *)
(* here and every statement that moves them is modelled.                   *)
(*                                                                         *)
(* Each operation is one transaction.  Enqueue, expand and claim read a    *)
(* census before it, but the transaction recomputes that census and throws *)
(* on a difference, so only its own reads count.  Holders of a lease are   *)
(* unconstrained, as in JobQueue.  `gated' and `stale' abstract not_before *)
(* and heartbeat_at as there.                                              *)
(*                                                                         *)
(* Two kinds of schedule answer to a second authority.  The generation of  *)
(* a typed-index schedule is a request root, which retirement marks as     *)
(* collecting (typed_index_lifecycle.go).  A service-state schedule        *)
(* applies a serial plan whose prefix gates the claims                     *)
(* (service_state_v3.go); its chunks are completed once they are applied.  *)
(***************************************************************************)
EXTENDS Integers, FiniteSets

CONSTANTS
    Digests,          \* schedules that may be enqueued
    Stages,
    Specs,            \* the admitted specification of each digest
    MaxFanoutPage,    \* MaxGenerationFanoutPage
    MaxActiveStages,  \* MaxGenerationActiveStagesPerRepository
    Typed,            \* schedules of the typed-index stage
    Serial,           \* schedules of the two service-state stages
    Workers, Leases,
    NoDigest, NoWorker, NoLease

\* normalizeGenerationScheduleSpec
ASSUME SpecsAssumption ==
    Specs \in [Digests -> [stage: Stages, totalItems: Nat \ {0}, chunkItems: Nat \ {0},
                           maxAttempts: Nat \ {0}, repositoryTokens: Nat \ {0}]]
\* The specifications of a typed-index and of a service-state schedule are fixed.
ASSUME KindsAssumption ==
    /\ Typed \subseteq Digests /\ Serial \subseteq Digests
    /\ \A d \in Typed : Specs[d].totalItems = 1
    /\ \A d \in Typed \cup Serial : Specs[d].chunkItems = 1 /\ Specs[d].repositoryTokens = 1
ASSUME PageAssumption == MaxFanoutPage \in Nat \ {0} /\ MaxActiveStages \in Nat \ {0}
ASSUME AbsentAssumption ==
    NoDigest \notin Digests /\ NoWorker \notin Workers /\ NoLease \notin Leases

VARIABLES
    schedule,   \* the schedule rows
    current,    \* generation_schedule_current of each stage
    chunk,      \* the chunk rows, by identity
    running,    \* running of the repository row
    collecting, \* typed roots whose custody_state is no longer live
    plan,       \* next_chunk - base_chunk of each serial plan, or Unplanned
    handles,    \* chunk values held by workers
    observed    \* stale chunk values a reaper has read and may still act on

vars == <<schedule, current, chunk, running, collecting, plan, handles, observed>>

authority == <<collecting, plan>>

-----------------------------------------------------------------------------

StageOf(d) == Specs[d].stage
TotalItems(d) == Specs[d].totalItems
TotalChunks(d) == (TotalItems(d) + Specs[d].chunkItems - 1) \div Specs[d].chunkItems

\* generationChunkID: schedule, offset and attempt identify a chunk.
Ids == UNION {[digest: {d}, offset: 0..(TotalItems(d) - 1),
               attempt: 0..(Specs[d].maxAttempts - 1)] : d \in Digests}

ScheduleStatus == {"absent", "active", "superseded", "settled"}
ChunkStatus == {"absent", "pending", "running", "done", "failed", "canceled"}

Unplanned == -1

Schedule == [status: ScheduleStatus, nextOffset: Nat, materialized: Nat,
             pending: Nat, running: Nat, succeeded: Nat, failed: Nat]

Chunk == [status: ChunkStatus, length: Nat, priority: 0..2, gated: BOOLEAN,
          stale: BOOLEAN, lease: Leases \cup {NoLease}, worker: Workers \cup {NoWorker}]

\* `did' records, for the properties only, what the holder's own calls committed.
Handle == [id: Ids, lease: Leases, worker: Workers,
           did: {"none", "done", "failed", "exhausted", "canceled", "returned", "retried"}]

\* The type invariant: in particular no counter ever becomes negative.
TypeOK ==
    /\ schedule \in [Digests -> Schedule]
    /\ current \in [Stages -> Digests \cup {NoDigest}]
    /\ chunk \in [Ids -> Chunk]
    /\ running \in Nat
    /\ collecting \subseteq Typed
    /\ plan \in [Serial -> Nat \cup {Unplanned}]
    /\ handles \subseteq Handle
    /\ observed \subseteq Handle

-----------------------------------------------------------------------------
(* Reads *)

IsCurrent(d) == current[StageOf(d)] = d

ChunksOf(d) == {c \in Ids : c.digest = d}
InStatus(d, s) == {c \in ChunksOf(d) : chunk[c].status = s}

\* Mutant of Owned: the lease predicate is missing.
OwnedUnchecked(h) == chunk[h.id].status # "absent"

\* The lease predicate of every chunk statement.
Owned(h) ==
    /\ chunk[h.id].status = "running"
    /\ chunk[h.id].lease = h.lease
    /\ chunk[h.id].worker = h.worker

Fresh(l) ==
    /\ \A c \in Ids : chunk[c].lease # l
    /\ \A h \in handles \cup observed : h.lease # l

\* typedRootFenceSQL, part of every typed statement but the reaper's.
RootLive(d) == d \notin collecting

\* A statement of the holder finds its lease, and a live root.
Holds(h) == Owned(h) /\ RootLive(h.id.digest)

\* The prefix gate: a chunk of a serial plan waits until everything before it is
\* applied, unless a failure has ended the plan and the rest only drains.
Admitted(c) ==
    c.digest \in Serial =>
        plan[c.digest] # Unplanned /\ (schedule[c.digest].failed > 0 \/ c.offset <= plan[c.digest])

\* claimGenerationChunkSelectionSQL: lowest priority, offset and attempt first.
Pending(d) == {c \in InStatus(d, "pending") : ~chunk[c].gated /\ Admitted(c)}
Precedes(b, c) ==
    \/ chunk[b].priority < chunk[c].priority
    \/ chunk[b].priority = chunk[c].priority /\ b.offset < c.offset
    \/ chunk[b].priority = chunk[c].priority /\ b.offset = c.offset /\ b.attempt < c.attempt
Candidate(d) == {c \in Pending(d) : \A b \in Pending(d) \ {c} : Precedes(c, b)}

Exhausted(c) == c.attempt + 1 >= Specs[c.digest].maxAttempts

-----------------------------------------------------------------------------
(* Chunk rows *)

NewChunk(n, p, gate) ==
    [status |-> "pending", length |-> n, priority |-> p, gated |-> gate,
     stale |-> FALSE, lease |-> NoLease, worker |-> NoWorker]

NoChunk == [NewChunk(0, 0, FALSE) EXCEPT !.status = "absent"]

Claimed(row, w, l) ==
    [row EXCEPT !.status = "running", !.worker = w, !.lease = l, !.gated = FALSE]

\* The lease ends and claimed_by stays behind as evidence of who ended it.
Finished(row, s) ==
    [row EXCEPT !.status = s, !.lease = NoLease, !.stale = FALSE]

\* The lease ends and the row is as if never claimed, but for its priority.
Unclaimed(row, s, p, gate) ==
    [row EXCEPT !.status = s, !.priority = p, !.gated = gate,
                !.lease = NoLease, !.worker = NoWorker, !.stale = FALSE]

Aged(row, b) == [row EXCEPT !.stale = b]
Opened(row) == [row EXCEPT !.gated = FALSE]

-----------------------------------------------------------------------------
(* Schedule rows *)

\* Mutant of Settles: running is compared after it was decremented.
SettlesAfterDecrement(d) ==
    /\ IsCurrent(d)
    /\ schedule[d].nextOffset = TotalItems(d)
    /\ schedule[d].pending = 0
    /\ schedule[d].running = 0
    /\ schedule[d].succeeded + schedule[d].failed + 1 = TotalChunks(d)

\* The chunk that now ends is the last one.
Settles(d) ==
    /\ IsCurrent(d)
    /\ schedule[d].nextOffset = TotalItems(d)
    /\ schedule[d].pending = 0
    /\ schedule[d].running = 1
    /\ schedule[d].succeeded + schedule[d].failed + 1 = TotalChunks(d)

\* A running chunk of d ends and its result is counted.
CountDone(d) ==
    [schedule[d] EXCEPT !.running = @ - 1,
                        !.succeeded = IF IsCurrent(d) THEN @ + 1 ELSE @,
                        !.status = IF Settles(d) THEN "settled" ELSE @]

CountFailed(d) ==
    [schedule[d] EXCEPT !.running = @ - 1,
                        !.failed = IF IsCurrent(d) THEN @ + 1 ELSE @,
                        !.status = IF Settles(d) THEN "settled" ELSE @]

\* A running chunk of d ends and is replaced by its next attempt.
CountRetried(d) ==
    [schedule[d] EXCEPT !.running = @ - 1, !.materialized = @ + 1, !.pending = @ + 1]

\* Mutant of CountReturned: a fenced chunk is counted as pending again.
CountReturnedAlways(d) ==
    [schedule[d] EXCEPT !.running = @ - 1, !.pending = @ + 1]

\* A running chunk of d is handed back, or canceled when d is not current.
CountReturned(d) ==
    [schedule[d] EXCEPT !.running = @ - 1,
                        !.pending = IF IsCurrent(d) THEN @ + 1 ELSE @]

Did(h, what) == handles' = (handles \ {h}) \cup {[h EXCEPT !.did = what]}

-----------------------------------------------------------------------------
(* Producers *)

NewSchedule == [status |-> "active", nextOffset |-> 0, materialized |-> 0,
                pending |-> 0, running |-> 0, succeeded |-> 0, failed |-> 0]

NoSchedule == [NewSchedule EXCEPT !.status = "absent"]

OtherActiveStages(d) ==
    {e \in Digests : StageOf(e) # StageOf(d) /\ schedule[e].status = "active"}

\* Mutant of Superseded: the prior schedule stays active beside the new one.
SupersededNever(d) == {}

\* $prior_schedule: the active schedule the current row points at, unless d.
Superseded(d) ==
    {e \in Digests \ {d} : current[StageOf(d)] = e /\ schedule[e].status = "active"}

\* EnqueueGenerationSchedule of a digest not yet known: it supersedes the
\* current schedule of its stage.  A known digest is never reactivated: naming
\* the current one changes nothing, any other answers ErrGenerationStale.
EnqueueGenerationSchedule(d) ==
    /\ schedule[d].status = "absent"
    /\ RootLive(d)
    /\ Cardinality(OtherActiveStages(d)) < MaxActiveStages
    /\ schedule' = [e \in Digests |->
          IF e = d THEN NewSchedule
          ELSE IF e \in Superseded(d) THEN [schedule[e] EXCEPT !.status = "superseded"]
          ELSE schedule[e]]
    /\ current' = [current EXCEPT ![StageOf(d)] = d]
    /\ UNCHANGED <<chunk, running, authority, handles, observed>>

\* RetireCurrentGenerationSchedule: the current row goes, the work is fenced.
RetireCurrentGenerationSchedule(d) ==
    /\ IsCurrent(d)
    /\ schedule' = [schedule EXCEPT ![d].status =
          IF @ = "active" THEN "superseded" ELSE @]
    /\ current' = [current EXCEPT ![StageOf(d)] = NoDigest]
    /\ UNCHANGED <<chunk, running, authority, handles, observed>>

\* BeginTypedIndexRetirement of a root that is neither desired nor published (a
\* custody this module leaves open), seen with no running chunk in the same
\* transaction: the root is collecting for good and its schedule retired.
BeginTypedIndexRetirement(d) ==
    /\ d \in Typed
    /\ InStatus(d, "running") = {}
    /\ collecting' = collecting \cup {d}
    /\ IF IsCurrent(d)
       THEN /\ schedule' = [schedule EXCEPT ![d].status =
                  IF @ = "active" THEN "superseded" ELSE @]
            /\ current' = [current EXCEPT ![StageOf(d)] = NoDigest]
       ELSE UNCHANGED <<schedule, current>>
    /\ UNCHANGED <<chunk, running, plan, handles, observed>>

\* createServiceStateV3Plan: after the enqueue, in a transaction of its own.
CreateServiceStateV3Plan(d) ==
    /\ d \in Serial
    /\ IsCurrent(d) /\ schedule[d].status = "active" /\ plan[d] = Unplanned
    /\ plan' = [plan EXCEPT ![d] = 0]
    /\ UNCHANGED <<schedule, current, chunk, running, collecting, handles, observed>>

\* generationChunkSpecs: how many chunks the next page has, where each starts
\* and how many items it holds.
PageCount(d) ==
    LET remaining == TotalItems(d) - schedule[d].nextOffset
        n == (remaining + Specs[d].chunkItems - 1) \div Specs[d].chunkItems
    IN  IF n > MaxFanoutPage THEN MaxFanoutPage ELSE n

PageOffsets(d) ==
    {schedule[d].nextOffset + k * Specs[d].chunkItems : k \in 0..(PageCount(d) - 1)}

Length(d, offset) ==
    IF TotalItems(d) - offset < Specs[d].chunkItems
    THEN TotalItems(d) - offset ELSE Specs[d].chunkItems

\* The end of the page: nextOffset plus the lengths of its chunks.
NewOffset(d) ==
    LET last == schedule[d].nextOffset + (PageCount(d) - 1) * Specs[d].chunkItems
    IN  last + Length(d, last)

\* ExpandGenerationSchedule: one page of first attempts.
ExpandGenerationSchedule(d) ==
    /\ IsCurrent(d) /\ RootLive(d)
    /\ schedule[d].status = "active"
    /\ schedule[d].nextOffset < TotalItems(d)
    /\ chunk' = [c \in Ids |->
          IF c.digest = d /\ c.offset \in PageOffsets(d) /\ c.attempt = 0
          THEN NewChunk(Length(d, c.offset), 0, FALSE) ELSE chunk[c]]
    /\ schedule' = [schedule EXCEPT ![d].nextOffset = NewOffset(d),
                                    ![d].materialized = @ + PageCount(d),
                                    ![d].pending = @ + PageCount(d)]
    /\ UNCHANGED <<current, running, authority, handles, observed>>

-----------------------------------------------------------------------------
(* Workers *)

\* Mutant of Eligible: the current row is not consulted.
EligibleStale(d) ==
    /\ schedule[d].status \in {"active", "superseded"}
    /\ schedule[d].pending > 0
    /\ running < Specs[d].repositoryTokens

Eligible(d) ==
    /\ IsCurrent(d) /\ RootLive(d)
    /\ schedule[d].status = "active"
    /\ schedule[d].pending > 0
    /\ running < Specs[d].repositoryTokens

\* ClaimGenerationChunk.  A worker is one goroutine: it claims only when it
\* holds nothing.  The answer may be lost, then nobody holds the lease.
ClaimGenerationChunk(w, l) ==
    /\ Fresh(l)
    /\ \A h \in handles : h.worker # w
    /\ \E d \in Digests, c \in Ids :
        /\ Eligible(d)
        /\ c \in Candidate(d)
        /\ chunk' = [chunk EXCEPT ![c] = Claimed(@, w, l)]
        /\ schedule' = [schedule EXCEPT ![d].pending = @ - 1, ![d].running = @ + 1]
        /\ handles' \in {handles, handles \cup
              {[id |-> c, lease |-> l, worker |-> w, did |-> "none"]}}
    /\ running' = running + 1
    /\ UNCHANGED <<current, authority, observed>>

\* HeartbeatGenerationChunk: a reaper that read the older heartbeat is fenced.
HeartbeatGenerationChunk(h) ==
    /\ Holds(h)
    /\ chunk' = [chunk EXCEPT ![h.id] = Aged(@, FALSE)]
    /\ observed' = {o \in observed : o.id # h.id}
    /\ UNCHANGED <<schedule, current, running, authority, handles>>

\* The row and counter writes that end the lease of chunk c.
EndLease(c, row, counters) ==
    /\ chunk' = [chunk EXCEPT ![c] = row]
    /\ schedule' = [schedule EXCEPT ![c.digest] = counters]
    /\ running' = running - 1
    /\ UNCHANGED <<current, authority>>

\* A handler of a serial plan returns nil only for an applied chunk.
CompleteGenerationChunk(h) ==
    LET d == h.id.digest
        s == IF IsCurrent(d) THEN "done" ELSE "canceled"
    IN  /\ Holds(h)
        /\ d \in Serial => h.id.offset < plan[d]
        /\ EndLease(h.id, Finished(chunk[h.id], s), CountDone(d))
        /\ Did(h, s)
        /\ UNCHANGED observed

\* FailGenerationChunk: a terminal result, no further attempt.
FailGenerationChunk(h) ==
    LET d == h.id.digest
        s == IF IsCurrent(d) THEN "failed" ELSE "canceled"
    IN  /\ Holds(h)
        /\ EndLease(h.id, Finished(chunk[h.id], s), CountFailed(d))
        /\ Did(h, s)
        /\ UNCHANGED observed

NextAttempt(c) == [c EXCEPT !.attempt = @ + 1]

\* RetryGenerationChunk: the attempt fails; a successor takes its place unless
\* it was the last one.
RetryGenerationChunk(h) ==
    LET d == h.id.digest
    IN  /\ Holds(h)
        /\ \/ /\ ~IsCurrent(d)
              /\ EndLease(h.id, Finished(chunk[h.id], "canceled"), CountFailed(d))
              /\ Did(h, "canceled")
           \/ /\ IsCurrent(d)
              /\ Exhausted(h.id)
              /\ EndLease(h.id, Finished(chunk[h.id], "failed"), CountFailed(d))
              /\ Did(h, "exhausted")
           \/ /\ IsCurrent(d)
              /\ ~Exhausted(h.id)
              /\ chunk' = [chunk EXCEPT
                    ![h.id] = Finished(@, "failed"),
                    ![NextAttempt(h.id)] = NewChunk(chunk[h.id].length, 1, TRUE)]
              /\ schedule' = [schedule EXCEPT ![d] = CountRetried(d)]
              /\ running' = running - 1
              /\ Did(h, "retried")
              /\ UNCHANGED <<current, authority>>
        /\ UNCHANGED observed

\* ProcessServiceStateV3Chunk: the next chunk of the plan is applied, under the
\* lease.  One that already is changes nothing; one out of order is refused.
ProcessServiceStateV3Chunk(h) ==
    LET d == h.id.digest
    IN  /\ d \in Serial
        /\ Owned(h) /\ IsCurrent(d) /\ schedule[d].status = "active"
        /\ h.id.offset = plan[d]
        /\ plan' = [plan EXCEPT ![d] = @ + 1]
        /\ UNCHANGED <<schedule, current, chunk, running, collecting, handles, observed>>

\* The row of a chunk handed back without a result.
Returned(c, gate) ==
    IF IsCurrent(c.digest) THEN Unclaimed(chunk[c], "pending", 2, gate)
    ELSE Unclaimed(chunk[c], "canceled", chunk[c].priority, FALSE)

HandBack(h, gate) ==
    /\ Owned(h)
    /\ EndLease(h.id, Returned(h.id, gate), CountReturned(h.id.digest))

ReleaseGenerationChunk(h) ==
    /\ RootLive(h.id.digest) /\ HandBack(h, FALSE)
    /\ Did(h, "returned")
    /\ UNCHANGED observed

DeferGenerationChunk(h) ==
    /\ RootLive(h.id.digest) /\ HandBack(h, TRUE)
    /\ Did(h, "returned")
    /\ UNCHANGED observed

-----------------------------------------------------------------------------
(* Reconciling a call whose answer is unknown *)

\* Mutant of ReconcileCompletion: a done row counts whoever completed it.
ReconcileAnyClaimant(h) ==
    LET row == chunk[h.id]
    IN  CASE row.status = "done" /\ IsCurrent(h.id.digest) -> "applied"
          [] row.status = "done" /\ ~IsCurrent(h.id.digest) -> "stale"
          [] row.status = "canceled" -> "stale"
          [] row.status = "running" /\ row.lease = h.lease -> "unapplied"
          [] OTHER -> "lost"

\* reconcileGenerationCompletion
ReconcileCompletion(h) ==
    LET row == chunk[h.id]
    IN  CASE row.status = "done" /\ row.worker # h.worker -> "lost"
          [] row.status = "done" /\ row.worker = h.worker /\ IsCurrent(h.id.digest) -> "applied"
          [] row.status = "done" /\ row.worker = h.worker /\ ~IsCurrent(h.id.digest) -> "stale"
          [] row.status = "canceled" -> "stale"
          [] row.status = "running" /\ Owned(h) -> "unapplied"
          [] OTHER -> "lost"

\* reconcileGenerationExhaustion, called only by the retry itself
ReconcileExhaustion(h) ==
    /\ Exhausted(h.id)
    /\ chunk[h.id].status = "failed"
    /\ chunk[h.id].worker = h.worker

-----------------------------------------------------------------------------
(* Reaping *)

StaleChunks == {c \in Ids : chunk[c].status = "running" /\ chunk[c].stale}

HandleOf(c) ==
    [id |-> c, lease |-> chunk[c].lease, worker |-> chunk[c].worker, did |-> "none"]

ReapSelect(S) ==
    /\ S \subseteq StaleChunks
    /\ observed' = observed \cup {HandleOf(c) : c \in S}
    /\ UNCHANGED <<schedule, current, chunk, running, authority, handles>>

\* releaseStaleGenerationChunk: fenced by the lease and heartbeat it read.
ReleaseStaleGenerationChunk(o) ==
    /\ HandBack(o, FALSE)
    /\ observed' \in {observed, observed \ {o}}
    /\ UNCHANGED handles

-----------------------------------------------------------------------------
(* Time, and holders that give a value up *)

LeaseAges(c) ==
    /\ chunk[c].status = "running"
    /\ ~chunk[c].stale
    /\ chunk' = [chunk EXCEPT ![c] = Aged(@, TRUE)]
    /\ UNCHANGED <<schedule, current, running, authority, handles, observed>>

GateOpens(c) ==
    /\ chunk[c].gated
    /\ chunk' = [chunk EXCEPT ![c] = Opened(@)]
    /\ UNCHANGED <<schedule, current, running, authority, handles, observed>>

Forget(h) ==
    /\ handles' = handles \ {h}
    /\ UNCHANGED <<schedule, current, chunk, running, authority, observed>>

ReapForget(S) ==
    /\ observed' = observed \ S
    /\ UNCHANGED <<schedule, current, chunk, running, authority, handles>>

-----------------------------------------------------------------------------

Init ==
    /\ schedule = [d \in Digests |-> NoSchedule]
    /\ current = [s \in Stages |-> NoDigest]
    /\ chunk = [c \in Ids |-> NoChunk]
    /\ running = 0
    /\ collecting = {}
    /\ plan = [d \in Serial |-> Unplanned]
    /\ handles = {}
    /\ observed = {}

Plan(d) ==
    \/ EnqueueGenerationSchedule(d)
    \/ RetireCurrentGenerationSchedule(d)
    \/ BeginTypedIndexRetirement(d)
    \/ CreateServiceStateV3Plan(d)
    \/ ExpandGenerationSchedule(d)

UseLease(h) ==
    \/ HeartbeatGenerationChunk(h)
    \/ ProcessServiceStateV3Chunk(h)
    \/ CompleteGenerationChunk(h)
    \/ FailGenerationChunk(h)
    \/ RetryGenerationChunk(h)
    \/ ReleaseGenerationChunk(h)
    \/ DeferGenerationChunk(h)
    \/ Forget(h)

Next ==
    \/ \E d \in Digests : Plan(d)
    \/ \E w \in Workers, l \in Leases : ClaimGenerationChunk(w, l)
    \/ \E h \in handles : UseLease(h)
    \/ \E S \in SUBSET StaleChunks : ReapSelect(S)
    \/ \E o \in observed : ReleaseStaleGenerationChunk(o)
    \/ \E S \in SUBSET observed : ReapForget(S)
    \/ \E c \in Ids : LeaseAges(c) \/ GateOpens(c)

Spec == Init /\ [][Next]_vars

-----------------------------------------------------------------------------
(* Properties *)

\* The chunks of one offset: at most one of them is live, all earlier attempts
\* failed, and nothing follows a success.  So no item range is ever worked on
\* by two leases at once, or again after it was completed.
OneLiveAttempt ==
    \A c \in Ids : chunk[c].status # "absent" =>
        \A b \in Ids : b.digest = c.digest /\ b.offset = c.offset /\ b.attempt < c.attempt =>
            chunk[b].status = "failed"

\* The counters tell the truth about the chunk table: complete, fail, retry,
\* release, defer and reap each move exactly what they change, also for work
\* of a superseded schedule.
CountersAgree ==
    /\ \A d \in Digests :
        /\ schedule[d].pending = Cardinality(InStatus(d, "pending"))
        /\ schedule[d].running = Cardinality(InStatus(d, "running"))
        /\ schedule[d].succeeded = Cardinality(InStatus(d, "done"))
        /\ schedule[d].materialized = Cardinality(ChunksOf(d)) - Cardinality(InStatus(d, "absent"))
    /\ running = Cardinality({c \in Ids : chunk[c].status = "running"})

\* A schedule settles exactly when it is over.  An active one still has something
\* to do: a page to expand, a lease that will end or a chunk to claim, and once its
\* plan exists the prefix gate never holds all of its pending chunks back.  In a
\* settled one every offset is done or has failed for good, and success means
\* that the done chunks cover every item and a serial plan is applied to its end.
SettlesExactly ==
    \A d \in Digests :
        LET pending == InStatus(d, "pending")
            leased == InStatus(d, "running")
        IN  /\ schedule[d].status = "active" =>
                 \/ schedule[d].nextOffset < TotalItems(d)
                 \/ leased # {}
                 \/ \E c \in pending : Admitted(c) \/ (d \in Serial /\ plan[d] = Unplanned)
            /\ schedule[d].status = "settled" =>
                 /\ pending \cup leased = {}
                 /\ schedule[d].succeeded + schedule[d].failed = TotalChunks(d)
                 /\ schedule[d].failed = 0 =>
                      /\ d \in Serial => plan[d] = TotalItems(d)
                      /\ \A n \in 0..(TotalItems(d) - 1) : \E c \in InStatus(d, "done") :
                           n \in c.offset..(c.offset + chunk[c].length - 1)

\* The active schedule of a stage is the one its current row points at, and its
\* root is live: the planner, which picks active schedules, is never stuck on a
\* fenced one.  Nothing runs under a collecting root, so its files may go.
ActiveIsCurrent ==
    \A d \in Digests :
        /\ schedule[d].status = "active" => IsCurrent(d) /\ RootLive(d)
        /\ d \in collecting => InStatus(d, "running") = {}

\* A fenced schedule is dead: it is never current again and nothing of it is
\* claimed, retried or counted as a result any more.
FencedStaysFenced ==
    [][\A d \in Digests : schedule[d].status # "absent" /\ ~IsCurrent(d) =>
        /\ ~IsCurrent(d)'
        /\ schedule'[d].pending <= schedule[d].pending
        /\ schedule'[d].succeeded = schedule[d].succeeded
        /\ schedule'[d].failed = schedule[d].failed
        /\ \A c \in ChunksOf(d) :
              chunk[c].status \notin {"running"} => chunk'[c].status = chunk[c].status]_vars

\* What a worker concludes after a lost answer is what really happened: it
\* believes in a completion exactly when its own lease committed it and the
\* schedule is still current, and in an exhaustion exactly when it caused it,
\* although the token is gone and others may have reaped and finished the row.
EvidenceIsTruthful ==
    \A h \in handles :
        /\ ReconcileCompletion(h) = "applied" <=> h.did = "done" /\ IsCurrent(h.id.digest)
        /\ h.did # "failed" => (ReconcileExhaustion(h) <=> h.did = "exhausted")

=============================================================================
