----------------------------- MODULE JobRunner ------------------------------
(***************************************************************************)
(* The polling workers over one job table (internal/store/runner.go):      *)
(* every worker reaps stale leases, then claims and executes jobs until    *)
(* the queue is drained.  Workers share nothing but the table, which is    *)
(* the JobQueue component; what a worker holds in memory is mapped to the  *)
(* values JobQueue keeps in flight.                                        *)
(*                                                                         *)
(* Faults (a dying or stopping process, a store error, an answer lost      *)
(* after its transaction committed, a persist loop that runs out of its    *)
(* five seconds) happen at most MaxFaults times; the handler makes at most *)
(* MaxYields bounded-progress yields.                                      *)
(***************************************************************************)
EXTENDS Naturals

CONSTANTS
    Ids, Targets, Leases, NoLease, MaxAttempts, Forces,   \* see JobQueue
    Workers,     \* runners of this job kind, in one process or several
    NoJob,       \* a worker that holds no job
    MaxFaults,   \* bound on environment faults
    MaxYields    \* bound on Yield returns of the handler

ASSUME WorkersAssumption == Workers # {}
ASSUME FaultsAssumption == MaxFaults \in Nat /\ MaxYields \in Nat
\* The assumptions of JobQueue about the table.
ASSUME QueueAssumption ==
    MaxAttempts \in Nat \ {0} /\ NoLease \notin Leases /\ Targets # {} /\ Forces \subseteq BOOLEAN

VARIABLES
    jobs, before, unseen, unseenForce,   \* the table, see JobQueue
    pc,         \* where each worker is in Run and execute
    job,        \* the claimed job it executes, or NoJob
    sel,        \* the candidate ClaimJob has selected, as a set of at most one id
    batch,      \* the stale rows ReapStale has read and not yet handled
    crossed,    \* the handler invoked EnsureJobSuccessor
    outcome,    \* what the handler returned
    tagged,     \* its error carries the SuccessorRetry mark
    drainBy,    \* dependencyDrainDeadline of this drain: none, armed or passed
    canceled,   \* the worker's context is canceled
    faults, yields

vars == <<jobs, before, unseen, unseenForce, pc, job, sel, batch, crossed,
          outcome, tagged, drainBy, canceled, faults, yields>>

table == <<jobs, before, unseen, unseenForce>>
turn == <<crossed, outcome, tagged, drainBy>>

Q == INSTANCE JobQueue WITH
        handles <- {job[w] : w \in {v \in Workers : job[v] # NoJob}},
        observed <- UNION {batch[w] : w \in Workers},
        selected <- UNION {sel[w] : w \in Workers}

ASSUME NoJobAssumption == NoJob \notin Q!Handle

Outcomes == {"done", "terminal", "defer", "yield", "retry"}

TypeOK ==
    /\ Q!TypeOK
    /\ pc \in [Workers -> {"idle", "reap", "drain", "claim", "start", "handle", "report", "end"}]
    /\ job \in [Workers -> Q!Handle \cup {NoJob}]
    /\ sel \in [Workers -> SUBSET Ids]
    /\ batch \in [Workers -> SUBSET Q!Handle]
    /\ \A w \in Workers : job[w] # NoJob <=> pc[w] \in {"start", "handle", "report", "end"}
    /\ \A w \in Workers : sel[w] # {} <=> pc[w] = "claim"
    /\ \A w \in Workers : batch[w] # {} => pc[w] = "reap"
    /\ crossed \in [Workers -> BOOLEAN]
    /\ outcome \in [Workers -> Outcomes]
    /\ tagged \in [Workers -> BOOLEAN]
    /\ drainBy \in [Workers -> {"none", "armed", "passed"}]
    /\ canceled \in [Workers -> BOOLEAN]
    /\ faults \in 0..MaxFaults
    /\ yields \in 0..MaxYields

-----------------------------------------------------------------------------

Goto(w, l) == pc' = [pc EXCEPT ![w] = l]

Fault ==
    /\ faults < MaxFaults
    /\ faults' = faults + 1

\* Producers of events: sync, webhooks, handlers of other kinds, deletion.
Event ==
    /\ UNCHANGED <<pc, job, sel, batch, turn, canceled, faults, yields>>
    /\ \E t \in Targets : Q!Produce(t)

Time ==
    /\ UNCHANGED <<pc, job, sel, batch, turn, canceled, faults, yields>>
    /\ \E i \in Ids : Q!LeaseAges(i) \/ Q!GateOpens(i)

DeadlinePasses(w) ==
    /\ drainBy[w] = "armed"
    /\ drainBy' = [drainBy EXCEPT ![w] = "passed"]
    /\ UNCHANGED <<table, pc, job, sel, batch, crossed, outcome, tagged, canceled, faults, yields>>

-----------------------------------------------------------------------------
(* Run: the jittered poll, the reap, the drain *)

\* The poll timer fires and ReapStale reads its batch.
Poll(w) ==
    /\ pc[w] = "idle"
    /\ ~canceled[w]
    /\ batch' = [batch EXCEPT ![w] = {Q!HandleOf(i) : i \in Q!StaleRows}]
    /\ drainBy' = [drainBy EXCEPT ![w] = "none"]
    /\ Goto(w, "reap")
    /\ UNCHANGED <<table, job, sel, crossed, outcome, tagged, canceled, faults, yields>>

\* reapOne, or its ErrLeaseLost, or a store error that skips the row.
ReapRow(w) ==
    \E o \in batch[w] :
        /\ batch' = [batch EXCEPT ![w] = @ \ {o}]
        /\ UNCHANGED <<pc, job, sel, turn, canceled, yields>>
        /\ \/ /\ Q!ReapOne(o)
              /\ UNCHANGED faults
           \/ /\ ~Q!Owned(o, Q!Active)
              /\ UNCHANGED <<table, faults>>
           \/ /\ Fault
              /\ UNCHANGED table

ReapEnd(w) ==
    /\ pc[w] = "reap"
    /\ batch[w] = {}
    /\ Goto(w, "drain")
    /\ UNCHANGED <<table, job, sel, batch, turn, canceled, faults, yields>>

\* ClaimJob, first half: read the oldest eligible row.
Select(w) ==
    /\ pc[w] = "drain"
    /\ ~canceled[w]
    /\ \E i \in Q!Oldest :
        /\ sel' = [sel EXCEPT ![w] = {i}]
        /\ Goto(w, "claim")
        /\ UNCHANGED <<table, job, batch, turn, canceled, faults, yields>>

\* ErrNotFound, a canceled context or a store error end the drain.
Drained(w) ==
    /\ pc[w] = "drain"
    /\ \/ (canceled[w] \/ Q!Claimable = {}) /\ UNCHANGED faults
       \/ Fault
    /\ Goto(w, "idle")
    /\ UNCHANGED <<table, job, sel, batch, turn, canceled, yields>>

\* ClaimJob, second half: the conditional write wins the row under a new lease.
Claim(w) ==
    \E i \in sel[w], l \in Leases :
        /\ sel' = [sel EXCEPT ![w] = {}]
        /\ job' = [job EXCEPT ![w] = [Q!HandleOf(i) EXCEPT !.lease = l]]
        /\ Goto(w, "start")
        /\ UNCHANGED <<batch, turn, canceled, faults, yields>>
        /\ Q!ClaimSelected(i, l)

\* A lost race restarts the selection.
ClaimLost(w) ==
    \E i \in sel[w] :
        /\ jobs[i].status # "pending"
        /\ sel' = [sel EXCEPT ![w] = {}]
        /\ Goto(w, "drain")
        /\ UNCHANGED <<table, job, batch, turn, canceled, faults, yields>>

\* A store error before or after the commit: the row may stay leased to nobody.
ClaimError(w) ==
    \E i \in sel[w] :
        /\ Fault
        /\ sel' = [sel EXCEPT ![w] = {}]
        /\ Goto(w, "idle")
        /\ UNCHANGED <<job, batch, turn, canceled, yields>>
        /\ UNCHANGED table \/ \E l \in Leases : Q!ClaimSelected(i, l)

-----------------------------------------------------------------------------
(* execute *)

\* One lease-fenced write through persist.  ErrLeaseLost is definitive; other
\* errors are retried until the write succeeds or persist gives up, with the
\* transaction committed or not.
Persist(w, Write, then) ==
    /\ UNCHANGED <<job, sel, batch, canceled, yields>>
    /\ \/ Write /\ Goto(w, then) /\ UNCHANGED faults
       \/ ~Q!Owned(job[w], Q!Active) /\ UNCHANGED <<table, faults>> /\ Goto(w, "end")
       \/ Fault /\ Goto(w, "end") /\ (UNCHANGED table \/ Write)

\* SetJobStatus(running); a canceled context releases the job instead.
Start(w) ==
    /\ pc[w] = "start"
    /\ UNCHANGED turn
    /\ \/ ~canceled[w] /\ Persist(w, Q!SetRunning(job[w]), "handle")
       \/ canceled[w] /\ Persist(w, Q!ReleaseJob(job[w]), "end")

\* The handler leaves a crash-recovery successor before it clears authority.
\* An error, committed or not, is tagged SuccessorRetry and returned.
Cross(w) ==
    /\ pc[w] = "handle"
    /\ crossed' = [crossed EXCEPT ![w] = TRUE]
    /\ UNCHANGED <<job, sel, batch, drainBy, canceled, yields>>
    /\ \/ /\ \E f \in Forces : Q!EnsureJobSuccessor(job[w], f)
          /\ UNCHANGED <<pc, outcome, tagged, faults>>
       \/ /\ \/ /\ Fault
                /\ UNCHANGED table \/ \E f \in Forces : Q!EnsureJobSuccessor(job[w], f)
             \/ /\ ~Q!Owned(job[w], {"running"})
                /\ UNCHANGED <<table, faults>>
          /\ outcome' = [outcome EXCEPT ![w] = "retry"]
          /\ tagged' = [tagged EXCEPT ![w] = TRUE]
          /\ Goto(w, "report")

\* The heartbeat goroutine renews the lease; the fence of a reaper that read
\* the older heartbeat no longer matches.
Beat(w) ==
    /\ pc[w] = "handle"
    /\ batch' = [v \in Workers |-> {o \in batch[v] : o.id # job[w].id}]
    /\ UNCHANGED <<pc, job, sel, turn, canceled, faults, yields>>
    /\ Q!HeartbeatJob(job[w])

\* A refused beat stops the handler; execute returns without writing.
BeatLost(w) ==
    /\ pc[w] = "handle"
    /\ ~Q!Owned(job[w], {"running"})
    /\ Goto(w, "end")
    /\ UNCHANGED <<table, job, sel, batch, turn, canceled, faults, yields>>

\* Beats keep failing until the lease could go stale: the handler is stopped
\* and its nil or canceled result becomes a tagged heartbeat error.
BeatError(w) ==
    /\ pc[w] = "handle"
    /\ Fault
    /\ outcome' = [outcome EXCEPT ![w] = "retry"]
    /\ tagged' = [tagged EXCEPT ![w] = TRUE]
    /\ Goto(w, "report")
    /\ UNCHANGED <<table, job, sel, batch, crossed, drainBy, canceled, yields>>

\* The handler is done or returns an error.  After a crossing most error paths
\* tag it; the hook that follows a publication does not (afterPublish of the
\* resolver and caller workers, retireUnavailablePublication).
Return(w) ==
    /\ pc[w] = "handle"
    /\ \E o \in Outcomes, t \in BOOLEAN :
        /\ t => crossed[w] /\ o \in {"terminal", "retry"}
        /\ outcome' = [outcome EXCEPT ![w] = o]
        /\ tagged' = [tagged EXCEPT ![w] = t]
        /\ yields' = IF o = "yield" THEN yields + 1 ELSE yields
        /\ o = "yield" => yields < MaxYields
    /\ Goto(w, "report")
    /\ UNCHANGED <<table, job, sel, batch, crossed, drainBy, canceled, faults>>

\* Mutant of FailJob: the successor is not considered.
FailJobPlain(w) == Q!Settle(job[w], "failed")

\* The terminal transition of a refused or exhausted job: only a tagged error
\* considers the recovery successor.
FailJob(w) ==
    IF tagged[w] THEN Q!FailJobWithSuccessor(job[w]) ELSE Q!Settle(job[w], "failed")

\* Mutants of RetryWrite: attempts are unlimited, or there is only one.
RetryForever(w) == Q!ReturnToPending(job[w], TRUE, TRUE)
RetryNever(w) == FailJob(w)

\* An ordinary error is retried with backoff until the attempts are used up.
RetryWrite(w) ==
    IF Q!Exhausted(job[w].attempts) THEN FailJob(w)
    ELSE Q!ReturnToPending(job[w], TRUE, TRUE)

\* The switch of execute, in its order.
ReportWrite(w) ==
    LET h == job[w]
        o == outcome[w]
    IN  CASE o = "done" -> Q!Settle(h, "done")
          [] o # "done" /\ canceled[w] -> Q!ReleaseJob(h)
          [] o = "terminal" /\ ~canceled[w] -> FailJob(w)
          [] o = "defer" /\ ~canceled[w] -> Q!DeferJob(h)
          [] o = "yield" /\ ~canceled[w] -> Q!ReleaseJob(h)
          [] OTHER -> RetryWrite(w)

\* DeferJob's answer carries the not_before fence of the deferred row; it is
\* zero when a pending successor won or the answer was lost.
DeferralAnswered(w) ==
    /\ outcome[w] = "defer"
    /\ ~canceled[w]
    /\ jobs[job[w].id].status \in Q!Active
    /\ jobs'[job[w].id].status = "pending"
    /\ UNCHANGED faults

Report(w) ==
    /\ pc[w] = "report"
    /\ Persist(w, ReportWrite(w), "end")
    /\ drainBy' = [drainBy EXCEPT ![w] = IF @ = "none" /\ DeferralAnswered(w) THEN "armed" ELSE @]
    /\ UNCHANGED <<crossed, outcome, tagged>>

\* The locals of execute are gone.
NewTurn(w) ==
    /\ crossed' = [crossed EXCEPT ![w] = FALSE]
    /\ outcome' = [outcome EXCEPT ![w] = "done"]
    /\ tagged' = [tagged EXCEPT ![w] = FALSE]

\* Back in Run's drain loop, or out of it once a deferral's deadline passed.
EndTurn(w) ==
    /\ pc[w] = "end"
    /\ job' = [job EXCEPT ![w] = NoJob]
    /\ Goto(w, IF drainBy[w] = "passed" THEN "idle" ELSE "drain")
    /\ NewTurn(w)
    /\ UNCHANGED <<table, sel, batch, drainBy, canceled, faults, yields>>

-----------------------------------------------------------------------------
(* Processes stop, die and come back *)

Shutdown(w) ==
    /\ ~canceled[w]
    /\ Fault
    /\ canceled' = [canceled EXCEPT ![w] = TRUE]
    /\ UNCHANGED <<table, pc, job, sel, batch, turn, yields>>

Crash(w) ==
    /\ pc[w] # "idle"
    /\ Fault
    /\ job' = [job EXCEPT ![w] = NoJob]
    /\ sel' = [sel EXCEPT ![w] = {}]
    /\ batch' = [batch EXCEPT ![w] = {}]
    /\ Goto(w, "idle")
    /\ NewTurn(w)
    /\ drainBy' = [drainBy EXCEPT ![w] = "none"]
    /\ UNCHANGED <<table, canceled, yields>>

Restart(w) ==
    /\ pc[w] = "idle"
    /\ canceled[w]
    /\ canceled' = [canceled EXCEPT ![w] = FALSE]
    /\ UNCHANGED <<table, pc, job, sel, batch, turn, faults, yields>>

-----------------------------------------------------------------------------

Init ==
    /\ jobs = [i \in Ids |-> Q!FreeRow]
    /\ before = [i \in Ids |-> {}]
    /\ unseen = {}
    /\ unseenForce = {}
    /\ pc = [w \in Workers |-> "idle"]
    /\ job = [w \in Workers |-> NoJob]
    /\ sel = [w \in Workers |-> {}]
    /\ batch = [w \in Workers |-> {}]
    /\ crossed = [w \in Workers |-> FALSE]
    /\ outcome = [w \in Workers |-> "done"]
    /\ tagged = [w \in Workers |-> FALSE]
    /\ drainBy = [w \in Workers |-> "none"]
    /\ canceled = [w \in Workers |-> FALSE]
    /\ faults = 0
    /\ yields = 0

\* What a live worker does by itself.
Work(w) ==
    \/ Poll(w) \/ ReapRow(w) \/ ReapEnd(w)
    \/ Select(w) \/ Drained(w) \/ Claim(w) \/ ClaimLost(w)
    \/ Start(w) \/ Return(w) \/ BeatLost(w) \/ Report(w) \/ EndTurn(w)

Disturb(w) ==
    \/ ClaimError(w) \/ Cross(w) \/ Beat(w) \/ BeatError(w)
    \/ Shutdown(w) \/ Crash(w)

Next ==
    \/ Event
    \/ Time
    \/ \E w \in Workers : Work(w) \/ Disturb(w) \/ Restart(w) \/ DeadlinePasses(w)

Spec == Init /\ [][Next]_vars

\* A lease nobody works under.
Orphan(i) == \A w \in Workers : job[w] # NoJob => job[w].id # i

\* Runners keep polling and handlers return, stopped processes are restarted,
\* deadlines pass, gates open, and a heartbeat nobody renews grows older.
Fairness ==
    /\ \A w \in Workers : /\ WF_vars(Work(w)) /\ WF_vars(Restart(w))
                          /\ WF_vars(DeadlinePasses(w))
    /\ \A i \in Ids : WF_vars(Time /\ Q!GateOpens(i))
    /\ \A i \in Ids : WF_vars(Orphan(i) /\ Time /\ Q!LeaseAges(i))

FairSpec == Spec /\ Fairness

-----------------------------------------------------------------------------
(* Properties *)

\* Every step of the workers is a step of the job table as JobQueue specifies
\* it, under any interleaving, crash, lost answer or retry.
QueueSpec == Q!Spec

\* The step in which w itself fails its job.
Fails(w) ==
    /\ pc[w] = "report" /\ pc'[w] = "end"
    /\ jobs[job[w].id].status \in Q!Active
    /\ jobs'[job[w].id].status = "failed"

\* The handler returned an error after the crossing without the mark.
Unmarked(w) == crossed[w] /\ ~tagged[w]

\* A worker that reports a permanent failure does not leave the recovery row of
\* its own lease behind as a fresh attempt.  Only a reap may do that, and an
\* error that comes unmarked out of a handler that has crossed: execute then
\* writes a plain failed status and the row runs once more.
FailureConsumesRecovery ==
    [][\A w \in Workers :
        Fails(w) /\ ~Unmarked(w) =>
            \A i \in Ids : jobs'[i].status = "pending" => jobs'[i].recovery # job[w].lease]_vars

\* A job that still has attempts, or that only waits, is never failed by its
\* worker unless the handler refused it terminally.
NoEarlyFailure ==
    [][\A w \in Workers :
        Fails(w) =>
            \/ outcome[w] = "terminal"
            \/ Q!Exhausted(jobs[job[w].id].attempts)]_vars

\* Every event is eventually followed by a claim of its target (or withdrawn):
\* deferred, failing and yielding siblings do not starve it.
EventClaimed == \A t \in Targets : (t \in unseen) ~> (t \notin unseen)

\* Every lease ends: work of a dead or stopped worker is reaped.
LeaseEnds ==
    \A i \in Ids : (jobs[i].status \in Q!Active) ~> (jobs[i].status \notin Q!Active)

=============================================================================
