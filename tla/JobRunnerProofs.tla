-------------------------- MODULE JobRunnerProofs ---------------------------
(***************************************************************************)
(* The workers implement the job table, for any number of workers, rows,   *)
(* targets, leases and faults, and report failures as they should.         *)
(*                                                                         *)
(* Every step of a worker is shown to be one step of JobQueue or to leave  *)
(* it alone, so all that JobQueueProofs proves of the table under callers  *)
(* that obey no protocol holds of the workers (P).  What the reports need  *)
(* beyond that is an invariant about the leases in the workers' memory.    *)
(*                                                                         *)
(* The last part is about the clock of one lease (HeartbeatLease): how     *)
(* long a worker's handler can outlive it.                                 *)
(***************************************************************************)
EXTENDS JobRunner, HeartbeatLease, TLAPS

\* The table the workers share, with what is proved about it.
P == INSTANCE JobQueueProofs WITH
        handles <- {job[w] : w \in {v \in Workers : job[v] # NoJob}},
        observed <- UNION {batch[w] : w \in Workers},
        selected <- UNION {sel[w] : w \in Workers}

-----------------------------------------------------------------------------
(* The inductive invariant *)

\* ClaimJob has at most one candidate in hand.
OneSelected == \A w \in Workers : \A i, j \in sel[w] : i = j

\* No two workers were handed the same lease.
LeasesDistinct ==
    \A v, w \in Workers :
        job[v] # NoJob /\ job[w] # NoJob /\ job[v].lease = job[w].lease => v = w

\* A pending row tagged with a worker's lease was left by its own handler, which
\* has crossed, and is a successor of its own target.
TagsKnown ==
    \A w \in Workers : job[w] # NoJob =>
        \A i \in Ids : jobs[i].status = "pending" /\ jobs[i].recovery = job[w].lease =>
            crossed[w] /\ jobs[i].target = job[w].target

\* What every step of the workers preserves; P!IInv is the invariant of the table.
IInv == TypeOK /\ OneSelected /\ P!IInv /\ LeasesDistinct /\ TagsKnown

-----------------------------------------------------------------------------
(* The workers' table is a job table *)

\* The workers' table is the one that JobQueueProofs is about.
LEMMA SameTypes == (Q!TypeOK <=> P!TypeOK) /\ (Q!TypeOK' <=> P!TypeOK')
  BY DEF Q!TypeOK, P!TypeOK, Q!RowsOK, P!RowsOK, Q!Row, P!Row, Q!Handle, P!Handle, Q!Active,
         P!Active, Q!Status, P!Status

\* A step of the table is one of that table.
LEMMA SameSteps == Q!Next => P!Next
  BY DEF Q!Active, P!Active, Q!Aged, P!Aged, Q!CancelPendingJobs, P!CancelPendingJobs,
         Q!Canceled, P!Canceled, Q!Claimable, P!Claimable, Q!ClaimRow, P!ClaimRow, Q!ClaimSelect,
         P!ClaimSelect, Q!ClaimSelected, P!ClaimSelected, Q!Claimed, P!Claimed, Q!Coalesced,
         P!Coalesced, Q!Create, P!Create, Q!CreateJob, P!CreateJob, Q!DeferJob, P!DeferJob,
         Q!Deselect, P!Deselect, Q!EnqueuePending, P!EnqueuePending, Q!EnsureJobSuccessor,
         P!EnsureJobSuccessor, Q!Exhausted, P!Exhausted, Q!FailJobWithSuccessor,
         P!FailJobWithSuccessor, Q!Failed, P!Failed, Q!Forget, P!Forget, Q!Fresh, P!Fresh,
         Q!GateOpens, P!GateOpens, Q!HandBack, P!HandBack, Q!HandleOf, P!HandleOf,
         Q!HeartbeatJob, P!HeartbeatJob, Q!LeaseAges, P!LeaseAges, Q!Leased, P!Leased, Q!Live,
         P!Live, Q!Merged, P!Merged, Q!NewRow, P!NewRow, Q!Next, P!Next, Q!Oldest, P!Oldest,
         Q!Opened, P!Opened, Q!Owned, P!Owned, Q!PendingFor, P!PendingFor, Q!Produce, P!Produce,
         Q!ReapForget, P!ReapForget, Q!ReapOne, P!ReapOne, Q!ReapSelect, P!ReapSelect,
         Q!RecoveryFor, P!RecoveryFor, Q!ReleaseJob, P!ReleaseJob, Q!RequeueJob, P!RequeueJob,
         Q!Returned, P!Returned, Q!ReturnToPending, P!ReturnToPending, Q!Running, P!Running,
         Q!SetRunning, P!SetRunning, Q!Settle, P!Settle, Q!Settled, P!Settled, Q!StaleRows,
         P!StaleRows, Q!Step, P!Step, Q!ToTail, P!ToTail, Q!Upgraded, P!Upgraded, Q!UseLease,
         P!UseLease, Q!vars, P!vars

\* What the values in flight are.
LEMMA InFlight ==
    ASSUME NEW w \in Workers
    PROVE  /\ job[w] # NoJob => job[w] \in {job[v] : v \in {u \in Workers : job[u] # NoJob}}
           /\ batch[w] \subseteq UNION {batch[v] : v \in Workers}
           /\ sel[w] \subseteq UNION {sel[v] : v \in Workers}
  OBVIOUS

\* A step that writes no row and changes no value in flight is none of the table.
LEMMA Stutters ==
    ASSUME UNCHANGED table, UNCHANGED <<job, sel, batch>>
    PROVE  UNCHANGED Q!vars
  BY DEF table, Q!vars

\* A worker that uses its lease takes a step of the table.
LEMMA Uses ==
    ASSUME NEW w \in Workers, job[w] # NoJob, NEW h, h = job[w], Q!UseLease(h)
    PROVE  Q!Next
  <1>1. h \in {job[v] : v \in {u \in Workers : job[u] # NoJob}}
    BY InFlight
  <1> QED
    BY <1>1 DEF Q!Next

\* A worker that gives its job up forgets a value, or another one still has it.
LEMMA Forgets ==
    ASSUME NEW w \in Workers, TypeOK, job[w] # NoJob, job' = [job EXCEPT ![w] = NoJob],
           UNCHANGED table, UNCHANGED <<sel, batch>>
    PROVE  [Q!Next]_(Q!vars)
  <1> DEFINE Handles == {job[v] : v \in {u \in Workers : job[u] # NoJob}}
  <1>1. job'[w] = NoJob /\ \A v \in Workers \ {w} : job'[v] = job[v]
    BY DEF TypeOK
  <1>2. CASE \E v \in Workers \ {w} : job[v] = job[w]
    <2>1. Handles' = Handles
      BY <1>1, <1>2
    <2> QED
      BY <2>1 DEF Q!vars, table
  <1>3. CASE ~ \E v \in Workers \ {w} : job[v] = job[w]
    <2>1. Handles' = Handles \ {job[w]}
      BY <1>1, <1>3
    <2> PICK h : h = job[w]
      OBVIOUS
    <2>2. Q!Forget(h)
      BY <2>1 DEF Q!Forget, table
    <2> QED
      BY <2>2, Uses DEF Q!UseLease
  <1> QED
    BY <1>2, <1>3

\* A claimer that gives its candidate up deselects it, or another one still has it.
LEMMA Deselects ==
    ASSUME NEW w \in Workers, TypeOK, OneSelected, sel' = [sel EXCEPT ![w] = {}],
           UNCHANGED table, UNCHANGED <<job, batch>>
    PROVE  [Q!Next]_(Q!vars)
  <1> DEFINE Selected == UNION {sel[v] : v \in Workers}
  <1>1. sel'[w] = {} /\ \A v \in Workers \ {w} : sel'[v] = sel[v]
    BY DEF TypeOK
  <1>2. CASE Selected' = Selected
    BY <1>2 DEF Q!vars, table
  <1>3. CASE Selected' # Selected
    <2>1. PICK i \in sel[w] : i \notin Selected'
      BY <1>1, <1>3
    <2>2. sel[w] = {i} /\ i \in Ids
      BY <2>1 DEF OneSelected, TypeOK
    <2>3. Selected' = Selected \ {i}
      BY <1>1, <2>1, <2>2
    <2>4. Q!Deselect(i)
      BY <2>2, <2>3 DEF Q!Deselect, table
    <2> QED
      BY <2>2, <2>4 DEF Q!Next, Q!Step
  <1> QED
    BY <1>2, <1>3

\* A reaper that gives rows of its batch up forgets what it has read of them.
LEMMA ReapForgets ==
    ASSUME NEW w \in Workers, TypeOK, NEW S \in SUBSET batch[w], batch' = [batch EXCEPT ![w] = S],
           UNCHANGED table, UNCHANGED <<job, sel>>
    PROVE  [Q!Next]_(Q!vars)
  <1> DEFINE Observed == UNION {batch[v] : v \in Workers}
  <1>1. batch'[w] = S /\ \A v \in Workers \ {w} : batch'[v] = batch[v]
    BY DEF TypeOK
  <1>2. Observed' \subseteq Observed
    BY <1>1
  <1>3. PICK T : T = Observed \ Observed'
    OBVIOUS
  <1>4. Observed' = Observed \ T /\ T \in SUBSET Observed
    BY <1>2, <1>3
  <1>5. Q!ReapForget(T)
    BY <1>4 DEF Q!ReapForget, table
  <1> QED
    BY <1>4, <1>5 DEF Q!Next

\* What a worker writes with its job it writes with that job value.
LEMMA SameWrites ==
    ASSUME NEW w \in Workers, NEW h, h = job[w]
    PROVE  /\ Q!SetRunning(job[w]) => Q!SetRunning(h)
           /\ Q!Settle(job[w], "done") => Q!Settle(h, "done")
           /\ Q!Settle(job[w], "failed") => Q!Settle(h, "failed")
           /\ Q!HeartbeatJob(job[w]) => Q!HeartbeatJob(h)
           /\ Q!ReturnToPending(job[w], TRUE, TRUE) => Q!ReturnToPending(h, TRUE, TRUE)
           /\ Q!ReleaseJob(job[w]) => Q!ReleaseJob(h)
           /\ Q!DeferJob(job[w]) => Q!DeferJob(h)
           /\ \A f \in Forces : Q!EnsureJobSuccessor(job[w], f) => Q!EnsureJobSuccessor(h, f)
           /\ Q!FailJobWithSuccessor(job[w]) => Q!FailJobWithSuccessor(h)
  <1>1. Q!SetRunning(job[w]) => Q!SetRunning(h)
    BY DEF Q!SetRunning, Q!Owned
  <1>2. /\ Q!Settle(job[w], "done") => Q!Settle(h, "done")
        /\ Q!Settle(job[w], "failed") => Q!Settle(h, "failed")
    BY DEF Q!Settle, Q!Owned
  <1>3. Q!HeartbeatJob(job[w]) => Q!HeartbeatJob(h)
    BY DEF Q!HeartbeatJob, Q!Owned
  <1>4. Q!ReturnToPending(job[w], TRUE, TRUE) => Q!ReturnToPending(h, TRUE, TRUE)
    BY DEF Q!ReturnToPending, Q!HandBack, Q!PendingFor, Q!Owned
  <1>5. Q!ReleaseJob(job[w]) => Q!ReleaseJob(h)
    BY DEF Q!ReleaseJob, Q!ReturnToPending, Q!HandBack, Q!PendingFor, Q!Owned
  <1>6. Q!DeferJob(job[w]) => Q!DeferJob(h)
    BY DEF Q!DeferJob, Q!PendingFor, Q!Owned
  <1>7. ASSUME NEW f \in Forces, Q!EnsureJobSuccessor(job[w], f) PROVE Q!EnsureJobSuccessor(h, f)
    BY <1>7 DEF Q!EnsureJobSuccessor, Q!PendingFor, Q!Owned, Q!Create
  <1>8. Q!FailJobWithSuccessor(job[w]) => Q!FailJobWithSuccessor(h)
    BY DEF Q!FailJobWithSuccessor, Q!RecoveryFor, Q!PendingFor, Q!Owned
  <1> QED
    BY <1>1, <1>2, <1>3, <1>4, <1>5, <1>6, <1>7, <1>8

\* Every write of a worker under its lease is an operation of the table.
LEMMA WritesAreSteps ==
    ASSUME NEW w \in Workers, job[w] # NoJob
    PROVE  /\ Q!SetRunning(job[w]) => Q!Next
           /\ Q!Settle(job[w], "done") \/ Q!Settle(job[w], "failed") => Q!Next
           /\ Q!HeartbeatJob(job[w]) => Q!Next
           /\ ~Q!Exhausted(job[w].attempts) /\ Q!ReturnToPending(job[w], TRUE, TRUE) => Q!Next
           /\ Q!ReleaseJob(job[w]) \/ Q!DeferJob(job[w]) => Q!Next
           /\ (\E f \in Forces : Q!EnsureJobSuccessor(job[w], f)) => Q!Next
           /\ Q!FailJobWithSuccessor(job[w]) => Q!Next
  <1>0. PICK h : h = job[w]
    OBVIOUS
  <1>1. Q!UseLease(h) => Q!Next
    BY <1>0, Uses
  <1>2. ~Q!Exhausted(job[w].attempts) => ~Q!Exhausted(h.attempts)
    BY <1>0 DEF Q!Exhausted
  <1> QED
    BY <1>0, <1>1, <1>2, SameWrites DEF Q!UseLease, Q!RequeueJob

-----------------------------------------------------------------------------
(* One step of a worker is one step of the table *)

\* The poll reads one batch of the stale rows, and the reap takes its rows one by one.
LEMMA ReapSimulates ==
    ASSUME TypeOK, NEW w \in Workers, Poll(w) \/ ReapRow(w) \/ ReapEnd(w)
    PROVE  [Q!Next]_(Q!vars)
  <1> DEFINE Observed == UNION {batch[v] : v \in Workers}
  <1>1. CASE Poll(w)
    <2>1. PICK S : S = Q!StaleRows
      OBVIOUS
    <2>2. batch[w] = {}
      BY <1>1 DEF Poll, TypeOK
    <2>3. batch'[w] = {Q!HandleOf(i) : i \in S} /\ \A v \in Workers \ {w} : batch'[v] = batch[v]
      BY <1>1, <2>1 DEF Poll, TypeOK
    <2>4. Observed' = Observed \cup {Q!HandleOf(i) : i \in S}
      BY <2>2, <2>3
    <2>5. Q!ReapSelect(S)
      BY <1>1, <2>1, <2>4 DEF Q!ReapSelect, Poll, table
    <2> QED
      BY <2>1, <2>5 DEF Q!Next
  <1>2. CASE ReapRow(w)
    <2>1. PICK o \in batch[w] :
             /\ batch' = [batch EXCEPT ![w] = @ \ {o}]
             /\ UNCHANGED <<job, sel>>
             /\ Q!ReapOne(o) \/ UNCHANGED table
      BY <1>2 DEF ReapRow
    <2>2. CASE Q!ReapOne(o)
      BY <2>1, <2>2, InFlight DEF Q!Next
    <2>3. CASE UNCHANGED table
      <3>1. PICK S : S = batch[w] \ {o}
        OBVIOUS
      <3> QED
        BY <2>1, <2>3, <3>1, ReapForgets
    <2> QED
      BY <2>1, <2>2, <2>3
  <1>3. CASE ReapEnd(w)
    BY <1>3, Stutters DEF ReapEnd
  <1> QED
    BY <1>1, <1>2, <1>3

\* ClaimJob selects, then claims, loses the race or gives up.
LEMMA ClaimSimulates ==
    ASSUME TypeOK, OneSelected, NEW w \in Workers,
           Select(w) \/ Drained(w) \/ Claim(w) \/ ClaimLost(w) \/ ClaimError(w)
    PROVE  [Q!Next]_(Q!vars)
  <1> DEFINE Selected == UNION {sel[v] : v \in Workers}
  <1>1. CASE Select(w)
    <2>1. PICK i \in Q!Oldest : /\ sel' = [sel EXCEPT ![w] = {i}]
                                /\ UNCHANGED table /\ UNCHANGED <<job, batch>>
      BY <1>1 DEF Select
    <2>2. sel[w] = {} /\ i \in Ids
      BY <1>1, <2>1 DEF Select, TypeOK, Q!Oldest, Q!Claimable
    <2>3. sel'[w] = {i} /\ \A v \in Workers \ {w} : sel'[v] = sel[v]
      BY <2>1 DEF TypeOK
    <2>4. Selected' = Selected \cup {i}
      BY <2>2, <2>3
    <2>5. Q!ClaimSelect(i)
      BY <2>1, <2>4 DEF Q!ClaimSelect, table
    <2> QED
      BY <2>2, <2>5 DEF Q!Next, Q!Step
  <1>2. CASE Drained(w)
    BY <1>2, Stutters DEF Drained
  <1>3. ASSUME NEW i \in sel[w], NEW l \in Leases, Q!ClaimSelected(i, l) PROVE Q!Next
    <2>1. i \in Ids
      BY DEF TypeOK
    <2> QED
      BY <1>3, <2>1 DEF Q!Next, Q!Step
  <1>4. CASE Claim(w)
    BY <1>3, <1>4 DEF Claim
  <1>5. CASE ClaimLost(w)
    BY <1>5, Deselects DEF ClaimLost
  <1>6. CASE ClaimError(w)
    BY <1>3, <1>6, Deselects DEF ClaimError
  <1> QED
    BY <1>1, <1>2, <1>4, <1>5, <1>6

\* execute writes through its lease and nowhere else.
LEMMA ExecuteSimulates ==
    ASSUME TypeOK, NEW w \in Workers,
           Start(w) \/ Cross(w) \/ Beat(w) \/ BeatLost(w) \/ BeatError(w) \/ Return(w) \/ Report(w)
    PROVE  [Q!Next]_(Q!vars)
  <1>0. pc[w] \in {"start", "handle", "report"} /\ job[w] # NoJob
    BY DEF TypeOK, Start, Cross, Beat, BeatLost, BeatError, Return, Report
  <1>1. CASE Start(w)
    BY <1>0, <1>1, WritesAreSteps, Stutters DEF Start, Persist
  <1>2. CASE Cross(w)
    BY <1>0, <1>2, WritesAreSteps, Stutters DEF Cross
  <1>3. CASE Beat(w)
    BY <1>0, <1>3, WritesAreSteps DEF Beat
  <1>4. CASE BeatLost(w) \/ BeatError(w) \/ Return(w)
    BY <1>4, Stutters DEF BeatLost, BeatError, Return
  <1>5. CASE Report(w)
    <2>1. ReportWrite(w) => Q!Next
      BY <1>0, WritesAreSteps DEF ReportWrite, RetryWrite, FailJob
    <2> QED
      BY <1>5, <2>1, Stutters DEF Report, Persist
  <1> QED
    BY <1>1, <1>2, <1>3, <1>4, <1>5

\* A worker ends its turn, or its process stops, dies and comes back.
LEMMA EndSimulates ==
    ASSUME TypeOK, OneSelected, NEW w \in Workers,
           EndTurn(w) \/ Shutdown(w) \/ Crash(w) \/ Restart(w) \/ DeadlinePasses(w)
    PROVE  [Q!Next]_(Q!vars)
  <1>1. CASE EndTurn(w)
    BY <1>1, Forgets DEF EndTurn, TypeOK
  <1>2. CASE Shutdown(w) \/ Restart(w) \/ DeadlinePasses(w)
    BY <1>2, Stutters DEF Shutdown, Restart, DeadlinePasses
  <1>3. CASE Crash(w)
    <2>0. /\ job' = [job EXCEPT ![w] = NoJob] /\ sel' = [sel EXCEPT ![w] = {}]
          /\ batch' = [batch EXCEPT ![w] = {}] /\ UNCHANGED table
      BY <1>3 DEF Crash
    <2>1. /\ job[w] = NoJob => job' = job
          /\ sel[w] = {} => sel' = sel
          /\ batch[w] = {} => batch' = batch
      BY <2>0 DEF TypeOK
    <2>2. CASE job[w] # NoJob
      BY <2>0, <2>1, <2>2, Forgets DEF TypeOK
    <2>3. CASE sel[w] # {}
      BY <2>0, <2>1, <2>3, Deselects DEF TypeOK
    <2>4. CASE batch[w] # {}
      BY <2>0, <2>1, <2>4, ReapForgets DEF TypeOK
    <2>5. CASE job[w] = NoJob /\ sel[w] = {} /\ batch[w] = {}
      BY <2>0, <2>1, <2>5, Stutters
    <2> QED
      BY <2>2, <2>3, <2>4, <2>5
  <1> QED
    BY <1>1, <1>2, <1>3

\* Every step of the workers, of events and of time is a step of the table.
LEMMA StepSimulates == TypeOK /\ OneSelected /\ [Next]_vars => [Q!Next]_(Q!vars)
  <1> SUFFICES ASSUME TypeOK, OneSelected, [Next]_vars PROVE [Q!Next]_(Q!vars)
    OBVIOUS
  <1>1. CASE Event \/ Time
    BY <1>1 DEF Event, Time, Q!Next, Q!Step
  <1>2. ASSUME NEW w \in Workers, Work(w) \/ Disturb(w) \/ Restart(w) \/ DeadlinePasses(w)
        PROVE  [Q!Next]_(Q!vars)
    BY <1>2, ReapSimulates, ClaimSimulates, ExecuteSimulates, EndSimulates DEF Work, Disturb
  <1>3. CASE UNCHANGED vars
    BY <1>3, Stutters DEF vars, table
  <1> QED
    BY <1>1, <1>2, <1>3 DEF Next

-----------------------------------------------------------------------------
(* Types *)

\* The step of the table in the terms of JobQueueProofs.
LEMMA TableSteps == TypeOK /\ OneSelected /\ [Next]_vars => [P!Next]_(P!vars)
  BY StepSimulates, SameSteps DEF Q!vars, P!vars

\* The workers start with an empty table and nothing in hand.
LEMMA InitTypes == Init => TypeOK /\ OneSelected /\ Q!Init /\ P!Init
  <1> SUFFICES ASSUME Init PROVE TypeOK /\ OneSelected /\ Q!Init /\ P!Init
    OBVIOUS
  <1>1. Q!Init
    BY DEF Init, Q!Init
  <1>2. P!Init
    BY <1>1 DEF Q!Init, P!Init, Q!FreeRow, P!FreeRow, Q!NewRow, P!NewRow
  <1>3. Q!TypeOK
    BY <1>2, P!InitTypeOK, QueueAssumption, SameTypes
  <1>4. TypeOK
    BY <1>3, FaultsAssumption DEF Init, TypeOK, Outcomes
  <1> QED
    BY <1>1, <1>2, <1>4 DEF Init, OneSelected

\* A job value read off a leased row, or claimed, is well formed.
LEMMA ValueTypes ==
    ASSUME Q!TypeOK, NEW i \in Ids
    PROVE  /\ i \in Q!StaleRows => Q!HandleOf(i) \in Q!Handle
           /\ \A l \in Leases : /\ [Q!HandleOf(i) EXCEPT !.lease = l] \in Q!Handle
                                /\ [Q!HandleOf(i) EXCEPT !.lease = l].lease = l
  BY DEF Q!TypeOK, Q!RowsOK, Q!Row, Q!HandleOf, Q!Handle, Q!StaleRows, Q!Active

\* What a worker has in hand, without the table.
Hands ==
    /\ pc \in [Workers -> {"idle", "reap", "drain", "claim", "start", "handle", "report", "end"}]
    /\ job \in [Workers -> Q!Handle \cup {NoJob}]
    /\ sel \in [Workers -> SUBSET Ids]
    /\ batch \in [Workers -> SUBSET Q!Handle]
    /\ \A w \in Workers : job[w] # NoJob <=> pc[w] \in {"start", "handle", "report", "end"}
    /\ \A w \in Workers : sel[w] # {} <=> pc[w] = "claim"
    /\ \A w \in Workers : batch[w] # {} => pc[w] = "reap"
    /\ OneSelected

\* The parts of TypeOK that no transaction touches.
Flags ==
    /\ crossed \in [Workers -> BOOLEAN]
    /\ outcome \in [Workers -> Outcomes]
    /\ tagged \in [Workers -> BOOLEAN]
    /\ drainBy \in [Workers -> {"none", "armed", "passed"}]
    /\ canceled \in [Workers -> BOOLEAN]
    /\ faults \in 0..MaxFaults
    /\ yields \in 0..MaxYields

\* The type invariant is the table's and the workers'.
LEMMA TypeParts ==
    /\ TypeOK /\ OneSelected <=> Q!TypeOK /\ Hands /\ Flags
    /\ TypeOK' /\ OneSelected' <=> Q!TypeOK' /\ Hands' /\ Flags'
  BY DEF TypeOK, OneSelected, Hands, Flags

\* The flags, deadlines and counters stay what they are.
LEMMA FlagsKept == Flags /\ [Next]_vars => Flags'
  <1> SUFFICES ASSUME Flags, [Next]_vars PROVE Flags'
    OBVIOUS
  <1> USE FaultsAssumption
  <1>1. CASE UNCHANGED vars
    BY <1>1 DEF vars, Flags
  <1>2. CASE Event \/ Time
    BY <1>2 DEF Event, Time, turn, Flags
  <1>0. ASSUME UNCHANGED faults \/ Fault PROVE faults' \in 0..MaxFaults
    BY <1>0 DEF Fault, Flags
  <1>3. ASSUME NEW w \in Workers, Work(w) PROVE Flags'
    <2>1. CASE Poll(w) \/ ReapRow(w) \/ ReapEnd(w)
      BY <2>1 DEF Poll, ReapRow, ReapEnd, Fault, turn, Flags
    <2>2. CASE Select(w) \/ Drained(w) \/ Claim(w) \/ ClaimLost(w)
      BY <2>2 DEF Select, Drained, Claim, ClaimLost, Fault, turn, Flags
    <2>3. CASE Start(w)
      <3>1. /\ UNCHANGED <<crossed, outcome, tagged, drainBy, canceled, yields>>
            /\ UNCHANGED faults \/ Fault
        BY <2>3 DEF Start, Persist, turn
      <3> QED
        BY <1>0, <3>1 DEF Flags
    <2>4. CASE Report(w)
      <3>1. /\ UNCHANGED <<crossed, outcome, tagged, canceled, yields>>
            /\ UNCHANGED faults \/ Fault
        BY <2>4 DEF Report, Persist
      <3>2. drainBy' \in [Workers -> {"none", "armed", "passed"}]
        BY <2>4 DEF Report, Flags
      <3> QED
        BY <1>0, <3>1, <3>2 DEF Flags
    <2>6. CASE Return(w) \/ BeatLost(w)
      BY <2>6 DEF Return, BeatLost, turn, Flags
    <2>5. CASE EndTurn(w)
      BY <2>5 DEF EndTurn, NewTurn, Flags, Outcomes
    <2> QED
      BY <1>3, <2>1, <2>2, <2>3, <2>4, <2>5, <2>6 DEF Work
  <1>4. ASSUME NEW w \in Workers, Disturb(w) \/ Restart(w) \/ DeadlinePasses(w) PROVE Flags'
    <2>1. CASE ClaimError(w) \/ Beat(w) \/ Shutdown(w)
      <3>1. /\ UNCHANGED <<crossed, outcome, tagged, drainBy, yields>> /\ (UNCHANGED faults \/ Fault)
            /\ canceled' = canceled \/ canceled' = [canceled EXCEPT ![w] = TRUE]
        BY <2>1 DEF ClaimError, Beat, Shutdown, turn
      <3>2. canceled' \in [Workers -> BOOLEAN]
        BY <3>1 DEF Flags
      <3>3. faults' \in 0..MaxFaults
        BY <1>0, <3>1
      <3> QED
        BY <3>1, <3>2, <3>3 DEF Flags
    <2>2. CASE Cross(w) \/ BeatError(w)
      <3>1. /\ UNCHANGED <<drainBy, canceled, yields>> /\ (UNCHANGED faults \/ Fault)
            /\ crossed' = crossed \/ crossed' = [crossed EXCEPT ![w] = TRUE]
            /\ tagged' = tagged \/ tagged' = [tagged EXCEPT ![w] = TRUE]
            /\ outcome' = outcome \/ outcome' = [outcome EXCEPT ![w] = "retry"]
        BY <2>2 DEF Cross, BeatError
      <3>2. "retry" \in Outcomes
        BY DEF Outcomes
      <3>3. /\ crossed' \in [Workers -> BOOLEAN] /\ tagged' \in [Workers -> BOOLEAN]
            /\ outcome' \in [Workers -> Outcomes]
        BY <3>1, <3>2 DEF Flags
      <3>4. faults' \in 0..MaxFaults
        BY <1>0, <3>1
      <3> QED
        BY <3>1, <3>3, <3>4 DEF Flags
    <2>3. CASE Crash(w)
      BY <2>3 DEF Crash, NewTurn, Fault, Flags, Outcomes
    <2>4. CASE Restart(w) \/ DeadlinePasses(w)
      BY <2>4 DEF Restart, DeadlinePasses, turn, Flags
    <2> QED
      BY <1>4, <2>1, <2>2, <2>3, <2>4 DEF Disturb
  <1> QED
    BY <1>1, <1>2, <1>3, <1>4 DEF Next

\* What the workers have in hand fits where they are.
LEMMA HandsKept == Q!TypeOK /\ Hands /\ [Next]_vars => Hands'
  <1> SUFFICES ASSUME Q!TypeOK, Hands, [Next]_vars PROVE Hands'
    OBVIOUS
  <1>0. ASSUME UNCHANGED <<pc, job, sel, batch>> PROVE Hands'
    BY <1>0 DEF Hands, OneSelected
  <1>1. CASE UNCHANGED vars
    BY <1>0, <1>1 DEF vars
  <1>2. CASE Event \/ Time
    BY <1>0, <1>2 DEF Event, Time
  <1>3. ASSUME NEW w \in Workers, Poll(w) \/ ReapRow(w) \/ ReapEnd(w) PROVE Hands'
    <2>1. CASE Poll(w)
      <3>1. {Q!HandleOf(i) : i \in Q!StaleRows} \in SUBSET Q!Handle
        BY ValueTypes DEF Q!StaleRows
      <3>2. PICK S \in SUBSET Q!Handle : S = {Q!HandleOf(i) : i \in Q!StaleRows}
        BY <3>1
      <3>3. /\ pc[w] = "idle" /\ batch' = [batch EXCEPT ![w] = S] /\ pc' = [pc EXCEPT ![w] = "reap"]
            /\ UNCHANGED <<job, sel>>
        BY <2>1, <3>2 DEF Poll, Goto
      <3> QED
        BY <3>3 DEF Hands, OneSelected
    <2>2. CASE ReapRow(w)
      <3>1. PICK o \in batch[w] : batch' = [batch EXCEPT ![w] = @ \ {o}] /\ UNCHANGED <<pc, job, sel>>
        BY <2>2 DEF ReapRow
      <3> QED
        BY <3>1 DEF Hands, OneSelected
    <2>3. CASE ReapEnd(w)
      BY <2>3 DEF ReapEnd, Goto, Hands, OneSelected
    <2> QED
      BY <1>3, <2>1, <2>2, <2>3
  <1>4. ASSUME NEW w \in Workers,
               Select(w) \/ Drained(w) \/ Claim(w) \/ ClaimLost(w) \/ ClaimError(w)
        PROVE  Hands'
    <2>1. CASE Select(w)
      <3>1. PICK i \in Ids : /\ sel' = [sel EXCEPT ![w] = {i}] /\ pc' = [pc EXCEPT ![w] = "claim"]
                             /\ UNCHANGED <<job, batch>>
        BY <2>1 DEF Select, Goto, Q!Oldest, Q!Claimable
      <3> QED
        BY <2>1, <3>1 DEF Select, Hands, OneSelected
    <2>2. CASE Drained(w)
      BY <2>2 DEF Drained, Goto, Hands, OneSelected
    <2>3. CASE Claim(w)
      <3>1. PICK i \in sel[w], l \in Leases :
               /\ sel' = [sel EXCEPT ![w] = {}]
               /\ job' = [job EXCEPT ![w] = [Q!HandleOf(i) EXCEPT !.lease = l]]
               /\ pc' = [pc EXCEPT ![w] = "start"] /\ batch' = batch
        BY <2>3 DEF Claim, Goto
      <3>2. i \in Ids /\ pc[w] = "claim"
        BY <3>1 DEF Hands
      <3>3. PICK h \in Q!Handle : h = [Q!HandleOf(i) EXCEPT !.lease = l]
        BY <3>2, ValueTypes
      <3>4. h # NoJob /\ job' = [job EXCEPT ![w] = h]
        BY <3>1, <3>3, NoJobAssumption
      <3> QED
        BY <3>1, <3>2, <3>4 DEF Hands, OneSelected
    <2>4. CASE ClaimLost(w) \/ ClaimError(w)
      <3>1. /\ sel[w] # {} /\ sel' = [sel EXCEPT ![w] = {}] /\ UNCHANGED <<job, batch>>
            /\ pc' = [pc EXCEPT ![w] = "drain"] \/ pc' = [pc EXCEPT ![w] = "idle"]
        BY <2>4 DEF ClaimLost, ClaimError, Goto
      <3> QED
        BY <3>1 DEF Hands, OneSelected
    <2> QED
      BY <1>4, <2>1, <2>2, <2>3, <2>4
  <1>5. ASSUME NEW w \in Workers,
               Start(w) \/ Cross(w) \/ Beat(w) \/ BeatLost(w) \/ BeatError(w) \/ Return(w) \/ Report(w)
        PROVE  Hands'
    <2>1. ASSUME pc[w] \in {"start", "handle", "report"}, UNCHANGED <<job, sel, batch>>,
                 NEW l \in {"handle", "report", "end"}, pc' = [pc EXCEPT ![w] = l]
          PROVE  Hands'
      BY <2>1 DEF Hands, OneSelected
    <2>2. CASE Start(w) \/ Report(w)
      <3>1. /\ pc[w] \in {"start", "handle", "report"} /\ UNCHANGED <<job, sel, batch>>
            /\ pc' = [pc EXCEPT ![w] = "handle"] \/ pc' = [pc EXCEPT ![w] = "end"]
        BY <2>2 DEF Start, Report, Persist, Goto
      <3> QED
        BY <2>1, <3>1
    <2>3. CASE Cross(w)
      <3>1. /\ pc[w] \in {"start", "handle", "report"} /\ UNCHANGED <<job, sel, batch>>
            /\ pc' = [pc EXCEPT ![w] = "report"] \/ pc' = pc
        BY <2>3 DEF Cross, Goto
      <3> QED
        BY <1>0, <2>1, <3>1
    <2>4. CASE Beat(w)
      <3>1. /\ batch' = [v \in Workers |-> {o \in batch[v] : o.id # job[w].id}]
            /\ UNCHANGED <<pc, job, sel>>
        BY <2>4 DEF Beat
      <3> QED
        BY <3>1 DEF Hands, OneSelected
    <2>5. CASE BeatLost(w) \/ BeatError(w) \/ Return(w)
      <3>1. /\ pc[w] \in {"start", "handle", "report"} /\ UNCHANGED <<job, sel, batch>>
            /\ pc' = [pc EXCEPT ![w] = "report"] \/ pc' = [pc EXCEPT ![w] = "end"]
        BY <2>5 DEF BeatLost, BeatError, Return, Goto
      <3> QED
        BY <2>1, <3>1
    <2> QED
      BY <1>5, <2>2, <2>3, <2>4, <2>5
  <1>6. ASSUME NEW w \in Workers,
               EndTurn(w) \/ Shutdown(w) \/ Crash(w) \/ Restart(w) \/ DeadlinePasses(w)
        PROVE  Hands'
    <2>1. CASE EndTurn(w)
      <3>1. /\ pc[w] = "end" /\ job' = [job EXCEPT ![w] = NoJob] /\ UNCHANGED <<sel, batch>>
            /\ pc' = [pc EXCEPT ![w] = "idle"] \/ pc' = [pc EXCEPT ![w] = "drain"]
        BY <2>1 DEF EndTurn, Goto
      <3> QED
        BY <3>1 DEF Hands, OneSelected
    <2>2. CASE Crash(w)
      BY <2>2 DEF Crash, Goto, Hands, OneSelected
    <2>3. CASE Shutdown(w) \/ Restart(w) \/ DeadlinePasses(w)
      BY <1>0, <2>3 DEF Shutdown, Restart, DeadlinePasses
    <2> QED
      BY <1>6, <2>1, <2>2, <2>3
  <1> QED
    BY <1>1, <1>2, <1>3, <1>4, <1>5, <1>6 DEF Next, Work, Disturb

\* The types are kept: the table's, as it is JobQueue's, and the workers'.
LEMMA TypesKept == TypeOK /\ OneSelected /\ [Next]_vars => TypeOK' /\ OneSelected'
  <1> SUFFICES ASSUME TypeOK, OneSelected, [Next]_vars PROVE TypeOK' /\ OneSelected'
    OBVIOUS
  <1>1. Q!TypeOK /\ Hands /\ Flags
    BY TypeParts
  <1>2. Q!TypeOK'
    BY <1>1, TableSteps, P!NextTypeOK, QueueAssumption, SameTypes
  <1> QED
    BY <1>1, <1>2, HandsKept, FlagsKept, TypeParts

\* The runner implements the job table: for any number of workers, rows, targets
\* and faults, every step of Run, execute and persist, every crash and every lost
\* answer is one transaction of JobQueue or leaves the table alone.
THEOREM RunnerImplementsQueue == Spec => QueueSpec
  <1>1. Init => TypeOK /\ OneSelected /\ Q!Init
    BY InitTypes
  <1> QED
    BY <1>1, TypesKept, StepSimulates, PTL DEF Spec, QueueSpec, Q!Spec

-----------------------------------------------------------------------------
(* Recovery tags *)

\* A row that is pending and tagged after a write was so before, for its target.
TagKept(new, old) ==
    new.status = "pending" /\ new.recovery \in Leases =>
        old.status = "pending" /\ new.recovery = old.recovery /\ new.target = old.target

\* No row of the table was tagged by this step.
TagsKept == \A i \in Ids : TagKept(jobs'[i], jobs[i])

\* No row write but the creation of a recovery row tags a pending row.
LEMMA RowWrites ==
    ASSUME NEW row \in Q!Row, NEW n \in Nat, NEW f \in BOOLEAN, NEW g \in BOOLEAN
    PROVE  /\ \A s \in {"done", "failed", "canceled"} :
                 Q!Settled(row, s, n).status = s /\ TagKept(Q!Settled(row, s, n), row)
           /\ Q!Returned(row, n, g).status = "pending" /\ TagKept(Q!Returned(row, n, g), row)
           /\ TagKept(Q!Coalesced(row, f), row) /\ TagKept(Q!Upgraded(row, f), row)
           /\ TagKept(Q!Merged(row, f, n, g), row)
           /\ \A l \in Leases : TagKept(Q!Claimed(row, l), row)
           /\ TagKept(Q!Running(row), row) /\ TagKept(Q!Aged(row, g), row) /\ TagKept(Q!Opened(row), row)
           /\ TagKept(Q!Canceled(row), row) /\ TagKept(Q!Failed(row, n), row)
           /\ \A t \in Targets : TagKept(Q!NewRow(t, f, NoLease), row)
           /\ TagKept(row, row)
  <1> USE QueueAssumption
  <1>1. ASSUME NEW s \in {"done", "failed", "canceled"}
        PROVE  Q!Settled(row, s, n).status = s /\ TagKept(Q!Settled(row, s, n), row)
    BY DEF Q!Row, Q!Settled, TagKept
  <1>2. Q!Returned(row, n, g).status = "pending" /\ TagKept(Q!Returned(row, n, g), row)
    BY DEF Q!Row, Q!Returned, TagKept
  <1>3. TagKept(Q!Coalesced(row, f), row) /\ TagKept(Q!Upgraded(row, f), row)
    BY DEF Q!Row, Q!Coalesced, Q!Upgraded, TagKept
  <1>4. TagKept(Q!Merged(row, f, n, g), row)
    BY DEF Q!Row, Q!Merged, TagKept
  <1>5. \A l \in Leases : TagKept(Q!Claimed(row, l), row)
    BY DEF Q!Row, Q!Claimed, TagKept
  <1>6. TagKept(Q!Running(row), row) /\ TagKept(Q!Aged(row, g), row) /\ TagKept(Q!Opened(row), row)
    BY DEF Q!Row, Q!Running, Q!Aged, Q!Opened, TagKept
  <1>7. TagKept(Q!Canceled(row), row) /\ TagKept(Q!Failed(row, n), row)
    BY DEF Q!Row, Q!Canceled, Q!Failed, TagKept
  <1>8. \A t \in Targets : TagKept(Q!NewRow(t, f, NoLease), row)
    BY DEF Q!NewRow, TagKept
  <1>9. TagKept(row, row)
    BY DEF TagKept
  <1> QED
    BY <1>1, <1>2, <1>3, <1>4, <1>5, <1>6, <1>7, <1>8, <1>9

\* The rows of the table.
LEMMA RowFacts ==
    ASSUME Q!TypeOK
    PROVE  /\ jobs \in [Ids -> Q!Row]
           /\ \A i \in Ids : /\ jobs[i] \in Q!Row /\ jobs[i].attempts \in Nat
                             /\ jobs[i].target \in Targets
                             /\ TagKept(jobs[i], jobs[i])
           /\ \A t : \A p \in Q!PendingFor(t) : p \in Ids /\ jobs[p].status = "pending"
  BY DEF Q!TypeOK, Q!RowsOK, Q!Row, Q!PendingFor, TagKept

\* The writes of a lease holder keep the tags, and say what becomes of its row.
LEMMA HolderTags ==
    ASSUME Q!TypeOK, NEW h \in Q!Handle
    PROVE  /\ Q!SetRunning(h) => TagsKept
           /\ Q!Settle(h, "done") => TagsKept /\ jobs'[h.id].status = "done"
           /\ Q!Settle(h, "failed") => TagsKept /\ \A i \in Ids \ {h.id} : jobs'[i] = jobs[i]
           /\ Q!HeartbeatJob(h) => TagsKept
           /\ \A inc \in BOOLEAN, g \in BOOLEAN : Q!Owned(h, Q!Active) /\ Q!HandBack(h, inc, g) =>
                 TagsKept /\ jobs'[h.id].status \in {"pending", "canceled"}
           /\ Q!DeferJob(h) => TagsKept /\ jobs'[h.id].status \in {"pending", "canceled"}
           /\ Q!FailJobWithSuccessor(h) =>
                 /\ TagsKept
                 /\ jobs'[h.id].status = "failed" =>
                      /\ Q!RecoveryFor(h.target, h.lease) = {}
                      /\ \A i \in Ids \ {h.id} : jobs'[i] = jobs[i]
           /\ \A f \in BOOLEAN : Q!EnsureJobSuccessor(h, f) =>
                 \A i \in Ids : \/ TagKept(jobs'[i], jobs[i])
                                \/ jobs'[i].recovery = h.lease /\ jobs'[i].target = h.target
  <1>0. /\ h.id \in Ids /\ h.attempts \in Nat /\ h.attempts + 1 \in Nat /\ h.force \in BOOLEAN
        /\ h.target \in Targets /\ h.lease \in Leases
        /\ jobs[h.id] \in Q!Row /\ jobs[h.id].attempts \in Nat
    BY RowFacts DEF Q!Handle
  <1>a. ASSUME NEW i \in Ids, NEW r, TagKept(r, jobs[i]), jobs' = [jobs EXCEPT ![i] = r]
        PROVE  TagsKept /\ jobs'[i] = r /\ \A j \in Ids \ {i} : jobs'[j] = jobs[j]
    BY <1>a, RowFacts DEF TagsKept
  <1>1. ASSUME Q!SetRunning(h) PROVE TagsKept
    BY <1>0, <1>1, <1>a, RowWrites DEF Q!SetRunning
  <1>2. ASSUME NEW s \in {"done", "failed"}, Q!Settle(h, s)
        PROVE  TagsKept /\ jobs'[h.id].status = s /\ \A i \in Ids \ {h.id} : jobs'[i] = jobs[i]
    <2>1. PICK r : r = Q!Settled(jobs[h.id], s, jobs[h.id].attempts)
      OBVIOUS
    <2>2. TagKept(r, jobs[h.id]) /\ r.status = s
      BY <1>0, <2>1, RowWrites
    <2> QED
      BY <1>0, <1>2, <1>a, <2>1, <2>2 DEF Q!Settle
  <1>3. ASSUME Q!HeartbeatJob(h) PROVE TagsKept
    BY <1>0, <1>3, <1>a, RowWrites DEF Q!HeartbeatJob
  <1>4. ASSUME NEW inc \in BOOLEAN, NEW g \in BOOLEAN, Q!Owned(h, Q!Active), Q!HandBack(h, inc, g)
        PROVE  TagsKept /\ jobs'[h.id].status \in {"pending", "canceled"}
    <2>1. ASSUME NEW n \in Nat, jobs' = [jobs EXCEPT ![h.id] = Q!Returned(@, n, g)]
          PROVE  TagsKept /\ jobs'[h.id].status = "pending"
      <3>1. PICK r : r = Q!Returned(jobs[h.id], n, g)
        OBVIOUS
      <3>2. TagKept(r, jobs[h.id]) /\ r.status = "pending"
        BY <1>0, <3>1, RowWrites
      <3> QED
        BY <1>0, <1>a, <2>1, <3>1, <3>2
    <2>2. ASSUME NEW p \in Q!PendingFor(h.target), NEW n \in Nat,
                 jobs' = [jobs EXCEPT ![p] = Q!Merged(@, h.force, n, g),
                                      ![h.id] = Q!Settled(@, "canceled", jobs[h.id].attempts)]
          PROVE  TagsKept /\ jobs'[h.id].status = "canceled"
      <3>1. p \in Ids /\ p # h.id /\ jobs[p] \in Q!Row
        BY <1>0, <1>4, RowFacts DEF Q!Owned, Q!Active
      <3>2. /\ jobs'[p] = Q!Merged(jobs[p], h.force, n, g)
            /\ jobs'[h.id] = Q!Settled(jobs[h.id], "canceled", jobs[h.id].attempts)
            /\ \A j \in Ids \ {p, h.id} : jobs'[j] = jobs[j]
        BY <1>0, <2>2, <3>1, RowFacts
      <3>3. /\ TagKept(Q!Merged(jobs[p], h.force, n, g), jobs[p])
            /\ TagKept(Q!Settled(jobs[h.id], "canceled", jobs[h.id].attempts), jobs[h.id])
            /\ Q!Settled(jobs[h.id], "canceled", jobs[h.id].attempts).status = "canceled"
        BY <1>0, <3>1, RowWrites
      <3> QED
        BY <3>1, <3>2, <3>3, RowFacts DEF TagsKept
    <2>3. \A p \in Q!PendingFor(h.target) : (IF inc THEN h.attempts + 1 ELSE jobs[p].attempts) \in Nat
      BY <1>0, RowFacts
    <2>4. PICK m \in Nat : m = IF inc THEN h.attempts + 1 ELSE h.attempts
      BY <1>0
    <2>5. CASE jobs' = [jobs EXCEPT ![h.id] =
                  Q!Returned(@, IF inc THEN h.attempts + 1 ELSE h.attempts, g)]
      BY <2>1, <2>4, <2>5
    <2>6. ASSUME NEW p \in Q!PendingFor(h.target),
                 jobs' = [jobs EXCEPT
                   ![p] = Q!Merged(@, h.force, IF inc THEN h.attempts + 1 ELSE jobs[p].attempts, g),
                   ![h.id] = Q!Settled(@, "canceled", jobs[h.id].attempts)]
          PROVE  TagsKept /\ jobs'[h.id].status = "canceled"
      <3>1. PICK k \in Nat : k = IF inc THEN h.attempts + 1 ELSE jobs[p].attempts
        BY <2>3
      <3> QED
        BY <2>2, <2>6, <3>1
    <2> QED
      BY <1>4, <2>5, <2>6 DEF Q!HandBack
  <1>5. ASSUME Q!DeferJob(h) PROVE TagsKept /\ jobs'[h.id].status \in {"pending", "canceled"}
    <2>1. CASE jobs' = [jobs EXCEPT ![h.id] = Q!Returned(@, jobs[h.id].attempts, TRUE)]
      <3>1. PICK r : r = Q!Returned(jobs[h.id], jobs[h.id].attempts, TRUE)
        OBVIOUS
      <3>2. TagKept(r, jobs[h.id]) /\ r.status = "pending"
        BY <1>0, <3>1, RowWrites
      <3> QED
        BY <1>0, <1>a, <2>1, <3>1, <3>2
    <2>2. ASSUME NEW p \in Q!PendingFor(h.target),
                 jobs' = [jobs EXCEPT ![p] = Q!Upgraded(@, h.force),
                                      ![h.id] = Q!Settled(@, "canceled", jobs[h.id].attempts)]
          PROVE  TagsKept /\ jobs'[h.id].status = "canceled"
      <3>1. p \in Ids /\ p # h.id /\ jobs[p] \in Q!Row
        BY <1>0, <1>5, RowFacts DEF Q!DeferJob, Q!Owned, Q!Active
      <3>2. /\ jobs'[p] = Q!Upgraded(jobs[p], h.force)
            /\ jobs'[h.id] = Q!Settled(jobs[h.id], "canceled", jobs[h.id].attempts)
            /\ \A j \in Ids \ {p, h.id} : jobs'[j] = jobs[j]
        BY <1>0, <2>2, <3>1, RowFacts
      <3>3. /\ TagKept(Q!Upgraded(jobs[p], h.force), jobs[p])
            /\ TagKept(Q!Settled(jobs[h.id], "canceled", jobs[h.id].attempts), jobs[h.id])
            /\ Q!Settled(jobs[h.id], "canceled", jobs[h.id].attempts).status = "canceled"
        BY <1>0, <3>1, RowWrites
      <3> QED
        BY <3>1, <3>2, <3>3, RowFacts DEF TagsKept
    <2> QED
      BY <1>5, <2>1, <2>2 DEF Q!DeferJob
  <1>6. ASSUME Q!FailJobWithSuccessor(h)
        PROVE  /\ TagsKept
               /\ jobs'[h.id].status = "failed" =>
                    /\ Q!RecoveryFor(h.target, h.lease) = {}
                    /\ \A i \in Ids \ {h.id} : jobs'[i] = jobs[i]
    <2>1. CASE /\ Q!RecoveryFor(h.target, h.lease) = {}
               /\ jobs' = [jobs EXCEPT ![h.id] = Q!Settled(@, "failed", h.attempts + 1)]
      BY <1>0, <2>1, <1>a, RowWrites
    <2>2. ASSUME NEW p \in Q!RecoveryFor(h.target, h.lease),
                 jobs' = [jobs EXCEPT ![p] = Q!Failed(@, h.attempts + 1),
                                      ![h.id] = Q!Settled(@, "canceled", jobs[h.id].attempts)]
          PROVE  TagsKept /\ jobs'[h.id].status = "canceled"
      <3>1. p \in Ids /\ p # h.id /\ jobs[p] \in Q!Row
        BY <1>0, <1>6, RowFacts DEF Q!FailJobWithSuccessor, Q!RecoveryFor, Q!Owned
      <3>2. /\ jobs'[p] = Q!Failed(jobs[p], h.attempts + 1)
            /\ jobs'[h.id] = Q!Settled(jobs[h.id], "canceled", jobs[h.id].attempts)
            /\ \A j \in Ids \ {p, h.id} : jobs'[j] = jobs[j]
        BY <1>0, <2>2, <3>1, RowFacts
      <3>3. /\ TagKept(Q!Failed(jobs[p], h.attempts + 1), jobs[p])
            /\ TagKept(Q!Settled(jobs[h.id], "canceled", jobs[h.id].attempts), jobs[h.id])
            /\ Q!Settled(jobs[h.id], "canceled", jobs[h.id].attempts).status = "canceled"
        BY <1>0, <3>1, RowWrites
      <3> QED
        BY <3>1, <3>2, <3>3, RowFacts DEF TagsKept
    <2> QED
      BY <1>6, <2>1, <2>2 DEF Q!FailJobWithSuccessor
  <1>7. ASSUME NEW f \in BOOLEAN, Q!EnsureJobSuccessor(h, f)
        PROVE  \A i \in Ids : \/ TagKept(jobs'[i], jobs[i])
                              \/ jobs'[i].recovery = h.lease /\ jobs'[i].target = h.target
    <2>1. ASSUME NEW i \in Ids, Q!Create(i, h.target, f, h.lease)
          PROVE  \A j \in Ids : \/ TagKept(jobs'[j], jobs[j])
                                \/ jobs'[j].recovery = h.lease /\ jobs'[j].target = h.target
      <3>1. jobs'[i] = Q!NewRow(h.target, f, h.lease) /\ \A j \in Ids \ {i} : jobs'[j] = jobs[j]
        BY <2>1, RowFacts DEF Q!Create
      <3>2. /\ Q!NewRow(h.target, f, h.lease).recovery = h.lease
            /\ Q!NewRow(h.target, f, h.lease).target = h.target
        BY DEF Q!NewRow
      <3> QED
        BY <3>1, <3>2, RowFacts
    <2>2. ASSUME NEW p \in Q!PendingFor(h.target), jobs' = [jobs EXCEPT ![p] = Q!Upgraded(@, f)]
          PROVE  TagsKept
      BY <2>2, <1>a, RowFacts, RowWrites
    <2> QED
      BY <1>7, <2>1, <2>2 DEF Q!EnsureJobSuccessor, TagsKept
  <1> QED
    BY <1>1, <1>2, <1>3, <1>4, <1>5, <1>6, <1>7

\* Producers, time, claims and reaps keep the tags too.
LEMMA OtherTags ==
    ASSUME Q!TypeOK
    PROVE  /\ \A t \in Targets : Q!Produce(t) => TagsKept
           /\ \A i \in Ids : Q!LeaseAges(i) \/ Q!GateOpens(i) => TagsKept
           /\ \A i \in Ids, l \in Leases : Q!ClaimSelected(i, l) => TagsKept
           /\ \A o \in Q!Handle : Q!ReapOne(o) => TagsKept
  <1>a. ASSUME NEW i \in Ids, NEW r, TagKept(r, jobs[i]), jobs' = [jobs EXCEPT ![i] = r]
        PROVE  TagsKept
    BY <1>a, RowFacts DEF TagsKept
  <1>1. ASSUME NEW t \in Targets, Q!Produce(t) PROVE TagsKept
    <2>1. ASSUME NEW i \in Ids, NEW f \in BOOLEAN, Q!Create(i, t, f, NoLease) PROVE TagsKept
      <3>1. jobs[i] \in Q!Row /\ 0 \in Nat
        BY RowFacts
      <3>2. TagKept(Q!NewRow(t, f, NoLease), jobs[i])
        BY <3>1, RowWrites
      <3> QED
        BY <2>1, <3>2, <1>a DEF Q!Create
    <2>2. CASE Q!CreateJob(t)
      BY <2>1, <2>2 DEF Q!CreateJob
    <2>3. CASE Q!CancelPendingJobs(t)
      <3>1. \A i \in Ids : TagKept(Q!Canceled(jobs[i]), jobs[i])
        BY RowFacts, RowWrites
      <3> QED
        BY <2>3, <3>1, RowFacts DEF Q!CancelPendingJobs, TagsKept
    <2>4. ASSUME NEW f \in Forces, Q!EnqueuePending(t, f) PROVE TagsKept
      <3>0. f \in BOOLEAN
        BY QueueAssumption
      <3>1. ASSUME NEW p \in Q!PendingFor(t), jobs' = [jobs EXCEPT ![p] = Q!Coalesced(@, f)]
            PROVE  TagsKept
        <4>1. p \in Ids /\ jobs[p] \in Q!Row /\ jobs[p].attempts \in Nat
          BY RowFacts
        <4>2. TagKept(Q!Coalesced(jobs[p], f), jobs[p])
          BY <3>0, <4>1, RowWrites
        <4> QED
          BY <3>1, <4>1, <4>2, <1>a
      <3> QED
        BY <2>1, <2>4, <3>0, <3>1 DEF Q!EnqueuePending
    <2> QED
      BY <1>1, <2>2, <2>3, <2>4 DEF Q!Produce
  <1>2. ASSUME NEW i \in Ids, Q!LeaseAges(i) \/ Q!GateOpens(i) PROVE TagsKept
    <2>1. /\ TagKept(Q!Aged(jobs[i], TRUE), jobs[i]) /\ TagKept(Q!Opened(jobs[i]), jobs[i])
      BY RowFacts, RowWrites
    <2> QED
      BY <1>2, <2>1, <1>a DEF Q!LeaseAges, Q!GateOpens
  <1>3. ASSUME NEW i \in Ids, NEW l \in Leases, Q!ClaimSelected(i, l) PROVE TagsKept
    <2>1. TagKept(Q!Claimed(jobs[i], l), jobs[i])
      BY RowFacts, RowWrites
    <2> QED
      BY <1>3, <2>1, <1>a DEF Q!ClaimSelected, Q!ClaimRow
  <1>4. ASSUME NEW o \in Q!Handle, Q!ReapOne(o) PROVE TagsKept
    <2>1. CASE jobs' = [jobs EXCEPT ![o.id] = Q!Settled(@, "failed", jobs[o.id].attempts)]
      <3>1. o.id \in Ids /\ jobs[o.id] \in Q!Row /\ jobs[o.id].attempts \in Nat
        BY RowFacts DEF Q!Handle
      <3>2. TagKept(Q!Settled(jobs[o.id], "failed", jobs[o.id].attempts), jobs[o.id])
        BY <3>1, RowWrites
      <3> QED
        BY <2>1, <3>1, <3>2, <1>a
    <2>2. CASE Q!Owned(o, Q!Active) /\ Q!HandBack(o, TRUE, FALSE)
      BY <2>2, HolderTags
    <2> QED
      BY <1>4, <2>1, <2>2 DEF Q!ReapOne
  <1> QED
    BY <1>1, <1>2, <1>3, <1>4

\* The workers keep their jobs or give them up, and no handler takes its crossing back.
JobsKept ==
    \A w \in Workers : job'[w] # NoJob =>
        job'[w] = job[w] /\ (crossed[w] => crossed'[w])

\* A step that tags no row and hands out no lease keeps what is known of tags.
LEMMA KeptTags ==
    ASSUME TypeOK, LeasesDistinct, TagsKnown, TagsKept, JobsKept
    PROVE  LeasesDistinct' /\ TagsKnown'
  <1>1. LeasesDistinct'
    BY DEF LeasesDistinct, JobsKept
  <1>2. ASSUME NEW w \in Workers, job'[w] # NoJob, NEW i \in Ids,
               jobs'[i].status = "pending", jobs'[i].recovery = job'[w].lease
        PROVE  crossed'[w] /\ jobs'[i].target = job'[w].target
    <2>1. job'[w] = job[w] /\ (crossed[w] => crossed'[w]) /\ job[w].lease \in Leases
      BY <1>2 DEF JobsKept, TypeOK, Q!Handle
    <2>2. jobs[i].status = "pending" /\ jobs[i].recovery = job[w].lease /\ jobs'[i].target = jobs[i].target
      BY <1>2, <2>1 DEF TagsKept, TagKept
    <2> QED
      BY <1>2, <2>1, <2>2 DEF TagsKnown
  <1> QED
    BY <1>1, <1>2 DEF TagsKnown

\* The reports of a worker keep the tags.
LEMMA ReportTags ==
    ASSUME TypeOK, NEW w \in Workers, job[w] # NoJob, ReportWrite(w) PROVE TagsKept
  <1>0. PICK h \in Q!Handle : h = job[w]
    BY DEF TypeOK
  <1>1. Q!TypeOK
    BY DEF TypeOK
  <1>2. Q!ReturnToPending(h, TRUE, TRUE) \/ Q!ReleaseJob(h) => TagsKept
    BY <1>1, HolderTags DEF Q!ReturnToPending, Q!ReleaseJob
  <1> QED
    BY <1>0, <1>1, <1>2, SameWrites, HolderTags DEF ReportWrite, RetryWrite, FailJob

\* Leases stay distinct and tags known.
LEMMA TagsStay ==
    TypeOK /\ OneSelected /\ LeasesDistinct /\ TagsKnown /\ [Next]_vars => LeasesDistinct' /\ TagsKnown'
  <1> SUFFICES ASSUME TypeOK, OneSelected, LeasesDistinct, TagsKnown, [Next]_vars
               PROVE  LeasesDistinct' /\ TagsKnown'
    OBVIOUS
  <1>0. Q!TypeOK /\ (UNCHANGED table => TagsKept)
    BY RowFacts DEF TypeOK, table, TagsKept
  <1>1. CASE UNCHANGED vars
    BY <1>0, <1>1, KeptTags DEF vars, table, JobsKept
  <1>2. CASE Event \/ Time
    <2>1. TagsKept
      BY <1>0, <1>2, OtherTags DEF Event, Time
    <2> QED
      BY <1>2, <2>1, KeptTags DEF Event, Time, turn, JobsKept
  <1>3. ASSUME NEW w \in Workers, Poll(w) \/ ReapRow(w) \/ ReapEnd(w) PROVE TagsKept /\ JobsKept
    <2>1. CASE ReapRow(w)
      <3>1. batch[w] \subseteq Q!Handle
        BY DEF TypeOK
      <3> QED
        BY <1>0, <2>1, <3>1, OtherTags DEF ReapRow, turn, JobsKept
    <2>2. CASE Poll(w) \/ ReapEnd(w)
      BY <1>0, <2>2 DEF Poll, ReapEnd, turn, JobsKept
    <2> QED
      BY <1>3, <2>1, <2>2
  <1>4. ASSUME NEW w \in Workers, Select(w) \/ Drained(w) \/ ClaimLost(w) \/ ClaimError(w)
        PROVE  TagsKept /\ JobsKept
    <2>1. CASE ClaimError(w)
      <3>1. sel[w] \subseteq Ids
        BY DEF TypeOK
      <3> QED
        BY <1>0, <2>1, <3>1, OtherTags DEF ClaimError, turn, JobsKept
    <2>2. CASE Select(w) \/ Drained(w) \/ ClaimLost(w)
      BY <1>0, <2>2 DEF Select, Drained, ClaimLost, turn, JobsKept
    <2> QED
      BY <1>4, <2>1, <2>2
  <1>5. ASSUME NEW w \in Workers, Claim(w) PROVE LeasesDistinct' /\ TagsKnown'
    <2>1. PICK i \in sel[w], l \in Leases :
             /\ job' = [job EXCEPT ![w] = [Q!HandleOf(i) EXCEPT !.lease = l]]
             /\ crossed' = crossed /\ Q!ClaimSelected(i, l)
      BY <1>5 DEF Claim, turn
    <2>2. i \in Ids
      BY DEF TypeOK
    <2>3. PICK h \in Q!Handle : h = [Q!HandleOf(i) EXCEPT !.lease = l] /\ h.lease = l
      BY <1>0, <2>2, ValueTypes
    <2>4. job'[w] = h /\ \A v \in Workers \ {w} : job'[v] = job[v]
      BY <2>1, <2>3 DEF TypeOK
    <2>5. /\ \A v \in Workers : job[v] # NoJob => job[v].lease # l
          /\ \A j \in Ids : jobs[j].recovery # l
      BY <2>1 DEF Q!ClaimSelected, Q!ClaimRow, Q!Fresh
    <2>6. TagsKept
      BY <1>0, <2>1, <2>2, OtherTags
    <2>7. LeasesDistinct'
      BY <2>3, <2>4, <2>5 DEF LeasesDistinct
    <2>8. ASSUME NEW v \in Workers, job'[v] # NoJob, NEW j \in Ids,
                 jobs'[j].status = "pending", jobs'[j].recovery = job'[v].lease
          PROVE  crossed'[v] /\ jobs'[j].target = job'[v].target
      <3>1. job'[v].lease \in Leases
        BY <2>3, <2>4, <2>8 DEF TypeOK, Q!Handle
      <3>2. /\ jobs[j].status = "pending" /\ jobs[j].recovery = job'[v].lease
            /\ jobs'[j].target = jobs[j].target
        BY <2>6, <2>8, <3>1 DEF TagsKept, TagKept
      <3>3. v # w /\ job'[v] = job[v]
        BY <2>3, <2>4, <2>5, <3>2
      <3> QED
        BY <2>1, <2>8, <3>2, <3>3 DEF TagsKnown
    <2> QED
      BY <2>7, <2>8 DEF TagsKnown
  <1>6. ASSUME NEW w \in Workers, Start(w) \/ Beat(w) \/ BeatLost(w) \/ BeatError(w) \/ Return(w) \/ Report(w)
        PROVE  TagsKept /\ JobsKept
    <2>0. PICK h \in Q!Handle : h = job[w] /\ job[w] # NoJob
      BY <1>6 DEF TypeOK, Start, Beat, BeatLost, BeatError, Return, Report
    <2>1. CASE Start(w)
      <3>1. Q!SetRunning(job[w]) \/ Q!ReleaseJob(job[w]) => TagsKept
        BY <1>0, <2>0, SameWrites, HolderTags DEF Q!ReleaseJob, Q!ReturnToPending
      <3> QED
        BY <1>0, <2>1, <3>1 DEF Start, Persist, turn, JobsKept
    <2>2. CASE Beat(w)
      BY <1>0, <2>0, <2>2, SameWrites, HolderTags DEF Beat, turn, JobsKept
    <2>3. CASE BeatLost(w) \/ Return(w)
      BY <1>0, <2>3 DEF BeatLost, Return, turn, JobsKept
    <2>4. CASE BeatError(w)
      BY <1>0, <2>4 DEF BeatError, JobsKept
    <2>5. CASE Report(w)
      BY <1>0, <2>0, <2>5, ReportTags DEF Report, Persist, JobsKept
    <2> QED
      BY <1>6, <2>1, <2>2, <2>3, <2>4, <2>5
  <1>7. ASSUME NEW w \in Workers, Cross(w) PROVE LeasesDistinct' /\ TagsKnown'
    <2>0. PICK h \in Q!Handle : h = job[w] /\ job[w] # NoJob
      BY <1>7 DEF TypeOK, Cross
    <2>1. UNCHANGED job /\ crossed'[w] /\ \A v \in Workers : crossed[v] => crossed'[v]
      BY <1>7 DEF Cross, TypeOK
    <2>2. \A i \in Ids : \/ TagKept(jobs'[i], jobs[i])
                         \/ jobs'[i].recovery = h.lease /\ jobs'[i].target = h.target
      <3>1. CASE UNCHANGED table
        BY <1>0, <3>1 DEF TagsKept
      <3>2. ASSUME NEW f \in Forces, Q!EnsureJobSuccessor(job[w], f) PROVE Q!EnsureJobSuccessor(h, f)
        BY <2>0, <3>2, SameWrites
      <3> QED
        BY <1>0, <1>7, <3>1, <3>2, HolderTags, QueueAssumption DEF Cross
    <2>3. LeasesDistinct'
      BY <2>1 DEF LeasesDistinct
    <2>4. ASSUME NEW v \in Workers, job[v] # NoJob, NEW i \in Ids,
                 jobs'[i].status = "pending", jobs'[i].recovery = job[v].lease
          PROVE  crossed'[v] /\ jobs'[i].target = job[v].target
      <3>1. CASE jobs'[i].recovery = h.lease /\ jobs'[i].target = h.target
        <4>1. v = w
          BY <2>0, <2>4, <3>1 DEF LeasesDistinct
        <4> QED
          BY <2>0, <2>1, <3>1, <4>1
      <3>2. CASE TagKept(jobs'[i], jobs[i])
        <4>1. job[v].lease \in Leases
          BY <2>4 DEF TypeOK, Q!Handle
        <4> QED
          BY <2>1, <2>4, <3>2, <4>1 DEF TagKept, TagsKnown
      <3> QED
        BY <2>2, <3>1, <3>2
    <2> QED
      BY <2>1, <2>3, <2>4 DEF TagsKnown
  <1>8. ASSUME NEW w \in Workers, EndTurn(w) \/ Shutdown(w) \/ Crash(w) \/ Restart(w) \/ DeadlinePasses(w)
        PROVE  TagsKept /\ JobsKept
    <2>1. CASE EndTurn(w) \/ Crash(w)
      <3>1. UNCHANGED table /\ job'[w] = NoJob
            /\ \A v \in Workers \ {w} : job'[v] = job[v] /\ crossed'[v] = crossed[v]
        BY <2>1 DEF EndTurn, Crash, NewTurn, TypeOK
      <3> QED
        BY <1>0, <3>1 DEF JobsKept
    <2>2. CASE Shutdown(w) \/ Restart(w) \/ DeadlinePasses(w)
      BY <1>0, <2>2 DEF Shutdown, Restart, DeadlinePasses, turn, JobsKept
    <2> QED
      BY <1>8, <2>1, <2>2
  <1> QED
    BY <1>1, <1>2, <1>3, <1>4, <1>5, <1>6, <1>7, <1>8, KeptTags DEF Next, Work, Disturb

-----------------------------------------------------------------------------
(* The inductive invariant, and what it says of the reports *)

\* The invariant holds in every reachable state.
LEMMA Inductive == Spec => []IInv
  <1>1. Init => TypeOK /\ OneSelected /\ LeasesDistinct /\ TagsKnown /\ P!Init
    BY InitTypes DEF Init, LeasesDistinct, TagsKnown
  <1>2. P!Spec => []P!IInv
    BY P!Inductive, QueueAssumption
  <1> QED
    BY <1>1, <1>2, TypesKept, TagsStay, TableSteps, PTL DEF Spec, IInv, P!Spec

\* All that is proved of the table under unconstrained callers holds of the table
\* the runners use: one pending row per target, no event or force flag lost, no row
\* executed without an attempt left.
THEOREM RunnerKeepsQueueSafe ==
    Spec => [](Q!OnePendingPerTarget /\ Q!EventNotLost /\ Q!ForceNotLost /\ Q!AttemptsBounded)
  <1>1. P!IInv => Q!OnePendingPerTarget /\ Q!EventNotLost /\ Q!ForceNotLost /\ Q!AttemptsBounded
    BY DEF P!IInv, P!OnePendingPerTarget, P!EventUntagged, P!ForceUntagged, P!AttemptsBounded,
           P!PendingFor, P!Live, P!Active,
           Q!OnePendingPerTarget, Q!EventNotLost, Q!ForceNotLost, Q!AttemptsBounded,
           Q!PendingFor, Q!Live, Q!Active
  <1> QED
    BY <1>1, Inductive, PTL DEF IInv

\* Only a report can end in the failure of its own row, and only these reports do.
LEMMA FailingReport ==
    ASSUME IInv, [Next]_vars, NEW w \in Workers, Fails(w)
    PROVE  /\ job[w] # NoJob /\ job[w] \in Q!Handle
           /\ Q!Owned(job[w], {"running"})
           /\ outcome[w] = "terminal" \/ Q!Exhausted(job[w].attempts)
           /\ \A i \in Ids \ {job[w].id} : jobs'[i] = jobs[i]
           /\ tagged[w] => Q!RecoveryFor(job[w].target, job[w].lease) = {}
  <1>0. /\ TypeOK /\ Q!TypeOK /\ pc[w] = "report" /\ pc'[w] = "end"
        /\ jobs'[job[w].id].status = "failed" /\ jobs[job[w].id].status # "failed"
    BY DEF IInv, TypeOK, Fails, Q!Active
  <1>1. PICK h \in Q!Handle : h = job[w] /\ job[w] # NoJob
    BY <1>0 DEF TypeOK
  <1>2. Report(w)
    <2>1. ASSUME NEW v \in Workers, v # w, Work(v) \/ Disturb(v) \/ Restart(v) \/ DeadlinePasses(v)
          PROVE  pc'[w] = pc[w]
      <3>1. pc' = pc \/ \E l : pc' = [pc EXCEPT ![v] = l]
        BY <2>1 DEF Work, Disturb, Restart, DeadlinePasses, Poll, ReapRow, ReapEnd, Select, Drained, Claim,
                    ClaimLost, ClaimError, Start, Cross, Beat, BeatLost, BeatError, Return, Report, Persist,
                    EndTurn, Shutdown, Crash, Goto
      <3> QED
        BY <1>0, <2>1, <3>1 DEF TypeOK
    <2>2. ASSUME Work(w) \/ Disturb(w) \/ Restart(w) \/ DeadlinePasses(w) PROVE Report(w)
      <3>1. Report(w) \/ pc' = pc \/ pc' = [pc EXCEPT ![w] = "idle"]
        BY <1>0, <2>2
           DEF Work, Disturb, Restart, DeadlinePasses, Poll, ReapRow, ReapEnd, Select, Drained, Claim,
               ClaimLost, ClaimError, Start, Cross, Beat, BeatLost, BeatError, Return,
               EndTurn, Shutdown, Crash, Goto, TypeOK
      <3> QED
        BY <1>0, <3>1 DEF TypeOK
    <2>3. CASE Event \/ Time \/ UNCHANGED vars
      BY <1>0, <2>3 DEF Event, Time, vars
    <2> QED
      BY <1>0, <2>1, <2>2, <2>3 DEF Next
  <1>3. ReportWrite(w)
    <2>1. ~ UNCHANGED table
      BY <1>0 DEF table
    <2> QED
      BY <1>2, <2>1 DEF Report, Persist
  <1>4. jobs'[h.id].status \notin {"pending", "canceled", "done"}
    BY <1>0, <1>1
  <1>5. /\ ~Q!Settle(h, "done") /\ ~Q!DeferJob(h)
        /\ ~Q!ReturnToPending(h, TRUE, TRUE) /\ ~Q!ReleaseJob(h)
    BY <1>0, <1>4, HolderTags DEF Q!ReturnToPending, Q!ReleaseJob
  <1>6. /\ FailJob(w)
        /\ outcome[w] = "terminal" \/ Q!Exhausted(job[w].attempts)
    BY <1>1, <1>3, <1>5, SameWrites DEF ReportWrite, RetryWrite
  <1>7. CASE tagged[w]
    <2>1. Q!FailJobWithSuccessor(h)
      BY <1>1, <1>6, <1>7, SameWrites DEF FailJob
    <2>2. Q!RecoveryFor(h.target, h.lease) = {} /\ \A i \in Ids \ {h.id} : jobs'[i] = jobs[i]
      BY <1>0, <1>1, <2>1, HolderTags
    <2>3. Q!Owned(h, {"running"})
      BY <2>1 DEF Q!FailJobWithSuccessor
    <2> QED
      BY <1>1, <1>6, <2>2, <2>3 DEF Q!RecoveryFor, Q!PendingFor, Q!Owned
  <1>8. CASE ~tagged[w]
    <2>1. Q!Settle(h, "failed")
      BY <1>1, <1>6, <1>8, SameWrites DEF FailJob
    <2>2. \A i \in Ids \ {h.id} : jobs'[i] = jobs[i]
      BY <1>0, <2>1, HolderTags
    <2>3. Q!Owned(h, {"running"})
      BY <2>1 DEF Q!Settle
    <2> QED
      BY <1>1, <1>6, <1>8, <2>2, <2>3 DEF Q!Owned
  <1> QED
    BY <1>7, <1>8

\* A worker fails its own job only when the handler refused it or the attempts of
\* the row, not only those it remembers, are used up: execute's switch, under any
\* interleaving with reapers, events and other workers.
THEOREM FailuresAreEarned == Spec => NoEarlyFailure
  <1>1. IInv /\ [Next]_vars =>
          [\A w \in Workers :
            Fails(w) =>
              \/ outcome[w] = "terminal"
              \/ Q!Exhausted(jobs[job[w].id].attempts)]_vars
    <2> SUFFICES ASSUME IInv, [Next]_vars, NEW w \in Workers, Fails(w)
                 PROVE  outcome[w] = "terminal" \/ Q!Exhausted(jobs[job[w].id].attempts)
      OBVIOUS
    <2>1. job[w] # NoJob /\ Q!Owned(job[w], {"running"})
          /\ (outcome[w] = "terminal" \/ Q!Exhausted(job[w].attempts))
      BY FailingReport
    <2>2. jobs[job[w].id].attempts = job[w].attempts
      BY <2>1, InFlight DEF IInv, P!IInv, P!ValuesFresh, P!Owned, P!Active, Q!Owned
    <2> QED
      BY <2>1, <2>2
  <1> QED
    BY <1>1, Inductive, PTL DEF Spec, NoEarlyFailure

\* A worker that reports a permanent failure takes the recovery row of its own
\* lease with it, unless the handler's error lost its mark: FailJobWithSuccessor
\* finds the row by lease and target, and a handler that never crossed left none.
THEOREM FailuresLeaveNoRecovery == Spec => FailureConsumesRecovery
  <1>1. IInv /\ [Next]_vars =>
          [\A w \in Workers : Fails(w) /\ ~Unmarked(w) =>
              \A i \in Ids : jobs'[i].status = "pending" => jobs'[i].recovery # job[w].lease]_vars
    <2> SUFFICES ASSUME IInv, [Next]_vars, NEW w \in Workers, Fails(w), ~Unmarked(w), NEW i \in Ids,
                        jobs'[i].status = "pending", jobs'[i].recovery = job[w].lease
                 PROVE  FALSE
      OBVIOUS
    <2>1. /\ job[w] # NoJob /\ \A j \in Ids \ {job[w].id} : jobs'[j] = jobs[j]
          /\ tagged[w] => Q!RecoveryFor(job[w].target, job[w].lease) = {}
      BY FailingReport
    <2>2. i # job[w].id
      BY DEF Fails
    <2>3. jobs[i].status = "pending" /\ jobs[i].recovery = job[w].lease
      BY <2>1, <2>2
    <2>4. crossed[w] /\ jobs[i].target = job[w].target
      BY <2>1, <2>3 DEF IInv, TagsKnown
    <2>5. tagged[w]
      BY <2>4 DEF Unmarked
    <2> QED
      BY <2>1, <2>3, <2>4, <2>5 DEF Q!RecoveryFor, Q!PendingFor
  <1> QED
    BY <1>1, Inductive, PTL DEF Spec, FailureConsumesRecovery

-----------------------------------------------------------------------------
(* The heartbeat of a running job                                            *)
(*                                                                           *)
(* How long a handler can outlive its lease, for every period, call timeout, *)
(* cutoff, margin and start delay that satisfy the assumptions.              *)

\* The first check finds the lease fresh: the claim was at most StartDelay ago.
StartingInTime == handler = "starting" => age <= StartDelay

\* Between two beats the next tick comes before this moment; a beat in flight
\* was sent before it.
NextBeatInTime ==
    handler = "running" =>
        IF call = "none"
        THEN unconfirmed + (IF queued = 1 THEN 0 ELSE untilTick) + Margin < StaleAfter + Period
        ELSE unconfirmed + Margin < StaleAfter + Period + elapsed

\* A committed beat was written after it was sent.
CommittedSinceSent ==
    handler = "running" /\ call = "committed" => age <= elapsed

\* What every step of the execution, the reaper and the clock preserves.
LeaseInv ==
    /\ LeaseTypeOK
    /\ CommittedSinceSent
    /\ ConfirmedIsDurable
    /\ StartingInTime
    /\ NextBeatInTime

-----------------------------------------------------------------------------

\* The parameters are natural numbers.
LEMMA DurationsAreNat ==
    /\ Period \in Nat /\ Period > 0 /\ CallTimeout \in Nat /\ CallTimeout > 0
    /\ StaleAfter \in Nat /\ Margin \in Nat /\ StartDelay \in Nat
    /\ Margin + CallTimeout < StaleAfter /\ Margin + StartDelay < StaleAfter
  BY PeriodAssumption, TimeoutAssumption, CutoffAssumption, StartAssumption

\* The invariant holds when the row has just been claimed.
LEMMA InitLease == LeaseInit => LeaseInv
  BY DurationsAreNat DEF LeaseInit, LeaseInv, LeaseTypeOK, ConfirmedIsDurable, StartingInTime,
                         NextBeatInTime, CommittedSinceSent

\* Every step of the execution, the reaper, the database and the clock
\* preserves it.
LEMMA NextLease == LeaseInv /\ [LeaseNext]_leaseVars => LeaseInv'
  <1> SUFFICES ASSUME LeaseInv, [LeaseNext]_leaseVars PROVE LeaseInv'
    OBVIOUS
  <1> USE DurationsAreNat
  <1> USE DEF LeaseInv, LeaseTypeOK, ConfirmedIsDurable, StartingInTime, NextBeatInTime,
              CommittedSinceSent
  <1>1. CASE ClaimRow
    BY <1>1 DEF ClaimRow
  <1>2. CASE StartBeating
    BY <1>2 DEF StartBeating
  <1>3. CASE Tick
    BY <1>3 DEF Tick
  <1>4. CASE SendBeat
    BY <1>4 DEF SendBeat
  <1>5. CASE Commit
    BY <1>5 DEF Commit
  <1>6. CASE Succeed
    <2>1. /\ unconfirmed' = elapsed /\ elapsed' = 0 /\ call' = "none" /\ age' = age
          /\ UNCHANGED <<lease, handler, untilTick, queued, doubt>>
      BY <1>6 DEF Succeed, Confirmed
    <2>2. LeaseTypeOK' /\ StartingInTime' /\ NextBeatInTime' /\ CommittedSinceSent'
      BY <2>1
    <2>3. ConfirmedIsDurable'
      BY <1>6, <2>1 DEF Succeed
    <2> QED
      BY <2>2, <2>3
  <1>7. CASE Fail
    <2>1. LeaseTypeOK'
      BY <1>7 DEF Fail, InDoubt
    <2>2. CASE GivesUp(unconfirmed)
      BY <1>7, <2>1, <2>2 DEF Fail
    <2>3. CASE ~GivesUp(unconfirmed)
      BY <1>7, <2>1, <2>3 DEF Fail, GivesUp
    <2> QED
      BY <2>2, <2>3
  <1>8. CASE Refuse
    BY <1>8 DEF Refuse
  <1>9. CASE Finish
    BY <1>9 DEF Finish, InDoubt
  <1>10. CASE Reap
    BY <1>10 DEF Reap
  <1>11. CASE Pass
    BY <1>11 DEF Pass, Idle
  <1>12. CASE UNCHANGED leaseVars
    BY <1>12 DEF leaseVars
  <1> QED
    BY <1>1, <1>2, <1>3, <1>4, <1>5, <1>6, <1>7, <1>8, <1>9, <1>10, <1>11, <1>12 DEF LeaseNext

\* The inductive invariant holds in every reachable state.
LEMMA LeaseInductive == LeaseSpec => []LeaseInv
  BY InitLease, NextLease, PTL DEF LeaseSpec

\* lastConfirmed never runs ahead of the durable heartbeat, for any timing.
THEOREM ConfirmationIsConservative == LeaseSpec => []ConfirmedIsDurable
  <1>1. LeaseInv => ConfirmedIsDurable
    BY DEF LeaseInv
  <1> QED
    BY <1>1, LeaseInductive, PTL

\* A handler is cancelled before its lease is a period and a call, less the
\* margin, past the reaper's cutoff, for every choice of the durations.
THEOREM OverlapIsBounded == LeaseSpec => []OverlapBounded
  <1>1. LeaseInv => OverlapBounded
    BY DurationsAreNat DEF LeaseInv, LeaseTypeOK, ConfirmedIsDurable, NextBeatInTime, OverlapBounded
  <1> QED
    BY <1>1, LeaseInductive, PTL

=============================================================================
