------------------------------ MODULE Lifecycle ------------------------------
(***************************************************************************)
(* The maintenance loop (internal/lifecycle): a runner gives one owner of  *)
(* derived artifacts a bounded turn, saves the owner's cursor and the      *)
(* rotation by two compare-and-swaps, reads the disk's capacity through    *)
(* the gate it shares with admissions, and picks the delay before the next *)
(* turn.  A malformed namespace must not starve its siblings, a failing    *)
(* owner not the others, and the long idle interval must be earned by a    *)
(* whole clean cycle that this process observed.                           *)
(*                                                                         *)
(* Owners are numbered in their sorted order; an owner's namespaces are    *)
(* its repositories, of which a turn visits the one after the cursor, as   *)
(* the search, observation and relationship owners do.                     *)
(***************************************************************************)
EXTENDS Naturals

CONSTANTS
    N,          \* owners of the controller
    MaxSpaces,  \* repositories an owner may have
    MaxBad,     \* malformed namespaces: 0 or 1
    Levels,     \* disk usage, in percent
    Estimates,  \* estimated size of an admission, in percent
    MaxLitter,  \* bound on artifacts that become garbage
    MaxShifts,  \* bound on changes of the disk usage
    MaxFaults   \* bound on failing store calls, capacity probes and processes

SoftWatermarkPercent == 80
HardWatermarkPercent == 90
ResumeWatermarkPercent == 75
Owners == 1 .. N
Spaces == 1 .. MaxSpaces
Steps == 2 \* turns that the deletion of one generation takes

ASSUME SizesAssumption == {N, MaxSpaces} \subseteq Nat \ {0}
ASSUME LevelsAssumption == Levels \subseteq 1 .. 100 /\ Levels # {} /\ Estimates \subseteq 0 .. 100
ASSUME BoundsAssumption ==
    MaxBad \in {0, 1} /\ {MaxLitter, MaxShifts, MaxFaults} \subseteq Nat

VARIABLES
    spaces,   \* spaces[o]: repositories of owner o
    bad,      \* malformed namespaces
    dirt,     \* dirt[o][s]: turns of deletion left in a namespace
    rotation, \* the owner that had the last turn, 0 before the first
    cursor,   \* cursor[o]: the namespace that owner o visited last
    pc, res,  \* step of the turn and the result of its sweep
    run,      \* runnerState
    used,     \* disk usage
    seen,     \* usage as the runner probed it, 0 when the probe failed
    asked,    \* projected usage of an admission between its probe and the latch
    latched,  \* Gate.latched
    clean,    \* history: owners whose last turn since the runner was idle was clean,
    pressed,  \* whether the runner met pressure since,
    calm,     \* and how many normal readings have followed it
    litter, shifts, faults

disk == <<spaces, bad, dirt>>
saved == <<rotation, cursor>>
gate == <<seen, asked, latched>>
history == <<clean, calm, pressed>>
bounds == <<litter, shifts, faults>>
vars == <<disk, saved, pc, res, run, used, gate, history, bounds>>

NoResult == [owner |-> 0, start |-> FALSE, complete |-> FALSE, err |-> TRUE, more |-> FALSE,
             cursor |-> 0, advance |-> FALSE]
Started == [started |-> FALSE, retry |-> FALSE, recovery |-> FALSE, recoveryNormal |-> FALSE,
            capacityRetry |-> FALSE, priorNormal |-> FALSE, delay |-> "none"]

\* The values of a turn's result and of the runner's state.
Result == [owner : 0 .. N, start : BOOLEAN, complete : BOOLEAN, err : BOOLEAN, more : BOOLEAN,
           cursor : 0 .. MaxSpaces, advance : BOOLEAN]
RunnerState == [started : BOOLEAN, retry : BOOLEAN, recovery : BOOLEAN, recoveryNormal : BOOLEAN,
                capacityRetry : BOOLEAN, priorNormal : BOOLEAN,
                delay : {"none", "backlog", "fast", "idle"}]

\* The type invariant.
TypeOK ==
    /\ spaces \in [Owners -> Spaces] /\ bad \subseteq Owners \X Spaces
    /\ dirt \in [Owners -> [Spaces -> 0 .. Steps]]
    /\ rotation \in 0 .. N /\ cursor \in [Owners -> 0 .. MaxSpaces]
    /\ pc \in {"wait", "cursor", "rotation", "probe", "check"}
    /\ res \in Result /\ run \in RunnerState
    /\ used \in Levels /\ seen \in Levels \cup {0} /\ asked \in 0 .. 100
    /\ latched \in BOOLEAN
    /\ clean \subseteq Owners /\ calm \in 0 .. N + 1 /\ pressed \in BOOLEAN

\* A first start; restarts find any rotation.
Init ==
    /\ spaces \in [Owners -> Spaces]
    /\ \/ bad = {}
       \/ MaxBad = 1 /\ \E o \in Owners : \E s \in 1 .. spaces[o] : bad = {<<o, s>>}
    /\ dirt = [o \in Owners |-> [s \in Spaces |-> 0]]
    /\ rotation = 0 /\ cursor = [o \in Owners |-> 0]
    /\ pc = "wait" /\ res = NoResult /\ run = Started
    /\ used \in Levels /\ seen = 0 /\ asked = 0 /\ latched = FALSE
    /\ clean = {} /\ calm = 0 /\ pressed = FALSE
    /\ litter = 0 /\ shifts = 0 /\ faults = 0

Fault == faults < MaxFaults /\ faults' = faults + 1 /\ UNCHANGED <<litter, shifts>>

------------------------------------------------------------------------------
(* Controller.tick *)

NextOwner(previous) == IF previous = N THEN 1 ELSE previous + 1
NextSpace(o) == IF cursor[o] >= spaces[o] THEN 1 ELSE cursor[o] + 1

\* Waking from the idle interval opens a new stretch of history.
Wake ==
    /\ clean' = IF run.delay = "idle" THEN {} ELSE clean
    /\ pressed' = (pressed /\ run.delay # "idle")
    /\ calm' = IF run.delay = "idle" THEN 0 ELSE calm

\* The cursors are read and the owner sweeps one namespace; a malformed one is
\* an error that asks to advance the cursor all the same.  An owner with
\* several repositories always reports more to do.
Sweep ==
    /\ pc = "wait"
    /\ LET o == NextOwner(rotation)
           s == NextSpace(o)
           sick == <<o, s>> \in bad
       IN /\ dirt' = IF sick \/ dirt[o][s] = 0 THEN dirt ELSE [dirt EXCEPT ![o][s] = @ - 1]
          /\ res' = [owner |-> o, start |-> o = 1, complete |-> o = N, err |-> sick,
                     more |-> spaces[o] > 1 \/ dirt'[o][s] > 0,
                     cursor |-> s, advance |-> sick /\ s # cursor[o]]
    /\ Wake
    /\ pc' = "cursor"
    /\ UNCHANGED <<spaces, bad, saved, run, used, gate, bounds>>

\* The rotation or the owner's cursor cannot be read.
ReadFails ==
    /\ pc = "wait" /\ Fault
    /\ res' = NoResult /\ pc' = "probe"
    /\ Wake
    /\ UNCHANGED <<disk, saved, run, used, gate>>

\* A failed compare-and-swap may have been applied, its answer lost.
SaveCursor ==
    /\ pc = "cursor"
    /\ LET moved == [cursor EXCEPT ![res.owner] = res.cursor]
       IN \/ res.err /\ ~res.advance /\ UNCHANGED <<cursor, res, bounds>>
          \/ (res.err => res.advance) /\ cursor' = moved /\ UNCHANGED <<res, bounds>>
          \/ /\ (res.err => res.advance) /\ Fault
             /\ cursor' \in {cursor, moved} /\ res' = [res EXCEPT !.err = TRUE]
    /\ pc' = "rotation"
    /\ UNCHANGED <<disk, rotation, run, used, gate, history>>

\* Mutant of SaveRotation: a failed turn is repeated.
SaveRotationOnSuccess ==
    /\ pc = "rotation"
    /\ rotation' = IF res.err THEN rotation ELSE res.owner
    /\ pc' = "probe"
    /\ UNCHANGED <<disk, cursor, res, run, used, gate, history, bounds>>

\* The rotation advances whatever the owner's turn came to.
SaveRotation ==
    /\ pc = "rotation"
    /\ \/ rotation' = res.owner /\ UNCHANGED <<res, bounds>>
       \/ /\ Fault /\ rotation' \in {rotation, res.owner}
          /\ res' = [res EXCEPT !.err = TRUE]
    /\ pc' = "probe"
    /\ UNCHANGED <<disk, cursor, run, used, gate, history>>

------------------------------------------------------------------------------
(* Gate *)

Grade(percent) ==
    IF percent >= HardWatermarkPercent THEN "refuse"
    ELSE IF percent >= SoftWatermarkPercent THEN "collect" ELSE "normal"

\* Mutant of Pressure: the latch is never cleared.
PressureHeld(percent) == IF latched THEN "refuse" ELSE Grade(percent)

\* CheckObserved: a latched gate refuses until usage falls below the resume mark.
Pressure(percent) ==
    IF latched /\ percent >= ResumeWatermarkPercent THEN "refuse" ELSE Grade(percent)
Latches(percent) == Pressure(percent) = "refuse"

Projected(estimate) == IF used + estimate > 100 THEN 100 ELSE used + estimate

\* Admission of derived work: the probe reads the file system before the gate's
\* mutex is taken.
AdmitProbe ==
    /\ asked = 0
    /\ \E e \in Estimates : asked' = Projected(e)
    /\ UNCHANGED <<disk, saved, pc, res, run, used, seen, latched, history, bounds>>

AdmitCheck ==
    /\ asked # 0
    /\ latched' = Latches(asked) /\ asked' = 0
    /\ UNCHANGED <<disk, saved, pc, res, run, used, seen, history, bounds>>

Probe ==
    /\ pc = "probe"
    /\ \/ seen' = used /\ UNCHANGED bounds
       \/ seen' = 0 /\ Fault
    /\ pc' = "check"
    /\ UNCHANGED <<disk, saved, res, run, used, asked, latched, history>>

------------------------------------------------------------------------------
(* runnerState.turn, after the tick *)

\* Mutant of NeedsRetry: only the last turn of a cycle decides.
NeedsRetryLast(r, started) == started /\ (r.err \/ r.more)

\* cycleNeedsRetry: some turn since the cycle began failed or left work.
NeedsRetry(r, started) ==
    (run.retry /\ ~r.start) \/ (started /\ (r.err \/ r.more))

\* The state after a turn with result r and pressure p.
AfterTurn(r, p) ==
    LET started == run.started \/ r.start
        retry == NeedsRetry(r, started)
        accelerated == p \in {"collect", "refuse"}
        normal == p = "normal"
        capacityRetry == (run.capacityRetry /\ ~r.start) \/ p = "unavailable"
        recovering == run.recovery \/ accelerated
        wholly == IF r.start THEN run.priorNormal /\ normal ELSE run.recoveryNormal /\ normal
        recovered == r.complete /\ wholly /\ ~retry
        recovery == recovering /\ ~recovered
        busy == retry \/ ~r.complete \/ ~started \/ accelerated \/ recovery \/ capacityRetry
    IN [started |-> started /\ busy,
        retry |-> retry /\ busy,
        recovery |-> recovery,
        recoveryNormal |-> recovery /\ wholly,
        capacityRetry |-> capacityRetry,
        priorNormal |-> normal,
        delay |-> IF ~busy THEN "idle" ELSE IF accelerated \/ recovery THEN "fast" ELSE "backlog"]

EndTurn ==
    /\ pc = "check"
    /\ LET p == IF seen = 0 THEN "unavailable" ELSE Pressure(seen)
       IN /\ latched' = IF seen = 0 THEN latched ELSE Latches(seen)
          /\ run' = AfterTurn(res, p)
          /\ clean' = IF res.err \/ res.more THEN clean \ {res.owner} ELSE clean \cup {res.owner}
          /\ pressed' = (pressed \/ p \in {"collect", "refuse"})
          /\ calm' = IF ~pressed' \/ p # "normal" THEN 0 ELSE IF calm > N THEN calm ELSE calm + 1
    /\ pc' = "wait" /\ res' = NoResult /\ seen' = 0
    /\ UNCHANGED <<disk, saved, used, asked, bounds>>

------------------------------------------------------------------------------
(* The environment *)

\* A publication supersedes a generation.
Litter ==
    /\ litter < MaxLitter /\ litter' = litter + 1
    /\ \E o \in Owners : \E s \in 1 .. spaces[o] :
         dirt[o][s] = 0 /\ dirt' = [dirt EXCEPT ![o][s] = Steps]
    /\ UNCHANGED <<spaces, bad, saved, pc, res, run, used, gate, history, shifts, faults>>

Shift ==
    /\ shifts < MaxShifts /\ shifts' = shifts + 1
    /\ used' \in Levels \ {used}
    /\ UNCHANGED <<disk, saved, pc, res, run, gate, history, litter, faults>>

\* The process stops and starts again: the cursors are durable, the runner's
\* state and the latch are not.
Crash ==
    /\ Fault
    /\ pc' = "wait" /\ res' = NoResult /\ run' = Started
    /\ seen' = 0 /\ asked' = 0 /\ latched' = FALSE
    /\ clean' = {} /\ calm' = 0 /\ pressed' = FALSE
    /\ UNCHANGED <<disk, saved, used>>

Runner == Sweep \/ ReadFails \/ SaveCursor \/ SaveRotation \/ Probe \/ EndTurn
Next == Runner \/ AdmitProbe \/ AdmitCheck \/ Litter \/ Shift \/ Crash

Spec == Init /\ [][Next]_vars

\* The runner's timer always fires again; nobody has to build, litter or crash.
FairSpec == Spec /\ WF_vars(Runner)

------------------------------------------------------------------------------
(* Properties *)

\* The idle interval is earned: every owner's last turn since the runner was
\* last idle, in this process, was free of errors and drained, and if the
\* runner met pressure meanwhile, every capacity reading of a whole cycle and
\* of the turn before it was normal, whatever suffix of a rotation, failed
\* compare-and-swap or restart came between.
IdleIsEarned ==
    run.delay = "idle" /\ pc = "wait" => clean = Owners /\ (pressed => calm > N)

\* No namespace is starved: once publications pause, all garbage in well-formed
\* namespaces is collected, although a sibling or another owner fails in every
\* turn it gets and compare-and-swaps fail or lose their answers.
Collected ==
    <>[](\A o \in Owners, s \in Spaces : <<o, s>> \notin bad => dirt[o][s] = 0)

\* A gate that refused opens again: while usage stays below the resume mark no
\* sequence of large or stale admissions keeps it latched for good.
LatchReleases ==
    <>[](used < ResumeWatermarkPercent) => []<>~latched

\* "a completed unpressured cycle returns to one hour" (OPERATIONS.md:5065):
\* with nothing to collect, no fault and no pressure the runner becomes idle.
ReturnsToIdle ==
    <>[](dirt = [o \in Owners |-> [s \in Spaces |-> 0]] /\ used < ResumeWatermarkPercent)
        => []<>(run.delay = "idle")

==============================================================================
