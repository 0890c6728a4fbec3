--------------------------- MODULE HeartbeatLease ---------------------------
(***************************************************************************)
(* The clock side of one leased execution: the heartbeat goroutine that    *)
(* Runner.execute (internal/store/runner.go) and Scheduler.executeOwned    *)
(* (internal/generationscheduler/runner.go) start beside a handler,        *)
(* against the reaper's cutoff.  The two differ in the constants only: the *)
(* job runner gives up one Period before the cutoff and bounds a beat by   *)
(* Period, the generation scheduler gives up at the cutoff and bounds a    *)
(* beat by StoreCallTimeout.                                               *)
(*                                                                         *)
(* Times are ages relative to now, counted by one clock (database and      *)
(* workers run on one host).  The goroutine is scheduled promptly: time    *)
(* does not pass over a due tick, a queued beat or a call's deadline.      *)
(***************************************************************************)
EXTENDS Naturals

CONSTANTS
    Period,      \* HeartbeatEvery
    CallTimeout, \* deadline of one heartbeat call
    StaleAfter,  \* the reaper's cutoff
    Margin,      \* how long before the cutoff the goroutine gives up
    StartDelay,  \* longest time from the claim to the goroutine's start
    Horizon      \* bound on ages, beyond anything the code reaches

ASSUME PeriodAssumption == Period \in Nat \ {0}
ASSUME TimeoutAssumption == CallTimeout \in Nat \ {0}
ASSUME CutoffAssumption ==
    /\ StaleAfter \in Nat /\ Margin \in Nat
    /\ Margin + CallTimeout < StaleAfter
ASSUME StartAssumption == StartDelay \in Nat /\ Margin + StartDelay < StaleAfter
ASSUME HorizonAssumption == Horizon \in Nat

VARIABLES
    lease,       \* does the row still carry this execution's token?
    handler,     \* the handler and its context
    age,         \* now - heartbeat_at of the row
    unconfirmed, \* now - lastConfirmed
    untilTick,   \* time to the ticker's next tick
    queued,      \* ticks waiting in the ticker's channel, at most one
    call,        \* the heartbeat call in flight, if any
    elapsed,     \* now - beatStarted while a call is in flight
    doubt        \* may an abandoned call still commit in the database?

leaseVars == <<lease, handler, age, unconfirmed, untilTick, queued, call, elapsed, doubt>>

\* The type invariant: ages are times, a tick is never further than a period
\* away and a call never older than its deadline.
LeaseTypeOK ==
    /\ lease \in {"held", "reaped"}
    /\ handler \in {"starting", "running", "ended"}
    /\ age \in Nat
    /\ unconfirmed \in Nat
    /\ untilTick \in 0 .. Period
    /\ queued \in 0 .. 1
    /\ call \in {"none", "sent", "committed"}
    /\ elapsed \in 0 .. CallTimeout
    /\ doubt \in {"no", "yes"}

-----------------------------------------------------------------------------

\* Mutant of GivesUp: a transient error never ends the execution.
GivesUpNever(u) == FALSE

\* After a failed beat: could the lease have gone stale, or soon be?
GivesUp(u) == u + Margin >= StaleAfter

\* The reaper's selection is strict: heartbeat_at < now - StaleAfter.
Reapable == age > StaleAfter

\* The claim and the steps up to the goroutine's first statement.
ClaimRow ==
    /\ handler = "ended"
    /\ handler' = "starting"
    /\ lease' = "held"
    /\ age' = 0
    /\ doubt' = "no"
    /\ UNCHANGED <<unconfirmed, untilTick, queued, call, elapsed>>

\* lastConfirmed starts at the claimed row's heartbeat, the ticker at now.
StartBeating ==
    /\ handler = "starting"
    /\ handler' = "running"
    /\ unconfirmed' = age
    /\ untilTick' = Period
    /\ queued' = 0
    /\ call' = "none"
    /\ elapsed' = 0
    /\ UNCHANGED <<lease, age, doubt>>

\* The ticker drops a tick while one is queued.
Tick ==
    /\ handler = "running"
    /\ untilTick = 0
    /\ untilTick' = Period
    /\ queued' = 1
    /\ UNCHANGED <<lease, handler, age, unconfirmed, call, elapsed, doubt>>

SendBeat ==
    /\ handler = "running"
    /\ queued = 1
    /\ call = "none"
    /\ queued' = 0
    /\ call' = "sent"
    /\ elapsed' = 0
    /\ UNCHANGED <<lease, handler, age, unconfirmed, untilTick, doubt>>

\* The fenced write takes effect, at any time during or after the call.
Commit ==
    /\ lease = "held"
    /\ \/ /\ call = "sent"
          /\ call' = "committed"
          /\ UNCHANGED doubt
       \/ /\ doubt = "yes"
          /\ doubt' = "no"
          /\ UNCHANGED call
    /\ age' = 0
    /\ UNCHANGED <<lease, handler, unconfirmed, untilTick, queued, elapsed>>

\* The durable write occurred no earlier than beatStarted.
Confirmed == elapsed

Succeed ==
    /\ handler = "running"
    /\ call = "committed"
    /\ call' = "none"
    /\ unconfirmed' = Confirmed
    /\ elapsed' = 0
    /\ UNCHANGED <<lease, handler, age, untilTick, queued, doubt>>

\* An unanswered call that has not committed may yet do so.
InDoubt == IF call = "sent" THEN {"yes"} ELSE {}

\* A transient error or the deadline: the write may have been or still be made.
Fail ==
    /\ handler = "running"
    /\ call # "none"
    /\ call' = "none"
    /\ elapsed' = 0
    /\ doubt' \in {doubt} \cup InDoubt
    /\ handler' = IF GivesUp(unconfirmed) THEN "ended" ELSE "running"
    /\ UNCHANGED <<lease, age, unconfirmed, untilTick, queued>>

\* ErrLeaseLost is definitive.
Refuse ==
    /\ handler = "running"
    /\ call = "sent"
    /\ lease = "reaped"
    /\ handler' = "ended"
    /\ call' = "none"
    /\ elapsed' = 0
    /\ UNCHANGED <<lease, age, unconfirmed, untilTick, queued, doubt>>

\* The handler returns, or the process shuts down; a beat in flight is joined
\* or abandoned and may still commit.
Finish ==
    /\ handler \in {"starting", "running"}
    /\ handler' = "ended"
    /\ call' = "none"
    /\ elapsed' = 0
    /\ doubt' \in {doubt} \cup InDoubt
    /\ UNCHANGED <<lease, age, unconfirmed, untilTick, queued>>

\* A sibling's reaper hands the row to another worker.
Reap ==
    /\ lease = "held"
    /\ Reapable
    /\ lease' = "reaped"
    /\ UNCHANGED <<handler, age, unconfirmed, untilTick, queued, call, elapsed, doubt>>

\* Nothing of the running execution is due now.
Idle ==
    /\ untilTick > 0
    /\ ~(queued = 1 /\ call = "none")
    /\ call # "none" => elapsed < CallTimeout

Pass ==
    /\ \/ handler = "starting" /\ age < StartDelay
       \/ handler = "running" /\ Idle /\ age < Horizon
       \/ handler = "ended" /\ ~Reapable
    /\ age' = age + 1
    /\ IF handler = "running"
       THEN /\ unconfirmed' = unconfirmed + 1
            /\ untilTick' = untilTick - 1
            /\ elapsed' = IF call = "none" THEN 0 ELSE elapsed + 1
       ELSE UNCHANGED <<unconfirmed, untilTick, elapsed>>
    /\ UNCHANGED <<lease, handler, queued, call, doubt>>

LeaseInit ==
    /\ lease = "held"
    /\ handler = "starting"
    /\ age = 0
    /\ unconfirmed = 0
    /\ untilTick = Period
    /\ queued = 0
    /\ call = "none"
    /\ elapsed = 0
    /\ doubt = "no"

LeaseNext ==
    \/ ClaimRow \/ StartBeating \/ Tick \/ SendBeat \/ Commit \/ Succeed \/ Fail \/ Refuse
    \/ Finish \/ Reap \/ Pass

LeaseSpec == LeaseInit /\ [][LeaseNext]_leaseVars

-----------------------------------------------------------------------------
(* Properties *)

\* lastConfirmed is a conservative lower bound of the durable heartbeat, also
\* when a call commits and its answer is lost or late.
ConfirmedIsDurable ==
    handler = "running" => age <= unconfirmed

\* A handler may outlive the cutoff, but by less than one period and one call
\* less the margin: no sequence of failing, slow or half-done beats keeps two
\* executions of a target overlapping for longer.
OverlapBounded ==
    handler = "running" => age + Margin < StaleAfter + Period + CallTimeout

\* What the comments of both runners promise: the handler is cancelled inside
\* the reaper's durable cutoff.
InsideCutoff ==
    handler = "running" => ~Reapable

=============================================================================
