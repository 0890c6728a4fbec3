---------------------------- MODULE OwnerBarrier ----------------------------
(***************************************************************************)
(* The owner barrier (internal/dispatchadmission/owners.go and             *)
(* owner_measurement.go).  Loops of the application enter a turn before    *)
(* they claim, lock or lease anything and end it after they settled; HTTP  *)
(* requests do the same without ever parking.  A controller drains either  *)
(* kind and reopens it later; one live owner may instead drain everybody   *)
(* but itself, irreversibly (terminal) or for one measurement.             *)
(*                                                                         *)
(* Every method runs under one mutex that is released only while a caller  *)
(* sleeps on the `changed' channel, so a step is a method up to its next   *)
(* sleep or return.  notifyLocked replaces the channel: it wakes everybody *)
(* asleep at that moment and nobody who falls asleep later.                *)
(***************************************************************************)
EXTENDS Naturals, FiniteSets

CONSTANTS
    Loops,         \* goroutines that call Enter
    Requests,      \* goroutines that call EnterRequest
    Limit,         \* Limit[k]: OwnerLimits of each kind
    MaxGeneration, \* where a slot's generation counter ends
    NoSlot

Kinds == {"owner", "request"}
Callers == Loops \cup Requests

ASSUME LimitAssumption == Limit \in [Kinds -> Nat \ {0}]
ASSUME GenerationAssumption == MaxGeneration \in Nat \ {0}
ASSUME CallersAssumption ==
    Loops \cap Requests = {} /\ (Loops \cup Requests) \cap Kinds = {}

Slots(k) == 1 .. Limit[k]

ASSUME SlotAssumption == \A k \in Kinds : NoSlot \notin Slots(k)

VARIABLES
    active,      \* active[k]: the slots of live turns
    generation,  \* generation[k][s]: how often slot s was handed out
    closed,      \* closed[k]: paused, requestsFenced
    ready,       \* ready[k]: pausedReady, requestsReady
    terminal,    \* the slot retained by FenceTerminal
    measurement, \* the slot retained by FenceMeasurement
    used,        \* measurementUsed
    err,         \* the sticky failure
    stopped,     \* the barrier's context is done
    pc,          \* what a caller does
    turn,        \* the last turn a caller was given
    fencing,     \* kinds whose fence call waits for the drain
    asleep       \* callers and fences waiting on the current channel

vars == <<active, generation, closed, ready, terminal, measurement, used, err, stopped,
          pc, turn, fencing, asleep>>

KindOf(p) == IF p \in Loops THEN "owner" ELSE "request"
NoTurn == [slot |-> 1, generation |-> 0]
Held == {"terminal", "measuring"}

\* The type invariant.
TypeOK ==
    /\ active \in [Kinds -> SUBSET (Slots("owner") \cup Slots("request"))]
    /\ \A k \in Kinds : active[k] \subseteq Slots(k)
    /\ generation \in [Kinds -> UNION {[Slots(k) -> 0 .. MaxGeneration] : k \in Kinds}]
    /\ \A k \in Kinds : generation[k] \in [Slots(k) -> 0 .. MaxGeneration]
    /\ closed \in [Kinds -> BOOLEAN]
    /\ ready \in [Kinds -> BOOLEAN]
    /\ terminal \in Slots("owner") \cup {NoSlot}
    /\ measurement \in Slots("owner") \cup {NoSlot}
    /\ used \in BOOLEAN
    /\ err \in BOOLEAN
    /\ stopped \in BOOLEAN
    /\ pc \in [Callers -> {"out", "parked", "in", "fencing terminal", "terminal",
                           "fencing measurement", "measuring"}]
    /\ turn \in [Callers -> [slot: UNION {Slots(k) : k \in Kinds}, generation: 0 .. MaxGeneration]]
    /\ \A p \in Callers : turn[p].slot \in Slots(KindOf(p))
    /\ fencing \subseteq Kinds
    /\ asleep \subseteq Callers \cup Kinds

-----------------------------------------------------------------------------
(* Building blocks *)

Barrier == <<active, generation, closed, ready, terminal, measurement, used>>

\* failLocked: the first failure cancels the context and wakes everybody.
Fail ==
    /\ err' = TRUE
    /\ stopped' = TRUE
    /\ asleep' = {}

\* The turn is one that is live now.
Valid(p) ==
    /\ turn[p].generation > 0
    /\ turn[p].slot \in active[KindOf(p)]
    /\ generation[KindOf(p)][turn[p].slot] = turn[p].generation

Free(k) == Slots(k) \ active[k]
Lowest(S) == CHOOSE s \in S : \A t \in S : s <= t

\* The lowest free slot exists and its generation counter is not used up.
Admits(k) == Free(k) # {} /\ generation[k][Lowest(Free(k))] < MaxGeneration

\* enterLocked, with the caller no longer asleep.
EnterLocked(p) ==
    LET k == KindOf(p)
        s == Lowest(Free(k)) IN
    \/ /\ Admits(k)
       /\ generation' = [generation EXCEPT ![k][s] = @ + 1]
       /\ active' = [active EXCEPT ![k] = @ \cup {s}]
       /\ pc' = [pc EXCEPT ![p] = "in"]
       /\ turn' = [turn EXCEPT ![p] = [slot |-> s, generation |-> generation'[k][s]]]
       /\ UNCHANGED <<closed, ready, terminal, measurement, used, err, stopped, fencing, asleep>>
    \/ /\ ~Admits(k)
       /\ Fail
       /\ pc' = [pc EXCEPT ![p] = "out"]
       /\ UNCHANGED <<Barrier, turn, fencing>>

-----------------------------------------------------------------------------
(* Turns *)

\* Enter: loops park while paused, at most one waiter for each owner slot.
Enter(p) ==
    /\ p \in Loops /\ pc[p] = "out" /\ ~err /\ ~stopped
    /\ \/ ~closed["owner"] /\ EnterLocked(p)
       \/ /\ closed["owner"]
          /\ Cardinality({q \in Loops : pc[q] = "parked"}) < Limit["owner"]
          /\ pc' = [pc EXCEPT ![p] = "parked"]
          /\ asleep' = asleep \cup {p}
          /\ UNCHANGED <<Barrier, err, stopped, turn, fencing>>
       \/ /\ closed["owner"]
          /\ Cardinality({q \in Loops : pc[q] = "parked"}) = Limit["owner"]
          /\ Fail
          /\ UNCHANGED <<Barrier, pc, turn, fencing>>

\* A parked loop is woken and looks again.
Recheck(p) ==
    /\ pc[p] = "parked" /\ p \notin asleep
    /\ \/ /\ err \/ stopped
          /\ pc' = [pc EXCEPT ![p] = "out"]
          /\ UNCHANGED <<Barrier, err, stopped, turn, fencing, asleep>>
       \/ ~err /\ ~stopped /\ ~closed["owner"] /\ EnterLocked(p)
       \/ /\ ~err /\ ~stopped /\ closed["owner"]
          /\ asleep' = asleep \cup {p}
          /\ UNCHANGED <<Barrier, err, stopped, pc, turn, fencing>>

\* The caller's own context ends: not sticky.
GiveUp(p) ==
    /\ pc[p] = "parked"
    /\ pc' = [pc EXCEPT ![p] = "out"]
    /\ asleep' = asleep \ {p}
    /\ UNCHANGED <<Barrier, err, stopped, turn, fencing>>

\* EnterRequest: never parks, and a closed fence is an ordinary refusal.
EnterRequest(p) ==
    /\ p \in Requests /\ pc[p] = "out" /\ ~err /\ ~stopped
    /\ ~closed["request"]
    /\ EnterLocked(p)

\* Mutant of Drained: only a retaining owner is told.
DrainedRetained(k, S) == k = "owner" /\ NoSlot \notin S /\ S \in {{terminal}, {measurement}}

\* The end of this turn is what some fence waits for.
Drained(k, S) ==
    \/ S = {} /\ closed[k]
    \/ k = "owner" /\ NoSlot \notin S /\ S \in {{terminal}, {measurement}}

\* Mutant of Ends: the slot is freed whatever its generation.
EndsSlot(p) == turn[p].slot \in active[KindOf(p)]

\* End succeeds for a live turn that is not retained.
Ends(p) ==
    /\ Valid(p)
    /\ KindOf(p) = "owner" => turn[p].slot \notin {terminal, measurement}

\* End, by the owner of the turn or with a copy of an old one.
EndTurn(p) ==
    LET k == KindOf(p)
        S == active[k] \ {turn[p].slot} IN
    \/ /\ Ends(p)
       /\ active' = [active EXCEPT ![k] = S]
       /\ asleep' = IF Drained(k, S) THEN {} ELSE asleep
       /\ UNCHANGED <<generation, closed, ready, terminal, measurement, used, err, stopped>>
    \/ /\ ~Ends(p)
       /\ Fail
       /\ UNCHANGED Barrier

End(p) ==
    /\ pc[p] = "in"
    /\ EndTurn(p)
    /\ pc' = [pc EXCEPT ![p] = "out"]
    /\ UNCHANGED <<turn, fencing>>

\* A second End, or End of a retained turn.
StrayEnd(p) ==
    /\ pc[p] \in {"out"} \cup Held /\ turn[p].generation > 0
    /\ EndTurn(p)
    /\ UNCHANGED <<pc, turn, fencing>>

-----------------------------------------------------------------------------
(* Fences of the controller *)

\* A call the barrier's state does not allow fails it for good.
Refuse ==
    /\ Fail
    /\ UNCHANGED <<Barrier, pc, turn, fencing>>

\* The first part of fence: close, wake everybody, then return or sleep.
Close(k) ==
    /\ closed' = [closed EXCEPT ![k] = TRUE]
    /\ \/ /\ stopped
          /\ Fail
          /\ UNCHANGED <<ready, fencing>>
       \/ /\ ~stopped /\ active[k] = {}
          /\ asleep' = {}
          /\ ready' = [ready EXCEPT ![k] = TRUE]
          /\ UNCHANGED <<err, stopped, fencing>>
       \/ /\ ~stopped /\ active[k] # {}
          /\ asleep' = {k}
          /\ fencing' = fencing \cup {k}
          /\ UNCHANGED <<err, stopped, ready>>
    /\ UNCHANGED <<active, generation, terminal, measurement, used, pc, turn>>

Retained == terminal # NoSlot \/ measurement # NoSlot

\* fence: Pause for owners, FenceRequests for requests.  The controller calls
\* nothing more once a call has failed (servePhaseControl returns).
Fence(k) ==
    /\ ~err
    /\ \/ (Retained \/ closed[k]) /\ Refuse
       \/ ~Retained /\ ~closed[k] /\ Close(k)

\* A waiting fence is woken and looks again.
FenceWakes(k) ==
    /\ k \in fencing /\ k \notin asleep
    /\ \/ /\ err \/ stopped
          /\ Fail
          /\ fencing' = fencing \ {k}
          /\ UNCHANGED ready
       \/ /\ ~err /\ ~stopped /\ active[k] = {}
          /\ ready' = [ready EXCEPT ![k] = TRUE]
          /\ fencing' = fencing \ {k}
          /\ UNCHANGED <<err, stopped, asleep>>
       \/ /\ ~err /\ ~stopped /\ active[k] # {}
          /\ asleep' = asleep \cup {k}
          /\ UNCHANGED <<err, stopped, ready, fencing>>
    /\ UNCHANGED <<active, generation, closed, terminal, measurement, used, pc, turn>>

\* The drain deadline fails closed.
FenceTimesOut(k) ==
    /\ k \in fencing
    /\ Fail
    /\ fencing' = fencing \ {k}
    /\ UNCHANGED <<Barrier, pc, turn>>

\* reopen is refused unless the fence has drained and stayed so.
Reopens(k) == closed[k] /\ ready[k] /\ active[k] = {}

\* Mutant of Open: the parked loops are not told.
OpenQuietly(k) ==
    /\ closed' = [closed EXCEPT ![k] = FALSE]
    /\ ready' = [ready EXCEPT ![k] = FALSE]
    /\ UNCHANGED <<active, generation, terminal, measurement, used, err, stopped,
                   pc, turn, fencing, asleep>>

Open(k) ==
    /\ closed' = [closed EXCEPT ![k] = FALSE]
    /\ ready' = [ready EXCEPT ![k] = FALSE]
    /\ asleep' = {}
    /\ UNCHANGED <<active, generation, terminal, measurement, used, err, stopped,
                   pc, turn, fencing>>

\* reopen: Resume for owners, OpenRequests for requests.
Reopen(k) ==
    /\ ~err
    /\ \/ (Retained \/ stopped \/ ~Reopens(k)) /\ Refuse
       \/ ~Retained /\ ~stopped /\ Reopens(k) /\ Open(k)

-----------------------------------------------------------------------------
(* Fences of one live owner *)

\* Mutant of Alone: requests are not waited for.
AloneOwner(p) == active["owner"] = {turn[p].slot}

\* Everybody else is out.
Alone(p) == active["owner"] = {turn[p].slot} /\ active["request"] = {}

\* The caller's drain may begin: nothing else is fenced or retained.
Unfenced ==
    /\ ~Retained
    /\ \A k \in Kinds : ~closed[k] /\ ~ready[k]

\* FenceTerminal and FenceMeasurement up to the first sleep or return.
Retain(p, waits, holds) ==
    /\ closed' = [k \in Kinds |-> TRUE]
    /\ pc' = [pc EXCEPT ![p] = IF Alone(p) THEN holds ELSE waits]
    /\ asleep' = IF Alone(p) THEN {} ELSE {p}
    /\ UNCHANGED <<active, generation, ready, err, stopped, turn, fencing>>

FenceTerminal(p) ==
    /\ p \in Loops /\ pc[p] = "in" /\ ~err
    /\ \/ /\ ~stopped /\ Valid(p) /\ Unfenced
          /\ terminal' = turn[p].slot
          /\ Retain(p, "fencing terminal", "terminal")
          /\ UNCHANGED <<measurement, used>>
       \/ ~(~stopped /\ Valid(p) /\ Unfenced) /\ Refuse

FenceMeasurement(p) ==
    /\ p \in Loops /\ pc[p] = "in" /\ ~err
    /\ \/ /\ ~stopped /\ Valid(p) /\ Unfenced /\ ~used
          /\ measurement' = turn[p].slot
          /\ used' = TRUE
          /\ Retain(p, "fencing measurement", "measuring")
          /\ UNCHANGED terminal
       \/ ~(~stopped /\ Valid(p) /\ Unfenced /\ ~used) /\ Refuse

\* A retaining owner is woken and looks again; a failure leaves it in its turn.
RetainWakes(p) ==
    /\ pc[p] \in {"fencing terminal", "fencing measurement"} /\ p \notin asleep
    /\ \/ /\ err \/ stopped
          /\ Fail
          /\ pc' = [pc EXCEPT ![p] = "in"]
       \/ /\ ~err /\ ~stopped /\ Alone(p)
          /\ pc' = [pc EXCEPT ![p] =
                IF @ = "fencing terminal" THEN "terminal" ELSE "measuring"]
          /\ UNCHANGED <<err, stopped, asleep>>
       \/ /\ ~err /\ ~stopped /\ ~Alone(p)
          /\ asleep' = asleep \cup {p}
          /\ UNCHANGED <<err, stopped, pc>>
    /\ UNCHANGED <<Barrier, turn, fencing>>

RetainTimesOut(p) ==
    /\ pc[p] \in {"fencing terminal", "fencing measurement"}
    /\ Fail
    /\ pc' = [pc EXCEPT ![p] = "in"]
    /\ UNCHANGED <<Barrier, turn, fencing>>

\* validLocked: nothing happened behind the measurement's back.
StillAlone(p) ==
    /\ ~err /\ ~stopped
    /\ measurement = turn[p].slot /\ Valid(p) /\ Alone(p)
    /\ \A k \in Kinds : closed[k] /\ ~ready[k]
    /\ terminal = NoSlot

\* Resume of the measurement: the turn goes on, everybody may enter again.
ResumeMeasurement(p) ==
    /\ pc[p] = "measuring"
    /\ pc' = [pc EXCEPT ![p] = "in"]
    /\ \/ /\ StillAlone(p)
          /\ measurement' = NoSlot
          /\ closed' = [k \in Kinds |-> FALSE]
          /\ asleep' = {}
          /\ UNCHANGED <<active, generation, ready, terminal, used, err, stopped>>
       \/ /\ ~StillAlone(p)
          /\ Fail
          /\ UNCHANGED Barrier
    /\ UNCHANGED <<turn, fencing>>

\* The process shuts down: the parent context of the barrier is done.
Shutdown ==
    /\ ~stopped
    /\ stopped' = TRUE
    /\ asleep' = {}
    /\ UNCHANGED <<Barrier, err, pc, turn, fencing>>

-----------------------------------------------------------------------------

Init ==
    /\ active = [k \in Kinds |-> {}]
    /\ generation = [k \in Kinds |-> [s \in Slots(k) |-> 0]]
    /\ closed = [k \in Kinds |-> FALSE]
    /\ ready = [k \in Kinds |-> FALSE]
    /\ terminal = NoSlot
    /\ measurement = NoSlot
    /\ used = FALSE
    /\ err = FALSE
    /\ stopped = FALSE
    /\ pc = [p \in Callers |-> "out"]
    /\ turn = [p \in Callers |-> NoTurn]
    /\ fencing = {}
    /\ asleep = {}

Caller(p) ==
    \/ Enter(p) \/ Recheck(p) \/ GiveUp(p) \/ EnterRequest(p) \/ End(p) \/ StrayEnd(p)
    \/ FenceTerminal(p) \/ FenceMeasurement(p) \/ RetainWakes(p) \/ RetainTimesOut(p)
    \/ ResumeMeasurement(p)

Control(k) == Fence(k) \/ FenceWakes(k) \/ FenceTimesOut(k) \/ Reopen(k)

Next ==
    \/ \E p \in Callers : Caller(p)
    \/ \E k \in Kinds : Control(k)
    \/ Shutdown

Spec == Init /\ [][Next]_vars

\* Admitted owners finish their turns and woken goroutines run.
FairSpec ==
    /\ Spec
    /\ \A p \in Callers : WF_vars(Recheck(p)) /\ WF_vars(End(p)) /\ WF_vars(RetainWakes(p))
    /\ \A k \in Kinds : WF_vars(FenceWakes(k))

-----------------------------------------------------------------------------
(* Properties *)

\* Quiescence is real while somebody relies on it: no loop or request is inside
\* a fence that reported itself drained, until it is reopened, and a terminal or
\* measuring owner is alone behind two closed fences, until it resumes.
QuiescenceIsReal ==
    /\ \A k \in Kinds : ready[k] => closed[k] /\ active[k] = {}
    /\ \A p \in Loops : pc[p] \in Held =>
        \/ err
        \/ /\ active["owner"] = {turn[p].slot} /\ active["request"] = {}
           /\ \A k \in Kinds : closed[k]

\* Every caller inside a turn owns a slot of its own: a copied or repeated End
\* never frees the slot of another turn, even when it was handed out again.
TurnOwnsSlot ==
    \A p \in Callers : pc[p] \notin {"out", "parked"} =>
        \/ Valid(p)
        \/ err

\* Nobody sleeps through what it waits for: a parked loop is told of every
\* reopening, a fence of the last End, everybody of a failure or a shutdown.
NoLostWakeup ==
    /\ asleep # {} => ~err /\ ~stopped
    /\ \A p \in asleep \cap Callers :
         IF pc[p] = "parked" THEN closed["owner"] ELSE ~Alone(p)
    /\ \A k \in asleep \cap Kinds : active[k] # {}

\* A drain ends: Pause and FenceRequests return once the turns inside have
\* ended, the barrier failed or the process shuts down.
DrainEnds ==
    \A k \in Kinds : k \in fencing ~> k \notin fencing

=============================================================================
