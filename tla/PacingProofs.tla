---------------------------- MODULE PacingProofs ----------------------------
(***************************************************************************)
(* Two components that decide how often something may run.                 *)
(*                                                                         *)
(* The maintenance loop (Lifecycle) earns its idle interval, for any       *)
(* number of owners and repositories and any sequence of failures and      *)
(* restarts.  The runner decides from a few flags that it carries from     *)
(* turn to turn; the property speaks of what happened in the turns.  The   *)
(* inductive invariant says what each flag remembers: which owners a       *)
(* started cycle has found clean, when the runner is recovering from       *)
(* pressure, and how many normal readings a recovery has behind it.        *)
(*                                                                         *)
(* The login limiter (LoginLimiter) keeps every client to its budget, for  *)
(* every set of clients and requests and every limit, window, table size   *)
(* and number of Argon2 slots.                                             *)
(***************************************************************************)
EXTENDS Lifecycle, LoginLimiter, FiniteSetTheorems, TLAPS

------------------------------------------------------------------------------
(* The maintenance loop *)

\* The owners whose turn the current cycle has behind it.
Behind(o) == IF pc = "wait" THEN o <= rotation ELSE o < res.owner

\* What a turn's result says of the owner, and of the rotation once it is saved.
TurnShape ==
    /\ pc # "wait" =>
         \/ res.owner = 0 /\ res.err /\ ~res.start /\ ~res.complete
         \/ /\ res.owner \in Owners
            /\ res.start <=> res.owner = 1
            /\ res.complete <=> res.owner = N
    /\ pc \in {"cursor", "rotation"} => res.owner = NextOwner(rotation)
    /\ pc \in {"probe", "check"} /\ ~res.err => rotation = res.owner

\* An idle runner has nothing to come back to.
IdleForgets == run.delay = "idle" => ~run.started /\ ~run.retry /\ ~run.recovery

\* A started cycle without a retry found every owner behind it clean.
CycleIsClean ==
    run.started /\ ~run.retry => \A o \in Owners : Behind(o) => o \in clean

\* The runner recovers from exactly the pressure it met since it was idle, and
\* gives a recovery up only together with the wait.
RecoveryIsPressure ==
    /\ run.recovery => pressed
    /\ pressed => run.recovery \/ (run.delay = "idle" /\ pc = "wait")
    /\ run.recoveryNormal => run.recovery /\ run.started /\ ~run.capacityRetry

\* The normal readings that the flags stand for were made.
ReadingsCount ==
    /\ pressed /\ run.priorNormal => calm >= 1
    /\ run.recoveryNormal /\ ~run.retry => \A o \in Owners : Behind(o) => calm > o

\* What every step of the loop preserves.
IInv ==
    /\ TypeOK /\ TurnShape /\ IdleForgets /\ CycleIsClean
    /\ RecoveryIsPressure /\ ReadingsCount /\ IdleIsEarned

------------------------------------------------------------------------------
(* Types *)

\* The type invariant's parts that a step reads.
LEMMA TypeFacts ==
    ASSUME TypeOK
    PROVE  /\ N \in Nat /\ N >= 1 /\ MaxSpaces \in Nat /\ MaxSpaces >= 1
           /\ rotation \in 0 .. N /\ res \in Result /\ run \in RunnerState
           /\ calm \in 0 .. N + 1 /\ clean \subseteq Owners /\ pressed \in BOOLEAN
BY SizesAssumption DEF TypeOK

\* The next owner of the rotation is an owner.
LEMMA NextOwnerType ==
    ASSUME TypeOK
    PROVE  /\ NextOwner(rotation) \in Owners
           /\ \A o \in Owners : o < NextOwner(rotation) => o <= rotation
BY TypeFacts DEF NextOwner, Owners

\* The initial state is of its type.
LEMMA InitTypeOK == Init => TypeOK
<1> SUFFICES ASSUME Init PROVE TypeOK
  OBVIOUS
<1> USE SizesAssumption, LevelsAssumption
<1>1. res \in Result /\ run \in RunnerState
  BY DEF Init, NoResult, Started, Result, RunnerState
<1>2. bad \subseteq Owners \X Spaces
  <2>1. CASE bad = {}
    BY <2>1
  <2>2. CASE \E o \in Owners : \E s \in 1 .. spaces[o] : bad = {<<o, s>>}
    <3>1. PICK o \in Owners : \E s \in 1 .. spaces[o] : bad = {<<o, s>>}
      BY <2>2
    <3>2. PICK s \in 1 .. spaces[o] : bad = {<<o, s>>}
      BY <3>1
    <3>3. spaces[o] \in Spaces
      BY DEF Init
    <3>4. s \in Spaces
      BY <3>3 DEF Spaces
    <3> QED BY <3>2, <3>4
  <2> QED BY <2>1, <2>2 DEF Init
<1>3. dirt \in [Owners -> [Spaces -> 0 .. Steps]] /\ cursor \in [Owners -> 0 .. MaxSpaces]
  BY DEF Init, Steps
<1>4. rotation \in 0 .. N /\ calm \in 0 .. N + 1 /\ asked \in 0 .. 100
  BY DEF Init
<1> QED BY <1>1, <1>2, <1>3, <1>4 DEF Init, TypeOK

\* The turn of an owner yields a result and at most one step of deletion.
LEMMA SweepType == ASSUME TypeOK, Sweep PROVE TypeOK'
<1> DEFINE o == NextOwner(rotation)
           s == NextSpace(o)
<1>1. o \in Owners
  BY NextOwnerType
<1>2. s \in Spaces /\ s \in 0 .. MaxSpaces
  <2>1. spaces[o] \in Spaces /\ cursor[o] \in 0 .. MaxSpaces
    BY <1>1 DEF TypeOK
  <2> QED BY <2>1, TypeFacts DEF NextSpace, Spaces
<1>3. dirt' \in [Owners -> [Spaces -> 0 .. Steps]]
  <2>0. dirt \in [Owners -> [Spaces -> 0 .. Steps]]
    BY DEF TypeOK
  <2>1. CASE dirt' = dirt
    BY <2>0, <2>1
  <2>2. CASE dirt[o][s] # 0 /\ dirt' = [dirt EXCEPT ![o][s] = @ - 1]
    <3>1. dirt[o] \in [Spaces -> 0 .. Steps] /\ dirt[o][s] \in 0 .. Steps
      BY <1>1, <1>2, <2>0
    <3>2. dirt[o][s] - 1 \in 0 .. Steps
      BY <2>2, <3>1 DEF Steps
    <3>3. [dirt[o] EXCEPT ![s] = dirt[o][s] - 1] \in [Spaces -> 0 .. Steps]
      BY <3>1, <3>2
    <3>4. dirt' = [dirt EXCEPT ![o] = [dirt[o] EXCEPT ![s] = dirt[o][s] - 1]]
      BY <2>2
    <3> QED BY <2>0, <3>3, <3>4
  <2> QED BY <2>1, <2>2 DEF Sweep
<1>4. res' \in Result
  <2>0. o \in 0 .. N
    BY <1>1, TypeFacts DEF Owners
  <2> DEFINE a == o = 1
             b == o = N
             c == <<o, s>> \in bad
             d == spaces[o] > 1 \/ dirt'[o][s] > 0
             e == c /\ s # cursor[o]
  <2>1. res' = [owner |-> o, start |-> a, complete |-> b, err |-> c, more |-> d,
                cursor |-> s, advance |-> e]
    BY DEF Sweep
  <2>2. a \in BOOLEAN /\ b \in BOOLEAN /\ c \in BOOLEAN /\ d \in BOOLEAN /\ e \in BOOLEAN
    OBVIOUS
  <2> HIDE DEF o, s, a, b, c, d, e
  <2> QED BY <1>2, <2>0, <2>1, <2>2 DEF Result
<1>5. clean' \subseteq Owners /\ calm' \in 0 .. N + 1 /\ pressed' \in BOOLEAN
  BY TypeFacts DEF Sweep, Wake
<1>6. pc' = "cursor" /\ UNCHANGED <<spaces, bad, rotation, cursor, run, used, seen, asked, latched>>
  BY DEF Sweep, saved, gate
<1> QED BY <1>3, <1>4, <1>5, <1>6 DEF TypeOK

\* A result that turned into an error is a result.
LEMMA FailedResult ==
    ASSUME res \in Result
    PROVE  [res EXCEPT !.err = TRUE] \in Result
BY DEF Result

\* The cursor and the rotation move to what the turn read.
LEMMA SaveType == ASSUME TypeOK, TurnShape, SaveCursor \/ SaveRotation PROVE TypeOK'
<1>0. res' \in Result
  BY TypeFacts, FailedResult DEF SaveCursor, SaveRotation
<1>1. CASE SaveCursor
  <2>1. res.owner \in Owners /\ res.cursor \in 0 .. MaxSpaces
    BY <1>1, NextOwnerType, TypeFacts DEF SaveCursor, TurnShape, Result
  <2>2. cursor' \in [Owners -> 0 .. MaxSpaces]
    <3>1. cursor \in [Owners -> 0 .. MaxSpaces]
      BY DEF TypeOK
    <3>2. cursor' \in {cursor, [cursor EXCEPT ![res.owner] = res.cursor]}
      BY <1>1 DEF SaveCursor
    <3> QED BY <2>1, <3>1, <3>2
  <2> QED BY <1>0, <1>1, <2>2 DEF SaveCursor, TypeOK, disk, gate, history
<1>2. CASE SaveRotation
  <2>1. rotation' \in 0 .. N
    <3>1. res.owner \in 0 .. N
      BY TypeFacts DEF Result
    <3> QED BY <1>2, <3>1, TypeFacts DEF SaveRotation
  <2> QED BY <1>0, <1>2, <2>1 DEF SaveRotation, TypeOK, disk, gate, history
<1> QED BY <1>1, <1>2

------------------------------------------------------------------------------
(* The end of a turn *)

\* The reading that the runner's turn ends with.
Reading == IF seen = 0 THEN "unavailable" ELSE Pressure(seen)

\* What runnerState.turn makes of the result r and the reading p, flag by flag.
LEMMA AfterTurnFlags ==
    ASSUME run \in RunnerState, NEW r \in Result, NEW p \in {"unavailable", "normal", "collect", "refuse"}
    PROVE  LET a == AfterTurn(r, p)
               started == run.started \/ r.start
               retry == (run.retry /\ ~r.start) \/ (started /\ (r.err \/ r.more))
               pressing == p \in {"collect", "refuse"}
               lost == (run.capacityRetry /\ ~r.start) \/ p = "unavailable"
               wholly == (IF r.start THEN run.priorNormal ELSE run.recoveryNormal) /\ p = "normal"
               still == (run.recovery \/ pressing) /\ ~(r.complete /\ wholly /\ ~retry)
               busy == retry \/ ~r.complete \/ ~started \/ pressing \/ still \/ lost
           IN /\ a \in RunnerState
              /\ a.started <=> started /\ busy
              /\ a.retry <=> retry /\ busy
              /\ a.recovery <=> still
              /\ a.recoveryNormal <=> still /\ wholly
              /\ a.capacityRetry <=> lost
              /\ a.priorNormal <=> p = "normal"
              /\ a.delay = "idle" <=> ~busy
<1> DEFINE started == run.started \/ r.start
           retry == NeedsRetry(r, started)
           pressing == p \in {"collect", "refuse"}
           normal == p = "normal"
           lost == (run.capacityRetry /\ ~r.start) \/ p = "unavailable"
           wholly == IF r.start THEN run.priorNormal /\ normal ELSE run.recoveryNormal /\ normal
           recovered == r.complete /\ wholly /\ ~retry
           still == (run.recovery \/ pressing) /\ ~recovered
           busy == retry \/ ~r.complete \/ ~started \/ pressing \/ still \/ lost
           wait == IF ~busy THEN "idle" ELSE IF pressing \/ still THEN "fast" ELSE "backlog"
           goes == started /\ busy
           again == retry /\ busy
           holds == still /\ wholly
<1>1. AfterTurn(r, p) = [started |-> goes, retry |-> again, recovery |-> still,
                         recoveryNormal |-> holds, capacityRetry |-> lost,
                         priorNormal |-> normal, delay |-> wait]
  BY DEF AfterTurn
<1>2. /\ goes \in BOOLEAN /\ again \in BOOLEAN /\ still \in BOOLEAN
      /\ holds \in BOOLEAN /\ lost \in BOOLEAN /\ normal \in BOOLEAN
  OBVIOUS
<1>3. wait \in {"none", "backlog", "fast", "idle"} /\ (wait = "idle" <=> ~busy)
  OBVIOUS
<1>4. /\ retry <=> (run.retry /\ ~r.start) \/ (started /\ (r.err \/ r.more))
      /\ wholly <=> (IF r.start THEN run.priorNormal ELSE run.recoveryNormal) /\ normal
  BY DEF NeedsRetry, RunnerState, Result
<1> DEFINE a == AfterTurn(r, p)
<1>5. a \in RunnerState
  <2> HIDE DEF goes, again, still, holds, lost, normal, wait
  <2> QED BY <1>1, <1>2, <1>3 DEF RunnerState
<1>6. /\ a.started = goes /\ a.retry = again /\ a.recovery = still
      /\ a.recoveryNormal = holds /\ a.capacityRetry = lost /\ a.priorNormal = normal
      /\ a.delay = wait
  <2> HIDE DEF goes, again, still, holds, lost, normal, wait
  <2> QED BY <1>1
<1> HIDE DEF a
<1> QED BY <1>3, <1>4, <1>5, <1>6, Zenon DEF a

\* A reading is one of the four pressures, and the latch a Boolean.
LEMMA ReadingType ==
    ASSUME NEW percent
    PROVE  /\ Pressure(percent) \in {"normal", "collect", "refuse"}
           /\ Latches(percent) \in BOOLEAN
           /\ Reading \in {"unavailable", "normal", "collect", "refuse"}
BY DEF Reading, Pressure, Grade, Latches

\* The record of no turn, and the state of a runner that starts.
LEMMA FreshRecords == TypeOK => NoResult \in Result /\ Started \in RunnerState
BY TypeFacts DEF NoResult, Started, Result, RunnerState

\* What the end of a turn does to the runner and to the history.
LEMMA EndTurnEffect ==
    ASSUME TypeOK, EndTurn
    PROVE  /\ run' = AfterTurn(res, Reading)
           /\ clean' = IF res.err \/ res.more THEN clean \ {res.owner} ELSE clean \cup {res.owner}
           /\ pressed' <=> pressed \/ Reading \in {"collect", "refuse"}
           /\ Reading # "normal" => calm' = 0
           /\ pressed' /\ Reading = "normal" => calm' = (IF calm > N THEN calm ELSE calm + 1)
           /\ calm' \in 0 .. N + 1
           /\ pc = "check" /\ pc' = "wait" /\ rotation' = rotation
<1>1. /\ run' = AfterTurn(res, Reading)
      /\ clean' = IF res.err \/ res.more THEN clean \ {res.owner} ELSE clean \cup {res.owner}
      /\ pressed' = (pressed \/ Reading \in {"collect", "refuse"})
      /\ calm' = IF ~pressed' \/ Reading # "normal" THEN 0 ELSE IF calm > N THEN calm ELSE calm + 1
      /\ pc = "check" /\ pc' = "wait" /\ rotation' = rotation
  BY DEF EndTurn, Reading, saved
<1>2. calm' \in 0 .. N + 1
  BY <1>1, TypeFacts
<1> QED BY <1>1, <1>2, TypeFacts

\* The end of a turn keeps the types; it is the turn of an owner or of none.
LEMMA EndTurnType == ASSUME TypeOK, TurnShape, EndTurn PROVE TypeOK'
<1>1. run' \in RunnerState
  BY EndTurnEffect, AfterTurnFlags, ReadingType, TypeFacts
<1>2. latched' \in BOOLEAN
  <2>1. CASE seen = 0
    BY <2>1 DEF EndTurn, TypeOK
  <2>2. CASE seen # 0
    BY <2>2, ReadingType DEF EndTurn
  <2> QED BY <2>1, <2>2
<1>3. res' \in Result
  BY FreshRecords DEF EndTurn
<1>4. clean' \subseteq Owners
  <2>1. res.err \/ res.owner \in Owners
    BY EndTurnEffect DEF TurnShape
  <2> QED BY <2>1, EndTurnEffect, TypeFacts
<1>5. pressed' \in BOOLEAN /\ calm' \in 0 .. N + 1
  BY EndTurnEffect DEF EndTurn
<1>6. seen' = 0 /\ pc' = "wait" /\ UNCHANGED <<spaces, bad, dirt, rotation, cursor, used, asked>>
  BY DEF EndTurn, disk, saved
<1> QED BY <1>1, <1>2, <1>3, <1>4, <1>5, <1>6 DEF TypeOK

\* The steps of the gate, of the environment and of a failing read keep the types.
LEMMA OtherType ==
    ASSUME TypeOK,
           ReadFails \/ Probe \/ AdmitProbe \/ AdmitCheck \/ Litter \/ Shift \/ Crash
    PROVE  TypeOK'
<1>1. CASE ReadFails
  <2>1. clean' \subseteq Owners /\ calm' \in 0 .. N + 1 /\ pressed' \in BOOLEAN
    BY <1>1, TypeFacts DEF ReadFails, Wake
  <2> QED BY <1>1, <2>1, FreshRecords DEF ReadFails, TypeOK, disk, saved, gate
<1>2. CASE Probe
  <2>1. seen' \in Levels \cup {0}
    BY <1>2 DEF Probe, TypeOK
  <2> QED BY <1>2, <2>1 DEF Probe, TypeOK, disk, saved, history
<1>3. CASE AdmitProbe
  <2>1. asked' \in 0 .. 100
    <3>1. PICK e \in Estimates : asked' = Projected(e)
      BY <1>3 DEF AdmitProbe
    <3>2. used \in 1 .. 100 /\ e \in 0 .. 100
      BY LevelsAssumption DEF TypeOK
    <3> QED BY <3>1, <3>2 DEF Projected
  <2> QED BY <1>3, <2>1 DEF AdmitProbe, TypeOK, disk, saved, history
<1>4. CASE AdmitCheck
  <2>1. latched' \in BOOLEAN /\ asked' \in 0 .. 100
    BY <1>4, ReadingType DEF AdmitCheck
  <2> QED BY <1>4, <2>1 DEF AdmitCheck, TypeOK, disk, saved, history
<1>5. CASE Litter
  <2>1. PICK o \in Owners : \E s \in 1 .. spaces[o] : dirt' = [dirt EXCEPT ![o][s] = Steps]
    BY <1>5 DEF Litter
  <2>2. PICK s \in 1 .. spaces[o] : dirt' = [dirt EXCEPT ![o][s] = Steps]
    BY <2>1
  <2>3. dirt \in [Owners -> [Spaces -> 0 .. Steps]] /\ spaces[o] \in Spaces
    BY DEF TypeOK
  <2>4. s \in Spaces
    BY <2>3, TypeFacts DEF Spaces
  <2>5. [dirt[o] EXCEPT ![s] = Steps] \in [Spaces -> 0 .. Steps]
    BY <2>3, <2>4 DEF Steps
  <2>6. dirt' = [dirt EXCEPT ![o] = [dirt[o] EXCEPT ![s] = Steps]]
    BY <2>2
  <2>7. dirt' \in [Owners -> [Spaces -> 0 .. Steps]]
    BY <2>3, <2>5, <2>6
  <2> QED BY <1>5, <2>7 DEF Litter, TypeOK, saved, gate, history
<1>6. CASE Shift
  BY <1>6 DEF Shift, TypeOK, disk, saved, gate, history
<1>7. CASE Crash
  <2>1. clean' \subseteq Owners /\ calm' \in 0 .. N + 1 /\ asked' \in 0 .. 100
    BY <1>7, TypeFacts DEF Crash
  <2>2. pressed' \in BOOLEAN
    BY <1>7 DEF Crash
  <2> QED BY <1>7, <2>1, <2>2, FreshRecords DEF Crash, TypeOK, disk, saved
<1> QED BY <1>1, <1>2, <1>3, <1>4, <1>5, <1>6, <1>7

\* Every step keeps the types.
LEMMA NextType == ASSUME TypeOK, TurnShape, [Next]_vars PROVE TypeOK'
<1>1. CASE UNCHANGED vars
  BY <1>1 DEF vars, disk, saved, gate, history, TypeOK
<1> QED
  BY <1>1, SweepType, SaveType, EndTurnType, OtherType DEF Next, Runner

------------------------------------------------------------------------------
(* The inductive invariant *)

\* The initial state: nobody is behind a cycle that has not begun.
LEMMA InitIInv == Init => IInv
<1> SUFFICES ASSUME Init PROVE IInv
  OBVIOUS
<1>1. TypeOK
  BY InitTypeOK
<1>2. ~run.started /\ ~run.recovery /\ ~run.recoveryNormal /\ run.delay = "none"
  BY DEF Init, Started
<1>3. pc = "wait" /\ ~pressed
  BY DEF Init
<1> QED BY <1>1, <1>2, <1>3 DEF IInv, TurnShape, IdleForgets, CycleIsClean, RecoveryIsPressure,
        ReadingsCount, IdleIsEarned

\* A step that leaves the runner, its history and its turn alone.
LEMMA Untouched ==
    ASSUME IInv, TypeOK', UNCHANGED <<pc, res, run, rotation, clean, calm, pressed>>
    PROVE  IInv'
BY DEF IInv, TurnShape, IdleForgets, CycleIsClean, RecoveryIsPressure, ReadingsCount,
       IdleIsEarned, Behind, NextOwner

\* A turn begins: what was behind stays behind, and an idle runner starts over.
LEMMA BeginKeeps ==
    ASSUME IInv, TypeOK', Sweep \/ ReadFails
    PROVE  IInv'
<1>0. /\ TypeOK /\ TurnShape /\ IdleForgets /\ CycleIsClean /\ RecoveryIsPressure
      /\ ReadingsCount
  BY DEF IInv
<1>1. /\ pc = "wait" /\ pc' # "wait" /\ run' = run /\ rotation' = rotation
      /\ run.delay = "idle" => clean' = {} /\ ~pressed' /\ calm' = 0
      /\ run.delay # "idle" => clean' = clean /\ pressed' = pressed /\ calm' = calm
  <2>1. Wake /\ pc = "wait" /\ pc' # "wait" /\ run' = run /\ rotation' = rotation
    BY DEF Sweep, ReadFails, saved
  <2>2. pressed \in BOOLEAN
    BY <1>0, TypeFacts
  <2> QED BY <2>1, <2>2 DEF Wake
<1>2. TurnShape' /\ \A o \in Owners : o < res'.owner => o <= rotation
  <2>1. CASE Sweep
    <3>1. /\ res'.owner = NextOwner(rotation) /\ pc' = "cursor"
          /\ res'.start <=> res'.owner = 1
          /\ res'.complete <=> res'.owner = N
      BY <2>1 DEF Sweep
    <3> QED BY <1>0, <1>1, <3>1, NextOwnerType DEF TurnShape, NextOwner
  <2>2. CASE ReadFails
    <3>1. res' = NoResult /\ pc' = "probe"
      BY <2>2 DEF ReadFails
    <3> QED BY <1>0, <3>1, TypeFacts DEF TurnShape, NoResult, Owners
  <2> QED BY <2>1, <2>2
<1>3. \A o \in Owners : Behind(o)' => Behind(o)
  BY <1>1, <1>2 DEF Behind
<1>4. IdleForgets' /\ IdleIsEarned'
  BY <1>0, <1>1 DEF IdleForgets, IdleIsEarned
<1>5. CASE run.delay = "idle"
  <2>1. ~run.started /\ ~run.recovery /\ ~run.recoveryNormal
    BY <1>0, <1>5 DEF IdleForgets, RecoveryIsPressure
  <2> QED BY <1>1, <1>2, <1>4, <1>5, <2>1 DEF IInv, CycleIsClean, RecoveryIsPressure, ReadingsCount
<1>6. CASE run.delay # "idle"
  <2>1. CycleIsClean'
    BY <1>0, <1>1, <1>3, <1>6 DEF CycleIsClean
  <2>2. RecoveryIsPressure'
    BY <1>0, <1>1, <1>6 DEF RecoveryIsPressure
  <2>3. ReadingsCount'
    BY <1>0, <1>1, <1>3, <1>6 DEF ReadingsCount
  <2> QED BY <1>2, <1>4, <2>1, <2>2, <2>3 DEF IInv
<1> QED BY <1>5, <1>6

\* The saves of a turn: a failed one makes the turn an error.
LEMMA SaveKeeps ==
    ASSUME IInv, TypeOK', SaveCursor \/ SaveRotation
    PROVE  IInv'
<1>0. /\ TypeOK /\ TurnShape /\ IdleForgets /\ CycleIsClean /\ RecoveryIsPressure
      /\ ReadingsCount
  BY DEF IInv
<1>1. /\ pc \in {"cursor", "rotation"} /\ pc' \in {"rotation", "probe"}
      /\ UNCHANGED <<run, clean, calm, pressed>>
  BY DEF SaveCursor, SaveRotation, history
<1>2. /\ res'.owner = res.owner /\ res'.start = res.start /\ res'.complete = res.complete
      /\ res.err => res'.err
  <2>1. res' \in {res, [res EXCEPT !.err = TRUE]}
    BY DEF SaveCursor, SaveRotation
  <2> QED BY <1>0, <2>1, TypeFacts DEF Result
<1>3. TurnShape'
  <2>1. res.owner \in Owners
    BY <1>0, <1>1, NextOwnerType DEF TurnShape
  <2>2. CASE SaveCursor
    <3>1. rotation' = rotation /\ pc = "cursor" /\ pc' = "rotation"
      BY <2>2 DEF SaveCursor
    <3> QED BY <1>0, <1>2, <2>1, <3>1 DEF TurnShape, NextOwner
  <2>3. CASE SaveRotation
    <3>1. pc = "rotation" /\ pc' = "probe" /\ (rotation' = res.owner \/ res'.err)
      <4>1. res' = [res EXCEPT !.err = TRUE] => res'.err
        BY <1>0, TypeFacts DEF Result
      <4> QED BY <2>3, <4>1 DEF SaveRotation
    <3> QED BY <1>0, <1>2, <2>1, <3>1 DEF TurnShape
  <2> QED BY <2>2, <2>3
<1>4. \A o \in Owners : Behind(o)' <=> Behind(o)
  BY <1>1, <1>2 DEF Behind
<1>5. IdleForgets' /\ IdleIsEarned'
  BY <1>0, <1>1 DEF IdleForgets, IdleIsEarned
<1>6. CycleIsClean' /\ ReadingsCount'
  BY <1>0, <1>1, <1>4 DEF CycleIsClean, ReadingsCount
<1>7. RecoveryIsPressure'
  BY <1>0, <1>1 DEF RecoveryIsPressure
<1> QED BY <1>3, <1>5, <1>6, <1>7 DEF IInv

\* The capacity probe of a turn.
LEMMA ProbeKeeps == ASSUME IInv, TypeOK', Probe PROVE IInv'
<1>1. /\ pc = "probe" /\ pc' = "check"
      /\ UNCHANGED <<res, run, rotation, clean, calm, pressed>>
  BY DEF Probe, saved, history
<1> QED BY <1>1 DEF IInv, TurnShape, IdleForgets, CycleIsClean, RecoveryIsPressure, ReadingsCount,
        IdleIsEarned, Behind

\* A crash forgets the runner, its turn and its history.
LEMMA CrashKeeps == ASSUME IInv, TypeOK', Crash PROVE IInv'
<1>1. ~run'.started /\ ~run'.recovery /\ ~run'.recoveryNormal /\ run'.delay = "none"
  BY DEF Crash, Started
<1>2. pc' = "wait" /\ ~pressed'
  BY DEF Crash
<1> QED BY <1>1, <1>2 DEF IInv, TurnShape, IdleForgets, CycleIsClean, RecoveryIsPressure,
        ReadingsCount, IdleIsEarned

\* The end of a turn: the flags are recomputed and say what they said before,
\* with the turn just ended.
LEMMA EndTurnKeeps == ASSUME IInv, TypeOK', EndTurn PROVE IInv'
<1>0. /\ TypeOK /\ TurnShape /\ IdleForgets /\ CycleIsClean /\ RecoveryIsPressure
      /\ ReadingsCount
  BY DEF IInv
<1> DEFINE p == Reading
           started == run.started \/ res.start
           retry == (run.retry /\ ~res.start) \/ (started /\ (res.err \/ res.more))
           pressing == p \in {"collect", "refuse"}
           lost == (run.capacityRetry /\ ~res.start) \/ p = "unavailable"
           wholly == (IF res.start THEN run.priorNormal ELSE run.recoveryNormal) /\ p = "normal"
           still == (run.recovery \/ pressing) /\ ~(res.complete /\ wholly /\ ~retry)
           busy == retry \/ ~res.complete \/ ~started \/ pressing \/ still \/ lost
<1>1. /\ run'.started <=> started /\ busy
      /\ run'.retry <=> retry /\ busy
      /\ run'.recovery <=> still
      /\ run'.recoveryNormal <=> still /\ wholly
      /\ run'.capacityRetry <=> lost
      /\ run'.priorNormal <=> p = "normal"
      /\ run'.delay = "idle" <=> ~busy
  BY <1>0, EndTurnEffect, AfterTurnFlags, ReadingType, TypeFacts
<1>2. /\ pc = "check" /\ pc' = "wait" /\ rotation' = rotation
      /\ pressed' <=> pressed \/ pressing
      /\ p # "normal" => calm' = 0
      /\ pressed' /\ p = "normal" => calm' = (IF calm > N THEN calm ELSE calm + 1)
      /\ clean' = IF res.err \/ res.more THEN clean \ {res.owner} ELSE clean \cup {res.owner}
  BY <1>0, EndTurnEffect
<1>3. /\ N \in Nat /\ N >= 1 /\ calm \in Nat /\ rotation \in 0 .. N
      /\ clean \subseteq Owners /\ res.owner \in Nat
  BY <1>0, TypeFacts DEF Result
<1>4. /\ res.start => res.owner = 1
      /\ res.complete => res.owner = N
      /\ ~res.err => rotation = res.owner /\ res.owner \in Owners /\ (res.owner = 1 => res.start)
  BY <1>0, <1>2 DEF TurnShape
\* In a started cycle without a retry the turn was clean, and so were those before it.
<1>5. ASSUME started, ~retry
      PROVE  /\ ~res.err /\ ~res.more /\ (~res.start => run.started /\ ~run.retry)
             /\ \A o \in Owners : o <= rotation => o \in clean'
  <2>1. ~res.err /\ ~res.more /\ (~res.start => run.started /\ ~run.retry)
    BY <1>5
  <2>2. clean' = clean \cup {res.owner} /\ rotation = res.owner
    BY <1>2, <1>4, <2>1
  <2>3. \A o \in Owners : o < res.owner => o \in clean
    <3>1. CASE res.start
      BY <1>3, <1>4, <3>1 DEF Owners
    <3>2. CASE ~res.start
      BY <1>0, <1>2, <2>1, <3>2 DEF CycleIsClean, Behind
    <3> QED BY <3>1, <3>2
  <2> QED BY <1>3, <2>1, <2>2, <2>3 DEF Owners
\* A recovery that was normal throughout has one reading for each turn of the
\* cycle and one before it.
<1>6. ASSUME wholly, ~retry, pressed
      PROVE  started /\ calm' > rotation
  <2>1. started
    <3>1. CASE res.start
      BY <3>1
    <3>2. CASE ~res.start
      BY <1>0, <1>6, <3>2 DEF RecoveryIsPressure
    <3> QED BY <3>1, <3>2
  <2>2. ~res.err /\ (~res.start => run.started /\ ~run.retry)
    BY <1>5, <1>6, <2>1
  <2>3. rotation = res.owner /\ res.owner \in Owners
    BY <1>4, <2>2
  <2>4. calm' = (IF calm > N THEN calm ELSE calm + 1)
    BY <1>2, <1>6
  <2>5. calm >= res.owner
    <3>1. CASE res.start
      BY <1>0, <1>4, <1>6, <3>1 DEF ReadingsCount
    <3>2. CASE ~res.start
      <4>1. run.recoveryNormal /\ ~run.retry /\ res.owner # 1
        BY <1>4, <1>6, <2>2, <3>2
      <4>2. res.owner - 1 \in Owners /\ res.owner - 1 < res.owner
        BY <1>3, <2>3, <4>1 DEF Owners
      <4>3. Behind(res.owner - 1)
        BY <1>2, <4>2 DEF Behind
      <4>4. calm > res.owner - 1
        BY <1>0, <4>1, <4>2, <4>3 DEF ReadingsCount
      <4> QED BY <1>3, <4>4
    <3> QED BY <3>1, <3>2
  <2> QED BY <1>3, <2>1, <2>3, <2>4, <2>5 DEF Owners
\* A recovery that ends lets the runner idle.
<1>7. pressed => run.recovery
  BY <1>0, <1>2 DEF RecoveryIsPressure
<1>8. ASSUME res.complete, wholly, ~retry, pressed
      PROVE  ~busy
  <2>1. started
    BY <1>6, <1>8
  <2>2. ~pressing /\ ~still
    BY <1>8
  <2>3. ~lost
    <3>1. CASE res.start
      BY <1>8, <3>1
    <3>2. CASE ~res.start
      BY <1>0, <1>8, <3>2 DEF RecoveryIsPressure
    <3> QED BY <3>1, <3>2
  <2> QED BY <1>8, <2>1, <2>2, <2>3
<1>9. pressing => p # "normal" /\ ~wholly
  OBVIOUS
<1>10. run.recovery => pressed
  BY <1>0 DEF RecoveryIsPressure
<1> HIDE DEF p, started, retry, pressing, lost, wholly, still
<1>11. TurnShape' /\ IdleForgets'
  BY <1>1, <1>2, Zenon DEF TurnShape, IdleForgets
<1>12. CycleIsClean'
  BY <1>1, <1>2, <1>5 DEF CycleIsClean, Behind
<1>13. RecoveryIsPressure'
  <2>1. run'.recovery => pressed'
    BY <1>1, <1>2, <1>10 DEF still
  <2>2. pressed' => run'.recovery \/ run'.delay = "idle"
    BY <1>1, <1>2, <1>7, <1>8, <1>9 DEF still
  <2>3. run'.recoveryNormal => run'.recovery
    BY <1>1
  <2>4. run'.recoveryNormal => run'.started /\ ~run'.capacityRetry
    <3>1. SUFFICES ASSUME still, wholly PROVE started /\ ~lost
      BY <1>1
    <3>2. CASE res.start
      BY <3>1, <3>2 DEF started, lost, wholly
    <3>3. CASE ~res.start
      <4>1. run.recoveryNormal
        BY <3>1, <3>3 DEF wholly
      <4>2. run.started /\ ~run.capacityRetry
        BY <1>0, <4>1 DEF RecoveryIsPressure
      <4> QED BY <3>1, <3>3, <4>2 DEF started, lost, wholly
    <3> QED BY <3>2, <3>3
  <2> QED BY <1>2, <2>1, <2>2, <2>3, <2>4 DEF RecoveryIsPressure
<1>14. ReadingsCount'
  <2>1. pressed' /\ run'.priorNormal => calm' >= 1
    BY <1>1, <1>2, <1>3
  <2>2. ASSUME run'.recoveryNormal, ~run'.retry PROVE calm' > rotation
    <3>1. still /\ wholly /\ ~retry
      BY <1>1, <2>2
    <3>2. pressed
      BY <1>9, <1>10, <3>1 DEF still
    <3> QED BY <1>6, <3>1, <3>2
  <2>3. calm' \in Nat
    BY TypeFacts DEF TypeOK
  <2> QED BY <1>2, <1>3, <2>1, <2>2, <2>3 DEF ReadingsCount, Behind, Owners
<1>15. IdleIsEarned'
  <2>1. SUFFICES ASSUME ~busy PROVE clean' = Owners /\ (pressed' => calm' > N)
    BY <1>1 DEF IdleIsEarned
  <2>2. started /\ ~retry /\ res.complete /\ ~pressing /\ ~still
    BY <2>1
  <2>3. rotation = N
    BY <1>4, <1>5, <2>2
  <2>4. clean' = Owners
    <3>1. \A o \in Owners : o \in clean'
      BY <1>3, <1>5, <2>2, <2>3 DEF Owners
    <3>2. clean' \subseteq Owners
      BY DEF TypeOK
    <3> QED BY <3>1, <3>2
  <2>5. pressed' => pressed /\ wholly
    BY <1>2, <1>7, <2>2 DEF still
  <2> QED BY <1>6, <2>2, <2>3, <2>4, <2>5
<1> QED BY <1>11, <1>12, <1>13, <1>14, <1>15 DEF IInv

\* Every step keeps the inductive invariant.
LEMMA Inductive == IInv /\ [Next]_vars => IInv'
<1> SUFFICES ASSUME IInv, [Next]_vars PROVE IInv'
  OBVIOUS
<1>1. TypeOK'
  BY NextType DEF IInv
<1>2. CASE AdmitProbe \/ AdmitCheck \/ Litter \/ Shift \/ UNCHANGED vars
  BY <1>1, <1>2, Untouched
     DEF AdmitProbe, AdmitCheck, Litter, Shift, vars, saved, history
<1> QED
  BY <1>1, <1>2, BeginKeeps, SaveKeeps, ProbeKeeps, EndTurnKeeps, CrashKeeps DEF Next, Runner

------------------------------------------------------------------------------
(* Theorems *)

\* The one-hour interval is earned: when runnerState.turn lets the runner idle,
\* every owner's last turn since it was last idle was clean and drained, and if
\* it met pressure, a whole cycle of normal readings and the reading before it
\* have followed, whatever reads, saves, probes and processes failed meanwhile.
THEOREM IdlingIsEarned == Spec => []IdleIsEarned
<1>1. IInv => IdleIsEarned
  BY DEF IInv
<1> QED BY InitIInv, Inductive, <1>1, PTL DEF Spec

\* The runner's recovery flag remembers pressure exactly: it is set while, and
\* only while, the runner has met pressure that it has not idled after.
THEOREM RecoveryIsExact == Spec => [](TypeOK /\ RecoveryIsPressure)
<1>1. IInv => TypeOK /\ RecoveryIsPressure
  BY DEF IInv
<1> QED BY InitIInv, Inductive, <1>1, PTL DEF Spec

------------------------------------------------------------------------------
(* The login limiter *)

\* The inductive invariant.  The bound needs the exact count of reservations,
\* and the count needs that a swept or deleted key has nothing in flight.
LimiterInv == LimiterTypeOK /\ ReservationsCounted /\ WithinBudget /\ TableBounded

------------------------------------------------------------------------------
(* Counting reservations *)

\* The parameters are positive numbers.
LEMMA ConstantsArePositive ==
    /\ Max \in Nat /\ Max > 0 /\ Window \in Nat /\ Window > 0
    /\ MaxEntries \in Nat /\ MaxEntries > 0
  BY LimiterAssumption

\* Reservations of one key are finitely many.
LEMMA FlyingFinite ==
    \A k : IsFiniteSet(Flying(k)) /\ Cardinality(Flying(k)) \in Nat
  <1> TAKE k
  <1>1. Flying(k) \in SUBSET Requests
    BY DEF Flying
  <1> QED
    BY <1>1, LimiterAssumption, FS_Subset, FS_CardinalityType

\* A new reservation of k adds one to k and nothing to another key.
LEMMA ReservationAdds ==
    ASSUME LimiterTypeOK, NEW r \in Requests, NEW k \in Keys, step[r] = "idle",
           step' = [step EXCEPT ![r] = "reserved"], key' = [key EXCEPT ![r] = k]
    PROVE  \A e \in Keys : Cardinality(Flying(e)') =
             IF e = k THEN Cardinality(Flying(e)) + 1 ELSE Cardinality(Flying(e))
  <1> TAKE e \in Keys
  <1>1. CASE e = k
    <2>1. Flying(e)' = Flying(e) \cup {r} /\ r \notin Flying(e)
      BY <1>1 DEF Flying, Active, LimiterTypeOK
    <2> QED
      BY <1>1, <2>1, FlyingFinite, FS_AddElement
  <1>2. CASE e # k
    <2>1. Flying(e)' = Flying(e)
      BY <1>2 DEF Flying, Active, LimiterTypeOK
    <2> QED
      BY <1>2, <2>1
  <1> QED
    BY <1>1, <1>2

\* The end of a reservation takes one from its key and nothing from another.
LEMMA EndRemoves ==
    ASSUME LimiterTypeOK, NEW r \in Requests, Active(r),
           step' = [step EXCEPT ![r] = "idle"], key' = key
    PROVE  /\ Cardinality(Flying(key[r])) > 0
           /\ \A e \in Keys : Cardinality(Flying(e)') =
                IF e = key[r] THEN Cardinality(Flying(e)) - 1 ELSE Cardinality(Flying(e))
  <1>1. /\ Flying(key[r])' = Flying(key[r]) \ {r}
        /\ r \in Flying(key[r])
    BY DEF Flying, Active, LimiterTypeOK
  <1>2. Cardinality(Flying(key[r])') = Cardinality(Flying(key[r])) - 1
    BY <1>1, FlyingFinite, FS_RemoveElement
  <1>3. Cardinality(Flying(key[r])) > 0
    BY <1>1, FlyingFinite, FS_EmptySet
  <1>4. ASSUME NEW e \in Keys, e # key[r] PROVE Flying(e)' = Flying(e)
    BY <1>4 DEF Flying, Active, LimiterTypeOK
  <1> QED
    BY <1>2, <1>3, <1>4

\* Nothing changes while the handler keeps its reservation.
LEMMA StepKeeps ==
    ASSUME LimiterTypeOK, NEW r \in Requests, Active(r), NEW s, s # "idle",
           step' = [step EXCEPT ![r] = s], key' = key
    PROVE  \A e : Flying(e)' = Flying(e)
  BY DEF Flying, Active, LimiterTypeOK

------------------------------------------------------------------------------
(* The invariant *)

\* It holds with an empty table.
LEMMA InitLimiter == LimiterInit => LimiterInv
  <1> SUFFICES ASSUME LimiterInit PROVE LimiterInv
    OBVIOUS
  <1>1. \A k : Flying(k) = {}
    BY DEF LimiterInit, Flying, Active
  <1>2. LimiterTypeOK
    BY ConstantsArePositive DEF LimiterInit, LimiterTypeOK
  <1>3. Cardinality({}) = 0
    BY FS_EmptySet
  <1>4. ReservationsCounted
    BY <1>1, <1>3 DEF LimiterInit, ReservationsCounted
  <1>5. WithinBudget /\ TableBounded
    BY <1>3, ConstantsArePositive DEF LimiterInit, WithinBudget, TableBounded
  <1> QED
    BY <1>2, <1>4, <1>5 DEF LimiterInv

\* The sweep takes only entries that count nothing.
LEMMA SweptIsIdle ==
    ASSUME LimiterInv, NEW k \in Keys
    PROVE  /\ Swept(k) \subseteq present
           /\ \A e \in Swept(k) : inFlight[e] = 0 /\ left[e] = 0
           /\ k \notin Swept(k)
           /\ IsFiniteSet(present \ Swept(k))
           /\ Cardinality(present \ Swept(k)) \in Nat
           /\ Cardinality(present \ Swept(k)) <= MaxEntries
  <1>1. /\ Swept(k) \subseteq present
        /\ \A e \in Swept(k) : inFlight[e] = 0 /\ left[e] = 0
        /\ k \notin Swept(k)
    BY DEF Swept, Stale, Expired
  <1>2. IsFiniteSet(present) /\ Cardinality(present) \in Nat
    <2>1. present \in SUBSET Keys
      BY DEF LimiterInv, LimiterTypeOK
    <2> QED
      BY <2>1, LimiterAssumption, FS_Subset, FS_CardinalityType
  <1>3. /\ IsFiniteSet(present \ Swept(k))
        /\ Cardinality(present \ Swept(k)) <= Cardinality(present)
    <2>1. present \ Swept(k) \in SUBSET present
      OBVIOUS
    <2> QED
      BY <1>2, <2>1, FS_Subset
  <1>4. Cardinality(present \ Swept(k)) \in Nat
    BY <1>3, FS_CardinalityType
  <1>5. Cardinality(present) <= MaxEntries
    BY DEF LimiterInv, TableBounded
  <1> QED
    BY <1>1, <1>2, <1>3, <1>4, <1>5, ConstantsArePositive

\* reserve, admitted: the bound holds because what is in flight counts against it.
LEMMA ReserveIInv ==
    ASSUME LimiterInv, NEW r \in Requests, NEW k \in Keys, Reserve(r, k)
    PROVE  LimiterInv'
  <1> DEFINE gone == Swept(k)
  <1> USE ConstantsArePositive
  <1>1. /\ gone \subseteq present /\ k \notin gone
        /\ \A e \in gone : inFlight[e] = 0 /\ left[e] = 0
        /\ IsFiniteSet(present \ gone)
        /\ Cardinality(present \ gone) \in Nat
        /\ Cardinality(present \ gone) <= MaxEntries
    BY SweptIsIdle
  <1>2. /\ step[r] = "idle" /\ Admissible(k)
        /\ present' = (present \ gone) \cup {k}
        /\ failures' = [Without(failures, gone) EXCEPT ![k] = Counted(k)]
        /\ inFlight' = [Without(inFlight, gone) EXCEPT ![k] = inFlight[k] + 1]
        /\ left' = [Without(left, gone) EXCEPT ![k] = IF Expired(k) THEN Window ELSE left[k]]
        /\ step' = [step EXCEPT ![r] = "reserved"]
        /\ key' = [key EXCEPT ![r] = k]
    BY DEF Reserve
  <1>3. k \in present \/ Cardinality(present \ gone) < MaxEntries
    BY <1>2 DEF Admissible, Roomy
  <1> HIDE DEF gone
  <1>4. /\ failures \in [Keys -> Nat] /\ inFlight \in [Keys -> Nat] /\ left \in [Keys -> 0 .. Window]
        /\ present \subseteq Keys
    BY DEF LimiterInv, LimiterTypeOK
  <1>5. Counted(k) \in Nat /\ Counted(k) + inFlight[k] < Max
    BY <1>2, <1>4 DEF Counted, Admissible
  <1>6. \A e \in Keys :
          /\ failures'[e] = IF e = k THEN Counted(k) ELSE IF e \in gone THEN 0 ELSE failures[e]
          /\ inFlight'[e] = IF e = k THEN inFlight[k] + 1 ELSE IF e \in gone THEN 0 ELSE inFlight[e]
    BY <1>2, <1>4 DEF Without
  <1>7. LimiterTypeOK'
    <2>1. failures' \in [Keys -> Nat]
      BY <1>2, <1>4, <1>5 DEF Without
    <2>2. inFlight' \in [Keys -> Nat]
      BY <1>2, <1>4 DEF Without
    <2>3. left' \in [Keys -> 0 .. Window]
      BY <1>2, <1>4 DEF Without
    <2>4. present' \subseteq Keys
      BY <1>2, <1>4
    <2>5. /\ step' \in [Requests -> {"idle", "reserved", "verify", "create"}]
          /\ key' \in [Requests -> Keys]
      BY <1>2 DEF LimiterInv, LimiterTypeOK
    <2> QED
      BY <2>1, <2>2, <2>3, <2>4, <2>5 DEF LimiterTypeOK
  <1>8. ReservationsCounted'
    <2>1. \A e \in Keys : Cardinality(Flying(e)') =
             IF e = k THEN Cardinality(Flying(e)) + 1 ELSE Cardinality(Flying(e))
      BY <1>2, ReservationAdds DEF LimiterInv
    <2>2. \A e \in Keys : inFlight[e] = Cardinality(Flying(e))
      BY DEF LimiterInv, ReservationsCounted
    <2>3. \A e \in Keys : inFlight'[e] = IF e = k THEN inFlight[k] + 1 ELSE inFlight[e]
      BY <1>1, <1>6
    <2> QED
      BY <2>1, <2>2, <2>3 DEF ReservationsCounted
  <1>9. WithinBudget'
    <2>1. ASSUME NEW e \in Keys PROVE failures'[e] + inFlight'[e] <= Max
      <3>1. failures[e] + inFlight[e] <= Max
        BY DEF LimiterInv, WithinBudget
      <3> QED
        BY <1>4, <1>5, <1>6, <3>1
    <2> QED
      BY <2>1 DEF WithinBudget
  <1>10. Cardinality(present') <= MaxEntries
    <2>1. CASE k \in present
      <3>1. present' = present \ gone
        BY <1>1, <1>2, <2>1
      <3> QED
        BY <1>1, <3>1
    <2>2. CASE k \notin present
      <3>1. Cardinality(present \ gone) < MaxEntries /\ k \notin present \ gone
        BY <1>3, <2>2
      <3>2. Cardinality(present') = Cardinality(present \ gone) + 1
        BY <1>1, <1>2, <3>1, FS_AddElement
      <3> QED
        BY <1>1, <3>1, <3>2
    <2> QED
      BY <2>1, <2>2
  <1>11. ASSUME NEW e \in Keys, e \notin present'
         PROVE  failures'[e] = 0 /\ inFlight'[e] = 0 /\ left'[e] = 0
    <2>1. e # k
      BY <1>2, <1>11
    <2>2. e \in gone \/ e \notin present
      BY <1>2, <1>11
    <2>3. e \notin present => failures[e] = 0 /\ inFlight[e] = 0 /\ left[e] = 0
      BY DEF LimiterInv, TableBounded
    <2> QED
      BY <1>2, <1>4, <2>1, <2>2, <2>3 DEF Without
  <1> QED
    BY <1>7, <1>8, <1>9, <1>10, <1>11 DEF LimiterInv, TableBounded

\* reserve, refused: only the sweep.
LEMMA RefuseIInv ==
    ASSUME LimiterInv, NEW k \in Keys, Refuse(k)
    PROVE  LimiterInv'
  <1> DEFINE gone == Swept(k)
  <1> USE ConstantsArePositive
  <1>1. /\ gone \subseteq present
        /\ \A e \in gone : inFlight[e] = 0 /\ left[e] = 0
        /\ Cardinality(present \ gone) <= MaxEntries
    BY SweptIsIdle
  <1>2. /\ present' = present \ gone
        /\ failures' = Without(failures, gone)
        /\ inFlight' = Without(inFlight, gone)
        /\ left' = Without(left, gone)
        /\ step' = step /\ key' = key
    BY DEF Refuse
  <1> HIDE DEF gone
  <1>3. /\ failures \in [Keys -> Nat] /\ inFlight \in [Keys -> Nat] /\ left \in [Keys -> 0 .. Window]
        /\ present \subseteq Keys
    BY DEF LimiterInv, LimiterTypeOK
  <1>4. LimiterTypeOK'
    <2>1. /\ failures' \in [Keys -> Nat] /\ inFlight' \in [Keys -> Nat]
          /\ left' \in [Keys -> 0 .. Window]
      BY <1>2, <1>3 DEF Without
    <2> QED
      BY <1>2, <1>3, <2>1 DEF LimiterInv, LimiterTypeOK
  <1>5. \A e : Flying(e)' = Flying(e)
    BY <1>2 DEF Flying, Active
  <1>6. \A e \in Keys : /\ inFlight'[e] = inFlight[e]
                        /\ failures'[e] = IF e \in gone THEN 0 ELSE failures[e]
    BY <1>1, <1>2 DEF Without
  <1>7. ReservationsCounted'
    BY <1>5, <1>6 DEF LimiterInv, ReservationsCounted
  <1>8. WithinBudget'
    <2>1. ASSUME NEW e \in Keys PROVE failures'[e] + inFlight'[e] <= Max
      <3>1. failures[e] + inFlight[e] <= Max
        BY DEF LimiterInv, WithinBudget
      <3> QED
        BY <1>3, <1>6, <3>1
    <2> QED
      BY <2>1 DEF WithinBudget
  <1>9. ASSUME NEW e \in Keys, e \notin present'
        PROVE  failures'[e] = 0 /\ inFlight'[e] = 0 /\ left'[e] = 0
    <2>1. e \in gone \/ e \notin present
      BY <1>2, <1>9
    <2>2. e \notin present => failures[e] = 0 /\ inFlight[e] = 0 /\ left[e] = 0
      BY DEF LimiterInv, TableBounded
    <2> QED
      BY <1>2, <2>1, <2>2 DEF Without
  <1> QED
    BY <1>1, <1>2, <1>4, <1>7, <1>8, <1>9 DEF LimiterInv, TableBounded

\* The key of an open reservation has an entry, and one is counted in it.
LEMMA OpenIsCounted ==
    ASSUME LimiterInv, NEW r \in Requests, Active(r)
    PROVE  /\ key[r] \in Keys /\ key[r] \in present
           /\ inFlight[key[r]] \in Nat /\ inFlight[key[r]] > 0
           /\ Landed(key[r]) = inFlight[key[r]] - 1
  <1>1. key[r] \in Keys /\ inFlight[key[r]] \in Nat
    BY DEF LimiterInv, LimiterTypeOK
  <1>2. r \in Flying(key[r])
    BY DEF Flying
  <1>3. Cardinality(Flying(key[r])) # 0
    BY <1>2, FlyingFinite, FS_EmptySet
  <1>4. inFlight[key[r]] > 0
    BY <1>1, <1>3 DEF LimiterInv, ReservationsCounted
  <1>5. key[r] \in present
    BY <1>1, <1>4 DEF LimiterInv, TableBounded
  <1> QED
    BY <1>1, <1>4, <1>5 DEF Landed

\* The end of a reservation: an entry is dropped only when nothing else is in
\* flight, and at most the attempt that ends becomes a failure.
LEMMA EndIInv ==
    ASSUME LimiterInv, NEW r \in Requests, Active(r),
           NEW kept \in BOOLEAN, NEW fails \in Nat, NEW time \in 0 .. Window,
           End(r, kept, fails, time),
           kept \/ Landed(key[r]) = 0,
           fails <= failures[key[r]] + 1
    PROVE  LimiterInv'
  <1> DEFINE k == key[r]
  <1> USE ConstantsArePositive
  <1>1. k \in Keys /\ k \in present /\ inFlight[k] \in Nat /\ inFlight[k] > 0
        /\ Landed(k) = inFlight[k] - 1
    BY OpenIsCounted
  <1>2. /\ step' = [step EXCEPT ![r] = "idle"]
        /\ present' = IF kept THEN present \cup {k} ELSE present \ {k}
        /\ failures' = [failures EXCEPT ![k] = IF kept THEN fails ELSE 0]
        /\ inFlight' = [inFlight EXCEPT ![k] = IF kept THEN Landed(k) ELSE 0]
        /\ left' = [left EXCEPT ![k] = IF kept THEN time ELSE 0]
        /\ key' = key
    BY DEF End
  <1>3. /\ failures \in [Keys -> Nat] /\ inFlight \in [Keys -> Nat] /\ left \in [Keys -> 0 .. Window]
        /\ present \subseteq Keys
    BY DEF LimiterInv, LimiterTypeOK
  <1>4. inFlight' = [inFlight EXCEPT ![k] = inFlight[k] - 1]
    BY <1>1, <1>2
  <1>5. LimiterTypeOK'
    <2>1. failures' \in [Keys -> Nat]
      BY <1>2, <1>3
    <2>2. inFlight' \in [Keys -> Nat]
      BY <1>1, <1>3, <1>4
    <2>3. left' \in [Keys -> 0 .. Window]
      <3>1. 0 \in 0 .. Window
        OBVIOUS
      <3>2. (IF kept THEN time ELSE 0) \in 0 .. Window
        BY <3>1
      <3> QED
        BY <1>2, <1>3, <3>2
    <2>4. present' \subseteq Keys
      BY <1>1, <1>2, <1>3
    <2>5. /\ step' \in [Requests -> {"idle", "reserved", "verify", "create"}]
          /\ key' \in [Requests -> Keys]
      BY <1>2 DEF LimiterInv, LimiterTypeOK
    <2> QED
      BY <2>1, <2>2, <2>3, <2>4, <2>5 DEF LimiterTypeOK
  <1>6. ReservationsCounted'
    <2>1. \A e \in Keys : Cardinality(Flying(e)') =
                IF e = k THEN Cardinality(Flying(e)) - 1 ELSE Cardinality(Flying(e))
      BY <1>2, EndRemoves DEF LimiterInv
    <2>2. \A e \in Keys : inFlight[e] = Cardinality(Flying(e))
      BY DEF LimiterInv, ReservationsCounted
    <2>3. \A e \in Keys : inFlight'[e] = IF e = k THEN inFlight[e] - 1 ELSE inFlight[e]
      BY <1>3, <1>4
    <2> QED
      BY <2>1, <2>2, <2>3 DEF ReservationsCounted
  <1>7. WithinBudget'
    <2>1. ASSUME NEW e \in Keys PROVE failures'[e] + inFlight'[e] <= Max
      <3>1. failures[e] + inFlight[e] <= Max
        BY DEF LimiterInv, WithinBudget
      <3>2. failures[e] \in Nat /\ inFlight[e] \in Nat
        BY <1>3
      <3>3. CASE e = k
        <4>1. failures'[e] = IF kept THEN fails ELSE 0
          BY <1>1, <1>2, <1>3, <3>3
        <4>2. inFlight'[e] = inFlight[e] - 1
          BY <1>1, <1>3, <1>4, <3>3
        <4>3. fails <= failures[e] + 1
          BY <3>3
        <4> QED
          BY <1>1, <3>1, <3>2, <3>3, <4>1, <4>2, <4>3
      <3>4. CASE e # k
        <4>1. failures'[e] = failures[e] /\ inFlight'[e] = inFlight[e]
          BY <1>2, <1>3, <1>4, <3>4
        <4> QED
          BY <3>1, <4>1
      <3> QED
        BY <3>3, <3>4
    <2> QED
      BY <2>1 DEF WithinBudget
  <1>8. Cardinality(present') <= MaxEntries
    <2>1. IsFiniteSet(present) /\ Cardinality(present) <= MaxEntries
      <3>1. present \in SUBSET Keys
        BY <1>3
      <3> QED
        BY <3>1, LimiterAssumption, FS_Subset DEF LimiterInv, TableBounded
    <2>2. present' \in SUBSET present
      BY <1>1, <1>2
    <2>3. /\ Cardinality(present') <= Cardinality(present)
          /\ Cardinality(present') \in Nat /\ Cardinality(present) \in Nat
      BY <2>1, <2>2, FS_Subset, FS_CardinalityType
    <2> QED
      BY <2>1, <2>3
  <1>9. ASSUME NEW e \in Keys, e \notin present'
        PROVE  failures'[e] = 0 /\ inFlight'[e] = 0 /\ left'[e] = 0
    <2>1. CASE e = k
      <3>1. kept = FALSE
        BY <1>2, <1>9, <2>1
      <3> QED
        BY <1>1, <1>2, <1>3, <2>1, <3>1
    <2>2. CASE e # k
      <3>1. e \notin present
        BY <1>2, <1>9, <2>2
      <3>2. failures[e] = 0 /\ inFlight[e] = 0 /\ left[e] = 0
        BY <3>1 DEF LimiterInv, TableBounded
      <3> QED
        BY <1>2, <1>3, <2>2, <3>2
    <2> QED
      BY <2>1, <2>2
  <1> QED
    BY <1>5, <1>6, <1>7, <1>8, <1>9 DEF LimiterInv, TableBounded

\* cancel, fail and success end a reservation that way.
LEMMA EndsIInv ==
    ASSUME LimiterInv, NEW r \in Requests, Ends(r)
    PROVE  LimiterInv'
  <1> DEFINE k == key[r]
  <1> USE ConstantsArePositive
  <1>1. Active(r)
    BY DEF Ends, Cancel, Fail, Success, Active
  <1>2. /\ failures[k] \in Nat /\ left[k] \in 0 .. Window
        /\ inFlight[k] \in Nat /\ Landed(k) = inFlight[k] - 1 /\ inFlight[k] > 0
    BY <1>1, OpenIsCounted DEF LimiterInv, LimiterTypeOK
  <1>3. CASE Cancel(r)
    <2>1. End(r, failures[k] > 0 \/ Landed(k) > 0, failures[k], left[k])
      BY <1>3 DEF Cancel
    <2>2. (failures[k] > 0 \/ Landed(k) > 0) \in BOOLEAN
      OBVIOUS
    <2>3. (failures[k] > 0 \/ Landed(k) > 0) \/ Landed(k) = 0
      BY <1>2
    <2>4. failures[k] <= failures[k] + 1
      BY <1>2
    <2> QED
      BY <1>1, <1>2, <2>1, <2>2, <2>3, <2>4, EndIInv
  <1>4. CASE Fail(r)
    <2>1. CASE left[k] = 0
      <3>1. End(r, TRUE, 1, Window)
        BY <1>4, <2>1 DEF Fail
      <3>2. 1 <= failures[k] + 1 /\ 1 \in Nat /\ Window \in 0 .. Window
        BY <1>2
      <3> QED
        BY <1>1, <3>1, <3>2, EndIInv
    <2>2. CASE left[k] # 0
      <3>1. End(r, TRUE, failures[k] + 1, left[k])
        BY <1>4, <2>2 DEF Fail
      <3>2. failures[k] + 1 <= failures[k] + 1 /\ failures[k] + 1 \in Nat
        BY <1>2
      <3> QED
        BY <1>1, <1>2, <3>1, <3>2, EndIInv
    <2> QED
      BY <2>1, <2>2
  <1>5. CASE Success(r)
    <2>1. End(r, Landed(k) > 0, 0, left[k])
      BY <1>5 DEF Success
    <2>2. (Landed(k) > 0) \in BOOLEAN /\ (Landed(k) > 0 \/ Landed(k) = 0)
      BY <1>2
    <2>3. 0 \in Nat /\ 0 <= failures[k] + 1
      BY <1>2
    <2> QED
      BY <1>1, <1>2, <2>1, <2>2, <2>3, EndIInv
  <1> QED
    BY <1>3, <1>4, <1>5 DEF Ends

\* Steps of the handler between the two, and the clock.
LEMMA QuietIInv ==
    ASSUME LimiterInv,
           \/ \E r \in Requests : AcquireArgon(r) \/ Hashed(r)
           \/ Tick
           \/ UNCHANGED limiterVars
    PROVE  LimiterInv'
  <1> USE ConstantsArePositive
  <1>1. ASSUME LimiterTypeOK', \A e : Flying(e)' = Flying(e), UNCHANGED <<present, failures, inFlight>>,
               \A e \in Keys : left[e] = 0 => left'[e] = 0
        PROVE  LimiterInv'
    <2>1. ReservationsCounted' /\ WithinBudget'
      BY <1>1 DEF LimiterInv, ReservationsCounted, WithinBudget
    <2>2. TableBounded'
      BY <1>1 DEF LimiterInv, TableBounded
    <2> QED
      BY <1>1, <2>1, <2>2 DEF LimiterInv
  <1>2. ASSUME NEW r \in Requests, AcquireArgon(r) \/ Hashed(r) PROVE LimiterInv'
    <2>1. PICK s \in {"verify", "create"} :
            step' = [step EXCEPT ![r] = s] /\ UNCHANGED <<entries, key>> /\ Active(r)
      BY <1>2 DEF AcquireArgon, Hashed, Active
    <2>2. LimiterTypeOK'
      BY <2>1 DEF LimiterInv, LimiterTypeOK, entries
    <2>3. \A e : Flying(e)' = Flying(e)
      BY <2>1, StepKeeps DEF LimiterInv
    <2> QED
      BY <1>1, <2>1, <2>2, <2>3 DEF entries
  <1>3. CASE Tick
    <2>1. left' = [e \in Keys |-> IF left[e] > 0 THEN left[e] - 1 ELSE 0]
          /\ UNCHANGED <<present, failures, inFlight, step, key>>
      BY <1>3 DEF Tick
    <2>2. left' \in [Keys -> 0 .. Window]
      BY <2>1 DEF LimiterInv, LimiterTypeOK
    <2>3. LimiterTypeOK'
      BY <2>1, <2>2 DEF LimiterInv, LimiterTypeOK
    <2>4. \A e : Flying(e)' = Flying(e)
      BY <2>1 DEF Flying, Active
    <2>5. \A e \in Keys : left[e] = 0 => left'[e] = 0
      BY <2>1
    <2> QED
      BY <1>1, <2>1, <2>3, <2>4, <2>5
  <1>4. CASE UNCHANGED limiterVars
    BY <1>1, <1>4 DEF limiterVars, entries, LimiterInv, LimiterTypeOK, Flying, Active
  <1> QED
    BY <1>2, <1>3, <1>4

\* Every step preserves the invariant.
LEMMA NextLimiter == LimiterInv /\ [LimiterNext]_limiterVars => LimiterInv'
  <1> SUFFICES ASSUME LimiterInv, [LimiterNext]_limiterVars PROVE LimiterInv'
    OBVIOUS
  <1> QED
    BY ReserveIInv, RefuseIInv, EndsIInv, QuietIInv DEF LimiterNext

\* The inductive invariant holds throughout.
THEOREM LimiterInductive == LimiterSpec => []LimiterInv
  BY InitLimiter, NextLimiter, PTL DEF LimiterSpec

------------------------------------------------------------------------------
(* The properties *)

\* Every reachable state is well typed.
THEOREM LimiterTypeCorrect == LimiterSpec => []LimiterTypeOK
  <1>1. LimiterInv => LimiterTypeOK
    BY DEF LimiterInv
  <1> QED
    BY <1>1, LimiterInductive, PTL

\* inFlight counts exactly the requests that hold a reservation, for any number
\* of clients and requests (reserve, cancel, fail and success of limiter.go).
THEOREM ReservationsAreCounted == LimiterSpec => []ReservationsCounted
  <1>1. LimiterInv => ReservationsCounted
    BY DEF LimiterInv
  <1> QED
    BY <1>1, LimiterInductive, PTL

\* A key never has more failures and attempts in flight than the limit, also
\* when its attempts outlive their window.
THEOREM BudgetIsKept == LimiterSpec => []WithinBudget
  <1>1. LimiterInv => WithinBudget
    BY DEF LimiterInv
  <1> QED
    BY <1>1, LimiterInductive, PTL

\* The table never grows past maxEntries, and a key outside it has no state.
THEOREM TableIsBounded == LimiterSpec => []TableBounded
  <1>1. LimiterInv => TableBounded
    BY DEF LimiterInv
  <1> QED
    BY <1>1, LimiterInductive, PTL

\* One step takes failures away only after the window or by a success of the key.
LEMMA FailuresStandStep ==
    ASSUME LimiterInv, [LimiterNext]_limiterVars, NEW k \in Keys, failures'[k] < failures[k]
    PROVE  left[k] = 0 \/ Succeeds(k)
  <1>1. /\ failures \in [Keys -> Nat] /\ left \in [Keys -> 0 .. Window]
        /\ key \in [Requests -> Keys]
    BY DEF LimiterInv, LimiterTypeOK
  <1>2. ~ (failures' = failures)
    BY <1>1
  <1>3. ASSUME NEW r \in Requests, NEW e \in Keys, Reserve(r, e) PROVE left[k] = 0
    <2>1. failures' = [Without(failures, Swept(e)) EXCEPT ![e] = Counted(e)]
      BY <1>3 DEF Reserve
    <2>2. \A x \in Swept(e) : left[x] = 0
      BY SweptIsIdle
    <2>3. CASE k = e
      <3>1. failures'[k] = Counted(k)
        BY <2>1, <2>3 DEF Without
      <3> QED
        BY <1>1, <3>1 DEF Counted, Expired
    <2>4. CASE k # e
      <3>1. failures'[k] = IF k \in Swept(e) THEN 0 ELSE failures[k]
        BY <2>1, <2>4 DEF Without
      <3> QED
        BY <1>1, <2>2, <3>1
    <2> QED
      BY <2>3, <2>4
  <1>4. ASSUME NEW e \in Keys, Refuse(e) PROVE left[k] = 0
    <2>1. failures'[k] = IF k \in Swept(e) THEN 0 ELSE failures[k]
      BY <1>4 DEF Refuse, Without
    <2>2. \A x \in Swept(e) : left[x] = 0
      BY SweptIsIdle
    <2> QED
      BY <1>1, <2>1, <2>2
  <1>5. ASSUME NEW r \in Requests, Ends(r), ~ Success(r) PROVE left[k] = 0
    <2>1. Cancel(r) \/ Fail(r)
      BY <1>5 DEF Ends
    <2>2. key[r] \in Keys /\ failures[key[r]] \in Nat
      BY <1>1
    <2>3. CASE Cancel(r)
      <3>1. failures' = [failures EXCEPT ![key[r]] =
              IF failures[key[r]] > 0 \/ Landed(key[r]) > 0 THEN failures[key[r]] ELSE 0]
        BY <2>3 DEF Cancel, End
      <3> QED
        BY <1>1, <2>2, <3>1
    <2>4. CASE Fail(r)
      <3>1. CASE left[key[r]] = 0
        <4>1. failures' = [failures EXCEPT ![key[r]] = 1]
          BY <2>4, <3>1 DEF Fail, End
        <4>2. key[r] = k
          BY <1>1, <2>2, <4>1
        <4> QED
          BY <3>1, <4>2
      <3>2. CASE left[key[r]] # 0
        <4>1. failures' = [failures EXCEPT ![key[r]] = failures[key[r]] + 1]
          BY <2>4, <3>2 DEF Fail, End
        <4> QED
          BY <1>1, <2>2, <4>1
      <3> QED
        BY <3>1, <3>2
    <2> QED
      BY <2>1, <2>3, <2>4
  <1>6. ASSUME NEW r \in Requests, Success(r) PROVE left[k] = 0 \/ Succeeds(k)
    <2>1. CASE key[r] = k
      BY <1>6, <2>1 DEF Succeeds
    <2>2. CASE key[r] # k
      <3>1. failures'[k] = failures[k]
        BY <1>1, <1>6, <2>2 DEF Success, End
      <3> QED
        BY <1>1, <3>1
    <2> QED
      BY <2>1, <2>2
  <1>7. ASSUME NEW r \in Requests, AcquireArgon(r) \/ Hashed(r) PROVE FALSE
    BY <1>2, <1>7 DEF AcquireArgon, Hashed, entries
  <1>8. ~ Tick /\ ~ UNCHANGED limiterVars
    BY <1>2 DEF Tick, limiterVars, entries
  <1> QED
    BY <1>3, <1>4, <1>5, <1>6, <1>7, <1>8 DEF LimiterNext, Ends

\* A failure stands until its window ends or a login of the same key succeeds,
\* whatever other keys do to the table (makeRoom).
THEOREM FailuresStandAlways == LimiterSpec => FailuresStand
  <1>1. LimiterInv /\ [LimiterNext]_limiterVars =>
          [\A k \in Keys : failures'[k] < failures[k] => left[k] = 0 \/ Succeeds(k)]_limiterVars
    BY FailuresStandStep
  <1> QED
    BY <1>1, LimiterInductive, PTL DEF LimiterSpec, FailuresStand

==============================================================================
