----------------------- MODULE DispatchAdmissionProofs -----------------------
(***************************************************************************)
(* What the controller counts is what the producers start, for any threads *)
(* of the producers, phases, limits, failures and crashes.                 *)
(*                                                                         *)
(* The argument has four layers.  IInv follows an admission: the gate is   *)
(* held by the thread whose request is on the wire, so an echoed admission *)
(* is that thread's and a token of the controller stands for it until the  *)
(* thread itself settles; the phase cannot end over a one-shot token.      *)
(* Chain follows the owner: an answer to a checkpoint or a close is the    *)
(* controller's own, so the plan goes on only with what really happened.   *)
(* Counting adds up: the count of the current phase is the number of       *)
(* commands tried in it and of those that are admitted and wait to start,  *)
(* and none waits once everybody has checkpointed or closed.  Smooth, in a *)
(* run without faults, is what both sides of a socket know of each other:  *)
(* a request is made only when the other side accepts it.                  *)
(***************************************************************************)
EXTENDS DispatchAdmission, FiniteSetTheorems, TLAPS

------------------------------------------------------------------------------
(* Types *)

\* The steps of a thread whose request is out, and whose command was admitted.
Asking == {"admit", "settle"}
Started == {"start", "running", "exited"}
Busy == Asking \cup Started

\* The state of a thread, a frame on the wire, a token of the controller, a handle
\* of a client, the controller's row of a producer and a client.
Threads == [step: {"idle", "parked", "acquire", "dead"} \cup Busy, ordinal: Nat, phase: Nat,
            persistent: BOOLEAN]
Frames == [op: {"none", "admit", "settle", "carry", "checkpoint", "close"}, phase: Nat,
           ordinal: Nat, persistent: BOOLEAN, echo: BOOLEAN]
Tokens == [ordinal: Nat, persistent: BOOLEAN, carried: BOOLEAN]
Helds == [ordinal: Nat, persistent: BOOLEAN, carried: BOOLEAN, pending: BOOLEAN]
Rows == [attached: BOOLEAN, closed: BOOLEAN, hardDeath: BOOLEAN, eof: BOOLEAN,
         checkpoint: Nat, ordinal: Nat, active: SUBSET Tokens]
Clients == [alive: BOOLEAN, err: BOOLEAN, closed: BOOLEAN, phase: Nat, ordinal: Nat,
            active: SUBSET Helds,
            paused: BOOLEAN, fenced: BOOLEAN, checkpoint: BOOLEAN]

\* The parts of the state the proofs depend on have their types.
Types ==
    /\ phase \in Nat \ {0}
    /\ ctl \in [Producers -> Rows]
    /\ cli \in [Producers -> Clients]
    /\ wire \in [Producers -> Frames]
    /\ gate = [p \in Producers |-> gate[p]]
    /\ work = [p \in Producers |-> work[p]]
    /\ \A p \in Producers : gate[p] \in Workers[p] \cup {"free", "control"}
                         /\ work[p] \in [Workers[p] -> Threads]

------------------------------------------------------------------------------
(* The life of one admission *)

\* The gate is held by the thread whose request is out.
GateHeld(p) == \A w \in Workers[p] : work[p][w].step \in Asking <=> gate[p] = w

\* The request on the wire is the holder's; one that was left behind is its
\* client's last.
OnWire(p) ==
    /\ wire[p].op # "none" /\ gate[p] = "free" => ~ Open(p)
    /\ gate[p] = "control" => wire[p].op \notin Asking
    /\ \A w \in Workers[p] : gate[p] = w /\ wire[p].op # "none" =>
         /\ wire[p].op = work[p][w].step /\ wire[p].ordinal = work[p][w].ordinal
         /\ wire[p].op = "admit" => /\ wire[p].phase = work[p][w].phase
                                    /\ wire[p].persistent = work[p][w].persistent

\* No command under way is one whose admission or settlement is still asked for.
AsksItsOwn(p) ==
    wire[p].op \in Asking /\ ~ wire[p].echo =>
        \A w \in Workers[p] : work[p][w].step \in Started => work[p][w].ordinal # wire[p].ordinal

\* Ordinals are not used twice.
OrdinalsDiffer(p) ==
    \A w \in Workers[p] : work[p][w].step \in Busy =>
        /\ work[p][w].ordinal <= cli[p].ordinal
        /\ \A v \in Workers[p] \ {w} :
             work[p][v].step \in Busy => work[p][v].ordinal # work[p][w].ordinal

\* An admission that was echoed, and what became of it.
Holding(p, w) == work[p][w].step \in Started \/ (gate[p] = w /\ Echoed(p, "admit"))

\* The controller has a token for it, and a one-shot command is of this phase.
Accounted(p) ==
    \A w \in Workers[p] : Holding(p, w) =>
        LET c == work[p][w] IN
        /\ \E t \in ctl[p].active : t.ordinal = c.ordinal /\ t.persistent = c.persistent
        /\ ~ c.persistent => c.phase = phase

\* A process that is gone runs nothing, one not yet launched has asked for nothing.
GoneIsQuiet(p) ==
    /\ ~ cli[p].alive => \A w \in Workers[p] : work[p][w].step \in {"idle", "dead"}
    /\ ~ ctl[p].attached => ~ cli[p].alive /\ wire[p].op = "none" /\ gate[p] = "free"

\* A checkpoint of the current phase leaves persistent commands only, a close none.
CheckpointClean(p) ==
    /\ ctl[p].checkpoint <= phase
    /\ ctl[p].checkpoint = phase => \A t \in ctl[p].active : t.persistent
    /\ ctl[p].closed /\ owner.step \notin {"done", "failed"} => ctl[p].active = {}

\* What holds of every producer.
Producing(p) ==
    /\ GateHeld(p) /\ OnWire(p) /\ AsksItsOwn(p) /\ OrdinalsDiffer(p)
    /\ Accounted(p) /\ GoneIsQuiet(p) /\ CheckpointClean(p)

\* The inductive invariant of admissions.
IInv == Types /\ \A p \in Producers : Producing(p)

\* The end of a run is final.
StaysEnded == owner.step \in {"done", "failed"} => owner'.step \in {"done", "failed"}

------------------------------------------------------------------------------
(* Facts the proofs keep needing *)

\* The gate's own values are no threads.
LEMMA GateNames == \A p \in Producers : "free" \notin Workers[p] /\ "control" \notin Workers[p]
  BY ConstantsAssumption

\* What writing one producer's frame does,
LEMMA WireFacts ==
    ASSUME Types, NEW p \in Producers, NEW f \in Frames, Send(p, f)
    PROVE  /\ wire' \in [Producers -> Frames] /\ wire'[p] = f
           /\ \A q \in Producers \ {p} : wire'[q] = wire[q]
  BY DEF Types, Send

\* ... its gate,
LEMMA GateFacts ==
    ASSUME Types, NEW p \in Producers, NEW h, Hold(p, h)
    PROVE  /\ gate' = [q \in Producers |-> gate'[q]] /\ gate'[p] = h
           /\ \A q \in Producers \ {p} : gate'[q] = gate[q]
  BY DEF Types, Hold

\* ... its client,
LEMMA ClientFacts ==
    ASSUME Types, NEW p \in Producers, NEW c \in Clients, cli' = [cli EXCEPT ![p] = c]
    PROVE  /\ cli' \in [Producers -> Clients] /\ cli'[p] = c
           /\ \A q \in Producers \ {p} : cli'[q] = cli[q]
  BY DEF Types

\* ... its row,
LEMMA RowFacts ==
    ASSUME Types, NEW p \in Producers, NEW r \in Rows, ctl' = [ctl EXCEPT ![p] = r]
    PROVE  /\ ctl' \in [Producers -> Rows] /\ ctl'[p] = r
           /\ \A q \in Producers \ {p} : ctl'[q] = ctl[q]
  BY DEF Types

\* ... and one of its threads.
LEMMA ThreadFacts ==
    ASSUME Types, NEW p \in Producers, NEW w \in Workers[p], NEW x \in Threads, Thread(p, w, x)
    PROVE  /\ work' = [q \in Producers |-> work'[q]] /\ work'[p] \in [Workers[p] -> Threads]
           /\ work'[p][w] = x /\ \A v \in Workers[p] \ {w} : work'[p][v] = work[p][v]
           /\ \A q \in Producers \ {p} : work'[q] = work[q]
  <1>1. work[p] \in [Workers[p] -> Threads] /\ work = [q \in Producers |-> work[q]]
    BY DEF Types
  <1>2. work' = [work EXCEPT ![p] = [work[p] EXCEPT ![w] = x]]
    BY DEF Thread
  <1>3. work' = [q \in Producers |-> work'[q]] /\ work'[p] = [work[p] EXCEPT ![w] = x]
        /\ \A q \in Producers \ {p} : work'[q] = work[q]
    BY <1>1, <1>2
  <1> QED
    BY <1>1, <1>3

\* A thread's next step leaves its command as it is.
LEMMA StepFacts ==
    ASSUME Types, NEW p \in Producers, NEW w \in Workers[p],
           NEW s \in {"idle", "parked", "acquire", "dead"} \cup Busy, Step(p, w, s)
    PROVE  \E x \in Threads :
              /\ Thread(p, w, x) /\ x.step = s /\ x.ordinal = work[p][w].ordinal
              /\ x.phase = work[p][w].phase /\ x.persistent = work[p][w].persistent
  <1> DEFINE x == [work[p][w] EXCEPT !.step = s]
  <1>1. work[p][w] \in Threads
    BY DEF Types
  <1>2. /\ x \in Threads /\ x.step = s /\ x.ordinal = work[p][w].ordinal
        /\ x.phase = work[p][w].phase /\ x.persistent = work[p][w].persistent
    BY <1>1 DEF Threads
  <1>3. Thread(p, w, x)
    BY DEF Step, Thread
  <1> QED
    BY <1>2, <1>3

\* A client that fails, or whose owner's flags change, keeps the rest.
LEMMA FailFacts ==
    ASSUME Types, NEW p \in Producers, Fail(p)
    PROVE  /\ cli' \in [Producers -> Clients] /\ cli'[p].alive = cli[p].alive
           /\ cli'[p].ordinal = cli[p].ordinal /\ ~ Open(p)'
           /\ \A q \in Producers \ {p} : cli'[q] = cli[q]
  <1> DEFINE c == [cli[p] EXCEPT !.err = TRUE]
  <1>1. cli[p] \in Clients
    BY DEF Types
  <1>2. c \in Clients /\ c.alive = cli[p].alive /\ c.ordinal = cli[p].ordinal /\ c.err = TRUE
    BY <1>1 DEF Clients
  <1>3. cli' = [cli EXCEPT ![p] = c]
    BY DEF Fail
  <1> HIDE DEF c
  <1>4. cli' \in [Producers -> Clients] /\ cli'[p] = c /\ \A q \in Producers \ {p} : cli'[q] = cli[q]
    BY <1>2, <1>3, ClientFacts
  <1> QED
    BY <1>2, <1>4 DEF Open

\* A step that leaves a producer's requests, threads and tokens alone keeps what is
\* known of it.
LEMMA SameRequests ==
    ASSUME NEW q \in Producers, Producing(q), phase' = phase, StaysEnded, phase \in Nat \ {0},
           wire'[q] = wire[q], gate'[q] = gate[q], work'[q] = work[q],
           cli'[q].alive = cli[q].alive, cli'[q].ordinal = cli[q].ordinal, Open(q)' => Open(q),
           ctl'[q].attached = ctl[q].attached, ctl'[q].active = ctl[q].active,
           ctl'[q].checkpoint \in {ctl[q].checkpoint, 0},
           ctl'[q].closed => ctl[q].closed \/ owner'.step = "done"
    PROVE  Producing(q)'
  <1>1. GateHeld(q)'
    BY DEF Producing, GateHeld
  <1>2. OnWire(q)' /\ AsksItsOwn(q)'
    BY DEF Producing, OnWire, AsksItsOwn
  <1>3. OrdinalsDiffer(q)'
    BY DEF Producing, OrdinalsDiffer
  <1>4. Accounted(q)'
    BY DEF Producing, Accounted, Holding, Echoed
  <1>5. GoneIsQuiet(q)'
    BY DEF Producing, GoneIsQuiet
  <1>6. CheckpointClean(q)'
    BY DEF Producing, CheckpointClean, StaysEnded
  <1> QED
    BY <1>1, <1>2, <1>3, <1>4, <1>5, <1>6 DEF Producing

\* What a step does to one producer leaves the others alone.
LEMMA OneProducer ==
    ASSUME IInv, NEW p \in Producers, Types', Producing(p)', phase' = phase, StaysEnded,
           \A q \in Producers \ {p} : /\ ctl'[q] = ctl[q] /\ cli'[q] = cli[q] /\ wire'[q] = wire[q]
                                      /\ gate'[q] = gate[q] /\ work'[q] = work[q]
    PROVE  IInv'
  <1>1. ASSUME NEW q \in Producers \ {p}
        PROVE  Producing(q)'
    <2>1. /\ ctl'[q] = ctl[q] /\ cli'[q] = cli[q] /\ wire'[q] = wire[q]
          /\ gate'[q] = gate[q] /\ work'[q] = work[q] /\ Producing(q) /\ phase \in Nat \ {0}
      BY <1>1 DEF IInv, Types
    <2>2. Open(q)' => Open(q)
      BY <2>1 DEF Open
    <2> QED
      BY <1>1, <2>1, <2>2, SameRequests
  <1> QED
    BY <1>1 DEF IInv

\* A thread that neither holds the gate nor begins to: it parks, waits, starts, ends or
\* gives up.
LEMMA ThreadMoves ==
    ASSUME IInv, NEW p \in Producers, NEW w \in Workers[p], NEW x \in Threads, Thread(p, w, x),
           work[p][w].step \notin Asking, x.step \notin Asking,
           x.step \in Started => /\ work[p][w].step \in Started /\ x.ordinal = work[p][w].ordinal
                                 /\ x.phase = work[p][w].phase
                                 /\ x.persistent = work[p][w].persistent,
           cli' \in [Producers -> Clients], \A q \in Producers \ {p} : cli'[q] = cli[q],
           cli'[p].alive, cli[p].alive, cli'[p].ordinal = cli[p].ordinal, Open(p)' => Open(p),
           UNCHANGED <<phase, ctl, wire, gate>>, StaysEnded
    PROVE  IInv'
  <1>1. /\ work' = [q \in Producers |-> work'[q]] /\ work'[p] \in [Workers[p] -> Threads]
        /\ work'[p][w] = x /\ \A v \in Workers[p] \ {w} : work'[p][v] = work[p][v]
        /\ \A q \in Producers \ {p} : work'[q] = work[q]
    BY ThreadFacts DEF IInv
  <1>2. Types'
    BY <1>1 DEF IInv, Types
  <1>3. Producing(p)
    BY DEF IInv
  <1>4. GateHeld(p)'
    BY <1>1, <1>3 DEF Producing, GateHeld
  <1>5. OnWire(p)'
    BY <1>1, <1>3 DEF Producing, OnWire, GateHeld
  <1>6. AsksItsOwn(p)'
    BY <1>1, <1>3 DEF Producing, AsksItsOwn
  <1>7. OrdinalsDiffer(p)'
    BY <1>1, <1>3 DEF Producing, OrdinalsDiffer, Busy
  <1>8. Accounted(p)'
    BY <1>1, <1>3 DEF Producing, Accounted, Holding, Echoed, GateHeld
  <1>9. GoneIsQuiet(p)' /\ CheckpointClean(p)'
    BY <1>1, <1>3 DEF Producing, GoneIsQuiet, CheckpointClean, StaysEnded
  <1>10. Producing(p)'
    BY <1>4, <1>5, <1>6, <1>7, <1>8, <1>9 DEF Producing
  <1> QED
    BY <1>1, <1>2, <1>10, OneProducer

\* A step that leaves all requests, threads and tokens alone keeps the invariant.
LEMMA Untouched ==
    ASSUME IInv, UNCHANGED <<phase, wire, gate, work>>, StaysEnded,
           cli' \in [Producers -> Clients], ctl' \in [Producers -> Rows],
           \A q \in Producers :
              /\ cli'[q].alive = cli[q].alive /\ cli'[q].ordinal = cli[q].ordinal
              /\ Open(q)' => Open(q)
              /\ ctl'[q].attached = ctl[q].attached /\ ctl'[q].active = ctl[q].active
              /\ ctl'[q].checkpoint \in {ctl[q].checkpoint, 0}
              /\ ctl'[q].closed => ctl[q].closed \/ owner'.step = "done"
    PROVE  IInv'
  <1>1. Types'
    BY DEF IInv, Types
  <1>2. ASSUME NEW q \in Producers
        PROVE  Producing(q)'
    <2>1. Producing(q) /\ phase \in Nat \ {0}
      BY DEF IInv, Types
    <2> QED
      BY <2>1, SameRequests
  <1> QED
    BY <1>1, <1>2 DEF IInv

\* ... so does one that changes one client's flags or fails it,
LEMMA ClientOnly ==
    ASSUME IInv, NEW p \in Producers, NEW c \in Clients, cli' = [cli EXCEPT ![p] = c],
           c.alive = cli[p].alive, c.ordinal = cli[p].ordinal,
           ~ c.err /\ ~ c.closed => ~ cli[p].err /\ ~ cli[p].closed,
           UNCHANGED <<phase, ctl, wire, gate, work, owner>>
    PROVE  IInv'
  <1>1. cli' \in [Producers -> Clients] /\ cli'[p] = c /\ \A q \in Producers \ {p} : cli'[q] = cli[q]
    BY ClientFacts DEF IInv
  <1>2. \A q \in Producers : /\ cli'[q].alive = cli[q].alive /\ cli'[q].ordinal = cli[q].ordinal
                             /\ Open(q)' => Open(q)
    BY <1>1 DEF Open
  <1>3. ctl' \in [Producers -> Rows]
    BY DEF IInv, Types
  <1> QED
    BY <1>1, <1>2, <1>3, Untouched DEF StaysEnded

\* ... and one of the owner alone.
LEMMA OwnerOnly ==
    ASSUME IInv, UNCHANGED <<phase, ctl, cli, wire, gate, work>>, StaysEnded
    PROVE  IInv'
  <1>1. /\ cli' \in [Producers -> Clients] /\ ctl' \in [Producers -> Rows]
        /\ \A q \in Producers : Open(q)' => Open(q)
    BY DEF IInv, Types, Open
  <1> QED
    BY <1>1, Untouched

------------------------------------------------------------------------------
(* The threads of a producer *)

\* Enter: a caller parks or goes for the gate.
LEMMA EnterKeeps ==
    ASSUME IInv, NEW p \in Producers, NEW w \in Workers[p], Enter(p, w)
    PROVE  IInv'
  <1>1. Types /\ StaysEnded /\ UNCHANGED <<phase, ctl, wire, gate, owner>> /\ cli[p].alive
    BY DEF IInv, Enter, admission, StaysEnded, Open
  <1>2. PICK persistent \in BOOLEAN :
          \/ /\ Thread(p, w, [Idle EXCEPT !.step = "acquire", !.persistent = persistent])
             /\ UNCHANGED cli
          \/ /\ Thread(p, w, [Idle EXCEPT !.step = "parked", !.persistent = persistent])
             /\ UNCHANGED cli
          \/ Fail(p) /\ UNCHANGED work
    BY DEF Enter
  <1>3. CASE Fail(p) /\ UNCHANGED work
    <2> DEFINE c == [cli[p] EXCEPT !.err = TRUE]
    <2>1. cli[p] \in Clients
      BY <1>1 DEF Types
    <2>2. c \in Clients /\ c.alive = cli[p].alive /\ c.ordinal = cli[p].ordinal /\ c.err
      BY <2>1 DEF Clients
    <2>3. cli' = [cli EXCEPT ![p] = c]
      BY <1>3 DEF Fail
    <2> HIDE DEF c
    <2> QED
      BY <1>1, <1>3, <2>2, <2>3, ClientOnly
  <1>4. ASSUME NEW s \in {"acquire", "parked"}, UNCHANGED cli,
               Thread(p, w, [Idle EXCEPT !.step = s, !.persistent = persistent])
        PROVE  IInv'
    <2> DEFINE x == [Idle EXCEPT !.step = s, !.persistent = persistent]
    <2>1. x \in Threads /\ x.step = s
      BY DEF Idle, Threads
    <2>2. work[p][w].step = "idle" /\ Thread(p, w, x)
      BY <1>4 DEF Enter
    <2> HIDE DEF x
    <2>3. cli' \in [Producers -> Clients] /\ (Open(p)' => Open(p))
      BY <1>1, <1>4 DEF Types, Open
    <2> QED
      BY <1>1, <1>4, <2>1, <2>2, <2>3, ThreadMoves DEF Asking, Started
  <1> QED
    BY <1>2, <1>3, <1>4

\* A step of a thread that changes no request and no client.
LEMMA ThreadOnly ==
    ASSUME IInv, NEW p \in Producers, NEW w \in Workers[p], NEW x \in Threads, Thread(p, w, x),
           work[p][w].step \notin Asking, x.step \notin Asking, cli[p].alive,
           x.step \in Started => /\ work[p][w].step \in Started /\ x.ordinal = work[p][w].ordinal
                                 /\ x.phase = work[p][w].phase
                                 /\ x.persistent = work[p][w].persistent,
           UNCHANGED <<phase, ctl, cli, wire, gate, owner>>
    PROVE  IInv'
  <1>1. cli' \in [Producers -> Clients] /\ (Open(p)' => Open(p)) /\ StaysEnded
    BY DEF IInv, Types, Open, StaysEnded
  <1> QED
    BY <1>1, ThreadMoves

\* A thread that has nothing to do holds no ordinal.
LEMMA IdleFacts == Idle \in Threads /\ Idle.step = "idle"
  BY DEF Idle, Threads

\* Unpark and CancelParked: a parked caller goes for the gate or gives up.
LEMMA UnparkKeeps ==
    ASSUME IInv, NEW p \in Producers, NEW w \in Workers[p], Unpark(p, w) \/ CancelParked(p, w)
    PROVE  IInv'
  <1>1. /\ UNCHANGED <<phase, ctl, cli, wire, gate, owner>> /\ cli[p].alive
        /\ work[p][w].step = "parked" /\ (Step(p, w, "acquire") \/ Thread(p, w, Idle))
    BY DEF Unpark, CancelParked, admission
  <1>2. CASE Thread(p, w, Idle)
    BY <1>1, <1>2, IdleFacts, ThreadOnly DEF Asking, Started
  <1>3. CASE Step(p, w, "acquire")
    <2>1. PICK x \in Threads : Thread(p, w, x) /\ x.step = "acquire"
      BY <1>3, StepFacts DEF IInv
    <2> QED
      BY <1>1, <2>1, ThreadOnly DEF Asking, Started
  <1> QED
    BY <1>1, <1>2, <1>3

\* Exit: the command ended; it still holds its token.
LEMMA ExitKeeps ==
    ASSUME IInv, NEW p \in Producers, NEW w \in Workers[p], Exit(p, w)
    PROVE  IInv'
  <1>1. /\ UNCHANGED <<phase, ctl, cli, wire, gate, owner>> /\ cli[p].alive
        /\ work[p][w].step = "running" /\ Step(p, w, "exited")
    BY DEF Exit, admission
  <1>2. PICK x \in Threads : /\ Thread(p, w, x) /\ x.step = "exited" /\ x.ordinal = work[p][w].ordinal
                             /\ x.phase = work[p][w].phase /\ x.persistent = work[p][w].persistent
    BY <1>1, StepFacts DEF IInv, Busy, Started
  <1> QED
    BY <1>1, <1>2, ThreadOnly DEF Asking, Started

\* A thread gives up and its client fails.
LEMMA GivesUpKeeps ==
    ASSUME IInv, NEW p \in Producers, NEW w \in Workers[p], Fail(p), Thread(p, w, Idle),
           work[p][w].step \notin Asking, cli[p].alive, UNCHANGED <<phase, ctl, wire, gate, owner>>
    PROVE  IInv'
  <1>1. /\ cli' \in [Producers -> Clients] /\ cli'[p].alive = cli[p].alive
        /\ cli'[p].ordinal = cli[p].ordinal /\ ~ Open(p)'
        /\ \A q \in Producers \ {p} : cli'[q] = cli[q]
    BY FailFacts DEF IInv
  <1> QED
    BY <1>1, IdleFacts, ThreadMoves DEF Asking, Started, StaysEnded

\* StartCanceled: the client fails; the admitted command never starts.
LEMMA StartCanceledKeeps ==
    ASSUME IInv, NEW p \in Producers, NEW w \in Workers[p], StartCanceled(p, w)
    PROVE  IInv'
  <1>1. /\ UNCHANGED <<phase, ctl, wire, gate, owner>> /\ cli[p].alive
        /\ work[p][w].step = "start" /\ Fail(p) /\ Thread(p, w, Idle)
    BY DEF StartCanceled, admission
  <1> QED
    BY <1>1, GivesUpKeeps DEF Asking

\* Start: the command runs or its start failed, with the token it was admitted by.
LEMMA StartKeeps ==
    ASSUME IInv, NEW p \in Producers, NEW w \in Workers[p], Start(p, w)
    PROVE  IInv'
  <1>1. PICK s \in {"running", "exited"} : Step(p, w, s)
    BY DEF Start
  <1>2. /\ UNCHANGED <<phase, ctl, wire, gate, owner>> /\ cli[p].alive /\ work[p][w].step = "start"
    BY DEF Start, admission
  <1>3. PICK x \in Threads : /\ Thread(p, w, x) /\ x.step = s /\ x.ordinal = work[p][w].ordinal
                             /\ x.phase = work[p][w].phase /\ x.persistent = work[p][w].persistent
    BY <1>1, StepFacts DEF IInv, Busy, Started
  <1> DEFINE held == {IF t.ordinal = work[p][w].ordinal THEN [t EXCEPT !.pending = FALSE] ELSE t
                        : t \in cli[p].active}
             c == [cli[p] EXCEPT !.active = held]
  <1>4. cli[p] \in Clients
    BY DEF IInv, Types
  <1>5. held \in SUBSET Helds
    BY <1>4 DEF Clients, Helds
  <1>6. cli' = [cli EXCEPT ![p] = c]
    BY DEF Start
  <1> HIDE DEF held
  <1>7. /\ c \in Clients /\ c.alive = cli[p].alive /\ c.ordinal = cli[p].ordinal
        /\ c.err = cli[p].err /\ c.closed = cli[p].closed
    BY <1>4, <1>5 DEF Clients
  <1> HIDE DEF c
  <1>8. cli' \in [Producers -> Clients] /\ cli'[p] = c /\ \A q \in Producers \ {p} : cli'[q] = cli[q]
    BY <1>6, <1>7, ClientFacts DEF IInv
  <1>9. /\ cli'[p].alive /\ cli[p].alive /\ cli'[p].ordinal = cli[p].ordinal
        /\ Open(p)' => Open(p)
    BY <1>2, <1>7, <1>8 DEF Open
  <1> QED
    BY <1>2, <1>3, <1>8, <1>9, ThreadMoves DEF Asking, Started, StaysEnded

\* Admit: the caller parks, fails, or takes the gate with a fresh ordinal and sends its
\* request.
LEMMA AdmitKeeps ==
    ASSUME IInv, NEW p \in Producers, NEW w \in Workers[p], Admit(p, w)
    PROVE  IInv'
  <1>1. /\ UNCHANGED <<phase, ctl, owner>> /\ cli[p].alive /\ work[p][w].step = "acquire"
        /\ gate[p] = "free" /\ StaysEnded
    BY DEF Admit, admission, StaysEnded
  <1>2. CASE Step(p, w, "parked") /\ UNCHANGED <<cli, gate, wire>>
    <2>1. PICK x \in Threads : Thread(p, w, x) /\ x.step = "parked"
      BY <1>2, StepFacts DEF IInv
    <2> QED
      BY <1>1, <1>2, <2>1, ThreadOnly DEF Asking, Started
  <1>3. CASE Fail(p) /\ Thread(p, w, Idle) /\ UNCHANGED <<gate, wire>>
    BY <1>1, <1>3, GivesUpKeeps DEF Asking
  <1> DEFINE n == cli[p].ordinal + 1
             x == [work[p][w] EXCEPT !.step = "admit", !.ordinal = n, !.phase = cli[p].phase]
             f == Frame("admit", cli[p].phase, n, work[p][w].persistent)
             c == [cli[p] EXCEPT !.ordinal = n, !.active = @ \cup {Held(n, work[p][w].persistent)}]
  <1>4. CASE /\ Open(p) /\ cli' = [cli EXCEPT ![p].ordinal = n,
                                              ![p].active = @ \cup {Held(n, work[p][w].persistent)}]
             /\ Thread(p, w, x) /\ Send(p, f) /\ Hold(p, w)
    <2>1. cli[p] \in Clients /\ work[p][w] \in Threads /\ Types /\ Producing(p)
      BY DEF IInv, Types
    <2>2. n \in Nat /\ n > cli[p].ordinal /\ cli[p].phase \in Nat /\ work[p][w].persistent \in BOOLEAN
      BY <2>1 DEF Clients, Threads
    <2>3. Held(n, work[p][w].persistent) \in Helds
      BY <2>2 DEF Held, Helds
    <2>4. cli' = [cli EXCEPT ![p] = c]
      BY <1>4
    <2>5. /\ x \in Threads /\ x.step = "admit" /\ x.ordinal = n /\ x.phase = cli[p].phase
          /\ x.persistent = work[p][w].persistent
      BY <2>1, <2>2 DEF Threads, Busy, Asking
    <2>6. /\ f \in Frames /\ f.op = "admit" /\ f.phase = cli[p].phase /\ f.ordinal = n
          /\ f.persistent = work[p][w].persistent /\ f.echo = FALSE
      BY <2>2 DEF Frame, Frames
    <2>7. /\ c \in Clients /\ c.alive = cli[p].alive /\ c.ordinal = n /\ c.err = cli[p].err
          /\ c.closed = cli[p].closed
      BY <2>1, <2>2, <2>3 DEF Clients
    <2> HIDE DEF x, f, c, n
    <2>8. /\ work' = [q \in Producers |-> work'[q]] /\ work'[p] \in [Workers[p] -> Threads]
          /\ work'[p][w] = x /\ \A v \in Workers[p] \ {w} : work'[p][v] = work[p][v]
          /\ \A q \in Producers \ {p} : work'[q] = work[q]
      BY <1>4, <2>1, <2>5, ThreadFacts
    <2>9. /\ wire' \in [Producers -> Frames] /\ wire'[p] = f
          /\ \A q \in Producers \ {p} : wire'[q] = wire[q]
      BY <1>4, <2>1, <2>6, WireFacts
    <2>10. /\ gate' = [q \in Producers |-> gate'[q]] /\ gate'[p] = w
           /\ \A q \in Producers \ {p} : gate'[q] = gate[q]
      BY <1>4, <2>1, GateFacts
    <2>11. /\ cli' \in [Producers -> Clients] /\ cli'[p] = c
           /\ \A q \in Producers \ {p} : cli'[q] = cli[q]
      BY <2>1, <2>4, <2>7, ClientFacts
    <2>12. Types'
      BY <1>1, <2>1, <2>8, <2>9, <2>10, <2>11 DEF Types
    <2>13. GateHeld(p)'
      BY <1>1, <2>1, <2>5, <2>8, <2>10, GateNames DEF Producing, GateHeld, Asking
    <2>14. OnWire(p)'
      BY <2>5, <2>6, <2>8, <2>9, <2>10, GateNames DEF OnWire
    <2>15. AsksItsOwn(p)'
      <3>1. \A v \in Workers[p] : work'[p][v].step \in Started =>
                v # w /\ work[p][v].step \in Started /\ work'[p][v].ordinal = work[p][v].ordinal
        BY <2>5, <2>8 DEF Started
      <3>2. \A v \in Workers[p] : work[p][v].step \in Started => work[p][v].ordinal <= cli[p].ordinal
        BY <2>1 DEF Producing, OrdinalsDiffer, Busy
      <3>3. \A v \in Workers[p] : work[p][v].ordinal \in Nat
        BY <2>1 DEF Types, Threads
      <3>4. cli[p].ordinal \in Nat
        BY <2>1 DEF Clients
      <3> QED
        BY <2>2, <2>6, <2>9, <3>1, <3>2, <3>3, <3>4 DEF AsksItsOwn
    <2>16. OrdinalsDiffer(p)'
      <3>1. \A v \in Workers[p] \ {w} : work'[p][v].step \in Busy => work'[p][v].ordinal <= cli[p].ordinal
        BY <2>1, <2>8 DEF Producing, OrdinalsDiffer
      <3>2. \A v \in Workers[p] \ {w} : work'[p][v].ordinal \in Nat
        BY <2>8 DEF Threads
      <3>3. cli'[p].ordinal = n /\ work'[p][w].ordinal = n /\ cli[p].ordinal \in Nat
        BY <2>1, <2>5, <2>7, <2>8, <2>11 DEF Clients
      <3>4. \A v \in Workers[p] \ {w} : work'[p][v].step \in Busy => work'[p][v].ordinal < n
        BY <2>2, <3>1, <3>2, <3>3
      <3>5. ASSUME NEW v \in Workers[p], work'[p][v].step \in Busy
            PROVE  /\ work'[p][v].ordinal <= cli'[p].ordinal
                   /\ \A u \in Workers[p] \ {v} :
                        work'[p][u].step \in Busy => work'[p][u].ordinal # work'[p][v].ordinal
        <4>1. CASE v = w
          BY <2>2, <3>2, <3>3, <3>4, <4>1
        <4>2. CASE v # w
          <5>1. work'[p][v].ordinal < n
            BY <3>4, <3>5, <4>2
          <5>2. \A u \in Workers[p] \ {v} : u # w =>
                    (work'[p][u].step \in Busy => work'[p][u].ordinal # work'[p][v].ordinal)
            BY <2>1, <2>8, <3>5, <4>2 DEF Producing, OrdinalsDiffer
          <5> QED
            BY <2>2, <3>2, <3>3, <4>2, <5>1, <5>2
        <4> QED
          BY <4>1, <4>2
      <3> QED
        BY <3>5 DEF OrdinalsDiffer
    <2>17. Accounted(p)'
      <3>1. ASSUME NEW v \in Workers[p], Holding(p, v)'
            PROVE  v # w /\ Holding(p, v)
        BY <3>1, <2>5, <2>6, <2>8, <2>9, <2>10 DEF Holding, Echoed, Started
      <3> QED
        BY <1>1, <2>1, <2>8, <3>1 DEF Producing, Accounted
    <2>18. GoneIsQuiet(p)'
      BY <1>1, <1>4, <2>1, <2>7, <2>11 DEF Producing, GoneIsQuiet
    <2>19. CheckpointClean(p)'
      BY <1>1, <2>1 DEF Producing, CheckpointClean, StaysEnded
    <2>20. Producing(p)'
      BY <2>13, <2>14, <2>15, <2>16, <2>17, <2>18, <2>19 DEF Producing
    <2> QED
      BY <1>1, <2>8, <2>9, <2>10, <2>11, <2>12, <2>20, OneProducer
  <1> QED
    BY <1>2, <1>3, <1>4 DEF Admit

\* Admitted: the echo came; the token it stands for is the controller's.
LEMMA AdmittedKeeps ==
    ASSUME IInv, NEW p \in Producers, NEW w \in Workers[p], Admitted(p, w)
    PROVE  IInv'
  <1>1. /\ UNCHANGED <<phase, ctl, cli, owner>> /\ Open(p) /\ gate[p] = w /\ Echoed(p, "admit")
        /\ StaysEnded /\ Step(p, w, "start") /\ Hold(p, "free") /\ Send(p, NoFrame)
    BY DEF Admitted, admission, StaysEnded
  <1>2. Types /\ Producing(p) /\ NoFrame \in Frames /\ NoFrame.op = "none" /\ NoFrame.echo = FALSE
    BY DEF IInv, NoFrame, Frames
  <1>3. PICK x \in Threads : /\ Thread(p, w, x) /\ x.step = "start" /\ x.ordinal = work[p][w].ordinal
                             /\ x.phase = work[p][w].phase /\ x.persistent = work[p][w].persistent
    BY <1>1, <1>2, StepFacts DEF Busy, Started
  <1>4. /\ work' = [q \in Producers |-> work'[q]] /\ work'[p] \in [Workers[p] -> Threads]
        /\ work'[p][w] = x /\ \A v \in Workers[p] \ {w} : work'[p][v] = work[p][v]
        /\ \A q \in Producers \ {p} : work'[q] = work[q]
    BY <1>2, <1>3, ThreadFacts
  <1>5. /\ wire' \in [Producers -> Frames] /\ wire'[p] = NoFrame
        /\ \A q \in Producers \ {p} : wire'[q] = wire[q]
    BY <1>1, <1>2, WireFacts
  <1>6. /\ gate' = [q \in Producers |-> gate'[q]] /\ gate'[p] = "free"
        /\ \A q \in Producers \ {p} : gate'[q] = gate[q]
    BY <1>1, <1>2, GateFacts
  <1>7. Types'
    BY <1>1, <1>2, <1>4, <1>5, <1>6 DEF Types
  <1>8. GateHeld(p)'
    BY <1>1, <1>2, <1>3, <1>4, <1>6, GateNames DEF Producing, GateHeld, Asking
  <1>9. OnWire(p)' /\ AsksItsOwn(p)'
    BY <1>2, <1>5, <1>6, GateNames DEF OnWire, AsksItsOwn, Asking
  <1>10. work[p][w].step = "admit"
    BY <1>1, <1>2 DEF Producing, OnWire, Echoed
  <1>11. OrdinalsDiffer(p)'
    BY <1>1, <1>2, <1>3, <1>4, <1>10 DEF Producing, OrdinalsDiffer, Busy, Asking, Started
  <1>12. Accounted(p)'
    <2>1. ASSUME NEW v \in Workers[p], Holding(p, v)'
          PROVE  Holding(p, v)
      BY <2>1, <1>1, <1>2, <1>4, <1>5 DEF Holding, Echoed
    <2> QED
      BY <1>1, <1>2, <1>3, <1>4, <2>1 DEF Producing, Accounted
  <1>13. GoneIsQuiet(p)' /\ CheckpointClean(p)'
    BY <1>1, <1>2 DEF Producing, GoneIsQuiet, CheckpointClean, StaysEnded, Open
  <1>14. Producing(p)'
    BY <1>8, <1>9, <1>11, <1>12, <1>13 DEF Producing
  <1> QED
    BY <1>1, <1>4, <1>5, <1>6, <1>7, <1>14, OneProducer

\* What changing the tokens of one client does.
LEMMA ActiveFacts ==
    ASSUME Types, NEW p \in Producers, NEW S \in SUBSET Helds, cli' = [cli EXCEPT ![p].active = S]
    PROVE  /\ cli' \in [Producers -> Clients] /\ cli'[p].alive = cli[p].alive
           /\ cli'[p].ordinal = cli[p].ordinal /\ (Open(p)' <=> Open(p))
           /\ \A q \in Producers \ {p} : cli'[q] = cli[q]
  <1> DEFINE c == [cli[p] EXCEPT !.active = S]
  <1>1. cli[p] \in Clients
    BY DEF Types
  <1>2. /\ c \in Clients /\ c.alive = cli[p].alive /\ c.ordinal = cli[p].ordinal
        /\ c.err = cli[p].err /\ c.closed = cli[p].closed
    BY <1>1 DEF Clients
  <1>3. cli' = [cli EXCEPT ![p] = c]
    OBVIOUS
  <1> HIDE DEF c
  <1>4. cli' \in [Producers -> Clients] /\ cli'[p] = c /\ \A q \in Producers \ {p} : cli'[q] = cli[q]
    BY <1>2, <1>3, ClientFacts
  <1> QED
    BY <1>2, <1>4 DEF Open

\* Drop changes nothing else.
LEMMA DropFacts ==
    ASSUME Types, NEW p \in Producers, NEW n, Drop(p, n)
    PROVE  /\ cli' \in [Producers -> Clients] /\ cli'[p].alive = cli[p].alive
           /\ cli'[p].ordinal = cli[p].ordinal /\ (Open(p)' <=> Open(p))
           /\ \A q \in Producers \ {p} : cli'[q] = cli[q]
  <1> DEFINE S == {t \in cli[p].active : t.ordinal # n}
  <1>1. S \in SUBSET Helds
    BY DEF Types, Clients
  <1>2. cli' = [cli EXCEPT ![p].active = S]
    BY DEF Drop
  <1> HIDE DEF S
  <1> QED
    BY <1>1, <1>2, ActiveFacts

\* Settle: the request names the thread's own ordinal; a failed client gives up.
LEMMA SettleKeeps ==
    ASSUME IInv, NEW p \in Producers, NEW w \in Workers[p], Settle(p, w)
    PROVE  IInv'
  <1>1. /\ UNCHANGED <<phase, ctl, owner>> /\ cli[p].alive /\ work[p][w].step = "exited" /\ StaysEnded
        /\ Types /\ Producing(p)
    BY DEF Settle, admission, StaysEnded, IInv
  <1>2. CASE ~ Open(p) /\ Drop(p, work[p][w].ordinal) /\ Thread(p, w, Idle) /\ UNCHANGED <<gate, wire>>
    <2>1. /\ cli' \in [Producers -> Clients] /\ cli'[p].alive = cli[p].alive
          /\ cli'[p].ordinal = cli[p].ordinal /\ (Open(p)' <=> Open(p))
          /\ \A q \in Producers \ {p} : cli'[q] = cli[q]
      BY <1>1, <1>2, DropFacts
    <2> QED
      BY <1>1, <1>2, <2>1, IdleFacts, ThreadMoves DEF Asking, Started
  <1>3. CASE Thread(p, w, Idle) /\ UNCHANGED <<cli, gate, wire>>
    BY <1>1, <1>3, IdleFacts, ThreadOnly DEF Asking, Started
  <1> DEFINE f == Frame("settle", cli[p].phase, work[p][w].ordinal, FALSE)
  <1>4. CASE /\ Open(p) /\ gate[p] = "free" /\ Send(p, f)
             /\ Hold(p, w) /\ Step(p, w, "settle") /\ UNCHANGED cli
    <2>1. cli[p].phase \in Nat /\ work[p][w].ordinal \in Nat
      BY <1>1 DEF Types, Clients, Threads
    <2>2. f \in Frames /\ f.op = "settle" /\ f.ordinal = work[p][w].ordinal /\ f.echo = FALSE
      BY <2>1 DEF Frame, Frames
    <2> HIDE DEF f
    <2>3. PICK x \in Threads : Thread(p, w, x) /\ x.step = "settle" /\ x.ordinal = work[p][w].ordinal
      BY <1>1, <1>4, StepFacts DEF Busy, Asking
    <2>4. /\ work' = [q \in Producers |-> work'[q]] /\ work'[p] \in [Workers[p] -> Threads]
          /\ work'[p][w] = x /\ \A v \in Workers[p] \ {w} : work'[p][v] = work[p][v]
          /\ \A q \in Producers \ {p} : work'[q] = work[q]
      BY <1>1, <2>3, ThreadFacts
    <2>5. /\ wire' \in [Producers -> Frames] /\ wire'[p] = f
          /\ \A q \in Producers \ {p} : wire'[q] = wire[q]
      BY <1>1, <1>4, <2>2, WireFacts
    <2>6. /\ gate' = [q \in Producers |-> gate'[q]] /\ gate'[p] = w
          /\ \A q \in Producers \ {p} : gate'[q] = gate[q]
      BY <1>1, <1>4, GateFacts
    <2>7. Types'
      BY <1>1, <1>4, <2>4, <2>5, <2>6 DEF Types
    <2>8. GateHeld(p)'
      BY <1>1, <1>4, <2>3, <2>4, <2>6, GateNames DEF Producing, GateHeld, Asking
    <2>9. OnWire(p)'
      BY <2>2, <2>3, <2>4, <2>5, <2>6, GateNames DEF OnWire
    <2>10. AsksItsOwn(p)'
      BY <1>1, <2>2, <2>3, <2>4, <2>5 DEF Producing, OrdinalsDiffer, AsksItsOwn, Busy, Started
    <2>11. OrdinalsDiffer(p)'
      BY <1>1, <1>4, <2>3, <2>4 DEF Producing, OrdinalsDiffer, Busy, Asking, Started
    <2>12. Accounted(p)'
      <3>1. ASSUME NEW v \in Workers[p], Holding(p, v)'
            PROVE  v # w /\ Holding(p, v)
        BY <3>1, <2>2, <2>3, <2>4, <2>5 DEF Holding, Echoed, Started
      <3> QED
        BY <1>1, <2>4, <3>1 DEF Producing, Accounted
    <2>13. GoneIsQuiet(p)' /\ CheckpointClean(p)'
      BY <1>1, <1>4 DEF Producing, GoneIsQuiet, CheckpointClean, StaysEnded
    <2>14. Producing(p)'
      BY <2>8, <2>9, <2>10, <2>11, <2>12, <2>13 DEF Producing
    <2> QED
      BY <1>1, <1>4, <2>4, <2>5, <2>6, <2>7, <2>14, OneProducer
  <1> QED
    BY <1>2, <1>3, <1>4 DEF Settle

\* A thread gives the gate back, with nothing new on the wire, and has nothing to do.
LEMMA GateReleased ==
    ASSUME IInv, NEW p \in Producers, NEW w \in Workers[p], gate[p] = w, Thread(p, w, Idle),
           Hold(p, "free"), NEW f \in Frames, Send(p, f),
           f.op # "none" => f = wire[p] /\ ~ Open(p)',
           cli' \in [Producers -> Clients], \A q \in Producers \ {p} : cli'[q] = cli[q],
           cli[p].alive, cli'[p].alive, cli'[p].ordinal = cli[p].ordinal,
           UNCHANGED <<phase, ctl, owner>>
    PROVE  IInv'
  <1>1. Types /\ Producing(p) /\ StaysEnded
    BY DEF IInv, StaysEnded
  <1>2. /\ work' = [q \in Producers |-> work'[q]] /\ work'[p] \in [Workers[p] -> Threads]
        /\ work'[p][w] = Idle /\ \A v \in Workers[p] \ {w} : work'[p][v] = work[p][v]
        /\ \A q \in Producers \ {p} : work'[q] = work[q]
    BY <1>1, IdleFacts, ThreadFacts
  <1>3. /\ wire' \in [Producers -> Frames] /\ wire'[p] = f
        /\ \A q \in Producers \ {p} : wire'[q] = wire[q]
    BY <1>1, WireFacts
  <1>4. /\ gate' = [q \in Producers |-> gate'[q]] /\ gate'[p] = "free"
        /\ \A q \in Producers \ {p} : gate'[q] = gate[q]
    BY <1>1, GateFacts
  <1>5. Types'
    BY <1>1, <1>2, <1>3, <1>4 DEF Types
  <1>6. GateHeld(p)'
    BY <1>1, <1>2, <1>4, IdleFacts, GateNames DEF Producing, GateHeld, Asking
  <1>7. OnWire(p)'
    BY <1>3, <1>4, GateNames DEF OnWire
  <1>8. AsksItsOwn(p)'
    BY <1>1, <1>2, <1>3, IdleFacts DEF Producing, AsksItsOwn, Asking, Started
  <1>9. OrdinalsDiffer(p)'
    BY <1>1, <1>2, IdleFacts DEF Producing, OrdinalsDiffer, Busy, Asking, Started
  <1>10. Accounted(p)'
    <2>1. ASSUME NEW v \in Workers[p], Holding(p, v)'
          PROVE  v # w /\ Holding(p, v)
      BY <2>1, <1>2, <1>4, IdleFacts, GateNames DEF Holding, Started
    <2> QED
      BY <1>1, <1>2, <2>1 DEF Producing, Accounted
  <1>11. GoneIsQuiet(p)' /\ CheckpointClean(p)'
    BY <1>1 DEF Producing, GoneIsQuiet, CheckpointClean, StaysEnded
  <1>12. Producing(p)'
    BY <1>6, <1>7, <1>8, <1>9, <1>10, <1>11 DEF Producing
  <1> QED
    BY <1>1, <1>2, <1>3, <1>4, <1>5, <1>12, OneProducer

\* The empty wire.
LEMMA NoFrameFacts == NoFrame \in Frames /\ NoFrame.op = "none" /\ NoFrame.echo = FALSE
  BY DEF NoFrame, Frames

\* Settled: the thread is done with its command.
LEMMA SettledKeeps ==
    ASSUME IInv, NEW p \in Producers, NEW w \in Workers[p], Settled(p, w)
    PROVE  IInv'
  <1>1. /\ UNCHANGED <<phase, ctl, owner>> /\ Open(p) /\ gate[p] = w /\ Drop(p, work[p][w].ordinal)
        /\ Thread(p, w, Idle) /\ Hold(p, "free") /\ Send(p, NoFrame) /\ Types
    BY DEF Settled, admission, IInv
  <1>2. /\ cli' \in [Producers -> Clients] /\ cli'[p].alive = cli[p].alive
        /\ cli'[p].ordinal = cli[p].ordinal /\ \A q \in Producers \ {p} : cli'[q] = cli[q]
    BY <1>1, DropFacts
  <1> QED
    BY <1>1, <1>2, NoFrameFacts, GateReleased DEF Open

\* The owner's call uses the gate: nothing of the threads is on the wire.
LEMMA ControlSends ==
    ASSUME IInv, NEW p \in Producers, gate[p] \in {"free", "control"},
           NEW h \in {"free", "control"}, gate' = [gate EXCEPT ![p] = h],
           NEW f \in Frames, wire' = [wire EXCEPT ![p] = f],
           f.op \notin Asking \/ (f = wire[p] /\ gate[p] = "control"), 
           h = "free" => f.op = "none" \/ ~ Open(p)',
           cli' \in [Producers -> Clients], \A q \in Producers \ {p} : cli'[q] = cli[q],
           cli'[p].alive = cli[p].alive, cli'[p].ordinal = cli[p].ordinal,
           ctl[p].attached, UNCHANGED <<phase, ctl, work, owner>>
    PROVE  IInv'
  <1>1. Types /\ Producing(p) /\ StaysEnded
    BY DEF IInv, StaysEnded
  <1>2. /\ wire' \in [Producers -> Frames] /\ wire'[p] = f
        /\ \A q \in Producers \ {p} : wire'[q] = wire[q]
    BY <1>1, WireFacts DEF Send
  <1>3. /\ gate' = [q \in Producers |-> gate'[q]] /\ gate'[p] = h
        /\ \A q \in Producers \ {p} : gate'[q] = gate[q]
    BY <1>1, GateFacts DEF Hold
  <1>4. Types'
    BY <1>1, <1>2, <1>3 DEF Types
  <1>5. GateHeld(p)'
    BY <1>1, <1>3, GateNames DEF Producing, GateHeld
  <1>6. f.op \notin Asking
    BY <1>1 DEF Producing, OnWire
  <1>7. OnWire(p)' /\ AsksItsOwn(p)'
    BY <1>2, <1>3, <1>6, GateNames DEF OnWire, AsksItsOwn, Asking
  <1>8. OrdinalsDiffer(p)'
    BY <1>1 DEF Producing, OrdinalsDiffer
  <1>9. Accounted(p)'
    BY <1>1, <1>2, <1>3, <1>6, GateNames DEF Producing, Accounted, Holding, Echoed, Asking
  <1>10. GoneIsQuiet(p)' /\ CheckpointClean(p)'
    BY <1>1 DEF Producing, GoneIsQuiet, CheckpointClean, StaysEnded
  <1>11. Producing(p)'
    BY <1>5, <1>7, <1>8, <1>9, <1>10 DEF Producing
  <1> QED
    BY <1>1, <1>2, <1>3, <1>4, <1>11, OneProducer

\* ExchangeFails: the client fails; a request already written may still be read.
LEMMA ExchangeFailsKeeps ==
    ASSUME IInv, NEW p \in Producers, ExchangeFails(p)
    PROVE  IInv'
  <1> DEFINE h == gate[p]
             settling == h # "control" /\ wire[p].op = "settle"
             S == {t \in cli[p].active : ~ (settling /\ t.ordinal = work[p][h].ordinal)}
             c == [cli[p] EXCEPT !.err = TRUE, !.active = S]
             f == wire[p]
  <1>1. /\ UNCHANGED <<phase, ctl, owner>> /\ cli[p].alive /\ gate[p] # "free" /\ Types /\ Producing(p)
        /\ Hold(p, "free") /\ Send(p, f)
        /\ work' = IF h = "control" THEN work ELSE [work EXCEPT ![p][h] = Idle]
    BY DEF ExchangeFails, admission, IInv, Send, Types
  <1>2. cli[p] \in Clients /\ wire[p] \in Frames /\ S \in SUBSET Helds
    BY <1>1 DEF Types, Clients
  <1>3. cli' = [cli EXCEPT ![p] = c]
    BY DEF ExchangeFails
  <1>4. c \in Clients /\ c.alive = cli[p].alive /\ c.ordinal = cli[p].ordinal /\ c.err
    BY <1>2 DEF Clients
  <1>5. f \in Frames /\ f = wire[p]
    BY <1>2
  <1> HIDE DEF c, f, S, settling
  <1>6. cli' \in [Producers -> Clients] /\ cli'[p] = c /\ \A q \in Producers \ {p} : cli'[q] = cli[q]
    BY <1>1, <1>3, <1>4, ClientFacts
  <1>7. ~ Open(p)' /\ cli[p].alive /\ cli'[p].alive /\ cli'[p].ordinal = cli[p].ordinal
    BY <1>1, <1>4, <1>6 DEF Open
  <1>8. CASE gate[p] = "control"
    <2>1. ctl[p].attached /\ wire[p].op \notin Asking
      BY <1>1, <1>7, <1>8 DEF Producing, GoneIsQuiet, OnWire
    <2>2. f.op \notin Asking
      BY <1>5, <2>1 DEF Asking
    <2>3. gate' = [gate EXCEPT ![p] = "free"] /\ wire' = [wire EXCEPT ![p] = f] /\ work' = work
      BY <1>1, <1>8 DEF Hold, Send
    <2> QED
      BY <1>1, <1>5, <1>6, <1>7, <1>8, <2>1, <2>2, <2>3, ControlSends
  <1>9. CASE gate[p] # "control"
    <2>1. gate[p] \in Workers[p]
      BY <1>1, <1>9 DEF Types
    <2>2. Thread(p, gate[p], Idle)
      BY <1>1, <1>9 DEF Thread
    <2> QED
      BY <1>1, <1>5, <1>6, <1>7, <2>1, <2>2, GateReleased
  <1> QED
    BY <1>8, <1>9

------------------------------------------------------------------------------
(* The owner's calls *)

\* Drained: the call takes the free gate of a client that works, so the wire is empty.
LEMMA DrainedKeeps ==
    ASSUME IInv, NEW p \in Producers, Drained(p)
    PROVE  IInv'
  <1>1. /\ UNCHANGED <<phase, ctl, cli, wire, work, owner>> /\ Open(p) /\ gate[p] = "free"
        /\ Hold(p, "control") /\ Types /\ Producing(p)
    BY DEF Drained, admission, IInv
  <1>2. wire[p].op = "none" /\ wire[p] \in Frames /\ ctl[p].attached
    BY <1>1 DEF Producing, OnWire, GoneIsQuiet, Types, Open
  <1>3. cli' \in [Producers -> Clients] /\ wire' = [wire EXCEPT ![p] = wire[p]]
    BY <1>1 DEF Types
  <1> QED
    BY <1>1, <1>2, <1>3, ControlSends DEF Hold, Asking

\* Carry, one token's request or its echo.
LEMMA CarryKeeps ==
    ASSUME IInv, NEW p \in Producers, Carry(p)
    PROVE  IInv'
  <1>1. /\ UNCHANGED <<phase, ctl, gate, work, owner>> /\ Open(p) /\ gate[p] = "control"
        /\ Types /\ Producing(p)
    BY DEF Carry, Rpc, admission, IInv
  <1>2. gate' = [gate EXCEPT ![p] = "control"] /\ ctl[p].attached
    BY <1>1 DEF Types, Producing, GoneIsQuiet, Open
  <1>3. PICK t \in cli[p].active :
          \/ Send(p, Frame("carry", cli[p].phase, t.ordinal, FALSE)) /\ UNCHANGED cli
          \/ /\ cli' = [cli EXCEPT ![p].active = (@ \ {t}) \cup {[t EXCEPT !.carried = TRUE]}]
             /\ Send(p, NoFrame)
    BY DEF Carry
  <1>4. t \in Helds /\ t.ordinal \in Nat /\ cli[p].phase \in Nat /\ cli[p].active \in SUBSET Helds
    BY <1>1 DEF Types, Clients, Helds
  <1>5. CASE Send(p, Frame("carry", cli[p].phase, t.ordinal, FALSE)) /\ UNCHANGED cli
    <2> DEFINE f == Frame("carry", cli[p].phase, t.ordinal, FALSE)
    <2>1. f \in Frames /\ f.op = "carry"
      BY <1>4 DEF Frame, Frames
    <2>2. wire' = [wire EXCEPT ![p] = f] /\ cli' \in [Producers -> Clients]
      BY <1>1, <1>5 DEF Send, Types
    <2> HIDE DEF f
    <2> QED
      BY <1>1, <1>2, <1>5, <2>1, <2>2, ControlSends DEF Asking
  <1>6. CASE /\ cli' = [cli EXCEPT ![p].active = (@ \ {t}) \cup {[t EXCEPT !.carried = TRUE]}]
             /\ Send(p, NoFrame)
    <2> DEFINE S == (cli[p].active \ {t}) \cup {[t EXCEPT !.carried = TRUE]}
    <2>1. [t EXCEPT !.carried = TRUE] \in Helds
      BY <1>4 DEF Helds
    <2>2. S \in SUBSET Helds
      BY <1>4, <2>1
    <2>3. cli' = [cli EXCEPT ![p].active = S]
      BY <1>6
    <2> HIDE DEF S
    <2>4. /\ cli' \in [Producers -> Clients] /\ cli'[p].alive = cli[p].alive
          /\ cli'[p].ordinal = cli[p].ordinal /\ \A q \in Producers \ {p} : cli'[q] = cli[q]
      BY <1>1, <2>2, <2>3, ActiveFacts
    <2>5. wire' = [wire EXCEPT ![p] = NoFrame]
      BY <1>6 DEF Send
    <2> QED
      BY <1>1, <1>2, <2>4, <2>5, NoFrameFacts, ControlSends DEF Asking
  <1> QED
    BY <1>3, <1>5, <1>6

\* Record: the checkpoint's or the close's request.
LEMMA RecordKeeps ==
    ASSUME IInv, NEW p \in Producers, Record(p)
    PROVE  IInv'
  <1> DEFINE f == Frame(IF Closing(p) THEN "close" ELSE "checkpoint", cli[p].phase,
                        cli[p].ordinal, FALSE)
  <1>1. /\ UNCHANGED <<phase, ctl, cli, gate, work, owner>> /\ Open(p) /\ gate[p] = "control"
        /\ Types /\ Producing(p) /\ wire' = [wire EXCEPT ![p] = f]
    BY DEF Record, Rpc, admission, IInv, Send
  <1>2. /\ gate' = [gate EXCEPT ![p] = "control"] /\ ctl[p].attached
        /\ cli' \in [Producers -> Clients] /\ cli[p].phase \in Nat /\ cli[p].ordinal \in Nat
    BY <1>1 DEF Types, Clients, Producing, GoneIsQuiet, Open
  <1>3. f \in Frames /\ f.op \in {"checkpoint", "close"}
    BY <1>2 DEF Frame, Frames
  <1> HIDE DEF f
  <1> QED
    BY <1>1, <1>2, <1>3, ControlSends DEF Asking

\* Recorded: the call gives the gate back.
LEMMA RecordedKeeps ==
    ASSUME IInv, NEW p \in Producers, Recorded(p)
    PROVE  IInv'
  <1> DEFINE c == [cli[p] EXCEPT !.checkpoint = TRUE, !.closed = Closing(p)]
  <1>1. /\ UNCHANGED <<phase, ctl, work, owner>> /\ Open(p) /\ gate[p] = "control"
        /\ Types /\ Producing(p) /\ wire' = [wire EXCEPT ![p] = NoFrame]
        /\ gate' = [gate EXCEPT ![p] = "free"] /\ cli' = [cli EXCEPT ![p] = c]
    BY DEF Recorded, Rpc, admission, IInv, Send, Hold
  <1>2. cli[p] \in Clients /\ Closing(p) \in BOOLEAN /\ ctl[p].attached
    BY <1>1 DEF Types, Closing, Producing, GoneIsQuiet, Open
  <1>3. c \in Clients /\ c.alive = cli[p].alive /\ c.ordinal = cli[p].ordinal
    BY <1>2 DEF Clients
  <1> HIDE DEF c
  <1>4. cli' \in [Producers -> Clients] /\ cli'[p] = c /\ \A q \in Producers \ {p} : cli'[q] = cli[q]
    BY <1>1, <1>3, ClientFacts
  <1> QED
    BY <1>1, <1>2, <1>3, <1>4, NoFrameFacts, ControlSends DEF Asking

\* Pause, PauseDone, Fences, Resume and CallFails change flags of the client only.
LEMMA FlagsKeep ==
    ASSUME IInv, NEW p \in Producers,
           Pause(p) \/ PauseDone(p) \/ Fences(p) \/ Resume(p) \/ CallFails(p)
    PROVE  IInv'
  <1>1. UNCHANGED <<phase, ctl, wire, gate, work, owner>> /\ Types /\ cli[p] \in Clients /\ phase \in Nat
    BY DEF Pause, PauseDone, Fences, Resume, CallFails, admission, IInv, Types
  <1>2. CASE UNCHANGED cli
    BY <1>1, <1>2, OwnerOnly DEF StaysEnded
  <1> DEFINE failed1 == [cli[p] EXCEPT !.err = TRUE]
             paused1 == [cli[p] EXCEPT !.paused = TRUE]
             fenced1 == [cli[p] EXCEPT !.fenced = TRUE]
             refused1 == [cli[p] EXCEPT !.fenced = TRUE, !.err = TRUE]
             resumed1 == [cli[p] EXCEPT !.phase = phase, !.paused = FALSE, !.fenced = FALSE,
                                        !.checkpoint = FALSE]
             flags == {failed1, paused1, fenced1, refused1, resumed1}
  <1>3. UNCHANGED cli \/ \E c \in flags : cli' = [cli EXCEPT ![p] = c]
    BY DEF Pause, PauseDone, Fences, Resume, CallFails, Fail
  <1>4. \A c \in flags : /\ c \in Clients /\ c.alive = cli[p].alive /\ c.ordinal = cli[p].ordinal
                         /\ ~ c.err /\ ~ c.closed => ~ cli[p].err /\ ~ cli[p].closed
    BY <1>1 DEF Clients
  <1> HIDE DEF flags
  <1>5. CASE \E c \in flags : cli' = [cli EXCEPT ![p] = c]
    BY <1>1, <1>4, <1>5, ClientOnly
  <1> QED
    BY <1>2, <1>3, <1>5

------------------------------------------------------------------------------
(* The controller *)

\* What an accepted frame does to the producer's row.
LEMMA RowAfterFacts ==
    ASSUME Types, NEW p \in Producers, NEW f \in Frames, f.op # "none"
    PROVE  LET r == RowAfter(p, f)
           IN  /\ r \in Rows /\ r.attached = ctl[p].attached /\ r.hardDeath = ctl[p].hardDeath
               /\ r.ordinal = IF f.op = "admit" THEN ctl[p].ordinal + 1 ELSE ctl[p].ordinal
               /\ f.op \notin {"checkpoint", "close"} =>
                    r.checkpoint = ctl[p].checkpoint /\ r.closed = ctl[p].closed
               /\ f.op = "admit" => r.active = ctl[p].active \cup {Token(f.ordinal, f.persistent)}
               /\ f.op = "settle" => r.active = {t \in ctl[p].active : t.ordinal # f.ordinal}
               /\ f.op = "carry" =>
                    /\ \A t \in ctl[p].active : \E s \in r.active :
                         s.ordinal = t.ordinal /\ s.persistent = t.persistent
                    /\ \A s \in r.active : \E t \in ctl[p].active :
                         s.ordinal = t.ordinal /\ s.persistent = t.persistent
               /\ f.op \in {"checkpoint", "close"} =>
                    /\ r.active = ctl[p].active /\ r.checkpoint = f.phase
                    /\ r.closed = (f.op = "close")
  <1>1. /\ ctl[p] \in Rows /\ ctl[p].active \in SUBSET Tokens /\ ctl[p].ordinal \in Nat
        /\ f.op \in {"admit", "settle", "carry", "checkpoint", "close"}
        /\ f.phase \in Nat /\ f.ordinal \in Nat /\ f.persistent \in BOOLEAN
    BY DEF Types, Rows, Frames
  <1>2. CASE f.op = "admit"
    <2> DEFINE S == ctl[p].active \cup {Token(f.ordinal, f.persistent)}
               n == ctl[p].ordinal + 1
    <2>1. Token(f.ordinal, f.persistent) \in Tokens
      BY <1>1 DEF Token, Tokens
    <2>2. S \in SUBSET Tokens /\ n \in Nat
      BY <1>1, <2>1
    <2>3. RowAfter(p, f) = [ctl[p] EXCEPT !.ordinal = n, !.active = S]
      BY <1>2 DEF RowAfter
    <2> HIDE DEF S, n
    <2>4. /\ RowAfter(p, f) \in Rows /\ RowAfter(p, f).attached = ctl[p].attached
          /\ RowAfter(p, f).active = S /\ RowAfter(p, f).checkpoint = ctl[p].checkpoint
          /\ RowAfter(p, f).closed = ctl[p].closed /\ RowAfter(p, f).ordinal = n
          /\ RowAfter(p, f).hardDeath = ctl[p].hardDeath
      BY <1>1, <2>2, <2>3 DEF Rows
    <2> QED
      BY <1>2, <2>4 DEF S, n
  <1>3. CASE f.op = "settle"
    <2>1. RowAfter(p, f) = [ctl[p] EXCEPT !.active = {t \in ctl[p].active : t.ordinal # f.ordinal}]
      BY <1>3 DEF RowAfter
    <2> QED
      BY <1>1, <1>3, <2>1 DEF Rows
  <1>4. CASE f.op = "carry"
    <2> DEFINE Carried(t) == [t EXCEPT !.carried = @ \/ t.ordinal = f.ordinal]
               S == {Carried(t) : t \in ctl[p].active}
    <2>1. RowAfter(p, f) = [ctl[p] EXCEPT !.active = S]
      BY <1>4 DEF RowAfter
    <2>2. \A t \in ctl[p].active : /\ Carried(t) \in Tokens /\ Carried(t).ordinal = t.ordinal
                                   /\ Carried(t).persistent = t.persistent
      BY <1>1 DEF Tokens
    <2> HIDE DEF Carried
    <2>3. S \in SUBSET Tokens
      BY <2>2
    <2>4. /\ \A t \in ctl[p].active : \E s \in S : s.ordinal = t.ordinal /\ s.persistent = t.persistent
          /\ \A s \in S : \E t \in ctl[p].active : s.ordinal = t.ordinal /\ s.persistent = t.persistent
      BY <2>2
    <2> HIDE DEF S
    <2> QED
      BY <1>1, <1>4, <2>1, <2>3, <2>4 DEF Rows
  <1>5. CASE f.op \in {"checkpoint", "close"}
    <2> DEFINE ends == f.op = "close"
    <2>1. RowAfter(p, f) = [ctl[p] EXCEPT !.checkpoint = f.phase, !.closed = ends]
      BY <1>5 DEF RowAfter
    <2>2. ends \in BOOLEAN
      OBVIOUS
    <2> HIDE DEF ends
    <2>3. /\ RowAfter(p, f) \in Rows /\ RowAfter(p, f).attached = ctl[p].attached
          /\ RowAfter(p, f).active = ctl[p].active /\ RowAfter(p, f).checkpoint = f.phase
          /\ RowAfter(p, f).closed = ends /\ RowAfter(p, f).ordinal = ctl[p].ordinal
          /\ RowAfter(p, f).hardDeath = ctl[p].hardDeath
      BY <1>1, <2>1, <2>2 DEF Rows
    <2> QED
      BY <1>5, <2>3 DEF ends
  <1> QED
    BY <1>1, <1>2, <1>3, <1>4, <1>5

\* The frame on p's wire is accepted.
Accepted(p) == ~ ctl[p].hardDeath /\ Acceptable(p, wire[p])

\* What Accept does: an accepted frame changes the row as RowAfterFacts says, and its
\* echo is the same frame.
LEMMA AcceptFacts ==
    ASSUME IInv, NEW p \in Producers, Accept(p)
    PROVE  /\ UNCHANGED <<phase, cli, gate, work, call, owner, tried>>
           /\ wire[p] \in Frames /\ wire[p].op # "none" /\ ~ wire[p].echo
           /\ wire' \in [Producers -> Frames] /\ \A q \in Producers \ {p} : wire'[q] = wire[q]
           /\ wire'[p].op # "none" =>
                /\ Accepted(p) /\ Open(p) /\ wire'[p].op = wire[p].op /\ wire'[p].echo
                /\ wire'[p].ordinal = wire[p].ordinal /\ wire'[p].phase = wire[p].phase
                /\ wire'[p].persistent = wire[p].persistent
           /\ ctl' \in [Producers -> Rows] /\ \A q \in Producers \ {p} : ctl'[q] = ctl[q]
           /\ ctl'[p] = IF Accepted(p) THEN RowAfter(p, wire[p]) ELSE ctl[p]
           /\ counts' = IF Accepted(p) /\ wire[p].op = "admit"
                        THEN [counts EXCEPT ![phase] = @ + 1] ELSE counts
           /\ Accepted(p) =>
                /\ ~ ctl[p].closed /\ ~ ctl[p].hardDeath
                /\ wire[p].op # "settle" => wire[p].phase = phase
                /\ wire[p].op = "admit" =>
                     ctl[p].checkpoint # phase /\ wire[p].ordinal = ctl[p].ordinal + 1
                /\ wire[p].op = "checkpoint" => \A t \in ctl[p].active : t.persistent
                /\ wire[p].op = "close" => ctl[p].active = {}
  <1> DEFINE f == wire[p]
             r == RowAfter(p, f)
             g == IF Accepted(p) /\ Open(p) THEN [f EXCEPT !.echo = TRUE] ELSE NoFrame
  <1>1. /\ Types /\ UNCHANGED <<phase, cli, gate, work, call, owner, tried>> /\ f \in Frames
        /\ f.op # "none" /\ ~ f.echo /\ Send(p, g)
        /\ ctl' = (IF Accepted(p) THEN [ctl EXCEPT ![p] = r] ELSE ctl)
        /\ counts' = (IF Accepted(p) /\ f.op = "admit" THEN [counts EXCEPT ![phase] = @ + 1] ELSE counts)
    BY DEF Accept, Accepted, IInv, Types
  <1>2. /\ g \in Frames
        /\ g.op # "none" =>
             /\ Accepted(p) /\ Open(p) /\ g.op = f.op /\ g.ordinal = f.ordinal /\ g.phase = f.phase
             /\ g.persistent = f.persistent /\ g.echo
    BY <1>1, NoFrameFacts DEF Frames
  <1>3. /\ wire' \in [Producers -> Frames] /\ wire'[p] = g
        /\ \A q \in Producers \ {p} : wire'[q] = wire[q]
    BY <1>1, <1>2, WireFacts
  <1>4. r \in Rows
    BY <1>1, RowAfterFacts
  <1>5. /\ ctl' \in [Producers -> Rows] /\ ctl'[p] = (IF Accepted(p) THEN r ELSE ctl[p])
        /\ \A q \in Producers \ {p} : ctl'[q] = ctl[q]
    <2> HIDE DEF r
    <2>1. CASE Accepted(p)
      BY <1>1, <1>4, <2>1, RowFacts
    <2>2. CASE ~ Accepted(p)
      BY <1>1, <2>2 DEF Types
    <2> QED
      BY <2>1, <2>2
  <1>6. Accepted(p) => /\ ~ ctl[p].closed /\ ~ ctl[p].hardDeath
                       /\ f.op # "settle" => f.phase = phase
                       /\ f.op = "admit" =>
                            ctl[p].checkpoint # phase /\ f.ordinal = ctl[p].ordinal + 1
                       /\ f.op = "checkpoint" => \A t \in ctl[p].active : t.persistent
                       /\ f.op = "close" => ctl[p].active = {}
    BY DEF Accepted, Acceptable, FramePhase, MayAdmit, MayRecord
  <1> HIDE DEF r, g
  <1> QED
    BY <1>1, <1>2, <1>3, <1>5, <1>6 DEF r

\* Accept: an admission puts the token there that its command is accounted by, a
\* settlement takes away the one nobody runs under any more.
LEMMA AcceptKeeps ==
    ASSUME IInv, NEW p \in Producers, Accept(p)
    PROVE  IInv'
  <1> DEFINE f == wire[p]
             r == RowAfter(p, f)
             accepted == Accepted(p)
             g == wire'[p]
  <1>1. /\ Types /\ Producing(p) /\ UNCHANGED <<phase, cli, gate, work, owner>> /\ f \in Frames
        /\ f.op # "none" /\ ~ f.echo
    BY AcceptFacts DEF IInv
  <1>2. g.op # "none" =>
          /\ accepted /\ Open(p) /\ g.op = f.op /\ g.ordinal = f.ordinal /\ g.phase = f.phase
          /\ g.persistent = f.persistent /\ g.echo
    BY AcceptFacts
  <1>3. wire' \in [Producers -> Frames] /\ \A q \in Producers \ {p} : wire'[q] = wire[q]
    BY AcceptFacts
  <1>4. LET r0 == RowAfter(p, f)
        IN  /\ r0 \in Rows /\ r0.attached = ctl[p].attached
            /\ f.op \notin {"checkpoint", "close"} =>
                 r0.checkpoint = ctl[p].checkpoint /\ r0.closed = ctl[p].closed
            /\ f.op = "admit" => r0.active = ctl[p].active \cup {Token(f.ordinal, f.persistent)}
            /\ f.op = "settle" => r0.active = {t \in ctl[p].active : t.ordinal # f.ordinal}
            /\ f.op = "carry" =>
                 /\ \A t \in ctl[p].active : \E s \in r0.active :
                      s.ordinal = t.ordinal /\ s.persistent = t.persistent
                 /\ \A s \in r0.active : \E t \in ctl[p].active : s.persistent = t.persistent
            /\ f.op \in {"checkpoint", "close"} =>
                 /\ r0.active = ctl[p].active /\ r0.checkpoint = f.phase
                 /\ r0.closed = (f.op = "close")
    BY <1>1, RowAfterFacts
  <1>5. /\ ctl' \in [Producers -> Rows] /\ (accepted => ctl'[p] = r) /\ (~ accepted => ctl'[p] = ctl[p])
        /\ \A q \in Producers \ {p} : ctl'[q] = ctl[q]
    BY AcceptFacts
  <1>6. accepted => /\ ~ ctl[p].closed
                    /\ f.op # "settle" => f.phase = phase
                    /\ f.op = "admit" => ctl[p].checkpoint # phase
                    /\ f.op = "checkpoint" => \A t \in ctl[p].active : t.persistent
                    /\ f.op = "close" => ctl[p].active = {}
    BY AcceptFacts
  <1> HIDE DEF accepted, r
  <1>7. Types'
    BY <1>1, <1>3, <1>5 DEF Types
  <1>8. GateHeld(p)' /\ OrdinalsDiffer(p)'
    BY <1>1 DEF Producing, GateHeld, OrdinalsDiffer
  <1>9. OnWire(p)' /\ AsksItsOwn(p)'
    <2>1. CASE g.op = "none"
      BY <1>3, <2>1 DEF OnWire, AsksItsOwn, Asking
    <2>2. CASE g.op # "none"
      <3>1. AsksItsOwn(p)'
        BY <1>2, <1>3, <2>2 DEF AsksItsOwn
      <3>2. Open(p) <=> Open(p)'
        BY <1>1 DEF Open
      <3> QED
        BY <1>1, <1>2, <1>3, <2>2, <3>1, <3>2 DEF Producing, OnWire
    <2> QED
      BY <2>1, <2>2
  <1>10. ctl'[p].attached = ctl[p].attached /\ ctl[p].attached
    BY <1>1, <1>4, <1>5 DEF Producing, GoneIsQuiet, r
  <1>11. GoneIsQuiet(p)'
    BY <1>1, <1>10 DEF Producing, GoneIsQuiet
  <1>12. CheckpointClean(p)'
    <2>1. phase \in Nat /\ ctl[p].checkpoint \in Nat
      BY <1>1 DEF Types, Rows
    <2>2. f.op \in {"admit", "settle", "carry", "checkpoint", "close"}
      BY <1>1 DEF Frames
    <2>3. CASE ~ accepted
      BY <1>1, <1>5, <2>3 DEF Producing, CheckpointClean
    <2>4. CASE accepted /\ f.op = "admit"
      BY <1>1, <1>4, <1>5, <1>6, <2>4 DEF Producing, CheckpointClean, r
    <2>5. CASE accepted /\ f.op = "settle"
      BY <1>1, <1>4, <1>5, <1>6, <2>5 DEF Producing, CheckpointClean, r
    <2>6. CASE accepted /\ f.op = "carry"
      BY <1>1, <1>4, <1>5, <1>6, <2>6 DEF Producing, CheckpointClean, r
    <2>7. CASE accepted /\ f.op = "checkpoint"
      <3>1. ctl'[p].active = ctl[p].active /\ ctl'[p].checkpoint = phase /\ ~ ctl'[p].closed
        BY <1>4, <1>5, <1>6, <2>7 DEF r
      <3> QED
        BY <1>1, <1>6, <2>1, <2>7, <3>1 DEF CheckpointClean
    <2>8. CASE accepted /\ f.op = "close"
      <3>1. ctl'[p].active = {} /\ ctl'[p].checkpoint = phase
        BY <1>4, <1>5, <1>6, <2>8 DEF r
      <3> QED
        BY <1>1, <2>1, <3>1 DEF CheckpointClean
    <2> QED
      BY <2>2, <2>3, <2>4, <2>5, <2>6, <2>7, <2>8
  <1>13. Accounted(p)'
    <2> SUFFICES ASSUME NEW w \in Workers[p], Holding(p, w)'
                 PROVE  /\ \E t \in ctl'[p].active : /\ t.ordinal = work[p][w].ordinal
                                                     /\ t.persistent = work[p][w].persistent
                        /\ ~ work[p][w].persistent => work[p][w].phase = phase
      BY <1>1 DEF Accounted
    <2>1. CASE work[p][w].step \in Started
      <3>1. PICK t \in ctl[p].active : t.ordinal = work[p][w].ordinal /\ t.persistent = work[p][w].persistent
        BY <1>1, <2>1 DEF Producing, Accounted, Holding
      <3>2. ~ work[p][w].persistent => work[p][w].phase = phase
        BY <1>1, <2>1 DEF Producing, Accounted, Holding
      <3>3. f.op = "settle" => t.ordinal # f.ordinal
        BY <1>1, <2>1, <3>1 DEF Producing, AsksItsOwn, Asking
      <3>4. f.op \in {"admit", "settle", "carry", "checkpoint", "close"}
        BY <1>1 DEF Frames
      <3>5. \E s \in ctl'[p].active : s.ordinal = t.ordinal /\ s.persistent = t.persistent
        BY <1>4, <1>5, <3>3, <3>4 DEF r
      <3> QED
        BY <3>1, <3>2, <3>5
    <2>2. CASE work[p][w].step \notin Started
      <3>1. gate[p] = w /\ g.op = "admit"
        BY <1>1, <1>3, <2>2 DEF Holding, Echoed
      <3>2. accepted /\ f.op = "admit"
        BY <1>2, <3>1
      <3>3. /\ f.ordinal = work[p][w].ordinal /\ f.persistent = work[p][w].persistent
            /\ f.phase = work[p][w].phase
        BY <1>1, <3>1, <3>2 DEF Producing, OnWire
      <3>4. Token(f.ordinal, f.persistent) \in ctl'[p].active
        BY <1>4, <1>5, <3>2 DEF r
      <3>5. Token(f.ordinal, f.persistent).ordinal = f.ordinal
            /\ Token(f.ordinal, f.persistent).persistent = f.persistent
        BY DEF Token
      <3> QED
        BY <1>6, <3>2, <3>3, <3>4, <3>5
    <2> QED
      BY <2>1, <2>2
  <1>14. Producing(p)'
    BY <1>8, <1>9, <1>11, <1>12, <1>13 DEF Producing
  <1> QED
    BY <1>1, <1>3, <1>5, <1>7, <1>14, OneProducer DEF StaysEnded

\* EndStream notes the end of the stream in the row; an echo left unread goes with it.
LEMMA EndStreamKeeps ==
    ASSUME IInv, NEW p \in Producers, EndStream(p)
    PROVE  IInv'
  <1> DEFINE r == [ctl[p] EXCEPT !.eof = TRUE]
  <1>1. /\ Types /\ Producing(p) /\ ctl[p] \in Rows /\ UNCHANGED <<phase, cli, gate, work, owner>>
        /\ ctl' = [ctl EXCEPT ![p] = r] /\ Send(p, NoFrame)
    BY DEF EndStream, IInv, Types
  <1>2. r \in Rows /\ r.attached = ctl[p].attached /\ r.active = ctl[p].active
        /\ r.checkpoint = ctl[p].checkpoint /\ r.closed = ctl[p].closed
    BY <1>1 DEF Rows
  <1> HIDE DEF r
  <1>3. ctl' \in [Producers -> Rows] /\ ctl'[p] = r /\ \A q \in Producers \ {p} : ctl'[q] = ctl[q]
    BY <1>1, <1>2, RowFacts
  <1>4. /\ wire' \in [Producers -> Frames] /\ wire'[p].op = "none" /\ ~ wire'[p].echo
        /\ \A q \in Producers \ {p} : wire'[q] = wire[q]
    BY <1>1, NoFrameFacts, WireFacts
  <1>5. Types' /\ StaysEnded
    BY <1>1, <1>3, <1>4 DEF Types, StaysEnded
  <1>6. GateHeld(p)' /\ OnWire(p)' /\ AsksItsOwn(p)' /\ OrdinalsDiffer(p)'
    BY <1>1, <1>4 DEF Producing, GateHeld, OnWire, AsksItsOwn, OrdinalsDiffer, Asking
  <1>7. Accounted(p)'
    BY <1>1, <1>2, <1>3, <1>4 DEF Producing, Accounted, Holding, Echoed
  <1>8. GoneIsQuiet(p)' /\ CheckpointClean(p)'
    BY <1>1, <1>2, <1>3, <1>4 DEF Producing, GoneIsQuiet, CheckpointClean
  <1>9. Producing(p)'
    BY <1>6, <1>7, <1>8 DEF Producing
  <1> QED
    BY <1>1, <1>3, <1>4, <1>5, <1>9, OneProducer

\* StreamBreaks fails the controller and nothing else.
LEMMA StreamBreaksKeeps ==
    ASSUME IInv, NEW p \in Producers, StreamBreaks(p)
    PROVE  IInv'
  BY OwnerOnly DEF StreamBreaks, StaysEnded

------------------------------------------------------------------------------
(* The owner *)

\* The owner's record has its shape, and the owner pauses its producers for a plan.
OwnerShape ==
    /\ owner \in [plan: {"none", "advance", "restart", "end"}, todo: SUBSET Producers,
                 step: {"run", "pause", "checkpoint", "close", "resume", "kill", "wait", "launch",
                        "done", "failed"}]
    /\ owner.step = "pause" => owner.plan # "none"

\* Begin, Call, Return, Fence and Resumed: the owner and its calls alone.
LEMMA OwnerCallsKeep ==
    ASSUME IInv, Begin \/ Call \/ Fence \/ Resumed \/ \E p \in Producers : Return(p)
    PROVE  IInv'
  <1>1. CASE Begin \/ Resumed
    <2>1. UNCHANGED <<phase, ctl, cli, wire, gate, work>> /\ owner.step \notin {"done", "failed"}
      BY <1>1 DEF Begin, Resumed, admission, At, Called
    <2> QED
      BY <2>1, OwnerOnly DEF StaysEnded
  <1>2. CASE Call
    <2>1. UNCHANGED <<phase, ctl, cli, wire, gate, work, owner>>
      BY <1>2 DEF Call, admission
    <2> QED
      BY <2>1, OwnerOnly DEF StaysEnded
  <1>3. CASE Fence
    <2>1. UNCHANGED <<phase, ctl, cli, wire, gate, work>> /\ owner.step \notin {"done", "failed"}
      BY <1>3 DEF Fence, admission, At, Called
    <2> QED
      BY <2>1, OwnerOnly DEF StaysEnded
  <1>4. ASSUME NEW p \in Producers, Return(p)
        PROVE  IInv'
    <2>1. UNCHANGED <<phase, ctl, cli, wire, gate, work>>
          /\ owner' = (IF call[p] = "done" THEN [owner EXCEPT !.todo = @ \ {p}]
                                           ELSE [owner EXCEPT !.step = "failed"])
      BY <1>4 DEF Return, admission
    <2>2. StaysEnded
      BY <2>1 DEF StaysEnded
    <2> QED
      BY <2>1, <2>2, OwnerOnly
  <1> QED
    BY <1>1, <1>2, <1>3, <1>4

\* A step that changes one row and the owner, but neither attaches, closes nor
\* accounts for anything, keeps the invariant; so does one that ends the run.
LEMMA RowOnly ==
    ASSUME IInv, NEW p \in Producers, NEW r \in Rows, ctl' = [ctl EXCEPT ![p] = r],
           r.attached = ctl[p].attached, r.active = ctl[p].active,
           r.checkpoint \in {ctl[p].checkpoint, 0},
           r.closed => ctl[p].closed \/ owner'.step = "done",
           UNCHANGED <<phase, wire, gate, work>>, StaysEnded,
           cli' \in [Producers -> Clients],
           \A q \in Producers : /\ cli'[q].alive = cli[q].alive /\ cli'[q].ordinal = cli[q].ordinal
                                /\ Open(q)' => Open(q)
    PROVE  IInv'
  <1>1. ctl' \in [Producers -> Rows] /\ ctl'[p] = r /\ \A q \in Producers \ {p} : ctl'[q] = ctl[q]
    BY RowFacts DEF IInv
  <1>2. \A q \in Producers :
          /\ ctl'[q].attached = ctl[q].attached /\ ctl'[q].active = ctl[q].active
          /\ ctl'[q].checkpoint \in {ctl[q].checkpoint, 0}
          /\ ctl'[q].closed => ctl[q].closed \/ owner'.step = "done"
    BY <1>1
  <1> QED
    BY <1>1, <1>2, Untouched

\* ExpectHardDeath only notes that the child will die.
LEMMA ExpectHardDeathKeeps ==
    ASSUME IInv, ExpectHardDeath
    PROVE  IInv'
  <1> DEFINE r == [ctl[Child] EXCEPT !.hardDeath = TRUE]
  <1>1. /\ Child \in Producers /\ ctl[Child] \in Rows /\ ctl' = [ctl EXCEPT ![Child] = r]
        /\ UNCHANGED <<phase, cli, wire, gate, work>> /\ StaysEnded
    BY DEF ExpectHardDeath, IInv, Types, Producers, Called, At, StaysEnded
  <1>2. r \in Rows /\ r.attached = ctl[Child].attached /\ r.active = ctl[Child].active
        /\ r.checkpoint = ctl[Child].checkpoint /\ r.closed = ctl[Child].closed
    BY <1>1 DEF Rows
  <1> HIDE DEF r
  <1>3. cli' \in [Producers -> Clients] /\ \A q \in Producers : Open(q)' => Open(q)
    BY <1>1 DEF IInv, Types, Open
  <1> QED
    BY <1>1, <1>2, <1>3, RowOnly

\* CancelUnused closes the producer that was never launched, and ends the run.
LEMMA CancelUnusedKeeps ==
    ASSUME IInv, OwnerShape, CancelUnused
    PROVE  IInv'
  <1> DEFINE r == [ctl[Successor] EXCEPT !.closed = TRUE]
  <1>1. /\ Successor \in Producers /\ ctl[Successor] \in Rows /\ ctl' = [ctl EXCEPT ![Successor] = r]
        /\ UNCHANGED <<phase, cli, wire, gate, work>> /\ owner.step \notin {"done", "failed"}
        /\ owner'.step = "done"
    BY DEF CancelUnused, IInv, Types, Producers, Called, At, Go, OwnerShape
  <1>2. r \in Rows /\ r.attached = ctl[Successor].attached /\ r.active = ctl[Successor].active
        /\ r.checkpoint = ctl[Successor].checkpoint
    BY <1>1 DEF Rows
  <1> HIDE DEF r
  <1>3. cli' \in [Producers -> Clients] /\ \A q \in Producers : Open(q)' => Open(q)
    BY <1>1 DEF IInv, Types, Open
  <1> QED
    BY <1>1, <1>2, <1>3, RowOnly DEF StaysEnded

\* What is done to the process of a producer that dies.
LEMMA DiesFacts ==
    ASSUME IInv, NEW p \in Producers, Dies(p)
    PROVE  /\ cli' \in [Producers -> Clients]
           /\ gate' = [q \in Producers |-> gate'[q]] /\ work' = [q \in Producers |-> work'[q]]
           /\ ~ cli'[p].alive /\ gate'[p] = "free" /\ work'[p] \in [Workers[p] -> Threads]
           /\ \A w \in Workers[p] : work'[p][w].step = "dead"
           /\ \A q \in Producers \ {p} : /\ cli'[q] = cli[q] /\ gate'[q] = gate[q]
                                         /\ work'[q] = work[q]
  <1> DEFINE c == [cli[p] EXCEPT !.alive = FALSE]
             d == [w \in Workers[p] |-> [work[p][w] EXCEPT !.step = "dead"]]
  <1>1. /\ Types /\ cli[p] \in Clients /\ work[p] \in [Workers[p] -> Threads]
        /\ work = [q \in Producers |-> work[q]]
    BY DEF IInv, Types
  <1>2. /\ cli' = [cli EXCEPT ![p] = c] /\ Hold(p, "free")
        /\ work' = [work EXCEPT ![p] = d]
    BY <1>1 DEF Dies, Hold
  <1>3. c \in Clients /\ ~ c.alive
    BY <1>1 DEF Clients
  <1>5. \A w \in Workers[p] : d[w] \in Threads /\ d[w].step = "dead"
    <2> TAKE w \in Workers[p]
    <2>1. work[p][w] \in Threads
      BY <1>1
    <2> QED
      BY <2>1 DEF Threads
  <1>6. d \in [Workers[p] -> Threads]
    BY <1>5
  <1> HIDE DEF c, d
  <1>7. cli' \in [Producers -> Clients] /\ cli'[p] = c /\ \A q \in Producers \ {p} : cli'[q] = cli[q]
    BY <1>1, <1>2, <1>3, ClientFacts
  <1>9. /\ gate' = [q \in Producers |-> gate'[q]] /\ gate'[p] = "free"
        /\ \A q \in Producers \ {p} : gate'[q] = gate[q]
    BY <1>1, <1>2, GateFacts
  <1>10. /\ work' = [q \in Producers |-> work'[q]] /\ work'[p] = d
         /\ \A q \in Producers \ {p} : work'[q] = work[q]
    BY <1>1, <1>2
  <1> QED
    BY <1>3, <1>5, <1>6, <1>7, <1>9, <1>10

\* A process that died runs nothing: a request it left on the wire is its last, and
\* nobody waits for the echo.
LEMMA DiesKeeps ==
    ASSUME IInv, NEW p \in Producers, cli[p].alive, Dies(p), UNCHANGED <<phase, ctl, wire>>, StaysEnded
    PROVE  IInv'
  <1>1. /\ cli' \in [Producers -> Clients]
        /\ gate' = [q \in Producers |-> gate'[q]] /\ work' = [q \in Producers |-> work'[q]]
        /\ ~ cli'[p].alive /\ gate'[p] = "free" /\ work'[p] \in [Workers[p] -> Threads]
        /\ \A w \in Workers[p] : work'[p][w].step = "dead"
        /\ \A q \in Producers \ {p} : cli'[q] = cli[q] /\ gate'[q] = gate[q] /\ work'[q] = work[q]
    BY DiesFacts
  <1>2. Types /\ Producing(p) /\ ctl[p].attached
    BY DEF IInv, Producing, GoneIsQuiet
  <1>3. Types'
    BY <1>1, <1>2 DEF Types
  <1>4. GateHeld(p)' /\ OrdinalsDiffer(p)' /\ AsksItsOwn(p)'
    BY <1>1, GateNames DEF GateHeld, OrdinalsDiffer, AsksItsOwn, Asking, Started, Busy
  <1>5. OnWire(p)'
    BY <1>1, GateNames DEF OnWire, Open
  <1>6. Accounted(p)' /\ GoneIsQuiet(p)' /\ CheckpointClean(p)'
    BY <1>1, <1>2, GateNames
       DEF Accounted, Holding, Started, GoneIsQuiet, Producing, CheckpointClean, StaysEnded
  <1>7. Producing(p)'
    BY <1>4, <1>5, <1>6 DEF Producing
  <1> QED
    BY <1>1, <1>3, <1>7, OneProducer

\* Kill and Crash.
LEMMA DeathKeeps ==
    ASSUME IInv, Kill \/ \E p \in Producers : Crash(p)
    PROVE  IInv'
  <1>1. CASE Kill
    <2>1. /\ Child \in Producers /\ UNCHANGED <<phase, ctl, wire>> /\ owner.step \notin {"done", "failed"}
          /\ \/ cli[Child].alive /\ Dies(Child)
             \/ UNCHANGED <<cli, work, gate>>
      BY <1>1 DEF Kill, At, admission, Producers
    <2> QED
      BY <2>1, DiesKeeps, OwnerOnly DEF StaysEnded
  <1>2. ASSUME NEW p \in Producers, Crash(p)
        PROVE  IInv'
    <2>1. UNCHANGED <<phase, ctl, wire, owner>> /\ cli[p].alive /\ Dies(p)
      BY <1>2 DEF Crash, admission
    <2> QED
      BY <2>1, DiesKeeps DEF StaysEnded
  <1> QED
    BY <1>1, <1>2

\* A producer whose threads do nothing and whose wire is empty has nothing to account for.
LEMMA QuietHolds ==
    ASSUME NEW p \in Producers, \A w \in Workers[p] : work[p][w].step \in {"idle", "dead"},
           GateHeld(p)
    PROVE  \A w \in Workers[p] : ~ Holding(p, w) /\ gate[p] # w
  BY DEF GateHeld, Holding, Asking, Started

\* CloseHardDeath: the child is gone, so no command runs under the tokens given up.
LEMMA CloseHardDeathKeeps ==
    ASSUME IInv, CloseHardDeath
    PROVE  IInv'
  <1> DEFINE p == Child
             r == [ctl[p] EXCEPT !.active = {}, !.closed = TRUE]
  <1>1. /\ p \in Producers /\ Types /\ Producing(p) /\ ctl[p] \in Rows /\ ~ cli[p].alive
        /\ UNCHANGED <<phase, cli, wire, gate, work>> /\ ctl' = [ctl EXCEPT ![p] = r]
        /\ owner.step \notin {"done", "failed"}
    BY DEF CloseHardDeath, IInv, Types, Producers, At
  <1>2. r \in Rows /\ r.active = {} /\ r.attached = ctl[p].attached /\ r.checkpoint = ctl[p].checkpoint
    BY <1>1 DEF Rows
  <1> HIDE DEF r, p
  <1>3. ctl' \in [Producers -> Rows] /\ ctl'[p] = r /\ \A q \in Producers \ {p} : ctl'[q] = ctl[q]
    BY <1>1, <1>2, RowFacts
  <1>4. Types' /\ StaysEnded
    BY <1>1, <1>3 DEF Types, StaysEnded
  <1>5. \A w \in Workers[p] : ~ Holding(p, w)
    BY <1>1, QuietHolds DEF Producing, GoneIsQuiet
  <1>6. GateHeld(p)' /\ OnWire(p)' /\ AsksItsOwn(p)' /\ OrdinalsDiffer(p)'
    BY <1>1 DEF Producing, GateHeld, OnWire, AsksItsOwn, OrdinalsDiffer, Open
  <1>7. Accounted(p)'
    BY <1>1, <1>5 DEF Accounted, Holding, Echoed
  <1>8. GoneIsQuiet(p)' /\ CheckpointClean(p)'
    BY <1>1, <1>2, <1>3 DEF Producing, GoneIsQuiet, CheckpointClean
  <1>9. Producing(p)'
    BY <1>6, <1>7, <1>8 DEF Producing
  <1> QED
    BY <1>1, <1>3, <1>4, <1>9, OneProducer

\* Reopen takes the parent's checkpoint back, or fails the parent's client.
LEMMA ReopenKeeps ==
    ASSUME IInv, Reopen
    PROVE  IInv'
  <1> DEFINE r == [ctl[Parent] EXCEPT !.checkpoint = 0]
             c == [cli[Parent] EXCEPT !.paused = FALSE, !.fenced = FALSE, !.checkpoint = FALSE]
  <1>1. /\ Parent \in Producers /\ Types /\ ctl[Parent] \in Rows /\ cli[Parent] \in Clients
        /\ UNCHANGED <<phase, wire, gate, work>> /\ owner.step \notin {"done", "failed"}
        /\ \/ ctl' = [ctl EXCEPT ![Parent] = r] /\ cli' = [cli EXCEPT ![Parent] = c]
           \/ Fail(Parent) /\ UNCHANGED ctl
    BY DEF Reopen, IInv, Types, Producers, Called, At
  <1>2. /\ r \in Rows /\ r.attached = ctl[Parent].attached /\ r.active = ctl[Parent].active
        /\ r.checkpoint = 0 /\ r.closed = ctl[Parent].closed
    BY <1>1 DEF Rows
  <1>3. /\ c \in Clients /\ c.alive = cli[Parent].alive /\ c.ordinal = cli[Parent].ordinal
        /\ c.err = cli[Parent].err /\ c.closed = cli[Parent].closed
    BY <1>1 DEF Clients
  <1> HIDE DEF r, c
  <1>4. CASE ctl' = [ctl EXCEPT ![Parent] = r] /\ cli' = [cli EXCEPT ![Parent] = c]
    <2>1. /\ cli' \in [Producers -> Clients] /\ cli'[Parent] = c
          /\ \A q \in Producers \ {Parent} : cli'[q] = cli[q]
      BY <1>1, <1>3, <1>4, ClientFacts
    <2>2. \A q \in Producers : /\ cli'[q].alive = cli[q].alive /\ cli'[q].ordinal = cli[q].ordinal
                               /\ Open(q)' => Open(q)
      BY <1>3, <2>1 DEF Open
    <2> QED
      BY <1>1, <1>2, <1>4, <2>1, <2>2, RowOnly DEF StaysEnded
  <1>5. CASE Fail(Parent) /\ UNCHANGED ctl
    <2>1. /\ cli' \in [Producers -> Clients] /\ cli'[Parent].alive = cli[Parent].alive
          /\ cli'[Parent].ordinal = cli[Parent].ordinal /\ ~ Open(Parent)'
          /\ \A q \in Producers \ {Parent} : cli'[q] = cli[q]
      BY <1>1, <1>5, FailFacts
    <2>2. \A q \in Producers : /\ cli'[q].alive = cli[q].alive /\ cli'[q].ordinal = cli[q].ordinal
                               /\ Open(q)' => Open(q)
      BY <2>1 DEF Open
    <2>3. ctl' \in [Producers -> Rows]
      BY <1>1, <1>5 DEF Types
    <2> QED
      BY <1>1, <1>5, <2>1, <2>2, <2>3, Untouched DEF StaysEnded
  <1> QED
    BY <1>1, <1>4, <1>5

\* Launch: nothing was asked in the successor's name before it is there.
LEMMA LaunchKeeps ==
    ASSUME IInv, Launch
    PROVE  IInv'
  <1> DEFINE p == Successor
             r == [ctl[p] EXCEPT !.attached = TRUE]
             c == NewClient(phase)
  <1>0. p \in Producers /\ ctl[p] = Unattached /\ ~ Unattached.attached
    BY DEF Launch, Producers, Unattached
  <1>1. /\ p \in Producers /\ Types /\ Producing(p) /\ ctl[p] \in Rows /\ ~ ctl[p].attached
        /\ UNCHANGED <<phase, wire, gate, work>> /\ ctl' = [ctl EXCEPT ![p] = r]
        /\ cli' = [cli EXCEPT ![p] = c] /\ owner.step \notin {"done", "failed"} /\ phase \in Nat
    BY <1>0 DEF Launch, IInv, Types, At
  <1>2. /\ r \in Rows /\ r.attached /\ r.active = ctl[p].active /\ r.checkpoint = ctl[p].checkpoint
        /\ r.closed = ctl[p].closed
    BY <1>1 DEF Rows
  <1>3. c \in Clients /\ c.alive
    BY <1>1 DEF NewClient, Clients
  <1> HIDE DEF r, c, p
  <1>4. ctl' \in [Producers -> Rows] /\ ctl'[p] = r /\ \A q \in Producers \ {p} : ctl'[q] = ctl[q]
    BY <1>1, <1>2, RowFacts
  <1>5. cli' \in [Producers -> Clients] /\ cli'[p] = c /\ \A q \in Producers \ {p} : cli'[q] = cli[q]
    BY <1>1, <1>3, ClientFacts
  <1>6. Types' /\ StaysEnded
    BY <1>1, <1>4, <1>5 DEF Types, StaysEnded
  <1>7. \A w \in Workers[p] : work[p][w].step \in {"idle", "dead"}
    BY <1>1 DEF Producing, GoneIsQuiet
  <1>8. wire[p].op = "none" /\ \A w \in Workers[p] : ~ Holding(p, w) /\ gate[p] # w
    BY <1>1, <1>7, QuietHolds DEF Producing, GoneIsQuiet
  <1>9. GateHeld(p)' /\ OnWire(p)' /\ AsksItsOwn(p)'
    BY <1>1, <1>8 DEF Producing, GateHeld, OnWire, AsksItsOwn, Asking
  <1>10. OrdinalsDiffer(p)' /\ Accounted(p)'
    BY <1>1, <1>7, <1>8 DEF OrdinalsDiffer, Accounted, Holding, Echoed, Busy, Asking, Started
  <1>11. GoneIsQuiet(p)' /\ CheckpointClean(p)'
    BY <1>1, <1>2, <1>3, <1>4, <1>5 DEF Producing, GoneIsQuiet, CheckpointClean
  <1>12. Producing(p)'
    BY <1>9, <1>10, <1>11 DEF Producing
  <1> QED
    BY <1>1, <1>4, <1>5, <1>6, <1>12, OneProducer

\* Advance: every live producer has a checkpoint of the phase left, so the commands
\* still accounted for are persistent.
LEMMA AdvanceKeeps ==
    ASSUME IInv, Advance
    PROVE  IInv'
  <1>1. /\ UNCHANGED <<ctl, cli, gate, wire, work>> /\ phase' = phase + 1 /\ phase \in Nat \ {0}
        /\ owner.step \notin {"done", "failed"} /\ Types
        /\ \A p \in Live : ctl[p].checkpoint = phase
    BY DEF Advance, Called, At, IInv, Types
  <1>2. Types'
    BY <1>1 DEF Types
  <1>3. ASSUME NEW p \in Producers
        PROVE  Producing(p)'
    <2>1. Producing(p) /\ ctl[p].checkpoint \in Nat
      BY <1>1 DEF IInv, Types, Rows
    <2>2. GateHeld(p)' /\ OnWire(p)' /\ AsksItsOwn(p)' /\ OrdinalsDiffer(p)' /\ GoneIsQuiet(p)'
      BY <1>1, <2>1 DEF Producing, GateHeld, OnWire, AsksItsOwn, OrdinalsDiffer, GoneIsQuiet, Open
    <2>3. CheckpointClean(p)'
      BY <1>1, <2>1 DEF Producing, CheckpointClean
    <2>4. ASSUME NEW w \in Workers[p], Holding(p, w)
          PROVE  work[p][w].persistent
      <3>1. PICK t \in ctl[p].active : t.persistent = work[p][w].persistent
        BY <2>1, <2>4 DEF Producing, Accounted
      <3>2. ctl[p].attached
        BY <2>1, <2>4, QuietHolds DEF Producing, GoneIsQuiet
      <3>3. ~ ctl[p].closed
        BY <1>1, <2>1, <3>1 DEF Producing, CheckpointClean
      <3>4. ctl[p].checkpoint = phase
        BY <1>1, <3>2, <3>3 DEF Live
      <3> QED
        BY <2>1, <3>1, <3>4 DEF Producing, CheckpointClean
    <2>5. Accounted(p)'
      BY <1>1, <2>1, <2>4 DEF Producing, Accounted, Holding, Echoed
    <2> QED
      BY <2>2, <2>3, <2>5 DEF Producing
  <1> QED
    BY <1>2, <1>3 DEF IInv

------------------------------------------------------------------------------
(* The invariant *)

\* Initially nobody has asked for anything.
LEMMA InitIInv ==
    ASSUME Init
    PROVE  IInv /\ OwnerShape
  <1>1. OwnerShape /\ phase = 1
    BY DEF Init, OwnerShape
  <1>2. \A p \in Producers : /\ ctl[p] \in Rows /\ ctl[p].attached = (p # Successor)
                             /\ ctl[p].active = {} /\ ctl[p].checkpoint = 0 /\ ~ ctl[p].closed
    BY DEF Init, Unattached, Rows
  <1>3. \A p \in Producers : cli[p] \in Clients /\ cli[p].alive = (p # Successor)
    BY DEF Init, NewClient, Clients
  <1>4. ctl \in [Producers -> Rows] /\ cli \in [Producers -> Clients]
    BY <1>2, <1>3 DEF Init
  <1>5. \A p \in Producers : /\ work[p] \in [Workers[p] -> Threads] /\ gate[p] = "free"
                             /\ wire[p] = NoFrame /\ \A w \in Workers[p] : work[p][w].step = "idle"
    BY IdleFacts DEF Init
  <1>6. Types
    BY <1>1, <1>4, <1>5, NoFrameFacts DEF Init, Types
  <1>7. ASSUME NEW p \in Producers
        PROVE  Producing(p)
    BY <1>1, <1>2, <1>3, <1>5, NoFrameFacts, GateNames
       DEF Producing, GateHeld, OnWire, AsksItsOwn, OrdinalsDiffer, Accounted, Holding, Echoed,
           GoneIsQuiet, CheckpointClean, Asking, Started, Busy
  <1> QED
    BY <1>1, <1>6, <1>7 DEF IInv

\* Every step keeps the shape of the owner's record.
LEMMA OwnerShapeKept ==
    ASSUME OwnerShape, [Next]_vars
    PROVE  OwnerShape'
  <1>1. CASE UNCHANGED owner
    BY <1>1 DEF OwnerShape
  <1>2. ASSUME NEW step, NEW todo \in SUBSET Producers, Go(step, todo),
               step \in {"checkpoint", "close", "resume", "kill", "wait", "launch", "done", "failed"}
        PROVE  OwnerShape'
    BY <1>2 DEF Go, OwnerShape
  <1>3. Live \in SUBSET Producers /\ {} \in SUBSET Producers /\ {Child} \in SUBSET Producers
        /\ {Parent} \in SUBSET Producers
    BY DEF Live, Producers
  <1>4. CASE Begin \/ Resumed \/ Launch
    BY <1>3, <1>4 DEF Begin, Resumed, Launch, OwnerShape
  <1>5. CASE Fence
    <2>1. owner.plan \in {"advance", "restart", "end"}
      BY <1>5 DEF Fence, Called, At, OwnerShape
    <2>2. Go("checkpoint", Live) \/ Go("checkpoint", {Child}) \/ Go("close", Live)
      BY <1>5, <2>1 DEF Fence
    <2> QED
      BY <1>2, <1>3, <2>2
  <1>6. CASE Advance \/ ExpectHardDeath \/ Kill \/ CloseHardDeath \/ Reopen \/ CancelUnused
    BY <1>2, <1>3, <1>6 DEF Advance, ExpectHardDeath, Kill, CloseHardDeath, Reopen, CancelUnused
  <1>7. ASSUME NEW p \in Producers, Return(p)
        PROVE  OwnerShape'
    BY <1>7 DEF Return, OwnerShape
  <1>8. ASSUME NEW p \in Producers, NEW w \in Workers[p],
               \/ Enter(p, w) \/ CancelParked(p, w) \/ StartCanceled(p, w) \/ Exit(p, w) \/ Worker(p, w)
        PROVE  UNCHANGED owner
    BY <1>8 DEF Enter, CancelParked, StartCanceled, Exit, Worker, Unpark, Admit, Admitted, Start,
                Settle, Settled
  <1>9. ASSUME NEW p \in Producers, \/ ExchangeFails(p) \/ CallFails(p) \/ Crash(p)
                                    \/ Control(p) \/ Accept(p) \/ EndStream(p) \/ StreamBreaks(p)
        PROVE  UNCHANGED owner
    BY <1>9 DEF ExchangeFails, CallFails, Crash, Control, Accept, EndStream, StreamBreaks, Pause,
                PauseDone, Fences, Drained, Carry, Record, Recorded, Resume
  <1>10. CASE Call \/ UNCHANGED vars
    BY <1>1, <1>10 DEF Call, vars
  <1> QED
    BY <1>1, <1>4, <1>5, <1>6, <1>7, <1>8, <1>9, <1>10 DEF Next, Owner

\* Every step keeps the invariant.
LEMMA NextIInv ==
    ASSUME IInv, OwnerShape, [Next]_vars
    PROVE  IInv'
  <1>1. ASSUME NEW p \in Producers, NEW w \in Workers[p],
               \/ Enter(p, w) \/ CancelParked(p, w) \/ StartCanceled(p, w) \/ Exit(p, w)
        PROVE  IInv'
    BY <1>1, EnterKeeps, UnparkKeeps, StartCanceledKeeps, ExitKeeps
  <1>2. ASSUME NEW p \in Producers, NEW w \in Workers[p], Worker(p, w)
        PROVE  IInv'
    BY <1>2, UnparkKeeps, AdmitKeeps, AdmittedKeeps, StartKeeps, SettleKeeps, SettledKeeps DEF Worker
  <1>3. ASSUME NEW p \in Producers, Control(p) \/ CallFails(p)
        PROVE  IInv'
    BY <1>3, FlagsKeep, DrainedKeeps, CarryKeeps, RecordKeeps, RecordedKeeps DEF Control
  <1>4. ASSUME NEW p \in Producers, \/ ExchangeFails(p) \/ Crash(p)
                                    \/ Accept(p) \/ EndStream(p) \/ StreamBreaks(p)
        PROVE  IInv'
    BY <1>4, ExchangeFailsKeeps, DeathKeeps, AcceptKeeps, EndStreamKeeps, StreamBreaksKeeps
  <1>5. CASE Begin \/ Owner
    BY <1>5, OwnerCallsKeep, AdvanceKeeps, ExpectHardDeathKeeps, DeathKeeps, CloseHardDeathKeeps,
       ReopenKeeps, LaunchKeeps, CancelUnusedKeeps DEF Owner
  <1>6. CASE UNCHANGED vars
    BY <1>6, OwnerOnly DEF vars, admission, StaysEnded
  <1> QED
    BY <1>1, <1>2, <1>3, <1>4, <1>5, <1>6 DEF Next

------------------------------------------------------------------------------
(* The owner's calls *)

\* The progress of a call: pausing, checkpointing, resuming or closing a client.
Calls == {"none", "pause", "pausing", "checkpoint", "draining", "checkpoint-rpc", "close", "closing",
          "close-rpc", "resume", "done", "refused"}
Pausing == {"pause", "pausing"}
Checkpointing == {"checkpoint", "draining", "checkpoint-rpc"}
Ending == {"close", "closing", "close-rpc"}

\* A call under way is one of the owner's current step, and its answer is true: a
\* checkpoint or a close that was echoed or returned is the controller's as well.
Answered(p) ==
    /\ owner.step \notin {"pause", "checkpoint", "resume", "close", "failed"} => call[p] = "none"
    /\ call[p] \in Pausing => owner.step \in {"pause", "failed"}
    /\ call[p] = "resume" => owner.step \in {"resume", "failed"}
    /\ call[p] \in Checkpointing => owner.step \in {"checkpoint", "failed"}
    /\ call[p] \in Ending => owner.step \in {"close", "failed"}
    /\ gate[p] = "control" =>
         /\ call[p] \in {"checkpoint-rpc", "close-rpc"}
         /\ wire[p].op = "checkpoint" => call[p] = "checkpoint-rpc"
         /\ wire[p].op = "close" => call[p] = "close-rpc"
         /\ Echoed(p, "checkpoint") => ctl[p].checkpoint = phase
         /\ Echoed(p, "close") => ctl[p].closed
    /\ call[p] = "done" /\ owner.step = "checkpoint" => ctl[p].checkpoint = phase
    /\ call[p] = "done" /\ owner.step = "close" => ctl[p].closed

\* The child was checkpointed before its death is announced, and everybody attached
\* has closed before the run ends.
Heeded ==
    /\ owner.step = "checkpoint" /\ owner.plan = "restart" /\ ~ ctl[Child].hardDeath =>
         Child \in owner.todo \/ ctl[Child].checkpoint = phase
    /\ owner.step = "close" =>
         \A p \in Producers : p \in owner.todo \/ ~ ctl[p].attached \/ ctl[p].closed

\* The invariant of the owner's plan.
Chain ==
    /\ call \in [Producers -> Calls]
    /\ \A p \in Producers : Answered(p)
    /\ Heeded

------------------------------------------------------------------------------
(* What is admitted and not started *)

\* The commands of p whose start the client has not reported, and those of them
\* that the controller has admitted and not settled.
Pending(p) == {h.ordinal : h \in {x \in cli[p].active : x.pending}}
Unstarted(p) == {t.ordinal : t \in ctl[p].active} \cap Pending(p)

\* A thread's command is pending exactly until its start was attempted.
Waits(p) ==
    /\ \A n \in Pending(p) : n <= cli[p].ordinal
    /\ \A w \in Workers[p] :
         /\ work[p][w].step \in {"admit", "start"} => work[p][w].ordinal \in Pending(p)
         /\ work[p][w].step \in {"running", "exited", "settle"} => work[p][w].ordinal \notin Pending(p)

\* An admission that is asked for is pending, a settled command is not, and a
\* client that carries, checkpoints or closes has nothing pending.
Asked(p) ==
    /\ wire[p].op = "admit" /\ ~ wire[p].echo => wire[p].ordinal \in Pending(p)
    /\ wire[p].op = "settle" => wire[p].ordinal \notin Pending(p)
    /\ wire[p].op \in {"carry", "checkpoint", "close"} \/ gate[p] = "control" => Pending(p) = {}

\* The controller's ordinals follow the client's, and what was checkpointed, is
\* dead, has closed or was never attached has nothing waiting.
Tracked(p) ==
    /\ \A t \in ctl[p].active : t.ordinal <= ctl[p].ordinal
    /\ ctl[p].ordinal <= cli[p].ordinal
    /\ ctl[p].checkpoint = phase \/ ctl[p].hardDeath => Unstarted(p) = {}
    /\ ctl[p].closed \/ ~ ctl[p].attached => ctl[p].active = {}
    /\ ~ ctl[p].attached => ctl[p].ordinal = 0

\* How many commands are admitted and wait to start.
Waiting ==
    Cardinality(Unstarted(Parent)) + Cardinality(Unstarted(Child))
      + Cardinality(Unstarted(Successor))

\* Past phases are settled; the current one counts what was tried and what waits.
Exact ==
    /\ phase \in 1 .. Phases
    /\ counts \in [1 .. Phases -> Nat] /\ tried \in [1 .. Phases -> Nat]
    /\ \A k \in 1 .. Phases : k # phase => counts[k] = tried[k]
    /\ counts[phase] = tried[phase] + Waiting

\* The inductive invariant of the counts.
Counting == Exact /\ \A p \in Producers : Waits(p) /\ Asked(p) /\ Tracked(p)

\* A request or a gate of one producer leaves the others' alone.
LEMMA Exchanged ==
    ASSUME Types, NEW p \in Producers, NEW h, NEW f, Hold(p, h), Send(p, f)
    PROVE  /\ gate'[p] = h /\ wire'[p] = f
           /\ \A q \in Producers \ {p} : gate'[q] = gate[q] /\ wire'[q] = wire[q]
  BY DEF Types, Hold, Send

\* A step of one producer's call or of its row.
LEMMA OneCall ==
    ASSUME Chain, NEW p \in Producers, call' \in [Producers -> Calls],
           \A q \in Producers \ {p} : /\ call'[q] = call[q] /\ gate'[q] = gate[q]
                                      /\ wire'[q] = wire[q] /\ ctl'[q] = ctl[q],
           UNCHANGED <<phase, owner>>, ctl'[p].attached = ctl[p].attached,
           ctl'[p].hardDeath = ctl[p].hardDeath, ctl[p].closed => ctl'[p].closed,
           ctl'[p].checkpoint \in {ctl[p].checkpoint, phase}, Answered(p)'
    PROVE  Chain'
  <1>1. ASSUME NEW q \in Producers \ {p}
        PROVE  Answered(q)'
    BY <1>1 DEF Chain, Answered, Echoed
  <1>2. \A q \in Producers :
          /\ ctl'[q].attached = ctl[q].attached /\ ctl'[q].hardDeath = ctl[q].hardDeath
          /\ ctl[q].closed => ctl'[q].closed
          /\ ctl'[q].checkpoint \in {ctl[q].checkpoint, phase}
    OBVIOUS
  <1>3. Heeded'
    BY <1>2 DEF Chain, Heeded, Producers
  <1> QED
    BY <1>1, <1>3 DEF Chain

\* A step of a thread touches no call.
LEMMA NoCall ==
    ASSUME Chain, NEW p \in Producers, UNCHANGED <<phase, owner, call, ctl>>,
           \A q \in Producers \ {p} : gate'[q] = gate[q] /\ wire'[q] = wire[q],
           gate'[p] = "control" => gate[p] = "control" /\ wire'[p] = wire[p]
    PROVE  Chain'
  <1>1. Answered(p)'
    BY DEF Chain, Answered, Echoed
  <1> QED
    BY <1>1, OneCall DEF Chain

\* The threads.
LEMMA ThreadsChain ==
    ASSUME IInv, Chain, NEW p \in Producers, NEW w \in Workers[p],
           \/ Enter(p, w) \/ CancelParked(p, w) \/ StartCanceled(p, w) \/ Exit(p, w) \/ Worker(p, w)
    PROVE  Chain'
  <1>1. CASE UNCHANGED <<phase, owner, call, ctl, gate, wire>>
    BY <1>1, NoCall
  <1>2. CASE \/ Enter(p, w) \/ CancelParked(p, w) \/ StartCanceled(p, w) \/ Exit(p, w)
             \/ Unpark(p, w) \/ Start(p, w)
    BY <1>1, <1>2 DEF Enter, CancelParked, StartCanceled, Exit, Unpark, Start, admission
  <1>3. ASSUME NEW h \in {"free", w}, NEW f, Hold(p, h), Send(p, f), UNCHANGED <<phase, owner, call, ctl>>
        PROVE  Chain'
    <2>1. /\ gate'[p] = h /\ h # "control"
          /\ \A q \in Producers \ {p} : gate'[q] = gate[q] /\ wire'[q] = wire[q]
      BY <1>3, Exchanged, GateNames DEF IInv
    <2> QED
      BY <1>3, <2>1, NoCall
  <1>4. CASE Admit(p, w)
    BY <1>1, <1>3, <1>4 DEF Admit, admission
  <1>5. CASE Admitted(p, w) \/ Settled(p, w)
    BY <1>3, <1>5 DEF Admitted, Settled, admission
  <1>6. CASE Settle(p, w)
    BY <1>1, <1>3, <1>6 DEF Settle, admission
  <1> QED
    BY <1>2, <1>4, <1>5, <1>6 DEF Worker

\* A call of one producer is answered or goes on.
LEMMA CallMoves ==
    ASSUME IInv, Chain, NEW p \in Producers, NEW a \in Calls, Answer(p, a),
           UNCHANGED <<phase, owner, ctl>>,
           \A q \in Producers \ {p} : gate'[q] = gate[q] /\ wire'[q] = wire[q],
           Answered(p) /\ call'[p] = a => Answered(p)'
    PROVE  Chain'
  <1>1. /\ call' \in [Producers -> Calls] /\ call'[p] = a
        /\ \A q \in Producers \ {p} : call'[q] = call[q]
    BY DEF Chain, Answer
  <1>2. Answered(p)'
    BY <1>1 DEF Chain
  <1> QED
    BY <1>1, <1>2, OneCall

\* Pause, PauseDone, Fences, Drained, Resume and CallFails.
LEMMA ControlChain ==
    ASSUME IInv, Chain, NEW p \in Producers,
           Pause(p) \/ PauseDone(p) \/ Fences(p) \/ Drained(p) \/ Resume(p) \/ CallFails(p)
    PROVE  Chain'
  <1>1. Answered(p) /\ Types /\ Producing(p) /\ UNCHANGED <<phase, owner, ctl, wire>>
    BY DEF Chain, IInv, Pause, PauseDone, Fences, Drained, Resume, CallFails, admission
  <1>2. CASE Pause(p)
    <2>1. call[p] = "pause" /\ UNCHANGED gate /\ (Answer(p, "refused") \/ Answer(p, "pausing"))
      BY <1>2 DEF Pause
    <2>2. gate[p] # "control"
      BY <1>1, <2>1 DEF Answered
    <2> QED
      BY <1>1, <2>1, <2>2, CallMoves DEF Answered, Pausing, Checkpointing, Ending, Calls
  <1>3. CASE PauseDone(p)
    <2>1. call[p] = "pausing" /\ UNCHANGED gate /\ Answer(p, "done") /\ gate[p] = "free"
      BY <1>3 DEF PauseDone
    <2> QED
      BY <1>1, <2>1, CallMoves DEF Answered, Pausing, Checkpointing, Ending, Calls
  <1>4. CASE Fences(p)
    <2>1. /\ call[p] \in {"checkpoint", "close"} /\ UNCHANGED gate
          /\ \/ Answer(p, "refused")
             \/ call[p] = "close" /\ Answer(p, "closing")
             \/ call[p] = "checkpoint" /\ Answer(p, "draining")
      BY <1>4 DEF Fences
    <2>2. gate[p] # "control"
      BY <1>1, <2>1 DEF Answered
    <2> QED
      BY <1>1, <2>1, <2>2, CallMoves DEF Answered, Pausing, Checkpointing, Ending, Calls
  <1>5. CASE Drained(p)
    <2>1. /\ Open(p) /\ gate[p] = "free" /\ Hold(p, "control")
          /\ \/ call[p] = "closing" /\ Answer(p, "close-rpc")
             \/ call[p] = "draining" /\ Answer(p, "checkpoint-rpc")
      BY <1>5 DEF Drained, Closing
    <2>2. \A q \in Producers \ {p} : gate'[q] = gate[q]
      BY <1>1, <2>1, GateFacts
    <2>3. wire[p].op = "none"
      BY <1>1, <2>1 DEF Producing, OnWire
    <2> QED
      BY <1>1, <2>1, <2>2, <2>3, CallMoves DEF Answered, Pausing, Checkpointing, Ending, Calls, Echoed
  <1>6. CASE Resume(p)
    <2>1. call[p] = "resume" /\ UNCHANGED gate /\ (Answer(p, "refused") \/ Answer(p, "done"))
      BY <1>6 DEF Resume
    <2>2. gate[p] # "control"
      BY <1>1, <2>1 DEF Answered
    <2> QED
      BY <1>1, <2>1, <2>2, CallMoves DEF Answered, Pausing, Checkpointing, Ending, Calls
  <1>7. CASE CallFails(p)
    <2>1. call[p] # "none" /\ UNCHANGED gate /\ gate[p] # "control" /\ Answer(p, "refused")
      BY <1>7 DEF CallFails
    <2> QED
      BY <1>1, <2>1, CallMoves DEF Answered, Pausing, Checkpointing, Ending, Calls
  <1> QED
    BY <1>2, <1>3, <1>4, <1>5, <1>6, <1>7

\* Carry, Record and Recorded: what the call's last echo says was recorded.
LEMMA RecordsChain ==
    ASSUME IInv, Chain, NEW p \in Producers, Carry(p) \/ Record(p) \/ Recorded(p)
    PROVE  Chain'
  <1>1. /\ Answered(p) /\ Types /\ UNCHANGED <<phase, owner, ctl>> /\ gate[p] = "control"
        /\ call[p] \in {"checkpoint-rpc", "close-rpc"} /\ call \in [Producers -> Calls]
    BY DEF Chain, IInv, Carry, Record, Recorded, Rpc, admission
  <1>2. ASSUME NEW f, Send(p, f), UNCHANGED <<gate, call>>, ~ f.echo,
               f.op = "checkpoint" => call[p] = "checkpoint-rpc",
               f.op = "close" => call[p] = "close-rpc"
        PROVE  Chain'
    <2>1. wire'[p] = f /\ \A q \in Producers \ {p} : wire'[q] = wire[q]
      BY <1>1, <1>2 DEF Types, Send
    <2>2. Answered(p)'
      BY <1>1, <1>2, <2>1 DEF Answered, Echoed
    <2> QED
      BY <1>1, <1>2, <2>1, <2>2, OneCall
  <1>3. CASE Carry(p)
    <2>1. PICK t \in cli[p].active :
            Send(p, Frame("carry", cli[p].phase, t.ordinal, FALSE)) \/ Send(p, NoFrame)
      BY <1>3 DEF Carry
    <2>2. UNCHANGED <<gate, call>>
      BY <1>3 DEF Carry
    <2> QED
      BY <1>2, <2>1, <2>2, NoFrameFacts DEF Frame
  <1>4. CASE Record(p)
    BY <1>1, <1>2, <1>4 DEF Record, Frame, Closing
  <1>5. CASE Recorded(p)
    <2>1. /\ wire[p].op \in {"checkpoint", "close"} /\ wire[p].echo /\ Hold(p, "free")
          /\ Send(p, NoFrame) /\ Answer(p, "done")
      BY <1>5 DEF Recorded
    <2>2. /\ gate'[p] = "free"
          /\ \A q \in Producers \ {p} : gate'[q] = gate[q] /\ wire'[q] = wire[q]
      BY <1>1, <2>1, Exchanged
    <2>3. CASE wire[p].op = "checkpoint"
      <3>1. ctl[p].checkpoint = phase /\ owner.step \in {"checkpoint", "failed"}
        BY <1>1, <2>1, <2>3 DEF Answered, Echoed, Checkpointing
      <3> QED
        BY <1>1, <2>1, <2>2, <3>1, CallMoves DEF Answered, Pausing, Checkpointing, Ending, Calls
    <2>4. CASE wire[p].op = "close"
      <3>1. ctl[p].closed /\ owner.step \in {"close", "failed"}
        BY <1>1, <2>1, <2>4 DEF Answered, Echoed, Ending
      <3> QED
        BY <1>1, <2>1, <2>2, <3>1, CallMoves DEF Answered, Pausing, Checkpointing, Ending, Calls
    <2> QED
      BY <2>1, <2>3, <2>4
  <1> QED
    BY <1>3, <1>4, <1>5

\* ExchangeFails and Crash: the call under way is refused.
LEMMA FailuresChain ==
    ASSUME IInv, Chain, NEW p \in Producers, ExchangeFails(p) \/ Crash(p)
    PROVE  Chain'
  <1>1. Answered(p) /\ Types /\ UNCHANGED <<phase, owner, ctl>> /\ call \in [Producers -> Calls]
    BY DEF Chain, IInv, ExchangeFails, Crash, admission
  <1>2. /\ gate'[p] = "free"
        /\ \A q \in Producers \ {p} : gate'[q] = gate[q] /\ wire'[q] = wire[q]
    BY <1>1 DEF Types, ExchangeFails, Crash, Dies, Hold
  <1>3. CASE UNCHANGED call
    BY <1>1, <1>2, <1>3, NoCall
  <1>4. CASE Answer(p, "refused") /\ call[p] # "none"
    BY <1>1, <1>2, <1>4, CallMoves DEF Answered, Pausing, Checkpointing, Ending, Calls
  <1>5. gate[p] = "control" => call[p] # "none"
    BY <1>1 DEF Answered
  <1>6. UNCHANGED call \/ (Answer(p, "refused") /\ call[p] # "none")
    <2>1. CASE ExchangeFails(p)
      BY <1>5, <2>1 DEF ExchangeFails, Answer
    <2>2. CASE Crash(p)
      BY <1>1, <2>2 DEF Crash, Answer
    <2> QED
      BY <2>1, <2>2
  <1> QED
    BY <1>3, <1>4, <1>6

\* Accept, EndStream and StreamBreaks: the echo of a checkpoint or of a close is sent
\* once the row says so.
LEMMA ControllerChain ==
    ASSUME IInv, Chain, NEW p \in Producers, Accept(p) \/ EndStream(p) \/ StreamBreaks(p)
    PROVE  Chain'
  <1>1. Answered(p) /\ Types /\ call \in [Producers -> Calls]
    BY DEF Chain, IInv
  <1>2. CASE Accept(p)
    <2> DEFINE r == RowAfter(p, wire[p])
    <2>1. /\ UNCHANGED <<phase, gate, call, owner>> /\ wire[p] \in Frames /\ wire[p].op # "none"
          /\ \A q \in Producers \ {p} : wire'[q] = wire[q] /\ ctl'[q] = ctl[q]
          /\ wire'[p].op # "none" => Accepted(p) /\ wire'[p].op = wire[p].op
          /\ ctl'[p] = (IF Accepted(p) THEN r ELSE ctl[p])
          /\ Accepted(p) => ~ ctl[p].closed /\ (wire[p].op # "settle" => wire[p].phase = phase)
      BY <1>2, AcceptFacts
    <2>2. /\ r.attached = ctl[p].attached /\ r.hardDeath = ctl[p].hardDeath
          /\ wire[p].op \notin {"checkpoint", "close"} =>
               r.checkpoint = ctl[p].checkpoint /\ r.closed = ctl[p].closed
          /\ wire[p].op \in {"checkpoint", "close"} =>
               r.checkpoint = wire[p].phase /\ r.closed = (wire[p].op = "close")
      BY <1>1, <2>1, RowAfterFacts
    <2> HIDE DEF r
    <2>3. /\ ctl'[p].attached = ctl[p].attached /\ ctl'[p].hardDeath = ctl[p].hardDeath
          /\ ctl[p].closed => ctl'[p].closed
          /\ ctl'[p].checkpoint \in {ctl[p].checkpoint, phase}
          /\ wire'[p].op = "checkpoint" => wire[p].op = "checkpoint" /\ ctl'[p].checkpoint = phase
          /\ wire'[p].op = "close" => wire[p].op = "close" /\ ctl'[p].closed
      BY <2>1, <2>2
    <2>4. Answered(p)'
      BY <1>1, <2>1, <2>3 DEF Answered, Echoed
    <2> QED
      BY <1>1, <2>1, <2>3, <2>4, OneCall
  <1>3. CASE EndStream(p)
    <2>1. /\ UNCHANGED <<phase, gate, call, owner>>
          /\ \A q \in Producers \ {p} : ctl'[q] = ctl[q] /\ wire'[q] = wire[q]
          /\ ctl'[p] = [ctl[p] EXCEPT !.eof = TRUE] /\ ctl[p] \in Rows /\ wire'[p] = NoFrame
      BY <1>1, <1>3 DEF EndStream, Types, Send
    <2>2. /\ ctl'[p].attached = ctl[p].attached /\ ctl'[p].hardDeath = ctl[p].hardDeath
          /\ ctl'[p].closed = ctl[p].closed /\ ctl'[p].checkpoint = ctl[p].checkpoint
      BY <2>1 DEF Rows
    <2>3. Answered(p)'
      BY <1>1, <2>1, <2>2, NoFrameFacts DEF Answered, Echoed
    <2> QED
      BY <1>1, <2>1, <2>2, <2>3, OneCall
  <1>4. CASE StreamBreaks(p)
    BY <1>4, NoCall DEF StreamBreaks
  <1> QED
    BY <1>2, <1>3, <1>4

\* The owner's next step, while no call is under way.
LEMMA BetweenCalls ==
    ASSUME Chain, \A p \in Producers : call[p] = "none", UNCHANGED call,
           \A p \in Producers : gate'[p] \in {gate[p], "free"}, Heeded'
    PROVE  Chain'
  <1>1. \A p \in Producers : gate[p] # "control"
    BY DEF Chain, Answered
  <1>2. \A p \in Producers : Answered(p)'
    BY <1>1 DEF Answered, Pausing, Checkpointing, Ending
  <1> QED
    BY <1>2 DEF Chain

\* The owner's own steps.
LEMMA OwnerChain ==
    ASSUME IInv, OwnerShape, Chain, Begin \/ Owner
    PROVE  Chain'
  <1>1. Types /\ call \in [Producers -> Calls] /\ \A p \in Producers : Answered(p)
    BY DEF IInv, Chain
  <1>2. ASSUME owner.step \in {"run", "kill", "wait", "launch"} \/ \E step : Called(step)
        PROVE  \A p \in Producers : call[p] = "none"
    BY <1>1, <1>2 DEF Answered, Called
  <1>3. CASE Begin \/ Resumed \/ Launch
    <2>1. /\ owner.step \in {"run", "launch"} \/ Called("resume")
          /\ UNCHANGED <<call, gate>> /\ owner'.step \in {"run", "pause"}
      BY <1>3 DEF Begin, Resumed, Launch, At
    <2> QED
      BY <1>2, <2>1, BetweenCalls DEF Heeded
  <1>4. CASE Fence
    <2>1. Called("pause") /\ UNCHANGED <<call, gate, ctl>> /\ owner.plan \in {"advance", "restart", "end"}
      BY <1>4 DEF Fence, Called, At, OwnerShape
    <2>2. \/ owner.plan = "advance" /\ Go("checkpoint", Live)
          \/ owner.plan = "restart" /\ Go("checkpoint", {Child})
          \/ owner.plan = "end" /\ Go("close", Live)
      BY <1>4, <2>1 DEF Fence
    <2>3. \/ owner'.plan = "advance" /\ owner'.step = "checkpoint"
          \/ owner'.todo = {Child} /\ owner'.step = "checkpoint"
          \/ owner'.step = "close" /\ owner'.todo = Live
      BY <2>2 DEF Go, OwnerShape
    <2>4. Heeded'
      BY <2>1, <2>3 DEF Heeded, Live
    <2> QED
      BY <1>2, <2>1, <2>4, BetweenCalls
  <1>5. ASSUME NEW step \in {"resume", "kill", "wait", "launch", "done", "failed"}, NEW todo, Go(step, todo)
        PROVE  Heeded'
    BY <1>5 DEF Heeded, Go, OwnerShape
  <1>6. CASE Advance \/ ExpectHardDeath \/ Reopen \/ CancelUnused
    <2>1. (Called("checkpoint") \/ Called("close")) /\ UNCHANGED <<call, gate>> /\ Heeded'
      BY <1>5, <1>6 DEF Advance, ExpectHardDeath, Reopen, CancelUnused
    <2> QED
      BY <1>2, <2>1, BetweenCalls
  <1>7. CASE Kill
    <2>1. owner.step = "kill" /\ UNCHANGED call /\ Heeded'
      BY <1>5, <1>7 DEF Kill, At
    <2>2. \A p \in Producers : gate'[p] \in {gate[p], "free"}
      BY <1>1, <1>7 DEF Kill, Dies, Types
    <2> QED
      BY <1>2, <2>1, <2>2, BetweenCalls
  <1>8. CASE CloseHardDeath
    <2>1. /\ owner.step = "wait" /\ UNCHANGED <<call, gate>> /\ ctl[Child].hardDeath
          /\ ctl' = [ctl EXCEPT ![Child].active = {}, ![Child].closed = TRUE]
          /\ Go("checkpoint", {Parent}) /\ Child \in Producers
      BY <1>8 DEF CloseHardDeath, At, Producers
    <2>2. owner'.step = "checkpoint"
      BY <2>1 DEF Go, OwnerShape
    <2>3. ctl'[Child].hardDeath
      BY <1>1, <2>1 DEF Types, Rows
    <2>4. Heeded'
      BY <2>2, <2>3 DEF Heeded
    <2> QED
      BY <1>2, <2>1, <2>4, BetweenCalls
  <1>9. CASE Call
    <2>1. /\ \A p \in Producers : call[p] = "none"
          /\ UNCHANGED <<phase, ctl, gate, wire, owner>>
          /\ owner.step \in {"pause", "checkpoint", "resume", "close"}
      BY <1>9 DEF Call, admission
    <2>2. PICK p \in Producers : Answer(p, owner.step)
      BY <1>9 DEF Call, OwnerShape, Answer
    <2>3. gate[p] # "control"
      BY <1>1, <2>1 DEF Answered
    <2> QED
      BY <1>1, <2>1, <2>2, <2>3, CallMoves DEF Answered, Pausing, Checkpointing, Ending, Calls
  <1>10. ASSUME NEW p \in Producers, Return(p)
         PROVE  Chain'
    <2>1. /\ call[p] \in {"done", "refused"} /\ UNCHANGED <<phase, ctl, gate, wire>> /\ Answer(p, "none")
          /\ owner' = IF call[p] = "done" THEN [owner EXCEPT !.todo = @ \ {p}]
                                          ELSE [owner EXCEPT !.step = "failed"]
      BY <1>10 DEF Return, admission
    <2>2. /\ call' \in [Producers -> Calls] /\ call'[p] = "none"
          /\ \A q \in Producers \ {p} : call'[q] = call[q]
      BY <1>1, <2>1 DEF Answer, Calls
    <2>3. \/ /\ call[p] = "done" /\ owner'.step = owner.step /\ owner'.plan = owner.plan
             /\ owner'.todo = owner.todo \ {p}
          \/ owner'.step = "failed"
      BY <2>1 DEF OwnerShape
    <2>4. ASSUME NEW q \in Producers
          PROVE  Answered(q)'
      <3>1. CASE q = p
        BY <1>1, <2>1, <2>2, <3>1 DEF Answered, Pausing, Checkpointing, Ending
      <3>2. CASE q # p
        BY <1>1, <2>1, <2>2, <2>3, <3>2 DEF Answered, Echoed
      <3> QED
        BY <3>1, <3>2
    <2>5. Heeded'
      BY <1>1, <2>1, <2>3 DEF Chain, Heeded, Answered
    <2> QED
      BY <2>2, <2>4, <2>5 DEF Chain
  <1> QED
    BY <1>3, <1>4, <1>6, <1>7, <1>8, <1>9, <1>10 DEF Owner

\* Every step keeps the owner's calls in order.
LEMMA NextChain ==
    ASSUME IInv, OwnerShape, Chain, [Next]_vars
    PROVE  Chain'
  <1>1. CASE UNCHANGED vars
    <2>1. Parent \in Producers /\ UNCHANGED <<phase, owner, call, ctl, gate, wire>>
      BY <1>1 DEF vars, admission, Producers
    <2> QED
      BY <2>1, NoCall
  <1>2. ASSUME NEW p \in Producers, Control(p)
        PROVE  Chain'
    BY <1>2, ControlChain, RecordsChain DEF Control
  <1>3. ASSUME NEW p \in Producers, \/ ExchangeFails(p) \/ CallFails(p) \/ Crash(p)
                                    \/ Accept(p) \/ EndStream(p) \/ StreamBreaks(p)
        PROVE  Chain'
    BY <1>3, ControlChain, FailuresChain, ControllerChain
  <1> QED
    BY <1>1, <1>2, <1>3, ThreadsChain, OwnerChain DEF Next

\* Initially no call is under way.
LEMMA InitChain ==
    ASSUME Init
    PROVE  Chain
  <1>1. /\ call \in [Producers -> Calls] /\ \A p \in Producers : call[p] = "none" /\ gate[p] = "free"
        /\ owner.step = "run"
    BY DEF Init, Calls
  <1> QED
    BY <1>1 DEF Chain, Answered, Heeded, Pausing, Checkpointing, Ending

\* Ordinals that wait are finitely many numbers.
LEMMA WaitingFinite ==
    ASSUME Types, NEW p \in Producers, Waits(p)
    PROVE  /\ Pending(p) \subseteq Nat /\ IsFiniteSet(Unstarted(p))
           /\ Cardinality(Unstarted(p)) \in Nat
  <1>1. cli[p].active \in SUBSET Helds /\ cli[p].ordinal \in Nat
    BY DEF Types, Clients
  <1>2. Pending(p) \subseteq Nat
    BY <1>1 DEF Pending, Helds
  <1>3. Pending(p) \subseteq 0 .. cli[p].ordinal
    BY <1>1, <1>2 DEF Waits
  <1>4. IsFiniteSet(0 .. cli[p].ordinal)
    <2>1. 0 \in Int /\ cli[p].ordinal \in Int
      BY <1>1
    <2> QED
      BY <2>1, FS_Interval, Zenon
  <1>5. IsFiniteSet(Unstarted(p))
    BY <1>3, <1>4, FS_Subset DEF Unstarted
  <1> QED
    BY <1>2, <1>5, FS_CardinalityType

\* The counts stay exact while nothing is admitted or started.
LEMMA SameExact ==
    ASSUME Exact, UNCHANGED <<phase, counts, tried>>, \A p \in Producers : Unstarted(p)' = Unstarted(p)
    PROVE  Exact'
  <1>1. /\ Unstarted(Parent)' = Unstarted(Parent) /\ Unstarted(Child)' = Unstarted(Child)
        /\ Unstarted(Successor)' = Unstarted(Successor)
    BY DEF Producers
  <1> QED
    BY <1>1 DEF Exact, Waiting

\* What a step does to one producer leaves the others alone.
LEMMA OneWaits ==
    ASSUME Counting, NEW p \in Producers, UNCHANGED phase,
           \A q \in Producers \ {p} : /\ ctl'[q] = ctl[q] /\ cli'[q] = cli[q] /\ wire'[q] = wire[q]
                                      /\ gate'[q] = gate[q] /\ work'[q] = work[q],
           Waits(p)', Asked(p)', Tracked(p)', Exact'
    PROVE  Counting'
  <1>1. ASSUME NEW q \in Producers \ {p}
        PROVE  Waits(q)' /\ Asked(q)' /\ Tracked(q)'
    <2>1. Pending(q)' = Pending(q) /\ Unstarted(q)' = Unstarted(q)
      BY <1>1 DEF Pending, Unstarted
    <2> QED
      BY <1>1, <2>1 DEF Counting, Waits, Asked, Tracked
  <1> QED
    BY <1>1 DEF Counting

\* A step of a producer's own process that neither adds a waiting command nor takes one
\* away.
LEMMA SameWaits ==
    ASSUME Counting, NEW p \in Producers, UNCHANGED <<phase, ctl, counts, tried>>,
           \A q \in Producers \ {p} : /\ cli'[q] = cli[q] /\ wire'[q] = wire[q]
                                      /\ gate'[q] = gate[q] /\ work'[q] = work[q],
           Pending(p)' = Pending(p), cli'[p].ordinal = cli[p].ordinal,
           \A w \in Workers[p] :
              /\ work'[p][w].step \in {"admit", "start"} => work'[p][w].ordinal \in Pending(p)
              /\ work'[p][w].step \in {"running", "exited", "settle"} =>
                   work'[p][w].ordinal \notin Pending(p),
           Asked(p)'
    PROVE  Counting'
  <1>1. \A q \in Producers : Unstarted(q)' = Unstarted(q)
    <2> TAKE q \in Producers
    <2>1. Pending(q)' = Pending(q)
      BY DEF Pending
    <2> QED
      BY <2>1 DEF Unstarted
  <1>2. Exact'
    BY <1>1, SameExact DEF Counting
  <1>3. Waits(p)'
    BY DEF Counting, Waits
  <1>4. Tracked(p)'
    BY <1>1 DEF Counting, Tracked
  <1> QED
    BY <1>2, <1>3, <1>4, OneWaits

\* A thread's step that is no admission, no start and no settlement.
LEMMA IdleWaits ==
    ASSUME IInv, Counting, NEW p \in Producers, NEW w \in Workers[p], NEW x \in Threads,
           Thread(p, w, x), Pending(p)' = Pending(p), cli'[p].ordinal = cli[p].ordinal,
           \A q \in Producers \ {p} : cli'[q] = cli[q],
           x.step \in {"admit", "start"} => x.ordinal \in Pending(p),
           x.step \in {"running", "exited", "settle"} => x.ordinal \notin Pending(p),
           \A q \in Producers \ {p} : wire'[q] = wire[q] /\ gate'[q] = gate[q],
           UNCHANGED <<phase, ctl, counts, tried>>, Asked(p)'
    PROVE  Counting'
  <1>1. /\ work'[p][w] = x /\ \A v \in Workers[p] \ {w} : work'[p][v] = work[p][v]
        /\ \A q \in Producers \ {p} : work'[q] = work[q]
    BY ThreadFacts DEF IInv
  <1>2. \A v \in Workers[p] :
          /\ work'[p][v].step \in {"admit", "start"} => work'[p][v].ordinal \in Pending(p)
          /\ work'[p][v].step \in {"running", "exited", "settle"} =>
               work'[p][v].ordinal \notin Pending(p)
    BY <1>1 DEF Counting, Waits
  <1> QED
    BY <1>1, <1>2, SameWaits

\* Fail keeps what waits.
LEMMA FailWaits ==
    ASSUME Types, NEW p \in Producers, Fail(p) \/ UNCHANGED cli
    PROVE  /\ Pending(p)' = Pending(p) /\ cli'[p].ordinal = cli[p].ordinal
           /\ \A q \in Producers \ {p} : cli'[q] = cli[q]
  <1>1. cli[p] \in Clients /\ cli \in [Producers -> Clients]
    BY DEF Types
  <1>2. cli'[p].active = cli[p].active /\ cli'[p].ordinal = cli[p].ordinal
        /\ \A q \in Producers \ {p} : cli'[q] = cli[q]
    BY <1>1 DEF Fail, Clients
  <1> QED
    BY <1>2 DEF Pending

\* Drop of a started command keeps what waits.
LEMMA DropWaits ==
    ASSUME Types, NEW p \in Producers, NEW S, cli'[p].active = S, S \subseteq cli[p].active,
           \A h \in cli[p].active : h.pending => h \in S
    PROVE  Pending(p)' = Pending(p)
  BY DEF Pending

\* Enter, Unpark, CancelParked, Exit and StartCanceled.
LEMMA StepsWait ==
    ASSUME IInv, Counting, NEW p \in Producers, NEW w \in Workers[p],
           \/ Enter(p, w) \/ Unpark(p, w) \/ CancelParked(p, w) \/ Exit(p, w) \/ StartCanceled(p, w)
    PROVE  Counting'
  <1>1. /\ UNCHANGED <<phase, ctl, counts, tried, gate, wire>> /\ Types
        /\ Fail(p) \/ UNCHANGED cli
    BY DEF IInv, Enter, Unpark, CancelParked, Exit, StartCanceled, admission
  <1>2. /\ Pending(p)' = Pending(p) /\ cli'[p].ordinal = cli[p].ordinal
        /\ \A q \in Producers \ {p} : cli'[q] = cli[q]
    BY <1>1, FailWaits
  <1>3. Asked(p)' /\ Waits(p)
    BY <1>1, <1>2 DEF Counting, Asked
  <1>4. ASSUME NEW x \in Threads, Thread(p, w, x), x.step \notin Started \cup Asking
        PROVE  Counting'
    BY <1>1, <1>2, <1>3, <1>4, IdleWaits DEF Started, Asking
  <1>5. CASE UNCHANGED work
    BY <1>1, <1>2, <1>3, <1>5, SameWaits DEF Waits
  <1>6. CASE Enter(p, w)
    <2>1. PICK persistent \in BOOLEAN :
            \/ Thread(p, w, [Idle EXCEPT !.step = "acquire", !.persistent = persistent])
            \/ Thread(p, w, [Idle EXCEPT !.step = "parked", !.persistent = persistent])
            \/ UNCHANGED work
      BY <1>6 DEF Enter
    <2>2. \A s \in {"acquire", "parked"} :
            /\ [Idle EXCEPT !.step = s, !.persistent = persistent] \in Threads
            /\ [Idle EXCEPT !.step = s, !.persistent = persistent].step = s
      BY DEF Idle, Threads
    <2> QED
      BY <1>4, <1>5, <2>1, <2>2 DEF Started, Asking
  <1>7. CASE Unpark(p, w) \/ CancelParked(p, w) \/ StartCanceled(p, w)
    <2>1. CASE Thread(p, w, Idle)
      BY <1>4, <2>1, IdleFacts DEF Started, Asking
    <2>2. CASE Step(p, w, "acquire")
      <3>1. PICK x \in Threads : Thread(p, w, x) /\ x.step = "acquire"
        BY <1>1, <2>2, StepFacts
      <3> QED
        BY <1>4, <3>1 DEF Started, Asking
    <2> QED
      BY <1>7, <2>1, <2>2 DEF Unpark, CancelParked, StartCanceled
  <1>8. CASE Exit(p, w)
    <2>1. work[p][w].step = "running" /\ Step(p, w, "exited")
      BY <1>8 DEF Exit
    <2>2. PICK x \in Threads : Thread(p, w, x) /\ x.step = "exited" /\ x.ordinal = work[p][w].ordinal
      BY <1>1, <2>1, StepFacts DEF Busy, Started
    <2>3. x.ordinal \notin Pending(p)
      BY <1>3, <2>1, <2>2 DEF Waits
    <2> QED
      BY <1>1, <1>2, <1>3, <2>2, <2>3, IdleWaits
  <1> QED
    BY <1>6, <1>7, <1>8

\* One producer's waiting commands become one more or one less.
LEMMA SumMoves ==
    ASSUME Types, Types', NEW p \in Producers, \A q \in Producers : Waits(q),
           Waits(p)', \A q \in Producers \ {p} : Unstarted(q)' = Unstarted(q),
           NEW d \in Int, Cardinality(Unstarted(p))' = Cardinality(Unstarted(p)) + d
    PROVE  Waiting \in Nat /\ Waiting' = Waiting + d
  <1>1. Parent \in Producers /\ Child \in Producers /\ Successor \in Producers
    BY DEF Producers
  <1>2. /\ Cardinality(Unstarted(Parent)) \in Nat /\ Cardinality(Unstarted(Child)) \in Nat
        /\ Cardinality(Unstarted(Successor)) \in Nat
    BY <1>1, WaitingFinite
  <1>3. p = Parent \/ p = Child \/ p = Successor
    BY DEF Producers
  <1>4. Parent # Child /\ Parent # Successor /\ Child # Successor
    BY ConstantsAssumption
  <1>5. CASE p = Parent
    <2>1. Unstarted(Child)' = Unstarted(Child) /\ Unstarted(Successor)' = Unstarted(Successor)
      BY <1>1, <1>4, <1>5
    <2> QED
      BY <1>2, <1>5, <2>1 DEF Waiting
  <1>6. CASE p = Child
    <2>1. Unstarted(Parent)' = Unstarted(Parent) /\ Unstarted(Successor)' = Unstarted(Successor)
      BY <1>1, <1>4, <1>6
    <2> QED
      BY <1>2, <1>6, <2>1 DEF Waiting
  <1>7. CASE p = Successor
    <2>1. Unstarted(Parent)' = Unstarted(Parent) /\ Unstarted(Child)' = Unstarted(Child)
      BY <1>1, <1>4, <1>7
    <2> QED
      BY <1>2, <1>7, <2>1 DEF Waiting
  <1> QED
    BY <1>3, <1>5, <1>6, <1>7

\* Admit: the new command waits, and the controller has no token of it yet.
LEMMA AdmitWaits ==
    ASSUME IInv, Counting, NEW p \in Producers, NEW w \in Workers[p], Admit(p, w)
    PROVE  Counting'
  <1>1. /\ UNCHANGED <<phase, ctl, counts, tried>> /\ Types /\ Producing(p)
        /\ Waits(p) /\ Asked(p) /\ Tracked(p) /\ Exact
    BY DEF IInv, Admit, admission, Counting
  <1>2. ASSUME NEW x \in Threads, Thread(p, w, x), x.step \notin Started \cup Asking,
               Fail(p) \/ UNCHANGED cli, UNCHANGED <<gate, wire>>
        PROVE  Counting'
    <2>1. /\ Pending(p)' = Pending(p) /\ cli'[p].ordinal = cli[p].ordinal
          /\ \A q \in Producers \ {p} : cli'[q] = cli[q]
      BY <1>1, <1>2, FailWaits
    <2>2. Asked(p)'
      BY <1>1, <1>2, <2>1 DEF Asked
    <2> QED
      BY <1>1, <1>2, <2>1, <2>2, IdleWaits DEF Started, Asking
  <1>3. CASE Step(p, w, "parked") /\ UNCHANGED <<cli, gate, wire>>
    <2>1. PICK x \in Threads : Thread(p, w, x) /\ x.step = "parked"
      BY <1>1, <1>3, StepFacts
    <2> QED
      BY <1>2, <1>3, <2>1 DEF Started, Asking
  <1>4. CASE Fail(p) /\ Thread(p, w, Idle) /\ UNCHANGED <<gate, wire>>
    BY <1>2, <1>4, IdleFacts DEF Started, Asking
  <1> DEFINE n == cli[p].ordinal + 1
             h == Held(n, work[p][w].persistent)
             S == cli[p].active \cup {h}
             x == [work[p][w] EXCEPT !.step = "admit", !.ordinal = n, !.phase = cli[p].phase]
             f == Frame("admit", cli[p].phase, n, work[p][w].persistent)
  <1>5. CASE /\ cli' = [cli EXCEPT ![p].ordinal = n, ![p].active = @ \cup {h}]
             /\ Thread(p, w, x) /\ Send(p, f) /\ Hold(p, w)
    <2>1. cli[p] \in Clients /\ cli[p].ordinal \in Nat /\ cli[p].phase \in Nat /\ work[p][w] \in Threads
          /\ ctl[p].ordinal \in Nat /\ ctl[p].active \in SUBSET Tokens
      BY <1>1 DEF Types, Clients, Rows
    <2>2. /\ cli'[p].ordinal = n /\ cli'[p].active = S
          /\ \A q \in Producers \ {p} : cli'[q] = cli[q]
      BY <1>1, <1>5, <2>1 DEF Types, Clients
    <2>3. h.pending /\ h.ordinal = n
      BY DEF Held
    <2>4. Pending(p)' = Pending(p) \cup {n}
      BY <2>2, <2>3 DEF Pending
    <2>5. x \in Threads /\ x.step = "admit" /\ x.ordinal = n
      <3>1. n \in Nat
        BY <2>1
      <3> HIDE DEF n
      <3> QED
        BY <2>1, <3>1 DEF Threads, Busy, Asking
    <2>6. f.op = "admit" /\ f.ordinal = n /\ ~ f.echo
      BY DEF Frame
    <2> HIDE DEF x, f, S, h
    <2>7. /\ work'[p][w] = x /\ \A v \in Workers[p] \ {w} : work'[p][v] = work[p][v]
          /\ \A q \in Producers \ {p} : work'[q] = work[q]
      BY <1>1, <1>5, <2>5, ThreadFacts
    <2>8. /\ gate'[p] = w /\ wire'[p] = f /\ w # "control"
          /\ \A q \in Producers \ {p} : gate'[q] = gate[q] /\ wire'[q] = wire[q]
      BY <1>1, <1>5, Exchanged, GateNames
    <2>9. \A m \in Pending(p) : m \in Nat /\ m <= cli[p].ordinal
      BY <1>1, WaitingFinite DEF Waits
    <2>10. \A v \in Workers[p] : /\ work[p][v].step \in {"running", "exited", "settle"} =>
                                    work[p][v].ordinal # n
      <3> TAKE v \in Workers[p]
      <3>1. work[p][v].ordinal \in Nat
        BY <1>1 DEF Types, Threads
      <3>2. work[p][v].step \in {"running", "exited", "settle"} => work[p][v].ordinal <= cli[p].ordinal
        BY <1>1 DEF Producing, OrdinalsDiffer, Busy, Started, Asking
      <3> QED
        BY <2>1, <3>1, <3>2
    <2>11. Waits(p)'
      <3>1. \A m \in Pending(p)' : m <= cli'[p].ordinal
        BY <2>1, <2>2, <2>4, <2>9
      <3>2. \A v \in Workers[p] :
              /\ work'[p][v].step \in {"admit", "start"} => work'[p][v].ordinal \in Pending(p)'
              /\ work'[p][v].step \in {"running", "exited", "settle"} =>
                   work'[p][v].ordinal \notin Pending(p)'
        BY <1>1, <2>4, <2>5, <2>7, <2>10 DEF Waits
      <3> QED
        BY <3>1, <3>2 DEF Waits
    <2>12. Asked(p)'
      BY <2>4, <2>6, <2>8 DEF Asked
    <2>13. n \notin {t.ordinal : t \in ctl[p].active}
      <3>1. \A t \in ctl[p].active : t.ordinal \in Nat /\ t.ordinal <= ctl[p].ordinal
        BY <1>1, <2>1 DEF Tracked, Tokens
      <3>2. ctl[p].ordinal <= cli[p].ordinal
        BY <1>1 DEF Tracked
      <3> QED
        BY <2>1, <3>1, <3>2
    <2>14. \A q \in Producers : Unstarted(q)' = Unstarted(q)
      <3> TAKE q \in Producers
      <3>1. CASE q = p
        BY <1>1, <2>4, <2>13, <3>1 DEF Unstarted
      <3>2. CASE q # p
        BY <1>1, <2>2, <3>2 DEF Unstarted, Pending
      <3> QED
        BY <3>1, <3>2
    <2>15. Exact'
      BY <1>1, <2>14, SameExact
    <2>16. Tracked(p)'
      <3>1. ctl[p].ordinal <= cli'[p].ordinal
        BY <1>1, <2>1, <2>2 DEF Tracked
      <3> QED
        BY <1>1, <2>14, <3>1 DEF Tracked
    <2> QED
      BY <1>1, <2>2, <2>7, <2>8, <2>11, <2>12, <2>15, <2>16, OneWaits
  <1> QED
    BY <1>3, <1>4, <1>5 DEF Admit

\* Admitted: the command that may start still waits.
LEMMA AdmittedWaits ==
    ASSUME IInv, Counting, NEW p \in Producers, NEW w \in Workers[p], Admitted(p, w)
    PROVE  Counting'
  <1>1. /\ UNCHANGED <<phase, ctl, cli, counts, tried>> /\ Types /\ Producing(p) /\ Waits(p)
        /\ gate[p] = w /\ wire[p].op = "admit" /\ Step(p, w, "start") /\ Hold(p, "free") /\ Send(p, NoFrame)
    BY DEF IInv, Admitted, admission, Counting, Echoed
  <1>2. work[p][w].step = "admit"
    BY <1>1 DEF Producing, OnWire
  <1>3. PICK x \in Threads : Thread(p, w, x) /\ x.step = "start" /\ x.ordinal = work[p][w].ordinal
    BY <1>1, StepFacts DEF Busy, Started
  <1>4. x.ordinal \in Pending(p) /\ Pending(p)' = Pending(p)
    BY <1>1, <1>2, <1>3 DEF Waits, Pending
  <1>5. /\ gate'[p] = "free" /\ wire'[p] = NoFrame
        /\ \A q \in Producers \ {p} : gate'[q] = gate[q] /\ wire'[q] = wire[q]
    BY <1>1, Exchanged
  <1>6. Asked(p)'
    BY <1>5, NoFrameFacts DEF Asked
  <1> QED
    BY <1>1, <1>3, <1>4, <1>5, <1>6, IdleWaits

\* Start: one command waits no more, and one more was tried.
LEMMA StartWaits ==
    ASSUME IInv, IInv', Counting, NEW p \in Producers, NEW w \in Workers[p], Start(p, w)
    PROVE  Counting'
  <1> DEFINE n == work[p][w].ordinal
             S == {IF t.ordinal = n THEN [t EXCEPT !.pending = FALSE] ELSE t : t \in cli[p].active}
  <1>1. /\ UNCHANGED <<phase, ctl, counts, gate, wire>> /\ Types /\ Types' /\ Producing(p)
        /\ Waits(p) /\ Asked(p) /\ Tracked(p) /\ Exact /\ work[p][w].step = "start"
        /\ tried' = [tried EXCEPT ![phase] = @ + 1] /\ cli' = [cli EXCEPT ![p].active = S]
    BY DEF IInv, Start, admission, Counting
  <1>2. PICK s \in {"running", "exited"} : Step(p, w, s)
    BY DEF Start
  <1>3. PICK x \in Threads : Thread(p, w, x) /\ x.step = s /\ x.ordinal = n
    BY <1>1, <1>2, StepFacts DEF Busy, Started
  <1>4. cli[p] \in Clients /\ cli[p].active \in SUBSET Helds
    BY <1>1 DEF Types, Clients
  <1>5. /\ cli'[p].ordinal = cli[p].ordinal /\ cli'[p].active = S
        /\ \A q \in Producers \ {p} : cli'[q] = cli[q]
    BY <1>1, <1>4 DEF Types, Clients
  <1>6. Pending(p)' = Pending(p) \ {n}
    <2>1. \A t \in cli[p].active : /\ [t EXCEPT !.pending = FALSE].pending = FALSE
                                   /\ [t EXCEPT !.pending = FALSE].ordinal = t.ordinal
      BY <1>4 DEF Helds
    <2>2. \A t \in S : t.pending => t \in cli[p].active /\ t.ordinal # n
      BY <2>1
    <2>3. \A t \in cli[p].active : t.ordinal # n => t \in S
      OBVIOUS
    <2> HIDE DEF S
    <2> QED
      BY <1>5, <2>2, <2>3 DEF Pending
  <1>7. /\ work'[p][w] = x /\ \A v \in Workers[p] \ {w} : work'[p][v] = work[p][v]
        /\ \A q \in Producers \ {p} : work'[q] = work[q]
    BY <1>1, <1>3, ThreadFacts
  <1> HIDE DEF S
  <1>8. \A v \in Workers[p] \ {w} : work[p][v].step \in {"admit", "start"} => work[p][v].ordinal # n
    BY <1>1 DEF Producing, OrdinalsDiffer, Busy, Started, Asking
  <1>9. Waits(p)'
    BY <1>1, <1>3, <1>5, <1>6, <1>7, <1>8 DEF Waits
  <1>10. Asked(p)'
    <2>1. wire[p].op = "admit" /\ ~ wire[p].echo => wire[p].ordinal # n
      BY <1>1 DEF Producing, AsksItsOwn, Asking, Started
    <2> QED
      BY <1>1, <1>6, <2>1 DEF Asked
  <1>11. n \in Unstarted(p)
    <2>1. \E t \in ctl[p].active : t.ordinal = n
      BY <1>1 DEF Producing, Accounted, Holding, Started
    <2>2. n \in Pending(p)
      BY <1>1 DEF Waits
    <2> QED
      BY <2>1, <2>2 DEF Unstarted
  <1>12. Unstarted(p)' = Unstarted(p) \ {n}
    BY <1>1, <1>6 DEF Unstarted
  <1>13. \A q \in Producers \ {p} : Unstarted(q)' = Unstarted(q)
    BY <1>1, <1>5 DEF Unstarted, Pending
  <1>14. Cardinality(Unstarted(p))' = Cardinality(Unstarted(p)) + (-1)
    <2>1. IsFiniteSet(Unstarted(p)) /\ Cardinality(Unstarted(p)) \in Nat
      BY <1>1, WaitingFinite
    <2>2. Cardinality(Unstarted(p) \ {n}) = Cardinality(Unstarted(p)) - 1
      BY <1>11, <2>1, FS_RemoveElement
    <2> QED
      BY <1>12, <2>1, <2>2
  <1>15. Waiting \in Nat /\ Waiting' = Waiting + (-1)
    <2>1. \A q \in Producers : Waits(q)
      BY DEF Counting
    <2> QED
      BY <1>1, <1>9, <1>13, <1>14, <2>1, SumMoves
  <1>16. Exact'
    <2>1. /\ phase \in 1 .. Phases /\ counts \in [1 .. Phases -> Nat] /\ tried \in [1 .. Phases -> Nat]
          /\ \A k \in 1 .. Phases : k # phase => counts[k] = tried[k]
          /\ counts[phase] = tried[phase] + Waiting
      BY <1>1 DEF Exact
    <2>2. /\ tried'[phase] = tried[phase] + 1 /\ tried' \in [1 .. Phases -> Nat]
          /\ \A k \in 1 .. Phases : k # phase => tried'[k] = tried[k]
      BY <1>1, <2>1
    <2>3. counts'[phase'] = tried'[phase'] + Waiting'
      BY <1>1, <1>15, <2>1, <2>2
    <2> QED
      BY <1>1, <2>1, <2>2, <2>3 DEF Exact
  <1>17. Tracked(p)'
    BY <1>1, <1>5, <1>12 DEF Tracked
  <1> QED
    BY <1>1, <1>5, <1>7, <1>9, <1>10, <1>16, <1>17, OneWaits

\* Dropping a started command keeps what waits.
LEMMA DropPending ==
    ASSUME Types, NEW p \in Producers, NEW n, Drop(p, n), n \notin Pending(p)
    PROVE  /\ Pending(p)' = Pending(p) /\ cli'[p].ordinal = cli[p].ordinal
           /\ \A q \in Producers \ {p} : cli'[q] = cli[q]
  <1> DEFINE S == {t \in cli[p].active : t.ordinal # n}
  <1>1. cli[p] \in Clients /\ cli \in [Producers -> Clients] /\ cli' = [cli EXCEPT ![p].active = S]
    BY DEF Types, Drop
  <1>2. \A h \in cli[p].active : h.pending => h \in S
    BY DEF Pending
  <1>3. S \subseteq cli[p].active
    OBVIOUS
  <1> HIDE DEF S
  <1>4. /\ cli'[p].active = S /\ cli'[p].ordinal = cli[p].ordinal
        /\ \A q \in Producers \ {p} : cli'[q] = cli[q]
    BY <1>1 DEF Clients
  <1> QED
    BY <1>2, <1>3, <1>4, DropWaits

\* Settle and Settled: the command settled was started.
LEMMA SettleWaits ==
    ASSUME IInv, Counting, NEW p \in Producers, NEW w \in Workers[p], Settle(p, w) \/ Settled(p, w)
    PROVE  Counting'
  <1>1. /\ UNCHANGED <<phase, ctl, counts, tried>> /\ Types /\ Producing(p) /\ Waits(p) /\ Asked(p)
    BY DEF IInv, Settle, Settled, admission, Counting
  <1> DEFINE n == work[p][w].ordinal
  <1>2. n \notin Pending(p)
    <2>1. work[p][w].step \in {"exited", "settle"}
      BY <1>1 DEF Settle, Settled, Echoed, Producing, OnWire
    <2> QED
      BY <1>1, <2>1 DEF Waits
  <1>3. CASE /\ Send(p, Frame("settle", cli[p].phase, n, FALSE)) /\ Hold(p, w)
             /\ Step(p, w, "settle") /\ UNCHANGED cli
    <2>1. PICK x \in Threads : Thread(p, w, x) /\ x.step = "settle" /\ x.ordinal = n
      BY <1>1, <1>3, StepFacts DEF Busy, Asking
    <2>2. /\ gate'[p] = w /\ wire'[p] = Frame("settle", cli[p].phase, n, FALSE) /\ w # "control"
          /\ \A q \in Producers \ {p} : gate'[q] = gate[q] /\ wire'[q] = wire[q]
      BY <1>1, <1>3, Exchanged, GateNames
    <2>3. Pending(p)' = Pending(p)
      BY <1>3 DEF Pending
    <2>4. Asked(p)'
      BY <1>2, <2>2, <2>3 DEF Asked, Frame
    <2> QED
      BY <1>1, <1>2, <1>3, <2>1, <2>2, <2>3, <2>4, IdleWaits
  <1>4. CASE /\ Drop(p, n) \/ UNCHANGED cli
             /\ Thread(p, w, Idle) /\ UNCHANGED <<gate, wire>>
    <2>1. /\ Pending(p)' = Pending(p) /\ cli'[p].ordinal = cli[p].ordinal
          /\ \A q \in Producers \ {p} : cli'[q] = cli[q]
      BY <1>1, <1>2, <1>4, DropPending, FailWaits
    <2>2. Asked(p)'
      BY <1>1, <1>4, <2>1 DEF Asked
    <2> QED
      BY <1>1, <1>4, <2>1, <2>2, IdleFacts, IdleWaits
  <1>5. CASE Drop(p, n) /\ Thread(p, w, Idle) /\ Hold(p, "free") /\ Send(p, NoFrame)
    <2>1. /\ Pending(p)' = Pending(p) /\ cli'[p].ordinal = cli[p].ordinal
          /\ \A q \in Producers \ {p} : cli'[q] = cli[q]
      BY <1>1, <1>2, <1>5, DropPending
    <2>2. /\ gate'[p] = "free" /\ wire'[p] = NoFrame
          /\ \A q \in Producers \ {p} : gate'[q] = gate[q] /\ wire'[q] = wire[q]
      BY <1>1, <1>5, Exchanged
    <2>3. Asked(p)'
      BY <2>2, NoFrameFacts DEF Asked
    <2> QED
      BY <1>1, <1>5, <2>1, <2>2, <2>3, IdleFacts, IdleWaits
  <1> QED
    BY <1>3, <1>4, <1>5 DEF Settle, Settled

\* ExchangeFails: an admission that got no echo still waits, a settlement does not.
LEMMA ExchangeFailsWaits ==
    ASSUME IInv, Counting, NEW p \in Producers, ExchangeFails(p)
    PROVE  Counting'
  <1> DEFINE h == gate[p]
             settling == h # "control" /\ wire[p].op = "settle"
             S == {t \in cli[p].active : ~ (settling /\ t.ordinal = work[p][h].ordinal)}
             f == wire[p]
  <1>1. /\ UNCHANGED <<phase, ctl, counts, tried>> /\ Types /\ Producing(p) /\ Waits(p) /\ Asked(p)
        /\ gate[p] # "free" /\ Hold(p, "free") /\ Send(p, f)
        /\ cli' = [cli EXCEPT ![p].err = TRUE, ![p].active = S]
        /\ work' = IF h = "control" THEN work ELSE [work EXCEPT ![p][h] = Idle]
    BY DEF IInv, ExchangeFails, admission, Counting, Send, Types
  <1>2. h # "control" => h \in Workers[p]
    BY <1>1 DEF Types
  <1>3. settling => work[p][h].ordinal \notin Pending(p)
    BY <1>1, <1>2 DEF Producing, OnWire, Asked
  <1>4. S \subseteq cli[p].active /\ \A t \in cli[p].active : t.pending => t \in S
    BY <1>3 DEF Pending
  <1> HIDE DEF S, settling, f
  <1>5. /\ cli'[p].active = S /\ cli'[p].ordinal = cli[p].ordinal
        /\ \A q \in Producers \ {p} : cli'[q] = cli[q]
    BY <1>1 DEF Types, Clients
  <1>6. Pending(p)' = Pending(p)
    BY <1>1, <1>4, <1>5, DropWaits
  <1>7. /\ gate'[p] = "free" /\ wire'[p] = f
        /\ \A q \in Producers \ {p} : gate'[q] = gate[q] /\ wire'[q] = wire[q]
    BY <1>1, Exchanged
  <1>8. Asked(p)'
    BY <1>1, <1>6, <1>7 DEF Asked, f
  <1>9. CASE h = "control"
    <2>1. UNCHANGED work
      BY <1>1, <1>9
    <2> QED
      BY <1>1, <1>5, <1>6, <1>7, <1>8, <2>1, SameWaits DEF Waits
  <1>10. CASE h # "control"
    <2>1. Thread(p, h, Idle)
      BY <1>1, <1>10 DEF Thread
    <2> QED
      BY <1>1, <1>2, <1>5, <1>6, <1>7, <1>8, <1>10, <2>1, IdleFacts, IdleWaits
  <1> QED
    BY <1>9, <1>10

\* The owner's calls in a client; none is recorded while a command waits.
LEMMA ControlWaits ==
    ASSUME IInv, Counting, NEW p \in Producers, Control(p) \/ CallFails(p)
    PROVE  Counting'
  <1>1. /\ UNCHANGED <<phase, ctl, counts, tried, work>> /\ Types /\ Waits(p) /\ Asked(p)
        /\ cli[p] \in Clients /\ cli \in [Producers -> Clients]
    BY DEF IInv, Types, Counting, Control, Pause, PauseDone, Fences, Drained, Carry, Record, Recorded,
           Resume, CallFails, admission
  <1>2. ASSUME Pending(p)' = Pending(p), cli'[p].ordinal = cli[p].ordinal,
               \A q \in Producers \ {p} : /\ cli'[q] = cli[q] /\ wire'[q] = wire[q]
                                          /\ gate'[q] = gate[q],
               Asked(p)'
        PROVE  Counting'
    BY <1>1, <1>2, SameWaits DEF Waits
  <1>3. CASE Pause(p) \/ PauseDone(p) \/ Fences(p) \/ Resume(p) \/ CallFails(p)
    <2>1. UNCHANGED <<gate, wire>> /\ Pending(p)' = Pending(p) /\ cli'[p].ordinal = cli[p].ordinal
          /\ \A q \in Producers \ {p} : cli'[q] = cli[q]
      <3>1. CASE Pause(p) \/ CallFails(p)
        BY <1>1, <3>1 DEF Pause, CallFails, Fail, Clients, Pending
      <3>2. CASE PauseDone(p)
        BY <3>2 DEF PauseDone, Pending
      <3>3. CASE Fences(p)
        BY <1>1, <3>3 DEF Fences, Clients, Pending
      <3>4. CASE Resume(p)
        BY <1>1, <3>4 DEF Resume, Fail, Clients, Pending
      <3> QED
        BY <1>3, <3>1, <3>2, <3>3, <3>4
    <2>2. Asked(p)'
      BY <1>1, <2>1 DEF Asked
    <2> QED
      BY <1>2, <2>1, <2>2
  <1>4. CASE Drained(p)
    <2>1. UNCHANGED <<cli, wire>> /\ Hold(p, "control") /\ Quiescent(p)
      BY <1>4 DEF Drained
    <2>2. Pending(p) = {} /\ Pending(p)' = Pending(p)
      BY <2>1 DEF Quiescent, Pending
    <2>3. Asked(p)' /\ \A q \in Producers \ {p} : gate'[q] = gate[q]
      BY <1>1, <2>1, <2>2, GateFacts DEF Asked
    <2> QED
      BY <1>2, <2>1, <2>2, <2>3
  <1>5. CASE Carry(p)
    <2>1. /\ gate[p] = "control" /\ UNCHANGED gate
          /\ \E t \in cli[p].active :
               \/ Send(p, Frame("carry", cli[p].phase, t.ordinal, FALSE)) /\ UNCHANGED cli
               \/ /\ cli' = [cli EXCEPT ![p].active = (@ \ {t}) \cup {[t EXCEPT !.carried = TRUE]}]
                  /\ Send(p, NoFrame)
      BY <1>5 DEF Carry, Rpc
    <2>2. PICK t \in cli[p].active :
            \/ Send(p, Frame("carry", cli[p].phase, t.ordinal, FALSE)) /\ UNCHANGED cli
            \/ /\ cli' = [cli EXCEPT ![p].active = (@ \ {t}) \cup {[t EXCEPT !.carried = TRUE]}]
               /\ Send(p, NoFrame)
      BY <2>1
    <2>3. Pending(p) = {} /\ \A x \in cli[p].active : ~ x.pending
      BY <1>1, <2>1 DEF Asked, Pending
    <2> DEFINE y == [t EXCEPT !.carried = TRUE]
               S == (cli[p].active \ {t}) \cup {y}
    <2>4. ~ y.pending
      BY <1>1, <2>3 DEF Clients, Helds
    <2>5. \A x \in S : ~ x.pending
      BY <2>3, <2>4
    <2>6. UNCHANGED cli \/ cli' = [cli EXCEPT ![p].active = S]
      BY <2>2
    <2> HIDE DEF S
    <2>7. /\ cli'[p].active = cli[p].active \/ cli'[p].active = S
          /\ cli'[p].ordinal = cli[p].ordinal /\ \A q \in Producers \ {p} : cli'[q] = cli[q]
      BY <1>1, <2>6 DEF Clients
    <2>8. Pending(p)' = {}
      BY <2>3, <2>5, <2>7 DEF Pending
    <2>9. \A q \in Producers \ {p} : wire'[q] = wire[q]
      BY <1>1, <2>2 DEF Types, Send
    <2>10. wire'[p].op \in {"carry", "none"}
      BY <1>1, <2>2, NoFrameFacts DEF Types, Send, Frame
    <2>11. Asked(p)'
      BY <2>8, <2>10 DEF Asked
    <2> QED
      BY <1>2, <2>1, <2>3, <2>7, <2>8, <2>9, <2>11
  <1>6. CASE Record(p)
    <2> DEFINE f == Frame(IF Closing(p) THEN "close" ELSE "checkpoint", cli[p].phase, cli[p].ordinal, FALSE)
    <2>1. gate[p] = "control" /\ UNCHANGED <<gate, cli>> /\ Send(p, f)
      BY <1>6 DEF Record, Rpc
    <2>2. f.op \in {"close", "checkpoint"}
      BY DEF Frame
    <2> HIDE DEF f
    <2>3. Pending(p) = {} /\ Pending(p)' = Pending(p)
      BY <1>1, <2>1 DEF Asked, Pending
    <2>4. wire'[p] = f /\ \A q \in Producers \ {p} : wire'[q] = wire[q]
      BY <1>1, <2>1 DEF Types, Send
    <2>5. Asked(p)'
      BY <2>2, <2>3, <2>4 DEF Asked
    <2> QED
      BY <1>2, <2>1, <2>3, <2>4, <2>5
  <1>7. CASE Recorded(p)
    <2>1. /\ Hold(p, "free") /\ Send(p, NoFrame)
          /\ cli' = [cli EXCEPT ![p].checkpoint = TRUE, ![p].closed = Closing(p)]
      BY <1>7 DEF Recorded
    <2>2. /\ cli'[p].active = cli[p].active /\ cli'[p].ordinal = cli[p].ordinal
          /\ \A q \in Producers \ {p} : cli'[q] = cli[q]
      BY <1>1, <2>1 DEF Clients
    <2>3. /\ gate'[p] = "free" /\ wire'[p] = NoFrame
          /\ \A q \in Producers \ {p} : gate'[q] = gate[q] /\ wire'[q] = wire[q]
      BY <1>1, <2>1, Exchanged
    <2>4. Asked(p)' /\ Pending(p)' = Pending(p)
      BY <2>2, <2>3, NoFrameFacts DEF Asked, Pending
    <2> QED
      BY <1>2, <2>2, <2>3, <2>4
  <1> QED
    BY <1>3, <1>4, <1>5, <1>6, <1>7 DEF Control

\* A step that leaves the waiting commands of every producer alone.
LEMMA RowWaits ==
    ASSUME Counting, NEW p \in Producers, UNCHANGED <<phase, counts, tried>>,
           \A q \in Producers \ {p} : /\ ctl'[q] = ctl[q] /\ cli'[q] = cli[q] /\ wire'[q] = wire[q]
                                      /\ gate'[q] = gate[q] /\ work'[q] = work[q],
           Unstarted(p)' = Unstarted(p), Waits(p)', Asked(p)', Tracked(p)'
    PROVE  Counting'
  <1>1. \A q \in Producers : Unstarted(q)' = Unstarted(q)
    BY DEF Unstarted, Pending
  <1>2. Exact'
    BY <1>1, SameExact DEF Counting
  <1> QED
    BY <1>2, OneWaits

\* Accept: only an admission counts, and only a command that waits is admitted.
LEMMA AcceptWaits ==
    ASSUME IInv, IInv', Counting, NEW p \in Producers, Accept(p)
    PROVE  Counting'
  <1> DEFINE f == wire[p]
             r == RowAfter(p, f)
             n == f.ordinal
  <1>1. /\ Types /\ Types' /\ Producing(p) /\ Waits(p) /\ Asked(p) /\ Tracked(p) /\ Exact
    BY DEF IInv, Counting
  <1>2. /\ UNCHANGED <<phase, cli, gate, work, tried>> /\ f \in Frames /\ f.op # "none" /\ ~ f.echo
        /\ \A q \in Producers \ {p} : wire'[q] = wire[q] /\ ctl'[q] = ctl[q]
        /\ wire'[p].op # "none" =>
             Accepted(p) /\ wire'[p].op = f.op /\ wire'[p].echo /\ wire'[p].ordinal = n
        /\ ctl'[p] = (IF Accepted(p) THEN r ELSE ctl[p])
        /\ counts' = (IF Accepted(p) /\ f.op = "admit" THEN [counts EXCEPT ![phase] = @ + 1] ELSE counts)
        /\ Accepted(p) => /\ ~ ctl[p].closed /\ ~ ctl[p].hardDeath
                          /\ f.op = "admit" => ctl[p].checkpoint # phase /\ n = ctl[p].ordinal + 1
                          /\ f.op = "close" => ctl[p].active = {}
    BY AcceptFacts
  <1>3. /\ r.attached = ctl[p].attached /\ r.hardDeath = ctl[p].hardDeath
        /\ r.ordinal = (IF f.op = "admit" THEN ctl[p].ordinal + 1 ELSE ctl[p].ordinal)
        /\ f.op \notin {"checkpoint", "close"} =>
             r.checkpoint = ctl[p].checkpoint /\ r.closed = ctl[p].closed
        /\ f.op = "admit" => r.active = ctl[p].active \cup {Token(n, f.persistent)}
        /\ f.op = "settle" => r.active = {t \in ctl[p].active : t.ordinal # n}
        /\ f.op = "carry" =>
             /\ \A t \in ctl[p].active : \E s \in r.active : s.ordinal = t.ordinal
             /\ \A s \in r.active : \E t \in ctl[p].active : s.ordinal = t.ordinal
        /\ f.op \in {"checkpoint", "close"} => r.active = ctl[p].active /\ r.closed = (f.op = "close")
    BY <1>1, <1>2, RowAfterFacts
  <1> HIDE DEF r
  <1>4. Pending(p)' = Pending(p) /\ ctl[p].attached
    BY <1>1, <1>2 DEF Pending, Producing, GoneIsQuiet
  <1>5. Waits(p)'
    BY <1>1, <1>2, <1>4 DEF Waits
  <1>6. Asked(p)'
    BY <1>1, <1>2, <1>4 DEF Asked
  <1>7. f.op \in {"admit", "settle", "carry", "checkpoint", "close"}
    BY <1>2 DEF Frames
  <1>8. CASE ~ Accepted(p)
    <2>1. Unstarted(p)' = Unstarted(p)
      BY <1>2, <1>4, <1>8 DEF Unstarted
    <2>2. Tracked(p)'
      BY <1>1, <1>2, <1>8, <2>1 DEF Tracked
    <2> QED
      BY <1>2, <1>5, <1>6, <1>8, <2>1, <2>2, RowWaits
  <1>9. CASE Accepted(p) /\ f.op = "settle"
    <2>1. n \notin Pending(p)
      BY <1>1, <1>9 DEF Asked
    <2>2. ctl'[p].active = {t \in ctl[p].active : t.ordinal # n}
      BY <1>2, <1>3, <1>9
    <2>3. Unstarted(p)' = Unstarted(p)
      BY <1>4, <2>1, <2>2 DEF Unstarted
    <2>4. Tracked(p)'
      BY <1>1, <1>2, <1>3, <1>9, <2>2, <2>3 DEF Tracked
    <2> QED
      BY <1>2, <1>5, <1>6, <1>9, <2>3, <2>4, RowWaits
  <1>10. CASE Accepted(p) /\ f.op = "carry"
    <2>1. {t.ordinal : t \in ctl'[p].active} = {t.ordinal : t \in ctl[p].active}
      BY <1>2, <1>3, <1>10
    <2>2. Unstarted(p)' = Unstarted(p)
      BY <1>4, <2>1 DEF Unstarted
    <2>3. \A t \in ctl'[p].active : t.ordinal <= ctl'[p].ordinal
      BY <1>1, <1>2, <1>3, <1>10 DEF Tracked
    <2>4. Tracked(p)'
      BY <1>1, <1>2, <1>3, <1>4, <1>10, <2>2, <2>3 DEF Tracked
    <2> QED
      BY <1>2, <1>5, <1>6, <1>10, <2>2, <2>4, RowWaits
  <1>11. CASE Accepted(p) /\ f.op \in {"checkpoint", "close"}
    <2>1. Pending(p) = {}
      BY <1>1, <1>11 DEF Asked
    <2>2. Unstarted(p)' = {} /\ Unstarted(p) = {}
      BY <1>4, <2>1 DEF Unstarted
    <2>3. Tracked(p)'
      BY <1>1, <1>2, <1>3, <1>4, <1>11, <2>2 DEF Tracked
    <2> QED
      BY <1>2, <1>5, <1>6, <1>11, <2>2, <2>3, RowWaits
  <1>12. CASE Accepted(p) /\ f.op = "admit"
    <2> DEFINE t0 == Token(n, f.persistent)
    <2>1. n \in Pending(p) /\ n = ctl[p].ordinal + 1 /\ ctl[p].ordinal \in Nat /\ n \in Nat
      BY <1>1, <1>2, <1>12 DEF Asked, Types, Rows, Frames
    <2>2. t0.ordinal = n
      BY DEF Token
    <2>3. ctl'[p].active = ctl[p].active \cup {t0} /\ ctl'[p].ordinal = n
      BY <1>2, <1>3, <1>12, <2>1
    <2> HIDE DEF t0
    <2>4. \A t \in ctl[p].active : t.ordinal \in Nat /\ t.ordinal <= ctl[p].ordinal
      BY <1>1 DEF Tracked, Types, Rows, Tokens
    <2>5. n \notin Unstarted(p)
      BY <2>1, <2>4 DEF Unstarted
    <2>6. Unstarted(p)' = Unstarted(p) \cup {n}
      BY <1>4, <2>1, <2>2, <2>3 DEF Unstarted
    <2>7. \A q \in Producers \ {p} : Unstarted(q)' = Unstarted(q)
      BY <1>2 DEF Unstarted, Pending
    <2>8. Cardinality(Unstarted(p))' = Cardinality(Unstarted(p)) + 1
      <3>1. IsFiniteSet(Unstarted(p)) /\ Cardinality(Unstarted(p)) \in Nat
        BY <1>1, WaitingFinite
      <3>2. Cardinality(Unstarted(p) \cup {n}) = Cardinality(Unstarted(p)) + 1
        BY <2>5, <3>1, FS_AddElement
      <3> QED
        BY <2>6, <3>2
    <2>9. Waiting \in Nat /\ Waiting' = Waiting + 1
      <3>1. \A q \in Producers : Waits(q)
        BY DEF Counting
      <3> QED
        BY <1>1, <1>5, <2>7, <2>8, <3>1, SumMoves
    <2>10. Exact'
      <3>1. /\ phase \in 1 .. Phases /\ counts \in [1 .. Phases -> Nat] /\ tried \in [1 .. Phases -> Nat]
            /\ \A k \in 1 .. Phases : k # phase => counts[k] = tried[k]
            /\ counts[phase] = tried[phase] + Waiting
        BY <1>1 DEF Exact
      <3>2. /\ counts'[phase] = counts[phase] + 1 /\ counts' \in [1 .. Phases -> Nat]
            /\ \A k \in 1 .. Phases : k # phase => counts'[k] = counts[k]
        BY <1>2, <1>12, <3>1
      <3>3. counts'[phase'] = tried'[phase'] + Waiting'
        BY <1>2, <2>9, <3>1, <3>2
      <3> QED
        BY <1>2, <3>1, <3>2, <3>3 DEF Exact
    <2>11. Tracked(p)'
      <3>1. \A t \in ctl'[p].active : t.ordinal <= ctl'[p].ordinal
        BY <2>1, <2>2, <2>3, <2>4
      <3>2. ctl'[p].ordinal <= cli'[p].ordinal
        BY <1>1, <1>2, <2>1, <2>3 DEF Waits
      <3> QED
        BY <1>2, <1>3, <1>4, <1>12, <3>1, <3>2 DEF Tracked
    <2> QED
      BY <1>2, <1>5, <1>6, <2>10, <2>11, OneWaits
  <1> QED
    BY <1>7, <1>8, <1>9, <1>10, <1>11, <1>12

\* EndStream changes no token.
LEMMA EndStreamWaits ==
    ASSUME IInv, Counting, NEW p \in Producers, EndStream(p)
    PROVE  Counting'
  <1>1. /\ UNCHANGED <<phase, counts, tried, cli, gate, work>> /\ ctl[p] \in Rows
        /\ ctl'[p] = [ctl[p] EXCEPT !.eof = TRUE] /\ wire'[p] = NoFrame
        /\ \A q \in Producers \ {p} : ctl'[q] = ctl[q] /\ wire'[q] = wire[q]
        /\ Waits(p) /\ Asked(p) /\ Tracked(p)
    BY DEF EndStream, IInv, Types, Counting, Send
  <1>2. /\ ctl'[p].active = ctl[p].active /\ ctl'[p].ordinal = ctl[p].ordinal
        /\ ctl'[p].checkpoint = ctl[p].checkpoint /\ ctl'[p].hardDeath = ctl[p].hardDeath
        /\ ctl'[p].closed = ctl[p].closed /\ ctl'[p].attached = ctl[p].attached
    BY <1>1 DEF Rows
  <1>3. Pending(p)' = Pending(p) /\ Unstarted(p)' = Unstarted(p)
    BY <1>1, <1>2 DEF Pending, Unstarted
  <1>4. Waits(p)' /\ Asked(p)' /\ Tracked(p)'
    BY <1>1, <1>2, <1>3, NoFrameFacts DEF Waits, Asked, Tracked
  <1> QED
    BY <1>1, <1>3, <1>4, RowWaits

\* StreamBreaks, Begin, Call, Return, Fence, Resumed and a stuttering step.
LEMMA NothingWaits ==
    ASSUME Counting, UNCHANGED <<phase, counts, tried, ctl, cli, wire, gate, work>>
    PROVE  Counting'
  <1>1. Parent \in Producers /\ Waits(Parent) /\ Asked(Parent) /\ Pending(Parent)' = Pending(Parent)
    BY DEF Producers, Counting, Pending
  <1>2. Asked(Parent)'
    BY <1>1 DEF Asked
  <1> QED
    BY <1>1, <1>2, SameWaits DEF Waits

\* Kill and Crash: a command that waited is never tried.
LEMMA DeathWaits ==
    ASSUME IInv, Counting, Kill \/ \E p \in Producers : Crash(p)
    PROVE  Counting'
  <1>1. ASSUME NEW p \in Producers, Dies(p), UNCHANGED <<phase, ctl, wire, counts, tried>>
        PROVE  Counting'
    <2>1. /\ gate'[p] = "free" /\ \A w \in Workers[p] : work'[p][w].step = "dead"
          /\ \A q \in Producers \ {p} : cli'[q] = cli[q] /\ gate'[q] = gate[q] /\ work'[q] = work[q]
      BY <1>1, DiesFacts
    <2>2. cli'[p].active = cli[p].active /\ cli'[p].ordinal = cli[p].ordinal
      BY <1>1 DEF Dies, IInv, Types, Clients
    <2>3. Pending(p)' = Pending(p) /\ Asked(p)
      BY <2>2 DEF Pending, Counting
    <2>4. Asked(p)'
      BY <1>1, <2>1, <2>3 DEF Asked
    <2> QED
      BY <1>1, <2>1, <2>2, <2>3, <2>4, SameWaits
  <1>2. CASE Kill
    <2>1. /\ Child \in Producers /\ UNCHANGED <<phase, ctl, wire, counts, tried>>
          /\ Dies(Child) \/ UNCHANGED <<cli, work, gate>>
      BY <1>2 DEF Kill, admission, Producers
    <2> QED
      BY <1>1, <2>1, NothingWaits
  <1>3. ASSUME NEW p \in Producers, Crash(p)
        PROVE  Counting'
    <2>1. UNCHANGED <<phase, ctl, wire, counts, tried>> /\ Dies(p)
      BY <1>3 DEF Crash, admission
    <2> QED
      BY <1>1, <2>1
  <1> QED
    BY <1>2, <1>3

\* The steps that change one row in the owner's name: nothing waits there.
LEMMA OwnersRow ==
    ASSUME Counting, NEW p \in Producers, UNCHANGED <<phase, counts, tried, wire, gate, work>>,
           \A q \in Producers \ {p} : ctl'[q] = ctl[q] /\ cli'[q] = cli[q],
           cli'[p].active = cli[p].active, cli'[p].ordinal = cli[p].ordinal,
           ctl'[p].ordinal = ctl[p].ordinal, ctl'[p].attached = ctl[p].attached,
           Unstarted(p)' = Unstarted(p), ctl'[p].active \subseteq ctl[p].active,
           ctl'[p].closed => ctl[p].closed \/ ctl'[p].active = {},
           (ctl'[p].checkpoint = phase \/ ctl'[p].hardDeath) => Unstarted(p) = {}
    PROVE  Counting'
  <1>1. Waits(p) /\ Asked(p) /\ Tracked(p) /\ Pending(p)' = Pending(p)
    BY DEF Counting, Pending
  <1>2. Waits(p)' /\ Asked(p)' /\ Tracked(p)'
    BY <1>1 DEF Waits, Asked, Tracked
  <1> QED
    BY <1>2, RowWaits

\* ExpectHardDeath: the child was checkpointed, so none of its commands waits.
LEMMA ExpectHardDeathWaits ==
    ASSUME IInv, Chain, Counting, ExpectHardDeath
    PROVE  Counting'
  <1> DEFINE p == Child
  <1>1. /\ p \in Producers /\ ctl[p] \in Rows /\ Tracked(p)
        /\ UNCHANGED <<phase, counts, tried, cli, wire, gate, work>>
        /\ ctl'[p] = [ctl[p] EXCEPT !.hardDeath = TRUE] /\ \A q \in Producers \ {p} : ctl'[q] = ctl[q]
    BY DEF ExpectHardDeath, IInv, Types, Counting, Producers
  <1>2. ctl[p].checkpoint = phase
    BY DEF ExpectHardDeath, Called, At, Chain, Heeded
  <1>3. Unstarted(p) = {}
    BY <1>1, <1>2 DEF Tracked
  <1> HIDE DEF p
  <1>4. /\ ctl'[p].active = ctl[p].active /\ ctl'[p].ordinal = ctl[p].ordinal
        /\ ctl'[p].closed = ctl[p].closed /\ ctl'[p].attached = ctl[p].attached
    BY <1>1 DEF Rows
  <1>5. Unstarted(p)' = Unstarted(p)
    BY <1>1, <1>4 DEF Unstarted, Pending
  <1> QED
    BY <1>1, <1>3, <1>4, <1>5, OwnersRow

\* CloseHardDeath gives up the tokens of a child of which no command waits.
LEMMA CloseHardDeathWaits ==
    ASSUME IInv, Counting, CloseHardDeath
    PROVE  Counting'
  <1> DEFINE p == Child
  <1>1. /\ p \in Producers /\ ctl[p] \in Rows /\ Tracked(p) /\ ctl[p].hardDeath
        /\ UNCHANGED <<phase, counts, tried, cli, wire, gate, work>>
        /\ ctl'[p] = [ctl[p] EXCEPT !.active = {}, !.closed = TRUE]
        /\ \A q \in Producers \ {p} : ctl'[q] = ctl[q]
    BY DEF CloseHardDeath, IInv, Types, Counting, Producers
  <1>2. Unstarted(p) = {}
    BY <1>1 DEF Tracked
  <1> HIDE DEF p
  <1>3. /\ ctl'[p].active = {} /\ ctl'[p].ordinal = ctl[p].ordinal
        /\ ctl'[p].attached = ctl[p].attached
    BY <1>1 DEF Rows
  <1>4. Unstarted(p)' = Unstarted(p)
    BY <1>2, <1>3 DEF Unstarted
  <1> QED
    BY <1>1, <1>2, <1>3, <1>4, OwnersRow

\* Reopen takes back the parent's checkpoint or fails its client.
LEMMA ReopenWaits ==
    ASSUME IInv, Counting, Reopen
    PROVE  Counting'
  <1> DEFINE p == Parent
  <1>1. /\ p \in Producers /\ ctl[p] \in Rows /\ cli[p] \in Clients /\ Tracked(p) /\ phase # 0
        /\ UNCHANGED <<phase, counts, tried, wire, gate, work>>
        /\ ctl \in [Producers -> Rows] /\ cli \in [Producers -> Clients]
        /\ \/ /\ ctl' = [ctl EXCEPT ![p].checkpoint = 0]
              /\ cli' = [cli EXCEPT ![p].paused = FALSE, ![p].fenced = FALSE, ![p].checkpoint = FALSE]
           \/ UNCHANGED ctl /\ Fail(p)
    BY DEF Reopen, IInv, Types, Counting, Producers
  <1> HIDE DEF p
  <1>2. /\ cli'[p].active = cli[p].active /\ cli'[p].ordinal = cli[p].ordinal
        /\ \A q \in Producers \ {p} : cli'[q] = cli[q]
    BY <1>1 DEF Clients, Fail
  <1>3. /\ ctl'[p].active = ctl[p].active /\ ctl'[p].ordinal = ctl[p].ordinal
        /\ ctl'[p].closed = ctl[p].closed /\ ctl'[p].attached = ctl[p].attached
        /\ ctl'[p].hardDeath = ctl[p].hardDeath /\ ctl'[p].checkpoint \in {0, ctl[p].checkpoint}
        /\ \A q \in Producers \ {p} : ctl'[q] = ctl[q]
    BY <1>1 DEF Rows
  <1>4. Unstarted(p)' = Unstarted(p)
    BY <1>2, <1>3 DEF Unstarted, Pending
  <1>5. (ctl'[p].checkpoint = phase \/ ctl'[p].hardDeath) => Unstarted(p) = {}
    BY <1>1, <1>3 DEF Tracked
  <1> QED
    BY <1>1, <1>2, <1>3, <1>4, <1>5, OwnersRow

\* CancelUnused: everybody attached has closed, so the producer closed has no token.
LEMMA CancelUnusedWaits ==
    ASSUME IInv, Chain, Counting, CancelUnused
    PROVE  Counting'
  <1> DEFINE p == Successor
  <1>1. /\ p \in Producers /\ ctl[p] \in Rows /\ Tracked(p)
        /\ UNCHANGED <<phase, counts, tried, cli, wire, gate, work>>
        /\ ctl'[p] = [ctl[p] EXCEPT !.closed = TRUE] /\ \A q \in Producers \ {p} : ctl'[q] = ctl[q]
    BY DEF CancelUnused, IInv, Types, Counting, Producers
  <1>2. ~ ctl[p].attached \/ ctl[p].closed
    BY <1>1 DEF CancelUnused, Called, At, Chain, Heeded
  <1>3. ctl[p].active = {}
    BY <1>1, <1>2 DEF Tracked
  <1> HIDE DEF p
  <1>4. /\ ctl'[p].active = ctl[p].active /\ ctl'[p].ordinal = ctl[p].ordinal
        /\ ctl'[p].attached = ctl[p].attached
    BY <1>1 DEF Rows
  <1>5. Unstarted(p)' = Unstarted(p) /\ Unstarted(p) = {}
    BY <1>1, <1>3, <1>4 DEF Unstarted, Pending
  <1> QED
    BY <1>1, <1>3, <1>4, <1>5, OwnersRow

\* Launch: nothing was asked in the successor's name.
LEMMA LaunchWaits ==
    ASSUME IInv, Counting, Launch
    PROVE  Counting'
  <1> DEFINE p == Successor
             c == NewClient(phase)
  <1>1. p \in Producers /\ ctl[p] = Unattached /\ ~ Unattached.attached /\ Unattached.hardDeath = FALSE
        /\ Unattached.closed = FALSE /\ Unattached.active = {} /\ Unattached.checkpoint = 0
        /\ Unattached.ordinal = 0
    BY DEF Launch, Producers, Unattached
  <1>2. /\ UNCHANGED <<phase, counts, tried, wire, gate, work>> /\ ctl[p] \in Rows /\ phase # 0
        /\ ctl'[p] = [ctl[p] EXCEPT !.attached = TRUE] /\ \A q \in Producers \ {p} : ctl'[q] = ctl[q]
        /\ cli'[p] = c /\ \A q \in Producers \ {p} : cli'[q] = cli[q]
        /\ Producing(p)
    BY <1>1 DEF Launch, IInv, Types
  <1>3. c.ordinal = 0 /\ c.active = {}
    BY DEF NewClient
  <1> HIDE DEF p, c
  <1>4. /\ ctl'[p].active = {} /\ ctl'[p].ordinal = 0 /\ ctl'[p].attached /\ ~ ctl'[p].hardDeath
        /\ ~ ctl'[p].closed /\ ctl'[p].checkpoint = 0
    BY <1>1, <1>2 DEF Rows
  <1>5. Pending(p)' = {} /\ Unstarted(p)' = {} /\ Unstarted(p) = {}
    BY <1>1, <1>2, <1>3, <1>4 DEF Pending, Unstarted
  <1>6. /\ wire[p].op = "none" /\ gate[p] = "free"
        /\ \A w \in Workers[p] : work[p][w].step \in {"idle", "dead"}
    BY <1>1, <1>2 DEF Producing, GoneIsQuiet
  <1>7. Waits(p)' /\ Asked(p)' /\ Tracked(p)'
    BY <1>2, <1>3, <1>4, <1>5, <1>6 DEF Waits, Asked, Tracked
  <1> QED
    BY <1>1, <1>2, <1>5, <1>7, RowWaits

\* Advance: nothing waits anywhere, so the count of the phase left is final.
LEMMA AdvanceWaits ==
    ASSUME IInv, Counting, Advance
    PROVE  Counting'
  <1>1. /\ UNCHANGED <<counts, tried, ctl, cli, wire, gate, work>> /\ phase' = phase + 1
        /\ phase < Phases /\ phase \in Nat \ {0} /\ \A p \in Live : ctl[p].checkpoint = phase
        /\ Exact
    BY DEF Advance, IInv, Types, Counting
  <1>2. \A p \in Producers : Unstarted(p) = {}
    <2> TAKE p \in Producers
    <2>1. Tracked(p)
      BY DEF Counting
    <2>2. CASE p \in Live
      BY <1>1, <2>1, <2>2 DEF Tracked
    <2>3. CASE p \notin Live
      <3>1. ctl[p].active = {}
        BY <2>1, <2>3 DEF Live, Tracked
      <3> QED
        BY <3>1 DEF Unstarted
    <2> QED
      BY <2>2, <2>3
  <1>3. \A p \in Producers : Pending(p)' = Pending(p) /\ Unstarted(p)' = {}
    BY <1>1, <1>2 DEF Pending, Unstarted
  <1>4. Waiting = 0 /\ Waiting' = 0
    BY <1>2, <1>3, FS_EmptySet DEF Waiting, Producers
  <1>5. Exact'
    <2>1. /\ phase \in 1 .. Phases /\ Phases \in Nat
          /\ counts \in [1 .. Phases -> Nat] /\ tried \in [1 .. Phases -> Nat]
          /\ \A k \in 1 .. Phases : k # phase => counts[k] = tried[k]
          /\ counts[phase] = tried[phase] + Waiting
      BY <1>1, ConstantsAssumption DEF Exact
    <2>2. \A k \in 1 .. Phases : counts[k] = tried[k]
      BY <1>4, <2>1
    <2>3. phase' \in 1 .. Phases
      BY <1>1, <2>1
    <2>4. counts'[phase'] = tried'[phase'] + Waiting'
      BY <1>1, <1>4, <2>1, <2>2, <2>3
    <2> QED
      BY <1>1, <2>1, <2>2, <2>3, <2>4 DEF Exact
  <1>6. ASSUME NEW p \in Producers
        PROVE  Waits(p)' /\ Asked(p)' /\ Tracked(p)'
    <2>1. Waits(p) /\ Asked(p) /\ Tracked(p)
      BY DEF Counting
    <2> QED
      BY <1>1, <1>3, <2>1 DEF Waits, Asked, Tracked
  <1> QED
    BY <1>5, <1>6 DEF Counting

\* Every step keeps the count.
LEMMA NextCounting ==
    ASSUME IInv, IInv', OwnerShape, Chain, Counting, [Next]_vars
    PROVE  Counting'
  <1>1. ASSUME NEW p \in Producers, NEW w \in Workers[p],
               \/ Enter(p, w) \/ CancelParked(p, w) \/ StartCanceled(p, w) \/ Exit(p, w) \/ Worker(p, w)
        PROVE  Counting'
    BY <1>1, StepsWait, AdmitWaits, AdmittedWaits, StartWaits, SettleWaits DEF Worker
  <1>2. ASSUME NEW p \in Producers, \/ ExchangeFails(p) \/ CallFails(p) \/ Crash(p)
                                    \/ Control(p) \/ Accept(p) \/ EndStream(p)
        PROVE  Counting'
    BY <1>2, ExchangeFailsWaits, ControlWaits, DeathWaits, AcceptWaits, EndStreamWaits
  <1>3. CASE \/ Begin \/ Call \/ Fence \/ Resumed \/ UNCHANGED vars
             \/ \E p \in Producers : Return(p) \/ StreamBreaks(p)
    <2>1. UNCHANGED <<phase, counts, tried, ctl, cli, wire, gate, work>>
      BY <1>3 DEF Begin, Call, Fence, Resumed, Return, StreamBreaks, vars, admission
    <2> QED
      BY <2>1, NothingWaits
  <1>4. CASE Advance \/ ExpectHardDeath \/ Kill \/ CloseHardDeath \/ Reopen \/ Launch \/ CancelUnused
    BY <1>4, AdvanceWaits, ExpectHardDeathWaits, DeathWaits, CloseHardDeathWaits, ReopenWaits,
       LaunchWaits, CancelUnusedWaits
  <1> QED
    BY <1>1, <1>2, <1>3, <1>4 DEF Next, Owner

\* Initially nothing waits and nothing was counted.
LEMMA InitCounting ==
    ASSUME Init
    PROVE  Counting
  <1>1. \A p \in Producers :
          /\ ctl[p].active = {} /\ ctl[p].ordinal = 0 /\ ctl[p].checkpoint = 0 /\ ~ ctl[p].hardDeath
          /\ ~ ctl[p].closed
    BY DEF Init, Unattached
  <1>2. \A p \in Producers : cli[p].active = {} /\ cli[p].ordinal = 0
    BY DEF Init, NewClient
  <1>3. \A p \in Producers : /\ wire[p].op = "none" /\ gate[p] = "free"
                             /\ \A w \in Workers[p] : work[p][w].step = "idle"
    BY NoFrameFacts, IdleFacts DEF Init
  <1>4. \A p \in Producers : Pending(p) = {} /\ Unstarted(p) = {}
    BY <1>1, <1>2 DEF Pending, Unstarted
  <1>5. Exact
    <2>1. Waiting = 0
      BY <1>4, FS_EmptySet DEF Waiting, Producers
    <2>2. phase = 1 /\ Phases \in Nat \ {0}
      BY ConstantsAssumption DEF Init
    <2> QED
      BY <2>1, <2>2 DEF Init, Exact
  <1>6. phase = 1
    BY DEF Init
  <1> QED
    BY <1>1, <1>2, <1>3, <1>4, <1>5, <1>6 DEF Counting, Waits, Asked, Tracked

------------------------------------------------------------------------------
(* The theorems *)

\* What holds at every step of a run: each command that may start, runs or was not
\* settled has its token at the controller, in the phase it was admitted in; the
\* owner's calls are answered truthfully; and a phase's count is that of the commands
\* tried and of those admitted that still wait.
THEOREM DispatchInvariant == Spec => [](IInv /\ OwnerShape /\ Chain /\ Counting)
  <1>1. Init => IInv /\ OwnerShape /\ Chain /\ Counting
    BY InitIInv, InitChain, InitCounting
  <1>2. IInv /\ OwnerShape /\ Chain /\ Counting /\ [Next]_vars
          => (IInv /\ OwnerShape /\ Chain /\ Counting)'
    BY NextIInv, OwnerShapeKept, NextChain, NextCounting
  <1> QED
    BY <1>1, <1>2, PTL DEF Spec

\* No one-shot command that may start or runs was admitted in an earlier phase.
THEOREM PhasesIsolated == Spec => []PhaseIsolation
  <1>1. IInv => PhaseIsolation
    BY DEF IInv, Producing, Accounted, Holding, Started, PhaseIsolation
  <1> QED
    BY <1>1, DispatchInvariant, PTL

\* Every command that may start, runs or was not settled is counted.
THEOREM RunningStaysCounted == Spec => []RunningIsCounted
  <1>1. IInv => RunningIsCounted
    BY DEF IInv, Producing, Accounted, Holding, Started, RunningIsCounted
  <1> QED
    BY <1>1, DispatchInvariant, PTL

\* A complete snapshot counts exactly the commands tried, and none runs any more.
THEOREM CompleteCountIsExact == Spec => []CompleteIsExact
  <1>1. IInv /\ Counting => CompleteIsExact
    <2> SUFFICES ASSUME IInv, Counting, Complete
                 PROVE  /\ counts = tried
                        /\ \A p \in Producers : \A w \in Workers[p] :
                             work[p][w].step \notin {"start", "running", "exited"}
      BY DEF CompleteIsExact
    <2>1. \A p \in Producers : ctl[p].active = {}
      BY DEF Complete, Counting, Tracked
    <2>2. \A p \in Producers : \A w \in Workers[p] : work[p][w].step \notin Started
      BY <2>1 DEF IInv, Producing, Accounted, Holding
    <2>3. \A p \in Producers : Unstarted(p) = {}
      BY <2>1 DEF Unstarted
    <2>4. Waiting = 0
      BY <2>3, FS_EmptySet DEF Waiting, Producers
    <2>5. /\ counts \in [1 .. Phases -> Nat] /\ tried \in [1 .. Phases -> Nat]
          /\ \A k \in 1 .. Phases : counts[k] = tried[k]
      BY <2>4 DEF Counting, Exact
    <2>6. counts = [k \in 1 .. Phases |-> counts[k]] /\ tried = [k \in 1 .. Phases |-> tried[k]]
      BY <2>5
    <2>7. counts = tried
      BY <2>5, <2>6, Zenon
    <2> QED
      BY <2>2, <2>7 DEF Started
  <1> QED
    BY <1>1, DispatchInvariant, PTL

------------------------------------------------------------------------------
(* Who refuses whom                                                          *)
(*                                                                           *)
(* Without a fault the controller, the clients and the owner agree on        *)
(* everything a refusal is decided by: how far the owner's plan has come     *)
(* with a client, the ordinals, and the commands both sides hold.            *)

\* A producer that is attached and not about to be killed.
Sound(p) == ctl[p].attached /\ ~ ctl[p].hardDeath

\* The owner's plan has still to come to p.  A restart saves the parent only after
\* the child is gone.
Due(p) == p \in owner.todo \/ (owner.plan = "restart" /\ p = Parent /\ ~ ctl[Child].closed)

\* How far the plan has come with p.
Mode(p) ==
    CASE owner.step \in {"run", "launch"} -> "open"
      [] owner.step = "pause" ->
           IF p \in owner.todo /\ call[p] \in {"none", "pause"} THEN "open" ELSE "paused"
      [] owner.step = "resume" ->
           IF p \in owner.todo /\ call[p] # "done" THEN "saved" ELSE "open"
      [] owner.step \in {"kill", "wait"} -> "paused"
      [] OTHER ->
           IF Due(p) /\ call[p] \in {"none", "checkpoint", "close"} THEN "paused"
           ELSE IF call[p] \in {"draining", "checkpoint-rpc", "closing", "close-rpc"} THEN "fenced"
           ELSE "saved"

\* A request that the controller has not read, and a client that has still to resume.
Unheard(p, op) == wire[p].op = op /\ ~ wire[p].echo
Resuming(p) == owner.step = "resume" /\ Mode(p) = "saved"

\* A client's flags say how far the plan has come with it, and its phase is the
\* controller's until it is told to resume.
InStep(p) ==
    /\ cli[p].paused <=> Mode(p) # "open"
    /\ cli[p].fenced <=> Mode(p) \in {"fenced", "saved"}
    /\ cli[p].checkpoint <=> Mode(p) = "saved"
    /\ IF Resuming(p) THEN cli[p].phase + 1 = phase /\ ctl[p].checkpoint = cli[p].phase
                      ELSE cli[p].phase = phase
    /\ ctl[p].checkpoint = phase <=>
         \/ Mode(p) = "saved" /\ owner.step # "resume"
         \/ wire[p].echo /\ wire[p].op \in {"checkpoint", "close"}

\* Nobody has failed, and only a close that both sides know of ends a client.
Healthy(p) ==
    /\ cli[p].alive /\ call[p] # "refused"
    /\ cli[p].err => cli[p].closed
    /\ cli[p].closed =>
         ctl[p].closed /\ Mode(p) = "saved" /\ wire[p] = NoFrame /\ gate[p] = "free"
    /\ ctl[p].closed => owner.step \in {"close", "done"} /\ (cli[p].closed \/ Echoed(p, "close"))

\* A paused client asks for no admission.
PauseHolds(p) ==
    Mode(p) # "open" /\ call[p] # "pausing" => \A w \in Workers[p] : work[p][w].step # "admit"

\* What the controller knows of a handle, and the handles it knows of.
Shadow(p, h) ==
    [ordinal |-> h.ordinal, persistent |-> h.persistent,
     carried |-> h.carried \/ (Echoed(p, "carry") /\ h.ordinal = wire[p].ordinal)]
Known(p) ==
    {h \in cli[p].active : ~ (Unheard(p, "admit") \/ Echoed(p, "settle")) \/ h.ordinal # wire[p].ordinal}

\* Both sides hold the same commands, but for the one whose request is out.
Matched(p) ==
    /\ cli[p].ordinal = ctl[p].ordinal + (IF Unheard(p, "admit") THEN 1 ELSE 0)
    /\ ctl[p].active = {Shadow(p, h) : h \in Known(p)}
    /\ \A g, h \in cli[p].active : g.ordinal = h.ordinal => g = h

\* A handle belongs to a thread at work, and only a persistent site keeps one.
Owned(p) ==
    \A h \in cli[p].active :
         /\ \E w \in Workers[p] : work[p][w].step \in Busy /\ work[p][w].ordinal = h.ordinal
         /\ h.persistent => p \in Persistent
         /\ Mode(p) = "saved" \/ gate[p] = "control" => h.persistent
         /\ call[p] # "close-rpc" /\ ~ cli[p].closed

\* A request that the controller has not read is one it accepts.
Asks(p) ==
    /\ wire[p].op # "none" /\ ~ wire[p].echo =>
         wire[p].phase = phase \/ (wire[p].op = "settle" /\ wire[p].phase = ctl[p].checkpoint)
    /\ Unheard(p, "admit") =>
         /\ wire[p].ordinal = cli[p].ordinal
         /\ \E h \in cli[p].active : /\ h.ordinal = wire[p].ordinal /\ ~ h.carried
                                     /\ h.persistent = wire[p].persistent
    /\ Unheard(p, "settle") \/ wire[p].op = "carry" =>
         \E h \in cli[p].active : h.ordinal = wire[p].ordinal /\ (wire[p].op = "carry" => ~ h.carried)
    /\ Unheard(p, "checkpoint") \/ Unheard(p, "close") =>
         wire[p].ordinal = cli[p].ordinal /\ \A h \in cli[p].active : h.carried

\* A producer and the controller agree.
Agrees(p) ==
    InStep(p) /\ Healthy(p) /\ PauseHolds(p) /\ Matched(p) /\ Owned(p) /\ Asks(p)

\* The owner's own knowledge: whom it calls, and whether the controller is fenced.
Planned ==
    /\ owner.step # "failed"
    /\ owner.step = "close" => owner.plan = "end"
    /\ fenced <=> (owner.step \in {"checkpoint", "kill", "wait", "close", "done"})
    /\ \A p \in Producers :
         /\ p \in owner.todo => Sound(p)
         /\ call[p] # "none" => p \in owner.todo
         /\ ctl[p].hardDeath => p = Child
         /\ ctl[p].attached \/ (p = Successor /\ ~ cli[p].err)
         /\ \A w \in Workers[p] : work[p][w].persistent => p \in Persistent

\* What it knows of the child it restarts and of the successor.
Restarted ==
    /\ ~ ctl[Successor].attached => ctl[Successor] = Unattached \/ owner.step = "done"
    /\ ctl[Child].hardDeath =>
         IF owner.step = "kill" THEN cli[Child].alive
         ELSE ~ cli[Child].alive /\ (ctl[Child].closed \/ owner.step = "wait")
    /\ owner.step \in {"kill", "wait"} => owner.plan = "restart" /\ ctl[Child].hardDeath
    /\ owner.plan = "restart" =>
         /\ ~ ctl[Successor].attached
         /\ Parent \in owner.todo /\ owner.step = "checkpoint" => ctl[Child].closed
         /\ ctl[Child].hardDeath => ctl[Child].checkpoint = phase
         /\ ctl[Child].hardDeath /\ ctl[Child].closed =>
              ctl[Child].active = {} /\ owner.step \in {"checkpoint", "launch"}

\* What a step of the threads leaves alone in a client.
SameFlags(p) ==
    /\ cli'[p].alive = cli[p].alive /\ cli'[p].phase = cli[p].phase
    /\ cli'[p].ordinal = cli[p].ordinal
    /\ cli'[p].paused = cli[p].paused /\ cli'[p].fenced = cli[p].fenced
    /\ cli'[p].checkpoint = cli[p].checkpoint

\* What the controller, the owner and the clients know of each other.
Understood == Planned /\ Restarted /\ \A p \in Producers : Sound(p) => Agrees(p)

\* The launcher has joined its child's session before it checkpoints itself: from
\* then on the parent keeps no persistent command until the phase is reopened.
ParentJoined ==
    /\ owner.plan = "restart" /\ owner.step = "checkpoint" /\ ctl[Child].closed
    /\ call[Parent] # "none" \/ owner.todo = {}
    => Joined

\* The inductive invariant of refusals.
Smooth ==
    /\ faults = 0 /\ ~ failed => Understood /\ ParentJoined
    /\ faults \in Nat
    /\ faults = 0 /\ failed => CutOff \/ counts[phase] >= Budget

\* No more threads than a client may have callers: a client fails the callers beyond.
Fits == \A p \in Producers : IsFiniteSet(Workers[p]) /\ Cardinality(Workers[p]) <= Active

------------------------------------------------------------------------------
(* A step of one client *)

\* The plan's progress is the owner's, the call's and, in a restart, the child's.
LEMMA ModeSame ==
    ASSUME NEW p, owner' = owner, call'[p] = call[p],
           owner.plan = "restart" => ctl'[Child].closed = ctl[Child].closed
    PROVE  Mode(p)' = Mode(p) /\ (Resuming(p)' <=> Resuming(p))
  <1>1. Mode(p)' = Mode(p)
    BY DEF Mode, Due
  <1> QED
    BY <1>1 DEF Resuming

\* A producer that a step leaves alone stays in agreement.
LEMMA LeftAlone ==
    ASSUME NEW q \in Producers, Sound(q) => Agrees(q), phase' = phase, owner' = owner,
           owner.plan = "restart" => ctl'[Child].closed = ctl[Child].closed,
           ctl'[q] = ctl[q], cli'[q] = cli[q], gate'[q] = gate[q], wire'[q] = wire[q],
           work'[q] = work[q], call'[q] = call[q]
    PROVE  Sound(q)' => Agrees(q)'
  <1> SUFFICES ASSUME Sound(q)' PROVE Agrees(q)'
    OBVIOUS
  <1>1. Agrees(q) /\ Mode(q)' = Mode(q) /\ (Resuming(q)' <=> Resuming(q))
    BY ModeSame DEF Sound
  <1>2. InStep(q)'
    BY <1>1 DEF Agrees, InStep
  <1>3. Healthy(q)' /\ PauseHolds(q)' /\ Owned(q)'
    BY <1>1 DEF Agrees, Healthy, PauseHolds, Owned, Echoed
  <1>4. Matched(q)'
    BY <1>1 DEF Agrees, Matched, Known, Shadow, Unheard, Echoed
  <1>5. Asks(q)'
    BY <1>1 DEF Agrees, Asks, Unheard
  <1> QED
    BY <1>2, <1>3, <1>4, <1>5 DEF Agrees

\* A step of one client leaves the plan and the other producers alone.
LEMMA ClientStep ==
    ASSUME Understood, NEW p \in Producers, UNCHANGED <<phase, fenced, ctl, owner>>,
           \A q \in Producers \ {p} :
              /\ cli'[q] = cli[q] /\ gate'[q] = gate[q] /\ wire'[q] = wire[q]
              /\ work'[q] = work[q] /\ call'[q] = call[q],
           cli'[p].alive <=> cli[p].alive, ctl[p].attached,
           call'[p] # "none" => call[p] # "none",
           \A w \in Workers[p] : work'[p][w].persistent => work[p][w].persistent \/ p \in Persistent,
           Sound(p) /\ Agrees(p) => Agrees(p)'
    PROVE  Understood'
  <1>1. \A q \in Producers : Sound(q)' => Agrees(q)'
    <2>1. ASSUME NEW q \in Producers \ {p} PROVE Sound(q)' => Agrees(q)'
      BY <2>1, LeftAlone DEF Understood
    <2>2. Sound(p)' => Agrees(p)'
      BY DEF Sound, Understood
    <2> QED
      BY <2>1, <2>2
  <1>2. Restarted'
    <2>1. (cli'[Child].alive <=> cli[Child].alive)
      <3>1. CASE p = Child
        BY <3>1
      <3>2. CASE p # Child
        BY <3>2 DEF Producers
      <3> QED
        BY <3>1, <3>2
    <2> QED
      BY <2>1 DEF Understood, Restarted
  <1>3. Planned'
    <2>1. \A q \in Producers :
             /\ q \in owner'.todo => Sound(q)'
             /\ ctl'[q].hardDeath => q = Child
             /\ ctl'[q].attached \/ (q = Successor /\ ~ cli'[q].err)
      BY DEF Understood, Planned, Sound
    <2>2. \A q \in Producers : call'[q] # "none" => q \in owner'.todo
      BY DEF Understood, Planned
    <2>3. \A q \in Producers : \A w \in Workers[q] : work'[q][w].persistent => q \in Persistent
      BY DEF Understood, Planned
    <2> QED
      BY <2>1, <2>2, <2>3 DEF Understood, Planned
  <1> QED
    BY <1>1, <1>2, <1>3 DEF Understood

\* A client that changes neither its flags nor its handles, and sends nothing, stays
\* in agreement when the threads that hold commands go on holding them.
LEMMA ThreadAgrees ==
    ASSUME NEW p \in Producers, Agrees(p), UNCHANGED <<phase, ctl, owner>>,
           call'[p] = call[p], cli'[p] = cli[p], wire'[p] = wire[p], gate'[p] = gate[p],
           \A w \in Workers[p] : /\ work'[p][w].step = "admit" => work[p][w].step = "admit"
                                 /\ work[p][w].step \in Busy =>
                                      /\ work'[p][w].step \in Busy
                                      /\ work'[p][w].ordinal = work[p][w].ordinal
    PROVE  Agrees(p)'
  <1>1. Mode(p)' = Mode(p) /\ (Resuming(p)' <=> Resuming(p))
    BY ModeSame
  <1>2. InStep(p)' /\ Healthy(p)'
    BY <1>1 DEF Agrees, InStep, Healthy, Echoed
  <1>3. PauseHolds(p)'
    BY <1>1 DEF Agrees, PauseHolds
  <1>4. Owned(p)'
    <2>1. ASSUME NEW h \in cli[p].active
          PROVE  \E w \in Workers[p] : work'[p][w].step \in Busy /\ work'[p][w].ordinal = h.ordinal
      BY <2>1 DEF Agrees, Owned
    <2> QED
      BY <1>1, <2>1 DEF Agrees, Owned
  <1>5. Matched(p)' /\ Asks(p)'
    BY DEF Agrees, Matched, Known, Shadow, Unheard, Echoed, Asks
  <1> QED
    BY <1>2, <1>3, <1>4, <1>5 DEF Agrees

------------------------------------------------------------------------------
(* The threads *)

\* A process that runs is attached.
LEMMA LiveAttached ==
    ASSUME IInv, NEW p \in Producers, cli[p].alive
    PROVE  ctl[p].attached
  BY DEF IInv, Producing, GoneIsQuiet

\* What all threads but one can hold is less than a client may.
LEMMA LessThanThreads ==
    ASSUME Fits, NEW p \in Producers, NEW w \in Workers[p], NEW S,
           NEW f \in Injection(S, Workers[p] \ {w})
    PROVE  Cardinality(S) \in Nat /\ Cardinality(S) < Active
  <1>1. /\ IsFiniteSet(Workers[p]) /\ Cardinality(Workers[p]) <= Active /\ Active \in Nat
        /\ Cardinality(Workers[p]) \in Nat
    BY ConstantsAssumption, FS_CardinalityType DEF Fits
  <1>2. /\ IsFiniteSet(Workers[p] \ {w}) /\ Cardinality(Workers[p] \ {w}) = Cardinality(Workers[p]) - 1
    BY <1>1, FS_RemoveElement
  <1>3. IsFiniteSet(S) /\ Cardinality(S) <= Cardinality(Workers[p] \ {w})
    BY <1>2, FS_Injection
  <1>4. Cardinality(S) \in Nat
    BY <1>3, FS_CardinalityType
  <1> QED
    BY <1>1, <1>2, <1>3, <1>4

\* A thread at leisure finds room for its command.
LEMMA RoomForOne ==
    ASSUME Fits, NEW p \in Producers, NEW w \in Workers[p], Agrees(p), work[p][w].step \notin Busy
    PROVE  Cardinality(cli[p].active) \in Nat /\ Cardinality(cli[p].active) < Active
  <1> DEFINE T == Workers[p] \ {w}
             f == [h \in cli[p].active |->
                     CHOOSE v \in T : work[p][v].step \in Busy /\ work[p][v].ordinal = h.ordinal]
  <1>1. ASSUME NEW h \in cli[p].active
        PROVE  f[h] \in T /\ work[p][f[h]].ordinal = h.ordinal
    <2>1. \E v \in T : work[p][v].step \in Busy /\ work[p][v].ordinal = h.ordinal
      BY <1>1 DEF Agrees, Owned
    <2> QED
      BY <2>1
  <1>2. \A g, h \in cli[p].active : g.ordinal = h.ordinal => g = h
    BY DEF Agrees, Matched
  <1>3. f \in [cli[p].active -> T]
    BY <1>1
  <1>4. \A g, h \in cli[p].active : f[g] = f[h] => g = h
    <2> HIDE DEF f
    <2> QED
      BY <1>1, <1>2
  <1>5. f \in Injection(cli[p].active, T)
    <2> HIDE DEF f
    <2> QED
      BY <1>3, <1>4 DEF Injection, IsInjective
  <1> HIDE DEF f
  <1> QED
    BY <1>5, LessThanThreads

\* There is room to park for a thread that is not parked.
LEMMA ParkedFit ==
    ASSUME Fits, NEW p \in Producers, NEW w \in Workers[p], work[p][w].step # "parked"
    PROVE  Cardinality(Parked(p)) \in Nat /\ Cardinality(Parked(p)) < Active
  <1> DEFINE f == [v \in Parked(p) |-> v]
  <1>1. f \in Injection(Parked(p), Workers[p] \ {w})
    BY DEF Parked, Injection, IsInjective
  <1> HIDE DEF f
  <1> QED
    BY <1>1, LessThanThreads

\* Enter: there is room to park.
LEMMA EnterAgrees ==
    ASSUME IInv, Understood, Fits, NEW p \in Producers, NEW w \in Workers[p], Enter(p, w)
    PROVE  Understood'
  <1>1. /\ UNCHANGED <<phase, fenced, ctl, gate, wire, call, owner>> /\ cli[p].alive
        /\ work[p][w].step = "idle" /\ Types
    BY DEF Enter, admission, Open, IInv
  <1>2. PICK persistent \in BOOLEAN :
          /\ persistent => p \in Persistent
          /\ \/ \E s \in {"acquire", "parked"} :
                  /\ Thread(p, w, [Idle EXCEPT !.step = s, !.persistent = persistent])
                  /\ UNCHANGED cli
             \/ ~ (Cardinality(Parked(p)) < Active)
    BY DEF Enter
  <1>3. Cardinality(Parked(p)) < Active
    BY <1>1, ParkedFit
  <1>4. PICK s \in {"acquire", "parked"} :
          Thread(p, w, [Idle EXCEPT !.step = s, !.persistent = persistent]) /\ UNCHANGED cli
    BY <1>2, <1>3
  <1> DEFINE x == [Idle EXCEPT !.step = s, !.persistent = persistent]
  <1>5. x \in Threads /\ x.step = s /\ x.persistent = persistent /\ Thread(p, w, x)
    BY <1>4 DEF Idle, Threads
  <1> HIDE DEF x
  <1>6. /\ work'[p][w] = x /\ \A v \in Workers[p] \ {w} : work'[p][v] = work[p][v]
        /\ \A q \in Producers \ {p} : work'[q] = work[q]
    BY <1>1, <1>5, ThreadFacts
  <1>7. Agrees(p) => Agrees(p)'
    <2>1. \A v \in Workers[p] : /\ work'[p][v].step = "admit" => work[p][v].step = "admit"
                                /\ work[p][v].step \in Busy =>
                                     /\ work'[p][v].step \in Busy
                                     /\ work'[p][v].ordinal = work[p][v].ordinal
      BY <1>1, <1>5, <1>6 DEF Busy, Asking, Started
    <2> QED
      BY <1>1, <1>4, <2>1, ThreadAgrees
  <1>8. \A v \in Workers[p] : work'[p][v].persistent => work[p][v].persistent \/ p \in Persistent
    BY <1>2, <1>5, <1>6
  <1> QED
    BY <1>1, <1>4, <1>6, <1>7, <1>8, LiveAttached, ClientStep

\* A thread without a command goes on without one.
LEMMA LeisureAgrees ==
    ASSUME IInv, Understood, NEW p \in Producers, NEW w \in Workers[p],
           UNCHANGED <<phase, fenced, ctl, cli, gate, wire, call, owner>>, cli[p].alive,
           NEW x \in Threads, Thread(p, w, x), x.step # "admit",
           x.persistent => work[p][w].persistent,
           work[p][w].step \in Busy => x.step \in Busy /\ x.ordinal = work[p][w].ordinal
    PROVE  Understood'
  <1>1. /\ work'[p][w] = x /\ \A v \in Workers[p] \ {w} : work'[p][v] = work[p][v]
        /\ \A q \in Producers \ {p} : work'[q] = work[q]
    BY ThreadFacts DEF IInv
  <1>2. Agrees(p) => Agrees(p)'
    <2>1. \A v \in Workers[p] : /\ work'[p][v].step = "admit" => work[p][v].step = "admit"
                                /\ work[p][v].step \in Busy =>
                                     /\ work'[p][v].step \in Busy
                                     /\ work'[p][v].ordinal = work[p][v].ordinal
      BY <1>1
    <2> QED
      BY <2>1, ThreadAgrees
  <1>3. \A v \in Workers[p] : work'[p][v].persistent => work[p][v].persistent \/ p \in Persistent
    BY <1>1
  <1> QED
    BY <1>1, <1>2, <1>3, LiveAttached, ClientStep

\* A thread at leisure asks for nothing persistent.
LEMMA IdleAsksNothing == Idle \in Threads /\ Idle.step = "idle" /\ Idle.persistent = FALSE
  BY DEF Idle, Threads

\* Unpark: the caller goes for the gate, or finds its client closed.
LEMMA UnparkAgrees ==
    ASSUME IInv, Understood, NEW p \in Producers, NEW w \in Workers[p], Unpark(p, w)
    PROVE  Understood'
  <1>1. /\ UNCHANGED <<phase, fenced, ctl, cli, gate, wire, call, owner>> /\ cli[p].alive
        /\ work[p][w].step \notin Busy /\ Types
    BY DEF Unpark, admission, IInv, Busy, Asking, Started
  <1>2. CASE Step(p, w, "acquire")
    <2>1. PICK x \in Threads : Thread(p, w, x) /\ x.step = "acquire" /\ x.persistent = work[p][w].persistent
      BY <1>1, <1>2, StepFacts
    <2> QED
      BY <1>1, <2>1, LeisureAgrees
  <1>3. CASE Thread(p, w, Idle)
    BY <1>1, <1>3, IdleAsksNothing, LeisureAgrees
  <1> QED
    BY <1>2, <1>3 DEF Unpark

\* Exit: an ended command is still held.
LEMMA ExitAgrees ==
    ASSUME IInv, Understood, NEW p \in Producers, NEW w \in Workers[p], Exit(p, w)
    PROVE  Understood'
  <1>1. /\ UNCHANGED <<phase, fenced, ctl, cli, gate, wire, call, owner>> /\ cli[p].alive /\ Types
    BY DEF Exit, admission, IInv
  <1>2. PICK x \in Threads : /\ Thread(p, w, x) /\ x.step = "exited" /\ x.ordinal = work[p][w].ordinal
                             /\ x.persistent = work[p][w].persistent
    BY <1>1, StepFacts DEF Exit, Busy, Started
  <1> QED
    BY <1>1, <1>2, LeisureAgrees DEF Busy, Started

\* A closed client holds no command, and what its late callers find changes nothing.
LEMMA ClosedAgrees ==
    ASSUME NEW p \in Producers, Agrees(p), cli[p].closed, UNCHANGED <<phase, ctl, owner>>,
           call'[p] = call[p], wire'[p] = wire[p], gate'[p] = gate[p],
           SameFlags(p), cli'[p].closed, cli'[p].active \subseteq cli[p].active,
           \A w \in Workers[p] : work'[p][w].step = "admit" => work[p][w].step = "admit"
    PROVE  Agrees(p)'
  <1>1. Mode(p)' = Mode(p) /\ (Resuming(p)' <=> Resuming(p))
    BY ModeSame
  <1>2. cli[p].active = {} /\ cli'[p].active = {}
    BY DEF Agrees, Owned
  <1>3. InStep(p)' /\ Healthy(p)' /\ PauseHolds(p)'
    BY <1>1 DEF Agrees, InStep, Healthy, PauseHolds, Echoed, SameFlags
  <1>4. Owned(p)' /\ Matched(p)'
    BY <1>2 DEF Agrees, Owned, Matched, Known, Unheard, SameFlags
  <1>5. Asks(p)'
    BY <1>2 DEF Agrees, Asks, Unheard, SameFlags
  <1> QED
    BY <1>3, <1>4, <1>5 DEF Agrees

\* A step that leaves the flags alone and neither brings nor takes the echo of a
\* checkpoint or a close.
LEMMA FlagsAgree ==
    ASSUME NEW p \in Producers, Agrees(p), Open(p), UNCHANGED <<phase, ctl, owner>>,
           call'[p] = call[p], SameFlags(p), ~ cli'[p].err, ~ cli'[p].closed,
           wire[p].op \notin {"checkpoint", "close"}, wire'[p].op \notin {"checkpoint", "close"}
    PROVE  /\ Mode(p)' = Mode(p) /\ InStep(p)' /\ Healthy(p)'
           /\ (\A w \in Workers[p] : work'[p][w].step = "admit" => work[p][w].step = "admit")
                => PauseHolds(p)'
  <1>1. Mode(p)' = Mode(p) /\ (Resuming(p)' <=> Resuming(p))
    BY ModeSame
  <1>2. InStep(p)'
    BY <1>1 DEF Agrees, InStep, SameFlags
  <1>3. Healthy(p)'
    BY <1>1 DEF Agrees, Healthy, Echoed, SameFlags, Open
  <1> QED
    BY <1>1, <1>2, <1>3 DEF Agrees, PauseHolds

\* The threads' requests are on the wire only while a thread holds the gate, and the
\* owner's only while its call does.
LEMMA WhoAsks ==
    ASSUME IInv, Chain, NEW p \in Producers, Agrees(p), wire[p].op # "none"
    PROVE  /\ Open(p) /\ gate[p] # "free"
           /\ \/ gate[p] = "control" /\ wire[p].op \in {"carry", "checkpoint", "close"}
              \/ /\ gate[p] \in Workers[p] /\ wire[p].op \in {"admit", "settle"}
                 /\ work[p][gate[p]].step = wire[p].op /\ work[p][gate[p]].ordinal = wire[p].ordinal
  <1>1. Types /\ Producing(p)
    BY DEF IInv
  <1>2. Open(p)
    BY NoFrameFacts DEF Agrees, Healthy, Open
  <1>3. gate[p] # "free"
    BY <1>1, <1>2 DEF Producing, OnWire
  <1>4. wire[p].op \in {"none", "admit", "settle", "carry", "checkpoint", "close"}
        /\ gate[p] \in Workers[p] \cup {"free", "control"}
    BY <1>1 DEF Types, Frames
  <1>5. CASE gate[p] = "control"
    BY <1>1, <1>2, <1>4, <1>5 DEF Producing, OnWire, Asking
  <1>6. CASE gate[p] \in Workers[p]
    BY <1>1, <1>2, <1>3, <1>6 DEF Producing, OnWire, GateHeld, Asking
  <1> QED
    BY <1>2, <1>3, <1>4, <1>5, <1>6

\* A client that is sound is open or closed, whatever its callers found.
LEMMA OpenOrClosed ==
    ASSUME NEW p, Agrees(p), ~ Open(p)
    PROVE  cli[p].closed
  BY DEF Agrees, Healthy, Open

\* What failing does to the flags.
LEMMA FailFlags ==
    ASSUME Types, NEW p \in Producers, Fail(p)
    PROVE  SameFlags(p) /\ cli'[p].closed = cli[p].closed /\ cli'[p].active = cli[p].active
           /\ cli'[p].alive = cli[p].alive /\ cli'[p].err
           /\ \A q \in Producers \ {p} : cli'[q] = cli[q]
  BY DEF Types, Fail, SameFlags, Clients

\* A thread that finds its client closed gives up.
LEMMA GivesUpAgrees ==
    ASSUME IInv, Understood, NEW p \in Producers, NEW w \in Workers[p],
           ~ Sound(p) \/ ~ Open(p), cli[p].alive,
           UNCHANGED <<phase, fenced, ctl, gate, wire, call, owner>>, Thread(p, w, Idle),
           SameFlags(p), cli'[p].closed = cli[p].closed, cli'[p].active \subseteq cli[p].active,
           \A q \in Producers \ {p} : cli'[q] = cli[q]
    PROVE  Understood'
  <1>1. /\ work'[p][w] = Idle /\ \A v \in Workers[p] \ {w} : work'[p][v] = work[p][v]
        /\ \A q \in Producers \ {p} : work'[q] = work[q]
    BY IdleFacts, ThreadFacts DEF IInv
  <1>2. Sound(p) /\ Agrees(p) => Agrees(p)'
    <2>1. \A v \in Workers[p] : work'[p][v].step = "admit" => work[p][v].step = "admit"
      BY <1>1, IdleFacts
    <2> QED
      BY <2>1, OpenOrClosed, ClosedAgrees
  <1>3. \A v \in Workers[p] : work'[p][v].persistent => work[p][v].persistent \/ p \in Persistent
    BY <1>1, IdleAsksNothing
  <1>4. (cli'[p].alive <=> cli[p].alive) /\ ctl[p].attached
    BY LiveAttached DEF SameFlags
  <1> QED
    BY <1>1, <1>2, <1>3, <1>4, ClientStep

\* The handles of a client have threads, so their ordinals were given out.
LEMMA HandlesPast ==
    ASSUME IInv, NEW p \in Producers, Agrees(p), NEW h \in cli[p].active
    PROVE  h \in Helds /\ h.ordinal <= cli[p].ordinal
  <1>1. PICK w \in Workers[p] : work[p][w].step \in Busy /\ work[p][w].ordinal = h.ordinal
    BY DEF Agrees, Owned
  <1> QED
    BY <1>1 DEF IInv, Types, Producing, OrdinalsDiffer, Clients

\* Admit: the client and the controller are in step, so a caller at the gate is neither
\* fenced nor one too many.
LEMMA AdmitAgrees ==
    ASSUME IInv, Chain, Understood, Fits, NEW p \in Producers, NEW w \in Workers[p], Admit(p, w)
    PROVE  Understood'
  <1>1. /\ UNCHANGED <<phase, fenced, ctl, call, owner>> /\ cli[p].alive /\ gate[p] = "free"
        /\ work[p][w].step = "acquire" /\ Types /\ Producing(p)
    BY DEF Admit, admission, IInv
  <1>2. CASE Step(p, w, "parked") /\ UNCHANGED <<cli, gate, wire>>
    <2>1. PICK x \in Threads : Thread(p, w, x) /\ x.step = "parked" /\ x.persistent = work[p][w].persistent
      BY <1>1, <1>2, StepFacts
    <2> QED
      BY <1>1, <1>2, <2>1, LeisureAgrees DEF Busy, Asking, Started
  <1>3. CASE /\ \/ ~ Open(p) \/ Cardinality(Parked(p)) >= Active
                \/ ~ cli[p].paused /\ (cli[p].fenced \/ Cardinality(cli[p].active) >= Active)
             /\ Fail(p) /\ Thread(p, w, Idle) /\ UNCHANGED <<gate, wire>>
    <2>1. /\ SameFlags(p) /\ cli'[p].closed = cli[p].closed /\ cli'[p].active = cli[p].active
          /\ \A q \in Producers \ {p} : cli'[q] = cli[q]
      BY <1>1, <1>3, FailFlags
    <2>2. ASSUME Sound(p), Open(p) PROVE FALSE
      <3>1. Agrees(p)
        BY <2>2 DEF Understood
      <3>2. Cardinality(cli[p].active) \in Nat /\ Cardinality(cli[p].active) < Active
        BY <1>1, <3>1, RoomForOne DEF Busy, Asking, Started
      <3>3. ~ cli[p].fenced \/ cli[p].paused
        BY <3>1 DEF Agrees, InStep
      <3>4. Active \in Nat
        BY ConstantsAssumption
      <3>5. Cardinality(Parked(p)) \in Nat /\ Cardinality(Parked(p)) < Active
        BY <1>1, ParkedFit
      <3> QED
        BY <1>3, <2>2, <3>2, <3>3, <3>4, <3>5
    <2> QED
      BY <1>1, <1>3, <2>1, <2>2, GivesUpAgrees
  <1> DEFINE n == cli[p].ordinal + 1
             hd == Held(n, work[p][w].persistent)
             x == [work[p][w] EXCEPT !.step = "admit", !.ordinal = n, !.phase = cli[p].phase]
             f == Frame("admit", cli[p].phase, n, work[p][w].persistent)
             c == [cli[p] EXCEPT !.ordinal = n, !.active = @ \cup {hd}]
  <1>4. CASE /\ Open(p) /\ ~ cli[p].paused
             /\ cli' = [cli EXCEPT ![p].ordinal = n, ![p].active = @ \cup {hd}]
             /\ Thread(p, w, x) /\ Send(p, f) /\ Hold(p, w)
    <2>1. cli[p] \in Clients /\ work[p][w] \in Threads
      BY <1>1 DEF Types
    <2>2. n \in Nat /\ n = cli[p].ordinal + 1 /\ cli[p].phase \in Nat /\ cli[p].ordinal \in Nat
          /\ work[p][w].persistent \in BOOLEAN
      BY <2>1 DEF Clients, Threads
    <2>3. hd \in Helds /\ hd.ordinal = n /\ hd.persistent = work[p][w].persistent /\ hd.carried = FALSE
      BY <2>2 DEF Held, Helds
    <2>4. cli' = [cli EXCEPT ![p] = c]
      BY <1>4
    <2>5. /\ x \in Threads /\ x.step = "admit" /\ x.ordinal = n
          /\ x.persistent = work[p][w].persistent
      BY <2>1, <2>2 DEF Threads, Busy, Asking
    <2>6. /\ f \in Frames /\ f.op = "admit" /\ f.phase = cli[p].phase /\ f.ordinal = n
          /\ f.persistent = work[p][w].persistent /\ f.echo = FALSE
      BY <2>2 DEF Frame, Frames
    <2>7. /\ c \in Clients /\ c.alive = cli[p].alive /\ c.ordinal = n /\ c.err = cli[p].err
          /\ c.closed = cli[p].closed /\ c.phase = cli[p].phase /\ c.paused = cli[p].paused
          /\ c.fenced = cli[p].fenced /\ c.checkpoint = cli[p].checkpoint
          /\ c.active = cli[p].active \cup {hd}
      BY <2>1, <2>2, <2>3 DEF Clients
    <2> HIDE DEF x, f, c, n, hd
    <2>8. /\ work'[p][w] = x /\ \A v \in Workers[p] \ {w} : work'[p][v] = work[p][v]
          /\ \A q \in Producers \ {p} : work'[q] = work[q]
      BY <1>1, <1>4, <2>5, ThreadFacts
    <2>9. /\ wire'[p] = f /\ \A q \in Producers \ {p} : wire'[q] = wire[q]
      BY <1>1, <1>4, <2>6, WireFacts
    <2>10. /\ gate'[p] = w /\ \A q \in Producers \ {p} : gate'[q] = gate[q]
      BY <1>1, <1>4, GateFacts
    <2>11. /\ cli'[p] = c /\ \A q \in Producers \ {p} : cli'[q] = cli[q]
      BY <1>1, <2>4, <2>7, ClientFacts
    <2>12. ASSUME Sound(p), Agrees(p) PROVE Agrees(p)'
      <3>1. wire[p].op = "none"
        BY <1>1, <1>4 DEF Producing, OnWire
      <3>2. Mode(p) = "open" /\ Mode(p)' = "open" /\ ~ Resuming(p)
        BY <1>1, <1>4, <2>12, ModeSame DEF Agrees, InStep, Resuming
      <3>3. InStep(p)' /\ Healthy(p)' /\ PauseHolds(p)'
        BY <1>1, <1>4, <2>6, <2>7, <2>9, <2>11, <2>12, <3>1, <3>2
           DEF Agrees, InStep, Healthy, PauseHolds, Echoed, Open, Resuming
      <3>4. \A h \in cli[p].active : h.ordinal \in Nat /\ h.ordinal # n
        <4>1. \A h \in cli[p].active : h \in Helds /\ h.ordinal <= cli[p].ordinal
          BY <2>12, HandlesPast
        <4> QED
          BY <2>2, <4>1 DEF Helds
      <3>5. Known(p) = cli[p].active /\ Known(p)' = cli[p].active
        BY <2>3, <2>6, <2>7, <2>9, <2>11, <3>1, <3>4 DEF Known, Unheard, Echoed
      <3>6. Matched(p)'
        <4>1. \A h \in cli[p].active : Shadow(p, h)' = Shadow(p, h)
          BY <2>6, <2>9, <3>1 DEF Shadow, Echoed
        <4>2. ctl'[p].active = {Shadow(p, h) : h \in Known(p)}'
          BY <1>1, <2>12, <3>5, <4>1 DEF Agrees, Matched
        <4>3. \A g, h \in cli'[p].active : g.ordinal = h.ordinal => g = h
          BY <2>3, <2>7, <2>11, <2>12, <3>4 DEF Agrees, Matched
        <4>4. cli'[p].ordinal = ctl'[p].ordinal + 1 /\ Unheard(p, "admit")'
          BY <1>1, <2>2, <2>6, <2>7, <2>9, <2>11, <2>12, <3>1 DEF Agrees, Matched, Unheard, Types, Rows
        <4> QED
          BY <4>2, <4>3, <4>4 DEF Matched
      <3>7. Owned(p)'
        <4>1. call[p] # "close-rpc"
          BY <2>12, <3>2 DEF Chain, Answered, Ending, Mode, Understood, Planned
        <4>2. w # "control"
          BY GateNames
        <4>3. hd.persistent => p \in Persistent
          BY <2>3 DEF Understood, Planned
        <4>4. ASSUME NEW h \in cli[p].active
              PROVE  \E v \in Workers[p] : work'[p][v].step \in Busy /\ work'[p][v].ordinal = h.ordinal
          BY <1>1, <2>8, <2>12 DEF Agrees, Owned, Busy, Asking, Started
        <4>5. work'[p][w].step \in Busy /\ work'[p][w].ordinal = hd.ordinal
          BY <2>3, <2>5, <2>8 DEF Busy, Asking
        <4> QED
          BY <1>1, <1>4, <2>7, <2>10, <2>11, <2>12, <3>2, <4>1, <4>2, <4>3, <4>4, <4>5
             DEF Agrees, Owned, Open
      <3>8. Asks(p)'
        <4>1. cli[p].phase = phase
          BY <2>12, <3>2 DEF Agrees, InStep
        <4> QED
          BY <1>1, <2>3, <2>6, <2>7, <2>9, <2>11, <4>1 DEF Asks, Unheard
      <3> QED
        BY <3>3, <3>6, <3>7, <3>8 DEF Agrees
    <2>13. \A v \in Workers[p] : work'[p][v].persistent => work[p][v].persistent \/ p \in Persistent
      BY <2>5, <2>8
    <2>14. (cli'[p].alive <=> cli[p].alive) /\ ctl[p].attached
      BY <1>1, <2>7, <2>11, LiveAttached
    <2> QED
      BY <1>1, <2>8, <2>9, <2>10, <2>11, <2>12, <2>13, <2>14, ClientStep
  <1> QED
    BY <1>2, <1>3, <1>4 DEF Admit

\* Admitted: the controller's token was already there.
LEMMA AdmittedAgrees ==
    ASSUME IInv, Understood, NEW p \in Producers, NEW w \in Workers[p], Admitted(p, w)
    PROVE  Understood'
  <1>1. /\ UNCHANGED <<phase, fenced, ctl, cli, call, owner>> /\ Open(p) /\ gate[p] = w
        /\ Echoed(p, "admit") /\ Step(p, w, "start") /\ Hold(p, "free") /\ Send(p, NoFrame)
        /\ Types /\ Producing(p)
    BY DEF Admitted, admission, IInv
  <1>2. PICK x \in Threads : /\ Thread(p, w, x) /\ x.step = "start" /\ x.ordinal = work[p][w].ordinal
                             /\ x.persistent = work[p][w].persistent
    BY <1>1, StepFacts DEF Busy, Started
  <1>3. /\ work'[p][w] = x /\ \A v \in Workers[p] \ {w} : work'[p][v] = work[p][v]
        /\ \A q \in Producers \ {p} : work'[q] = work[q]
    BY <1>1, <1>2, ThreadFacts
  <1>4. /\ wire'[p] = NoFrame /\ gate'[p] = "free"
        /\ \A q \in Producers \ {p} : wire'[q] = wire[q] /\ gate'[q] = gate[q]
    BY <1>1, Exchanged
  <1>5. ASSUME Agrees(p) PROVE Agrees(p)'
    <2>1. /\ Mode(p)' = Mode(p) /\ InStep(p)' /\ Healthy(p)' /\ PauseHolds(p)'
      BY <1>1, <1>2, <1>3, <1>4, <1>5, NoFrameFacts, FlagsAgree DEF Echoed, SameFlags, Open
    <2>2. Matched(p)'
      <3>1. Known(p) = cli[p].active /\ Known(p)' = cli[p].active
        BY <1>1, <1>4, NoFrameFacts DEF Known, Unheard, Echoed
      <3>2. \A h \in cli[p].active : Shadow(p, h)' = Shadow(p, h)
        BY <1>1, <1>4, NoFrameFacts DEF Shadow, Echoed
      <3>3. ~ Unheard(p, "admit") /\ ~ Unheard(p, "admit")'
        BY <1>1, <1>4, NoFrameFacts DEF Unheard, Echoed
      <3> QED
        BY <1>1, <1>5, <3>1, <3>2, <3>3 DEF Agrees, Matched
    <2>3. Owned(p)'
      <3>1. ASSUME NEW h \in cli[p].active
            PROVE  \E v \in Workers[p] : work'[p][v].step \in Busy /\ work'[p][v].ordinal = h.ordinal
        BY <1>2, <1>3, <1>5 DEF Agrees, Owned, Busy, Started
      <3> QED
        BY <1>1, <1>4, <1>5, <2>1, <3>1 DEF Agrees, Owned
    <2>4. Asks(p)'
      BY <1>4, NoFrameFacts DEF Asks, Unheard
    <2> QED
      BY <2>1, <2>2, <2>3, <2>4 DEF Agrees
  <1>6. \A v \in Workers[p] : work'[p][v].persistent => work[p][v].persistent \/ p \in Persistent
    BY <1>2, <1>3
  <1> QED
    BY <1>1, <1>3, <1>4, <1>5, <1>6, LiveAttached, ClientStep DEF Open

\* Start: the client notes the start; the controller holds the same command.
LEMMA StartAgrees ==
    ASSUME IInv, Understood, NEW p \in Producers, NEW w \in Workers[p], Start(p, w)
    PROVE  Understood'
  <1> DEFINE note(t) == IF t.ordinal = work[p][w].ordinal THEN [t EXCEPT !.pending = FALSE] ELSE t
             c == [cli[p] EXCEPT !.active = {note(t) : t \in @}]
  <1>1. /\ UNCHANGED <<phase, fenced, ctl, gate, wire, call, owner>> /\ cli[p].alive
        /\ work[p][w].step = "start" /\ Types /\ Producing(p) /\ cli[p] \in Clients
        /\ cli' = [cli EXCEPT ![p] = c]
    BY DEF Start, admission, IInv, Types
  <1>2. PICK x \in Threads : /\ Thread(p, w, x) /\ x.step \in {"running", "exited"}
                             /\ x.ordinal = work[p][w].ordinal
                             /\ x.persistent = work[p][w].persistent
    BY <1>1, StepFacts DEF Start, Busy, Started
  <1>3. /\ work'[p][w] = x /\ \A v \in Workers[p] \ {w} : work'[p][v] = work[p][v]
        /\ \A q \in Producers \ {p} : work'[q] = work[q]
    BY <1>1, <1>2, ThreadFacts
  <1>4. \A t \in cli[p].active : /\ note(t) \in Helds /\ note(t).ordinal = t.ordinal
                                 /\ note(t).persistent = t.persistent /\ note(t).carried = t.carried
    BY <1>1 DEF Clients, Helds
  <1> HIDE DEF note
  <1>5. /\ c \in Clients /\ c.alive = cli[p].alive /\ c.ordinal = cli[p].ordinal
        /\ c.err = cli[p].err /\ c.closed = cli[p].closed /\ c.phase = cli[p].phase
        /\ c.paused = cli[p].paused /\ c.fenced = cli[p].fenced
        /\ c.checkpoint = cli[p].checkpoint /\ c.active = {note(t) : t \in cli[p].active}
    <2>1. cli[p] \in Clients /\ {note(t) : t \in cli[p].active} \in SUBSET Helds
      BY <1>1, <1>4
    <2> QED
      BY <2>1 DEF Clients
  <1> HIDE DEF c
  <1>6. cli'[p] = c /\ \A q \in Producers \ {p} : cli'[q] = cli[q]
    BY <1>1, <1>5, ClientFacts
  <1>7. ASSUME Agrees(p) PROVE Agrees(p)'
    <2>1. Mode(p)' = Mode(p) /\ (Resuming(p)' <=> Resuming(p))
      BY <1>1, ModeSame
    <2>2. InStep(p)' /\ Healthy(p)' /\ PauseHolds(p)'
      <3>1. \A v \in Workers[p] : work'[p][v].step = "admit" => work[p][v].step = "admit"
        BY <1>2, <1>3
      <3>2. InStep(p)'
        BY <1>1, <1>5, <1>6, <1>7, <2>1 DEF Agrees, InStep
      <3>3. Healthy(p)'
        BY <1>1, <1>5, <1>6, <1>7, <2>1 DEF Agrees, Healthy, Echoed
      <3> QED
        BY <1>1, <1>7, <2>1, <3>1, <3>2, <3>3 DEF Agrees, PauseHolds
    <2>3. Matched(p)'
      <3>1. Known(p)' = {note(t) : t \in Known(p)}
        BY <1>1, <1>4, <1>5, <1>6 DEF Known, Unheard, Echoed
      <3>2. ASSUME NEW t \in Known(p), NEW h, h = note(t)
            PROVE  Shadow(p, h)' = Shadow(p, t)
        BY <1>1, <1>4, <3>2 DEF Shadow, Echoed, Known
      <3>3. {Shadow(p, h) : h \in Known(p)}' = {Shadow(p, h) : h \in Known(p)}
        BY <3>1, <3>2
      <3>4. \A g, h \in cli'[p].active : g.ordinal = h.ordinal => g = h
        BY <1>4, <1>5, <1>6, <1>7 DEF Agrees, Matched
      <3> QED
        BY <1>1, <1>5, <1>6, <1>7, <3>3, <3>4 DEF Agrees, Matched, Unheard
    <2>4. Owned(p)'
      <3>1. ASSUME NEW t \in cli[p].active
            PROVE  \E v \in Workers[p] : work'[p][v].step \in Busy /\ work'[p][v].ordinal = t.ordinal
        BY <1>2, <1>3, <1>7 DEF Agrees, Owned, Busy, Started
      <3> QED
        BY <1>1, <1>4, <1>5, <1>6, <1>7, <2>1, <3>1 DEF Agrees, Owned
    <2>5. Asks(p)'
      BY <1>1, <1>4, <1>5, <1>6, <1>7 DEF Agrees, Asks, Unheard
    <2> QED
      BY <2>2, <2>3, <2>4, <2>5 DEF Agrees
  <1>8. \A v \in Workers[p] : work'[p][v].persistent => work[p][v].persistent \/ p \in Persistent
    BY <1>2, <1>3
  <1> QED
    BY <1>1, <1>3, <1>5, <1>6, <1>7, <1>8, LiveAttached, ClientStep DEF Open

\* StartCanceled, without a fault: the client was closed.
LEMMA StartCanceledAgrees ==
    ASSUME IInv, Understood, NEW p \in Producers, NEW w \in Workers[p], StartCanceled(p, w),
           faults = 0, faults' = 0
    PROVE  Understood'
  <1>1. /\ UNCHANGED <<phase, fenced, ctl, gate, wire, call, owner>> /\ cli[p].alive
        /\ Fail(p) /\ Thread(p, w, Idle) /\ ~ Open(p) /\ Types
    BY DEF StartCanceled, admission, IInv, Fault
  <1> QED
    BY <1>1, FailFlags, GivesUpAgrees

\* A command that was admitted is held by both sides.
LEMMA StartedIsHeld ==
    ASSUME IInv, NEW p \in Producers, Agrees(p), NEW w \in Workers[p], work[p][w].step \in Started
    PROVE  \E h \in cli[p].active : h.ordinal = work[p][w].ordinal
  <1>1. PICK t \in ctl[p].active : t.ordinal = work[p][w].ordinal
    BY DEF IInv, Producing, Accounted, Holding
  <1>2. PICK h \in Known(p) : t = Shadow(p, h)
    BY <1>1 DEF Agrees, Matched
  <1> QED
    BY <1>1, <1>2 DEF Known, Shadow

\* Settle: the request names a command the controller holds.
LEMMA SettleAgrees ==
    ASSUME IInv, Understood, NEW p \in Producers, NEW w \in Workers[p], Settle(p, w)
    PROVE  Understood'
  <1>1. /\ UNCHANGED <<phase, fenced, ctl, call, owner>> /\ cli[p].alive
        /\ work[p][w].step = "exited" /\ Types /\ Producing(p)
    BY DEF Settle, admission, IInv
  <1>2. CASE ~ Open(p) /\ Drop(p, work[p][w].ordinal) /\ Thread(p, w, Idle) /\ UNCHANGED <<gate, wire>>
    <2>1. /\ SameFlags(p) /\ cli'[p].closed = cli[p].closed /\ cli'[p].active \subseteq cli[p].active
          /\ \A q \in Producers \ {p} : cli'[q] = cli[q]
      BY <1>1, <1>2 DEF Types, Clients, Drop, SameFlags
    <2> QED
      BY <1>1, <1>2, <2>1, GivesUpAgrees
  <1>3. CASE ~ Open(p) /\ Thread(p, w, Idle) /\ UNCHANGED <<cli, gate, wire>>
    BY <1>1, <1>3, GivesUpAgrees DEF SameFlags
  <1> DEFINE f == Frame("settle", cli[p].phase, work[p][w].ordinal, FALSE)
  <1>4. CASE /\ Open(p) /\ gate[p] = "free" /\ Send(p, f)
             /\ Hold(p, w) /\ Step(p, w, "settle") /\ UNCHANGED cli
    <2>1. cli[p].phase \in Nat /\ work[p][w].ordinal \in Nat
      BY <1>1 DEF Types, Clients, Threads
    <2>2. /\ f.op = "settle" /\ f.ordinal = work[p][w].ordinal /\ f.echo = FALSE
          /\ f.phase = cli[p].phase
      BY <2>1 DEF Frame, Frames
    <2> HIDE DEF f
    <2>3. PICK x \in Threads : /\ Thread(p, w, x) /\ x.step = "settle" /\ x.ordinal = work[p][w].ordinal
                               /\ x.persistent = work[p][w].persistent
      BY <1>1, <1>4, StepFacts DEF Busy, Asking
    <2>4. /\ work'[p][w] = x /\ \A v \in Workers[p] \ {w} : work'[p][v] = work[p][v]
          /\ \A q \in Producers \ {p} : work'[q] = work[q]
      BY <1>1, <2>3, ThreadFacts
    <2>5. /\ wire'[p] = f /\ gate'[p] = w
          /\ \A q \in Producers \ {p} : wire'[q] = wire[q] /\ gate'[q] = gate[q]
      BY <1>1, <1>4, Exchanged
    <2>6. ASSUME Agrees(p) PROVE Agrees(p)'
      <3>1. wire[p].op = "none"
        BY <1>1, <1>4 DEF Producing, OnWire
      <3>2. /\ Mode(p)' = Mode(p) /\ InStep(p)' /\ Healthy(p)' /\ PauseHolds(p)'
        BY <1>1, <1>4, <2>2, <2>3, <2>4, <2>5, <2>6, <3>1, FlagsAgree DEF SameFlags, Open
      <3>3. Matched(p)'
        <4>1. Known(p) = cli[p].active /\ Known(p)' = cli[p].active
          BY <1>4, <2>2, <2>5, <3>1 DEF Known, Unheard, Echoed
        <4>2. \A h \in cli[p].active : Shadow(p, h)' = Shadow(p, h)
          BY <2>2, <2>5, <3>1 DEF Shadow, Echoed
        <4>3. ~ Unheard(p, "admit") /\ ~ Unheard(p, "admit")'
          BY <2>2, <2>5, <3>1 DEF Unheard
        <4> QED
          BY <1>1, <1>4, <2>6, <4>1, <4>2, <4>3 DEF Agrees, Matched
      <3>4. Owned(p)'
        <4>1. ASSUME NEW h \in cli[p].active
              PROVE  \E v \in Workers[p] : work'[p][v].step \in Busy /\ work'[p][v].ordinal = h.ordinal
          BY <2>3, <2>4, <2>6 DEF Agrees, Owned, Busy, Asking
        <4>2. w # "control"
          BY GateNames
        <4> QED
          BY <1>1, <1>4, <2>5, <2>6, <3>2, <4>1, <4>2 DEF Agrees, Owned
      <3>5. Asks(p)'
        <4>1. \E h \in cli[p].active : h.ordinal = f.ordinal
          BY <1>1, <2>2, <2>6, StartedIsHeld DEF Started
        <4>2. f.phase = phase \/ f.phase = ctl[p].checkpoint
          BY <2>2, <2>6 DEF Agrees, InStep
        <4> QED
          BY <1>1, <1>4, <2>2, <2>5, <4>1, <4>2 DEF Asks, Unheard
      <3> QED
        BY <3>2, <3>3, <3>4, <3>5 DEF Agrees
    <2>7. \A v \in Workers[p] : work'[p][v].persistent => work[p][v].persistent \/ p \in Persistent
      BY <2>3, <2>4
    <2> QED
      BY <1>1, <1>4, <2>4, <2>5, <2>6, <2>7, LiveAttached, ClientStep
  <1> QED
    BY <1>2, <1>3, <1>4 DEF Settle

\* Settled: the client drops what the controller has dropped.
LEMMA SettledAgrees ==
    ASSUME IInv, Understood, NEW p \in Producers, NEW w \in Workers[p], Settled(p, w)
    PROVE  Understood'
  <1>1. /\ UNCHANGED <<phase, fenced, ctl, call, owner>> /\ Open(p) /\ gate[p] = w
        /\ Echoed(p, "settle") /\ Drop(p, work[p][w].ordinal)
        /\ Thread(p, w, Idle) /\ Hold(p, "free") /\ Send(p, NoFrame) /\ Types /\ Producing(p)
    BY DEF Settled, admission, IInv
  <1>2. /\ work'[p][w] = Idle /\ \A v \in Workers[p] \ {w} : work'[p][v] = work[p][v]
        /\ \A q \in Producers \ {p} : work'[q] = work[q]
    BY <1>1, IdleFacts, ThreadFacts
  <1>3. /\ wire'[p] = NoFrame /\ gate'[p] = "free"
        /\ \A q \in Producers \ {p} : wire'[q] = wire[q] /\ gate'[q] = gate[q]
    BY <1>1, Exchanged
  <1>4. /\ SameFlags(p) /\ cli'[p].closed = cli[p].closed /\ cli'[p].err = cli[p].err
        /\ cli'[p].active = {t \in cli[p].active : t.ordinal # work[p][w].ordinal}
        /\ \A q \in Producers \ {p} : cli'[q] = cli[q]
    BY <1>1 DEF Types, Clients, Drop, SameFlags
  <1>5. wire[p].ordinal = work[p][w].ordinal /\ wire[p].op = "settle" /\ wire[p].echo
    BY <1>1 DEF Producing, OnWire, Echoed
  <1>6. ASSUME Agrees(p) PROVE Agrees(p)'
    <2>1. /\ Mode(p)' = Mode(p) /\ InStep(p)' /\ Healthy(p)' /\ PauseHolds(p)'
      BY <1>1, <1>2, <1>3, <1>4, <1>5, <1>6, NoFrameFacts, IdleFacts, FlagsAgree DEF Open
    <2>2. Matched(p)'
      <3>1. Known(p)' = Known(p)
        BY <1>3, <1>4, <1>5, NoFrameFacts DEF Known, Unheard, Echoed
      <3>2. \A h \in Known(p) : Shadow(p, h)' = Shadow(p, h)
        BY <1>3, <1>5, NoFrameFacts DEF Shadow, Echoed
      <3>3. ~ Unheard(p, "admit") /\ ~ Unheard(p, "admit")'
        BY <1>3, <1>5, NoFrameFacts DEF Unheard
      <3> QED
        BY <1>1, <1>4, <1>6, <3>1, <3>2, <3>3 DEF Agrees, Matched, SameFlags
    <2>3. Owned(p)'
      <3>1. ASSUME NEW h \in cli'[p].active
            PROVE  \E v \in Workers[p] : work'[p][v].step \in Busy /\ work'[p][v].ordinal = h.ordinal
        BY <1>2, <1>4, <1>6, <3>1 DEF Agrees, Owned
      <3> QED
        BY <1>1, <1>3, <1>4, <1>6, <2>1, <3>1 DEF Agrees, Owned
    <2>4. Asks(p)'
      BY <1>3, NoFrameFacts DEF Asks, Unheard
    <2> QED
      BY <2>1, <2>2, <2>3, <2>4 DEF Agrees
  <1>7. \A v \in Workers[p] : work'[p][v].persistent => work[p][v].persistent \/ p \in Persistent
    BY <1>2, IdleAsksNothing
  <1> QED
    BY <1>1, <1>2, <1>3, <1>4, <1>6, <1>7, LiveAttached, ClientStep DEF Open, SameFlags

\* ExchangeFails, without a fault: the client is the child's that is being killed.
LEMMA ExchangeFailsAgrees ==
    ASSUME IInv, Chain, Understood, ~ failed, NEW p \in Producers, ExchangeFails(p),
           faults = 0, faults' = 0
    PROVE  Understood'
  <1> DEFINE h == gate[p]
             settling == h # "control" /\ wire[p].op = "settle"
             S == {t \in cli[p].active : ~ (settling /\ t.ordinal = work[p][h].ordinal)}
             f == wire[p]
  <1>1. /\ UNCHANGED <<phase, fenced, ctl, owner>> /\ cli[p].alive /\ gate[p] # "free" /\ Types
        /\ Hold(p, "free") /\ (ctl[p].hardDeath \/ ~ Open(p)) /\ Send(p, f)
        /\ cli' = [cli EXCEPT ![p].err = TRUE, ![p].active = S]
    BY DEF ExchangeFails, admission, IInv, Fault, Unanswered, Send, Types
  <1> HIDE DEF S, f
  <1>2. ASSUME Sound(p) PROVE FALSE
    BY <1>1, <1>2, OpenOrClosed DEF Understood, Sound, Agrees, Healthy
  <1>3. \A q \in Producers \ {p} : wire'[q] = wire[q] /\ gate'[q] = gate[q]
    BY <1>1, Exchanged
  <1>4. cli'[p].alive = cli[p].alive /\ \A q \in Producers \ {p} : cli'[q] = cli[q]
    BY <1>1 DEF Types, Clients
  <1>5. /\ \A q \in Producers \ {p} : work'[q] = work[q]
        /\ \A v \in Workers[p] : work'[p][v].persistent => work[p][v].persistent
    <2>1. CASE gate[p] = "control"
      BY <2>1 DEF ExchangeFails
    <2>2. CASE gate[p] # "control"
      <3>1. gate[p] \in Workers[p] /\ Thread(p, gate[p], Idle)
        BY <1>1, <2>2 DEF ExchangeFails, Types, Thread
      <3>2. /\ work'[p][gate[p]] = Idle /\ \A v \in Workers[p] \ {gate[p]} : work'[p][v] = work[p][v]
            /\ \A q \in Producers \ {p} : work'[q] = work[q]
        BY <1>1, <3>1, IdleFacts, ThreadFacts
      <3> QED
        BY <3>2, IdleAsksNothing
    <2> QED
      BY <2>1, <2>2
  <1>6. /\ \A q \in Producers \ {p} : call'[q] = call[q]
        /\ call'[p] # "none" => call[p] # "none"
    BY DEF ExchangeFails, Chain, Answered
  <1> QED
    BY <1>1, <1>2, <1>3, <1>4, <1>5, <1>6, LiveAttached, ClientStep

\* The owner calls only whom it knows to be sound.
LEMMA CalledIsSound ==
    ASSUME Understood, NEW p \in Producers, call[p] # "none"
    PROVE  Sound(p) /\ Agrees(p) /\ p \in owner.todo /\ owner.step # "failed"
  BY DEF Understood, Planned

\* What answering a call does.
LEMMA AnswerFacts ==
    ASSUME Chain, NEW p \in Producers, NEW a, Answer(p, a)
    PROVE  call'[p] = a /\ \A q \in Producers \ {p} : call'[q] = call[q]
  BY DEF Chain, Answer

\* A call that changes nothing but the flags keeps what both sides hold, and what is
\* asked, in the same phase or the next.
LEMMA CallAgrees ==
    ASSUME NEW p \in Producers, Agrees(p), UNCHANGED <<phase, ctl, owner>>,
           wire'[p] = wire[p], gate'[p] = gate[p], work'[p] = work[p],
           cli'[p].ordinal = cli[p].ordinal, cli'[p].active = cli[p].active,
           cli[p].closed = cli'[p].closed, ~ cli[p].closed, ~ cli[p].err, ~ cli'[p].err,
           cli[p].alive, cli'[p].alive, call'[p] \notin {"refused", "close-rpc"}, InStep(p)',
           Mode(p)' # "saved", PauseHolds(p)'
    PROVE  Agrees(p)'
  <1>1. Healthy(p)'
    BY DEF Agrees, Healthy, Echoed
  <1>2. Matched(p)' /\ Asks(p)'
    BY DEF Agrees, Matched, Known, Shadow, Unheard, Echoed, Asks
  <1>3. Owned(p)'
    BY DEF Agrees, Owned
  <1> QED
    BY <1>1, <1>2, <1>3 DEF Agrees

\* Pause: the client was not paused.
LEMMA PauseAgrees ==
    ASSUME IInv, Chain, Understood, NEW p \in Producers, Pause(p)
    PROVE  Understood'
  <1>1. /\ UNCHANGED <<phase, fenced, ctl, gate, wire, work, owner>> /\ Open(p) /\ call[p] = "pause"
        /\ Types /\ ctl[p].attached
    BY LiveAttached DEF Pause, admission, IInv, Open
  <1>2. Agrees(p) /\ p \in owner.todo /\ owner.step = "pause"
    BY <1>1, CalledIsSound DEF Chain, Answered, Pausing
  <1>3. Mode(p) = "open"
    BY <1>1, <1>2 DEF Mode
  <1>4. ~ cli[p].paused /\ ~ cli[p].fenced /\ ~ cli[p].checkpoint
    BY <1>2, <1>3 DEF Agrees, InStep
  <1>5. cli' = [cli EXCEPT ![p].paused = TRUE] /\ Answer(p, "pausing")
    BY <1>4 DEF Pause
  <1>6. /\ cli'[p].paused = TRUE /\ cli'[p].fenced = cli[p].fenced
        /\ cli'[p].checkpoint = cli[p].checkpoint /\ cli'[p].phase = cli[p].phase
        /\ cli'[p].closed = cli[p].closed /\ cli'[p].alive = cli[p].alive
        /\ cli'[p].err = cli[p].err /\ cli'[p].ordinal = cli[p].ordinal
        /\ cli'[p].active = cli[p].active /\ \A q \in Producers \ {p} : cli'[q] = cli[q]
    BY <1>1, <1>5 DEF Types, Clients
  <1>7. call'[p] = "pausing" /\ \A q \in Producers \ {p} : call'[q] = call[q]
    BY <1>5, AnswerFacts
  <1>8. Mode(p)' = "paused" /\ ~ Resuming(p) /\ ~ Resuming(p)'
    BY <1>1, <1>2, <1>7 DEF Mode, Resuming
  <1>9. InStep(p)'
    <2>1. cli[p].phase = phase /\ (ctl[p].checkpoint = phase <=>
            wire[p].echo /\ wire[p].op \in {"checkpoint", "close"})
      BY <1>2, <1>3, <1>8 DEF Agrees, InStep
    <2> QED
      BY <1>1, <1>4, <1>6, <1>8, <2>1 DEF InStep
  <1>10. Agrees(p)'
    <2>1. PauseHolds(p)'
      BY <1>7 DEF PauseHolds
    <2> QED
      BY <1>1, <1>2, <1>6, <1>7, <1>8, <1>9, <2>1, CallAgrees DEF Open
  <1> QED
    BY <1>1, <1>6, <1>7, <1>10, ClientStep DEF Open

\* PauseDone: nobody asks for an admission.
LEMMA PauseDoneAgrees ==
    ASSUME IInv, Chain, Understood, NEW p \in Producers, PauseDone(p)
    PROVE  Understood'
  <1>1. /\ UNCHANGED <<phase, fenced, ctl, cli, gate, wire, work, owner>> /\ Open(p)
        /\ call[p] = "pausing" /\ gate[p] = "free" /\ Answer(p, "done") /\ Producing(p)
        /\ ctl[p].attached
    BY LiveAttached DEF PauseDone, admission, IInv, Open
  <1>2. Agrees(p) /\ p \in owner.todo /\ owner.step = "pause"
    BY <1>1, CalledIsSound DEF Chain, Answered, Pausing
  <1>3. call'[p] = "done" /\ \A q \in Producers \ {p} : call'[q] = call[q]
    BY <1>1, AnswerFacts
  <1>4. Mode(p) = "paused" /\ Mode(p)' = "paused" /\ ~ Resuming(p) /\ ~ Resuming(p)'
    BY <1>1, <1>2, <1>3 DEF Mode, Resuming
  <1>5. Agrees(p)'
    <2>1. InStep(p)'
      BY <1>1, <1>2, <1>4 DEF Agrees, InStep
    <2>2. PauseHolds(p)'
      BY <1>1, GateNames DEF PauseHolds, Producing, GateHeld, Asking
    <2> QED
      BY <1>1, <1>2, <1>3, <1>4, <2>1, <2>2, CallAgrees DEF Open
  <1> QED
    BY <1>1, <1>3, <1>5, ClientStep DEF Open

\* Fences: the client was not checkpointed.
LEMMA FencesAgrees ==
    ASSUME IInv, Chain, Understood, NEW p \in Producers, Fences(p)
    PROVE  Understood'
  <1>1. /\ UNCHANGED <<phase, fenced, ctl, gate, wire, work, owner>> /\ Open(p)
        /\ call[p] \in {"checkpoint", "close"} /\ Types /\ ctl[p].attached
    BY LiveAttached DEF Fences, admission, IInv, Open
  <1>2. Agrees(p) /\ p \in owner.todo /\ owner.step \in {"checkpoint", "close"}
    BY <1>1, CalledIsSound DEF Chain, Answered, Checkpointing, Ending
  <1>3. Mode(p) = "paused"
    BY <1>1, <1>2 DEF Mode, Due
  <1>4. cli[p].paused /\ ~ cli[p].checkpoint
    BY <1>2, <1>3 DEF Agrees, InStep
  <1>5. PICK a \in {"closing", "draining"} : cli' = [cli EXCEPT ![p].fenced = TRUE] /\ Answer(p, a)
    BY <1>4 DEF Fences
  <1>6. /\ cli'[p].paused = cli[p].paused /\ cli'[p].fenced = TRUE
        /\ cli'[p].checkpoint = cli[p].checkpoint /\ cli'[p].phase = cli[p].phase
        /\ cli'[p].closed = cli[p].closed /\ cli'[p].alive = cli[p].alive
        /\ cli'[p].err = cli[p].err /\ cli'[p].ordinal = cli[p].ordinal
        /\ cli'[p].active = cli[p].active /\ \A q \in Producers \ {p} : cli'[q] = cli[q]
    BY <1>1, <1>5 DEF Types, Clients
  <1>7. call'[p] = a /\ \A q \in Producers \ {p} : call'[q] = call[q]
    BY <1>5, AnswerFacts
  <1>8. Mode(p)' = "fenced" /\ ~ Resuming(p) /\ ~ Resuming(p)'
    BY <1>1, <1>2, <1>3, <1>7 DEF Mode, Due, Resuming
  <1>9. InStep(p)'
    BY <1>1, <1>2, <1>3, <1>4, <1>6, <1>8 DEF Agrees, InStep
  <1>10. Agrees(p)'
    <2>1. PauseHolds(p)'
      BY <1>1, <1>2, <1>3 DEF Agrees, PauseHolds
    <2> QED
      BY <1>1, <1>2, <1>6, <1>7, <1>8, <1>9, <2>1, CallAgrees DEF Open
  <1> QED
    BY <1>1, <1>6, <1>7, <1>10, ClientStep DEF Open

\* A call that holds the gate fences its client.
LEMMA RpcIsFenced ==
    ASSUME IInv, Chain, Understood, NEW p \in Producers,
           call[p] \in {"draining", "closing", "checkpoint-rpc", "close-rpc"}
    PROVE  /\ Agrees(p) /\ p \in owner.todo /\ owner.step \in {"checkpoint", "close"}
           /\ Mode(p) = "fenced" /\ ~ Resuming(p) /\ cli[p].phase = phase
  <1>1. Agrees(p) /\ p \in owner.todo /\ owner.step \in {"checkpoint", "close"}
    BY CalledIsSound DEF Chain, Answered, Checkpointing, Ending
  <1>2. Mode(p) = "fenced" /\ ~ Resuming(p)
    BY <1>1 DEF Mode, Due, Resuming
  <1> QED
    BY <1>1, <1>2 DEF Agrees, InStep

\* Drained: only persistent commands are left, and none when the client closes.
LEMMA DrainedAgrees ==
    ASSUME IInv, Chain, Understood, NEW p \in Producers, Drained(p)
    PROVE  Understood'
  <1>1. /\ UNCHANGED <<phase, fenced, ctl, cli, wire, work, owner>> /\ Open(p)
        /\ call[p] \in {"draining", "closing"} /\ Quiescent(p) /\ Hold(p, "control")
        /\ Types /\ ctl[p].attached
    BY LiveAttached DEF Drained, admission, IInv, Open
  <1>2. PICK a \in {"checkpoint-rpc", "close-rpc"} : Answer(p, a) /\ (a = "close-rpc" => Closing(p))
    BY DEF Drained
  <1>3. call'[p] = a /\ \A q \in Producers \ {p} : call'[q] = call[q]
    BY <1>2, AnswerFacts
  <1>4. gate'[p] = "control" /\ \A q \in Producers \ {p} : gate'[q] = gate[q]
    BY <1>1, GateFacts
  <1>5. /\ Agrees(p) /\ p \in owner.todo /\ owner.step \in {"checkpoint", "close"}
        /\ Mode(p) = "fenced" /\ ~ Resuming(p)
    BY <1>1, RpcIsFenced
  <1>6. Mode(p)' = "fenced" /\ ~ Resuming(p)'
    BY <1>1, <1>3, <1>5 DEF Mode, Due, Resuming
  <1>7. InStep(p)' /\ Healthy(p)' /\ PauseHolds(p)'
    BY <1>1, <1>3, <1>5, <1>6 DEF Agrees, InStep, Healthy, PauseHolds, Echoed, Open
  <1>8. Matched(p)' /\ Asks(p)'
    BY <1>1, <1>5 DEF Agrees, Matched, Known, Shadow, Unheard, Echoed, Asks
  <1>9. Owned(p)'
    BY <1>1, <1>2, <1>3, <1>5, <1>6 DEF Agrees, Owned, Quiescent
  <1>10. Agrees(p)'
    BY <1>7, <1>8, <1>9 DEF Agrees
  <1> QED
    BY <1>1, <1>3, <1>4, <1>10, ClientStep DEF Open

\* Carry: the request names a command both sides hold; its echo marks it on both.
LEMMA CarryAgrees ==
    ASSUME IInv, Chain, Understood, NEW p \in Producers, Carry(p)
    PROVE  Understood'
  <1>1. /\ UNCHANGED <<phase, fenced, ctl, gate, work, call, owner>> /\ Open(p)
        /\ call[p] \in {"checkpoint-rpc", "close-rpc"} /\ gate[p] = "control"
        /\ Types /\ ctl[p].attached /\ cli[p] \in Clients
    BY LiveAttached DEF Carry, Rpc, admission, IInv, Open, Types
  <1>2. Agrees(p) /\ Mode(p) = "fenced" /\ ~ Resuming(p) /\ cli[p].phase = phase
    BY <1>1, RpcIsFenced
  <1>3. PICK t \in cli[p].active :
         \/ /\ ~ t.carried /\ wire[p] = NoFrame
            /\ Send(p, Frame("carry", cli[p].phase, t.ordinal, FALSE)) /\ UNCHANGED cli
         \/ /\ Echoed(p, "carry") /\ t.ordinal = wire[p].ordinal
            /\ cli' = [cli EXCEPT ![p].active = (@ \ {t}) \cup {[t EXCEPT !.carried = TRUE]}]
            /\ Send(p, NoFrame)
    BY DEF Carry
  <1>4. t \in Helds /\ t.ordinal \in Nat
    BY <1>1 DEF Clients, Helds
  <1>5. ASSUME NEW f, wire'[p] = f, \A q \in Producers \ {p} : wire'[q] = wire[q],
               \A q \in Producers \ {p} : cli'[q] = cli[q], cli'[p].alive = cli[p].alive, Agrees(p)'
        PROVE  Understood'
    BY <1>1, <1>5, ClientStep
  <1> DEFINE f == Frame("carry", cli[p].phase, t.ordinal, FALSE)
  <1>6. CASE ~ t.carried /\ wire[p] = NoFrame /\ Send(p, f) /\ UNCHANGED cli
    <2>1. /\ f \in Frames /\ f.op = "carry" /\ f.phase = cli[p].phase /\ f.ordinal = t.ordinal
          /\ f.echo = FALSE
      BY <1>1, <1>4 DEF Frame, Frames, Clients
    <2> HIDE DEF f
    <2>2. wire'[p] = f /\ \A q \in Producers \ {p} : wire'[q] = wire[q]
      BY <1>1, <1>6, <2>1, WireFacts
    <2>3. Mode(p)' = Mode(p) /\ InStep(p)' /\ Healthy(p)' /\ PauseHolds(p)'
      BY <1>1, <1>2, <1>6, <2>1, <2>2, NoFrameFacts, FlagsAgree DEF SameFlags, Open
    <2>4. Matched(p)'
      <3>1. Known(p) = cli[p].active /\ Known(p)' = cli[p].active
        BY <1>6, <2>1, <2>2, NoFrameFacts DEF Known, Unheard, Echoed
      <3>2. \A h \in cli[p].active : Shadow(p, h)' = Shadow(p, h)
        BY <1>6, <2>1, <2>2, NoFrameFacts DEF Shadow, Echoed
      <3>3. ~ Unheard(p, "admit") /\ ~ Unheard(p, "admit")'
        BY <1>6, <2>1, <2>2, NoFrameFacts DEF Unheard
      <3> QED
        BY <1>1, <1>2, <1>6, <3>1, <3>2, <3>3 DEF Agrees, Matched
    <2>5. Owned(p)'
      BY <1>1, <1>2, <1>6, <2>3 DEF Agrees, Owned
    <2>6. Asks(p)'
      BY <1>1, <1>2, <1>6, <2>1, <2>2 DEF Asks, Unheard
    <2>7. Agrees(p)'
      BY <2>3, <2>4, <2>5, <2>6 DEF Agrees
    <2> QED
      BY <1>5, <1>6, <2>2, <2>7
  <1> DEFINE u == [t EXCEPT !.carried = TRUE]
             c == [cli[p] EXCEPT !.active = (@ \ {t}) \cup {u}]
  <1>7. CASE /\ Echoed(p, "carry") /\ t.ordinal = wire[p].ordinal /\ Send(p, NoFrame)
             /\ cli' = [cli EXCEPT ![p].active = (@ \ {t}) \cup {u}]
    <2>1. /\ u \in Helds /\ u.ordinal = t.ordinal /\ u.persistent = t.persistent /\ u.carried = TRUE
      BY <1>4 DEF Helds
    <2>2. cli' = [cli EXCEPT ![p] = c]
      BY <1>7
    <2> HIDE DEF u
    <2>3. /\ c \in Clients /\ c.alive = cli[p].alive /\ c.ordinal = cli[p].ordinal
          /\ c.err = cli[p].err /\ c.closed = cli[p].closed /\ c.phase = cli[p].phase
          /\ c.paused = cli[p].paused /\ c.fenced = cli[p].fenced
          /\ c.checkpoint = cli[p].checkpoint /\ c.active = (cli[p].active \ {t}) \cup {u}
      BY <1>1, <2>1 DEF Clients
    <2> HIDE DEF c
    <2>4. cli'[p] = c /\ \A q \in Producers \ {p} : cli'[q] = cli[q]
      BY <1>1, <2>2, <2>3, ClientFacts
    <2>5. wire'[p] = NoFrame /\ \A q \in Producers \ {p} : wire'[q] = wire[q]
      BY <1>1, <1>7, NoFrameFacts, WireFacts
    <2>6. Mode(p)' = Mode(p) /\ InStep(p)' /\ Healthy(p)' /\ PauseHolds(p)'
      BY <1>1, <1>2, <1>7, <2>3, <2>4, <2>5, NoFrameFacts, FlagsAgree DEF SameFlags, Open, Echoed
    <2>7. Matched(p)'
      <3>1. \A g, h \in cli[p].active : g.ordinal = h.ordinal => g = h
        BY <1>2 DEF Agrees, Matched
      <3>2. Known(p) = cli[p].active /\ Known(p)' = (cli[p].active \ {t}) \cup {u}
        BY <1>7, <2>3, <2>4, <2>5, NoFrameFacts DEF Known, Unheard, Echoed
      <3>3. \A h \in cli[p].active \ {t} : Shadow(p, h)' = Shadow(p, h)
        <4>1. \A h \in cli[p].active \ {t} : h \in Helds /\ h.ordinal # t.ordinal
          BY <1>1, <3>1 DEF Clients
        <4>2. \A h \in cli[p].active \ {t} : h.carried \in BOOLEAN
          BY <4>1 DEF Helds
        <4> QED
          BY <1>7, <2>5, <4>1, <4>2, NoFrameFacts DEF Shadow, Echoed
      <3>4. Shadow(p, t) = [ordinal |-> t.ordinal, persistent |-> t.persistent, carried |-> TRUE]
        BY <1>7 DEF Shadow
      <3>5. ASSUME NEW h, h = u
            PROVE  Shadow(p, h)' = [ordinal |-> t.ordinal, persistent |-> t.persistent, carried |-> TRUE]
        BY <2>1, <3>5 DEF Shadow
      <3>6. {Shadow(p, h) : h \in Known(p)}' = {Shadow(p, h) : h \in Known(p)}
        BY <3>2, <3>3, <3>4, <3>5
      <3>7. \A g, h \in cli'[p].active : g.ordinal = h.ordinal => g = h
        BY <2>1, <2>3, <2>4, <3>1
      <3>8. ~ Unheard(p, "admit") /\ ~ Unheard(p, "admit")'
        BY <1>7, <2>5, NoFrameFacts DEF Unheard, Echoed
      <3> QED
        BY <1>1, <1>2, <2>3, <2>4, <3>6, <3>7, <3>8 DEF Agrees, Matched
    <2>8. Owned(p)'
      BY <1>1, <1>2, <2>1, <2>3, <2>4, <2>6 DEF Agrees, Owned
    <2>9. Asks(p)'
      BY <2>5, NoFrameFacts DEF Asks, Unheard
    <2>10. Agrees(p)'
      BY <2>6, <2>7, <2>8, <2>9 DEF Agrees
    <2> QED
      BY <1>5, <2>3, <2>4, <2>5, <2>10
  <1> QED
    BY <1>3, <1>6, <1>7

\* Record: everything the client holds is carried.
LEMMA RecordAgrees ==
    ASSUME IInv, Chain, Understood, NEW p \in Producers, Record(p)
    PROVE  Understood'
  <1>1. /\ UNCHANGED <<phase, fenced, ctl, cli, gate, work, call, owner>> /\ Open(p)
        /\ call[p] \in {"checkpoint-rpc", "close-rpc"} /\ wire[p] = NoFrame
        /\ \A t \in cli[p].active : t.carried
        /\ Types /\ ctl[p].attached /\ cli[p] \in Clients
    BY LiveAttached DEF Record, Rpc, admission, IInv, Open, Types
  <1>2. PICK op \in {"checkpoint", "close"} : Send(p, Frame(op, cli[p].phase, cli[p].ordinal, FALSE))
    BY DEF Record
  <1> DEFINE f == Frame(op, cli[p].phase, cli[p].ordinal, FALSE)
  <1>3. /\ f \in Frames /\ f.op = op /\ f.phase = cli[p].phase /\ f.ordinal = cli[p].ordinal
        /\ f.echo = FALSE
    BY <1>1 DEF Frame, Frames, Clients
  <1> HIDE DEF f
  <1>4. wire'[p] = f /\ \A q \in Producers \ {p} : wire'[q] = wire[q]
    BY <1>1, <1>2, <1>3, WireFacts DEF f
  <1>5. Agrees(p) /\ Mode(p) = "fenced" /\ ~ Resuming(p) /\ cli[p].phase = phase
    BY <1>1, RpcIsFenced
  <1>6. Mode(p)' = Mode(p) /\ (Resuming(p)' <=> Resuming(p))
    BY <1>1, ModeSame
  <1>7. InStep(p)' /\ PauseHolds(p)'
    BY <1>1, <1>3, <1>4, <1>5, <1>6, NoFrameFacts DEF Agrees, InStep, PauseHolds
  <1>8. Healthy(p)'
    BY <1>1, <1>5, <1>6, NoFrameFacts DEF Agrees, Healthy, Echoed, Open
  <1>9. Matched(p)'
    <2>1. Known(p) = cli[p].active /\ Known(p)' = cli[p].active
      BY <1>1, <1>3, <1>4, NoFrameFacts DEF Known, Unheard, Echoed
    <2>2. \A h \in cli[p].active : Shadow(p, h)' = Shadow(p, h)
      BY <1>1, <1>3, <1>4, NoFrameFacts DEF Shadow, Echoed
    <2>3. ~ Unheard(p, "admit") /\ ~ Unheard(p, "admit")'
      BY <1>1, <1>3, <1>4, NoFrameFacts DEF Unheard
    <2> QED
      BY <1>1, <1>5, <2>1, <2>2, <2>3 DEF Agrees, Matched
  <1>10. Owned(p)'
    BY <1>1, <1>5, <1>6 DEF Agrees, Owned
  <1>11. Asks(p)'
    BY <1>1, <1>3, <1>4, <1>5 DEF Asks, Unheard
  <1>12. Agrees(p)'
    BY <1>7, <1>8, <1>9, <1>10, <1>11 DEF Agrees
  <1> QED
    BY <1>1, <1>4, <1>12, ClientStep

\* Recorded: the controller recorded the same.
LEMMA RecordedAgrees ==
    ASSUME IInv, Chain, Understood, NEW p \in Producers, Recorded(p)
    PROVE  Understood'
  <1>1. /\ UNCHANGED <<phase, fenced, ctl, work, owner>> /\ Open(p)
        /\ call[p] \in {"checkpoint-rpc", "close-rpc"} /\ gate[p] = "control"
        /\ wire[p].op \in {"checkpoint", "close"} /\ wire[p].echo
        /\ cli' = [cli EXCEPT ![p].checkpoint = TRUE, ![p].closed = Closing(p)]
        /\ Hold(p, "free") /\ Send(p, NoFrame) /\ Answer(p, "done")
        /\ Types /\ ctl[p].attached /\ cli[p] \in Clients
    BY LiveAttached DEF Recorded, Rpc, admission, IInv, Open, Types
  <1>2. /\ Agrees(p) /\ p \in owner.todo /\ owner.step \in {"checkpoint", "close"}
        /\ Mode(p) = "fenced" /\ ~ Resuming(p) /\ cli[p].phase = phase
    BY <1>1, RpcIsFenced
  <1>3. call'[p] = "done" /\ \A q \in Producers \ {p} : call'[q] = call[q]
    BY <1>1, AnswerFacts
  <1>4. /\ wire'[p] = NoFrame /\ gate'[p] = "free"
        /\ \A q \in Producers \ {p} : wire'[q] = wire[q] /\ gate'[q] = gate[q]
    BY <1>1, Exchanged
  <1>5. /\ cli'[p].paused = cli[p].paused /\ cli'[p].fenced = cli[p].fenced
        /\ cli'[p].checkpoint = TRUE /\ cli'[p].phase = cli[p].phase
        /\ cli'[p].closed = Closing(p) /\ cli'[p].alive = cli[p].alive
        /\ cli'[p].err = cli[p].err /\ cli'[p].ordinal = cli[p].ordinal
        /\ cli'[p].active = cli[p].active /\ \A q \in Producers \ {p} : cli'[q] = cli[q]
    BY <1>1 DEF Types, Clients
  <1>6. Closing(p) <=> wire[p].op = "close"
    BY <1>1 DEF Closing, Chain, Answered
  <1>7. Mode(p)' = "saved" /\ ~ Resuming(p)' /\ owner'.step # "resume"
    BY <1>1, <1>2, <1>3 DEF Mode, Resuming
  <1>8. InStep(p)'
    <2>1. ctl[p].checkpoint = phase /\ cli[p].paused /\ cli[p].fenced
      BY <1>1, <1>2 DEF Agrees, InStep
    <2> QED
      BY <1>1, <1>2, <1>5, <1>7, <2>1 DEF InStep
  <1>9. Healthy(p)'
    <2>1. Closing(p) => ctl[p].closed
      BY <1>1, <1>6 DEF Chain, Answered, Echoed
    <2>2. ctl[p].closed => Closing(p) /\ owner.step \in {"close", "done"}
      BY <1>1, <1>2, <1>6 DEF Agrees, Healthy, Echoed, Open
    <2> QED
      BY <1>1, <1>3, <1>4, <1>5, <1>7, <2>1, <2>2 DEF Healthy, Open
  <1>10. PauseHolds(p)'
    BY <1>1, <1>2 DEF Agrees, PauseHolds
  <1>11. Matched(p)'
    <2>1. Known(p) = cli[p].active /\ Known(p)' = cli[p].active
      BY <1>1, <1>4, <1>5, NoFrameFacts DEF Known, Unheard, Echoed
    <2>2. \A h \in cli[p].active : Shadow(p, h)' = Shadow(p, h)
      BY <1>1, <1>4, NoFrameFacts DEF Shadow, Echoed
    <2>3. ~ Unheard(p, "admit") /\ ~ Unheard(p, "admit")'
      BY <1>1, <1>4, NoFrameFacts DEF Unheard
    <2>4. {Shadow(p, h) : h \in Known(p)}' = {Shadow(p, h) : h \in Known(p)}
      BY <2>1, <2>2
    <2>5. cli[p].ordinal = ctl[p].ordinal + 0 /\ ctl'[p] = ctl[p]
      BY <1>1, <1>2, <2>3 DEF Agrees, Matched
    <2> QED
      BY <1>2, <1>5, <2>3, <2>4, <2>5 DEF Agrees, Matched
  <1>12. Owned(p)'
    <2>1. Closing(p) => cli[p].active = {}
      BY <1>1, <1>2 DEF Agrees, Owned, Closing
    <2> QED
      BY <1>1, <1>2, <1>3, <1>4, <1>5, <2>1 DEF Agrees, Owned
  <1>13. Asks(p)'
    BY <1>4, NoFrameFacts DEF Asks, Unheard
  <1>14. Agrees(p)'
    BY <1>8, <1>9, <1>10, <1>11, <1>12, <1>13 DEF Agrees
  <1> QED
    BY <1>1, <1>3, <1>4, <1>5, <1>14, ClientStep

\* Resume: the client was checkpointed in the phase before.
LEMMA ResumeAgrees ==
    ASSUME IInv, Chain, Understood, NEW p \in Producers, Resume(p)
    PROVE  Understood'
  <1>1. /\ UNCHANGED <<phase, fenced, ctl, gate, wire, work, owner>> /\ Open(p) /\ call[p] = "resume"
        /\ Types /\ ctl[p].attached /\ cli[p] \in Clients
    BY LiveAttached DEF Resume, admission, IInv, Open, Types
  <1>2. Agrees(p) /\ p \in owner.todo /\ owner.step = "resume"
    BY <1>1, CalledIsSound DEF Chain, Answered
  <1>3. Mode(p) = "saved" /\ Resuming(p)
    BY <1>1, <1>2 DEF Mode, Resuming
  <1>4. cli[p].checkpoint /\ cli[p].phase + 1 = phase /\ ctl[p].checkpoint = cli[p].phase
        /\ cli[p].phase \in Nat
    BY <1>1, <1>2, <1>3 DEF Agrees, InStep, Clients
  <1>5. /\ cli' = [cli EXCEPT ![p].phase = phase, ![p].paused = FALSE,
                              ![p].fenced = FALSE, ![p].checkpoint = FALSE]
        /\ Answer(p, "done") /\ ctl[p].checkpoint # phase
    BY <1>4 DEF Resume
  <1>6. /\ cli'[p].paused = FALSE /\ cli'[p].fenced = FALSE
        /\ cli'[p].checkpoint = FALSE /\ cli'[p].phase = phase
        /\ cli'[p].closed = cli[p].closed /\ cli'[p].alive = cli[p].alive
        /\ cli'[p].err = cli[p].err /\ cli'[p].ordinal = cli[p].ordinal
        /\ cli'[p].active = cli[p].active /\ \A q \in Producers \ {p} : cli'[q] = cli[q]
    BY <1>1, <1>5 DEF Types, Clients
  <1>7. call'[p] = "done" /\ \A q \in Producers \ {p} : call'[q] = call[q]
    BY <1>5, AnswerFacts
  <1>8. Mode(p)' = "open" /\ ~ Resuming(p)'
    BY <1>1, <1>2, <1>7 DEF Mode, Resuming
  <1>9. InStep(p)'
    <2>1. ~ (wire[p].echo /\ wire[p].op \in {"checkpoint", "close"})
      BY <1>2, <1>5 DEF Agrees, InStep
    <2> QED
      BY <1>1, <1>5, <1>6, <1>8, <2>1 DEF InStep
  <1>10. Agrees(p)'
    <2>1. PauseHolds(p)'
      BY <1>8 DEF PauseHolds
    <2> QED
      BY <1>1, <1>2, <1>6, <1>7, <1>8, <1>9, <2>1, CallAgrees DEF Open
  <1> QED
    BY <1>1, <1>6, <1>7, <1>10, ClientStep DEF Open

\* CallFails, without a fault: nobody calls a client that has closed.
LEMMA CallDoesNotFail ==
    ASSUME IInv, Chain, Understood, NEW p \in Producers, CallFails(p), faults = 0, faults' = 0
    PROVE  FALSE
  <1>1. ~ Open(p) /\ call[p] \notin {"none", "done", "refused"}
    BY DEF CallFails, Fault
  <1>2. Agrees(p) /\ p \in owner.todo /\ owner.step # "failed"
    BY <1>1, CalledIsSound
  <1>3. Mode(p) = "saved" /\ owner.step \in {"close", "done"}
    BY <1>1, <1>2, OpenOrClosed DEF Agrees, Healthy
  <1>4. call[p] \in Calls
    BY DEF Chain
  <1> QED
    BY <1>1, <1>2, <1>3, <1>4 DEF Mode, Due, Chain, Answered, Calls, Pausing, Checkpointing, Ending

\* Without an echo under way, the controller knows what the client holds.
LEMMA UnheardKnown ==
    ASSUME NEW p \in Producers, Agrees(p), ~ wire[p].echo
    PROVE  /\ \A h \in cli[p].active : wire[p].op # "admit" \/ h.ordinal # wire[p].ordinal =>
                \E t \in ctl[p].active : /\ t.ordinal = h.ordinal /\ t.persistent = h.persistent
                                         /\ (t.carried <=> h.carried)
           /\ \A t \in ctl[p].active : \E h \in cli[p].active :
                /\ t.ordinal = h.ordinal /\ t.persistent = h.persistent /\ (t.carried <=> h.carried)
                /\ wire[p].op = "admit" => h.ordinal # wire[p].ordinal
  <1>1. ctl[p].active = {Shadow(p, h) : h \in Known(p)}
    BY DEF Agrees, Matched
  <1>2. Known(p) = {h \in cli[p].active : wire[p].op # "admit" \/ h.ordinal # wire[p].ordinal}
    BY DEF Known, Unheard, Echoed
  <1>3. \A h : /\ Shadow(p, h).ordinal = h.ordinal /\ Shadow(p, h).persistent = h.persistent
               /\ (Shadow(p, h).carried <=> h.carried)
    BY DEF Shadow, Echoed
  <1> QED
    BY <1>1, <1>2, <1>3

\* The controller, too, has room for the command a thread asks for.
LEMMA RoomForAdmission ==
    ASSUME IInv, Fits, NEW p \in Producers, Agrees(p), NEW w \in Workers[p], Unheard(p, "admit"),
           work[p][w].ordinal = wire[p].ordinal
    PROVE  Cardinality(ctl[p].active) < Active
  <1> DEFINE T == Workers[p] \ {w}
             f == [t \in ctl[p].active |->
                     CHOOSE v \in T : work[p][v].step \in Busy /\ work[p][v].ordinal = t.ordinal]
  <1>1. ASSUME NEW t \in ctl[p].active
        PROVE  f[t] \in T /\ work[p][f[t]].ordinal = t.ordinal
    <2>1. PICK h \in cli[p].active : t.ordinal = h.ordinal /\ h.ordinal # wire[p].ordinal
      BY <1>1, UnheardKnown DEF Unheard
    <2>2. \E v \in T : work[p][v].step \in Busy /\ work[p][v].ordinal = t.ordinal
      BY <2>1 DEF Agrees, Owned
    <2> QED
      BY <2>2
  <1>2. \A s, t \in ctl[p].active : s.ordinal = t.ordinal => s = t
    <2>1. ctl[p].active = {Shadow(p, h) : h \in Known(p)}
      BY DEF Agrees, Matched
    <2>2. \A h : Shadow(p, h).ordinal = h.ordinal
      BY DEF Shadow
    <2>3. \A g, h \in Known(p) : g.ordinal = h.ordinal => g = h
      BY DEF Agrees, Matched, Known
    <2> QED
      BY <2>1, <2>2, <2>3
  <1>3. f \in [ctl[p].active -> T]
    BY <1>1
  <1>4. \A s, t \in ctl[p].active : f[s] = f[t] => s = t
    <2> HIDE DEF f
    <2> QED
      BY <1>1, <1>2
  <1>5. f \in Injection(ctl[p].active, T)
    <2> HIDE DEF f
    <2> QED
      BY <1>3, <1>4 DEF Injection, IsInjective
  <1> HIDE DEF f
  <1> QED
    BY <1>5, LessThanThreads

\* The controller refuses a sound client's request only when the budget is spent.
LEMMA AcceptableOrSpent ==
    ASSUME IInv, Chain, Counting, Understood, Fits, NEW p \in Producers, Sound(p),
           wire[p].op # "none", ~ wire[p].echo
    PROVE  Open(p) /\ (Acceptable(p, wire[p]) \/ counts[phase] >= Budget)
  <1> DEFINE f == wire[p]
  <1>1. Agrees(p) /\ Types /\ Producing(p) /\ f \in Frames /\ owner.step # "failed"
    BY DEF Understood, IInv, Types, Planned
  <1>2. /\ Open(p) /\ gate[p] # "free"
        /\ \/ gate[p] = "control" /\ wire[p].op \in {"carry", "checkpoint", "close"}
           \/ /\ gate[p] \in Workers[p] /\ wire[p].op \in {"admit", "settle"}
              /\ work[p][gate[p]].step = wire[p].op /\ work[p][gate[p]].ordinal = wire[p].ordinal
    BY <1>1, WhoAsks
  <1>3. ~ ctl[p].closed
    BY <1>1, <1>2 DEF Agrees, Healthy, Open, Echoed
  <1>4. FramePhase(p, f)
    BY <1>1 DEF Agrees, Asks, FramePhase
  <1>5. ASSUME f.op = "admit", counts[phase] < Budget PROVE MayAdmit(p, f)
    <2>1. f.phase = phase /\ f.ordinal = ctl[p].ordinal + 1
      BY <1>1, <1>5 DEF Agrees, Asks, Matched, Unheard
    <2>2. Mode(p) = "open" \/ call[p] = "pausing"
      BY <1>1, <1>2, <1>5 DEF Agrees, PauseHolds
    <2>3. call[p] = "pausing" => owner.step = "pause"
      BY <1>1 DEF Chain, Answered, Pausing
    <2>4. Mode(p) # "saved" /\ owner.step \notin {"checkpoint", "kill", "wait", "close", "done"}
      BY <2>2, <2>3 DEF Mode
    <2>5. ~ fenced
      BY <2>4 DEF Understood, Planned
    <2>6. ctl[p].checkpoint # f.phase
      BY <1>1, <2>1, <2>4 DEF Agrees, InStep
    <2>7. Cardinality(ctl[p].active) < Active
      BY <1>1, <1>2, <1>5, RoomForAdmission DEF Unheard
    <2> QED
      BY <1>5, <2>1, <2>5, <2>6, <2>7 DEF MayAdmit
  <1>6. f.op = "settle" => \E t \in ctl[p].active : t.ordinal = f.ordinal
    BY <1>1, UnheardKnown DEF Agrees, Asks, Unheard
  <1>7. ASSUME f.op = "carry"
        PROVE  \E t \in ctl[p].active : t.ordinal = f.ordinal /\ t.persistent /\ ~ t.carried
    <2>1. PICK h \in cli[p].active : h.ordinal = f.ordinal /\ ~ h.carried
      BY <1>1, <1>7 DEF Agrees, Asks
    <2>2. h.persistent
      BY <1>1, <1>2, <1>7 DEF Agrees, Owned
    <2> QED
      BY <1>1, <1>7, <2>1, <2>2, UnheardKnown
  <1>8. ASSUME f.op \in {"checkpoint", "close"} PROVE MayRecord(p, f)
    <2>1. gate[p] = "control" /\ call[p] \in {"checkpoint-rpc", "close-rpc"}
          /\ (f.op = "checkpoint" => call[p] = "checkpoint-rpc")
          /\ (f.op = "close" => call[p] = "close-rpc")
      BY <1>2, <1>8 DEF Chain, Answered
    <2>2. Mode(p) = "fenced" /\ cli[p].phase = phase /\ owner.step \in {"checkpoint", "close"}
      BY <2>1, RpcIsFenced
    <2>3. f.ordinal = ctl[p].ordinal /\ f.phase = phase
      <3>1. f.ordinal = cli[p].ordinal /\ f.phase = phase
        BY <1>1, <1>8 DEF Agrees, Asks, Unheard
      <3>2. cli[p].ordinal = ctl[p].ordinal + 0 /\ ctl[p].ordinal \in Nat
        BY <1>1, <1>8 DEF Agrees, Matched, Unheard, Types, Rows
      <3> QED
        BY <3>1, <3>2
    <2>4. fenced /\ ctl[p].checkpoint # f.phase
      BY <1>1, <2>2, <2>3 DEF Agrees, InStep, Understood, Planned
    <2>5. ASSUME NEW t \in ctl[p].active
          PROVE  f.op = "checkpoint" /\ t.persistent /\ t.carried
      <3>1. PICK h \in cli[p].active : t.persistent = h.persistent /\ (t.carried <=> h.carried)
        BY <1>1, UnheardKnown
      <3> QED
        BY <1>1, <1>8, <2>1, <3>1 DEF Agrees, Asks, Unheard, Owned
    <2> QED
      BY <2>3, <2>4, <2>5 DEF MayRecord
  <1>9. counts[phase] \in Nat /\ Budget \in Nat
    BY ConstantsAssumption DEF Counting, Exact
  <1> QED
    BY <1>2, <1>3, <1>4, <1>5, <1>6, <1>7, <1>8, <1>9 DEF Acceptable

\* An accepted request leaves both sides with the same commands.
LEMMA AcceptMatches ==
    ASSUME IInv, NEW p \in Producers, Agrees(p), Accept(p), Accepted(p), wire'[p].op # "none"
    PROVE  Matched(p)'
  <1> DEFINE f == wire[p]
  <1>1. /\ Types /\ f \in Frames /\ f.op # "none" /\ ~ f.echo /\ cli' = cli
        /\ wire'[p].op = f.op /\ wire'[p].echo /\ wire'[p].ordinal = f.ordinal
        /\ ctl'[p] = RowAfter(p, f)
    BY AcceptFacts DEF IInv
  <1>2. LET r == ctl'[p]
        IN  /\ r.ordinal = IF f.op = "admit" THEN ctl[p].ordinal + 1 ELSE ctl[p].ordinal
            /\ f.op = "admit" => r.active = ctl[p].active \cup {Token(f.ordinal, f.persistent)}
            /\ f.op = "settle" => r.active = {t \in ctl[p].active : t.ordinal # f.ordinal}
            /\ f.op \in {"checkpoint", "close"} => r.active = ctl[p].active
    BY <1>1, RowAfterFacts
  <1>3. /\ ctl[p].active = {Shadow(p, h) : h \in Known(p)}
        /\ cli[p].ordinal = ctl[p].ordinal + (IF f.op = "admit" THEN 1 ELSE 0)
        /\ ctl[p].ordinal \in Nat /\ cli[p].active \subseteq Helds
        /\ \A g, h \in cli[p].active : g.ordinal = h.ordinal => g = h
    BY <1>1 DEF Agrees, Matched, Unheard, Types, Rows, Clients
  <1>4. Known(p) = {h \in cli[p].active : f.op # "admit" \/ h.ordinal # f.ordinal}
    BY <1>1 DEF Known, Unheard, Echoed
  <1>5. Known(p)' = {h \in cli[p].active : f.op # "settle" \/ h.ordinal # f.ordinal}
    BY <1>1 DEF Known, Unheard, Echoed
  <1>6. \A h : Shadow(p, h).ordinal = h.ordinal /\ (f.op # "carry" => Shadow(p, h)' = Shadow(p, h))
    BY <1>1 DEF Shadow, Echoed
  <1>7. ctl'[p].active = {Shadow(p, h) : h \in Known(p)}'
    <2>1. CASE f.op = "admit"
      <3>1. PICK h \in cli[p].active : /\ h.ordinal = f.ordinal /\ ~ h.carried
                                       /\ h.persistent = f.persistent
        BY <1>1, <2>1 DEF Agrees, Asks, Unheard
      <3>2. Shadow(p, h) = Token(f.ordinal, f.persistent)
        BY <1>1, <3>1 DEF Shadow, Token, Echoed
      <3>3. Known(p) = cli[p].active \ {h}
        BY <1>3, <1>4, <2>1, <3>1
      <3>4. Known(p)' = cli[p].active
        BY <1>5, <2>1
      <3> QED
        BY <1>2, <1>3, <1>6, <2>1, <3>2, <3>3, <3>4
    <2>2. CASE f.op = "settle"
      BY <1>2, <1>3, <1>4, <1>5, <1>6, <2>2
    <2>3. CASE f.op = "carry"
      <3> DEFINE mark(t) == [t EXCEPT !.carried = @ \/ t.ordinal = f.ordinal]
      <3>1. RowAfter(p, f) = [ctl[p] EXCEPT !.active = {mark(t) : t \in @}]
        BY <2>3 DEF RowAfter
      <3>2. ctl'[p].active = {mark(t) : t \in ctl[p].active}
        BY <1>1, <3>1 DEF Types, Rows
      <3>3. ASSUME NEW h \in cli[p].active PROVE Shadow(p, h)' = mark(Shadow(p, h))
        <4>1. h.carried \in BOOLEAN
          BY <1>3, <3>3 DEF Helds
        <4>2. Shadow(p, h) = [ordinal |-> h.ordinal, persistent |-> h.persistent, carried |-> h.carried]
          BY <1>1, <4>1 DEF Shadow, Echoed
        <4>3. CASE h.ordinal = f.ordinal
          <5>1. Shadow(p, h)' = [ordinal |-> h.ordinal, persistent |-> h.persistent, carried |-> TRUE]
            BY <1>1, <2>3, <4>3 DEF Shadow, Echoed
          <5>2. (Shadow(p, h).carried \/ Shadow(p, h).ordinal = f.ordinal) = TRUE
            BY <4>2, <4>3
          <5>3. mark(Shadow(p, h)) = [Shadow(p, h) EXCEPT !.carried = TRUE]
            BY <5>2
          <5>4. [Shadow(p, h) EXCEPT !.carried = TRUE]
                  = [ordinal |-> h.ordinal, persistent |-> h.persistent, carried |-> TRUE]
            <6>1. \A v : [Shadow(p, h) EXCEPT !.carried = v]
                          = [ordinal |-> h.ordinal, persistent |-> h.persistent, carried |-> v]
              BY <4>2
            <6> QED
              BY <6>1
          <5> HIDE DEF mark
          <5> QED
            BY <5>1, <5>3, <5>4
        <4>4. CASE h.ordinal # f.ordinal
          <5>1. Shadow(p, h)' = [ordinal |-> h.ordinal, persistent |-> h.persistent, carried |-> h.carried]
            BY <1>1, <2>3, <4>1, <4>4 DEF Shadow, Echoed
          <5> QED
            BY <4>1, <4>2, <4>4, <5>1
        <4> QED
          BY <4>3, <4>4
      <3>4. Known(p) = cli[p].active /\ Known(p)' = cli[p].active
        BY <1>4, <1>5, <2>3
      <3> HIDE DEF mark
      <3> QED
        BY <1>3, <3>2, <3>3, <3>4
    <2>4. CASE f.op \in {"checkpoint", "close"}
      BY <1>2, <1>3, <1>4, <1>5, <1>6, <2>4
    <2> QED
      BY <1>1, <2>1, <2>2, <2>3, <2>4 DEF Frames
  <1>8. ~ Unheard(p, "admit")'
    BY <1>1 DEF Unheard
  <1>9. cli'[p].ordinal = ctl'[p].ordinal + 0
    BY <1>1, <1>2, <1>3
  <1> QED
    BY <1>1, <1>3, <1>7, <1>8, <1>9 DEF Matched

\* Accept: whatever a sound client asks for is accepted, or the budget is spent.
LEMMA AcceptAgrees ==
    ASSUME IInv, Chain, Counting, Understood, Fits, ~ failed, NEW p \in Producers, Accept(p)
    PROVE  IF failed' THEN counts'[phase'] >= Budget ELSE Understood'
  <1> DEFINE f == wire[p]
  <1>1. /\ UNCHANGED <<phase, fenced, cli, gate, work, call, owner>> /\ Types /\ Producing(p)
        /\ f \in Frames /\ f.op # "none" /\ ~ f.echo
        /\ (\A q \in Producers \ {p} : wire'[q] = wire[q] /\ ctl'[q] = ctl[q])
        /\ ctl' \in [Producers -> Rows]
    BY AcceptFacts DEF IInv, Accept
  <1>2. ctl[p].attached
    BY <1>1 DEF Producing, GoneIsQuiet
  <1>3. CASE ctl[p].hardDeath
    <2>1. ctl'[p] = ctl[p] /\ failed' = FALSE
      BY <1>3, AcceptFacts DEF Accepted, Accept
    <2>2. ctl' = ctl
      BY <1>1, <2>1 DEF Types
    <2>3. ~ Sound(p)
      BY <1>3 DEF Sound
    <2>4. Understood'
      BY <1>1, <1>2, <2>2, <2>3, ClientStep
    <2> QED
      BY <2>1, <2>4
  <1>4. CASE ~ ctl[p].hardDeath
    <2>1. Sound(p) /\ Agrees(p)
      BY <1>2, <1>4 DEF Sound, Understood
    <2>2. Open(p) /\ (Acceptable(p, f) \/ counts[phase] >= Budget)
      BY <1>1, <2>1, AcceptableOrSpent
    <2>3. (failed' <=> ~ Accepted(p)) /\ (Accepted(p) => wire'[p] = [f EXCEPT !.echo = TRUE])
      BY <1>1, <1>4, <2>2 DEF Accept, Accepted, Send, Types
    <2>4. CASE ~ Accepted(p)
      BY <1>1, <1>4, <2>2, <2>3, <2>4, AcceptFacts DEF Accepted
    <2>5. CASE Accepted(p)
      <3>1. /\ wire'[p].op = f.op /\ wire'[p].echo /\ wire'[p].ordinal = f.ordinal
            /\ wire'[p].phase = f.phase
        BY <1>1, <2>3, <2>5 DEF Frames
      <3>2. LET r == ctl'[p]
            IN  /\ r.attached = ctl[p].attached /\ r.hardDeath = ctl[p].hardDeath
                /\ f.op \notin {"checkpoint", "close"} =>
                     r.checkpoint = ctl[p].checkpoint /\ r.closed = ctl[p].closed
                /\ f.op \in {"checkpoint", "close"} =>
                     r.checkpoint = f.phase /\ r.closed = (f.op = "close")
        BY <1>1, <2>5, AcceptFacts, RowAfterFacts
      <3>3. ~ ctl[p].closed /\ (f.op # "settle" => f.phase = phase)
        BY <2>5, AcceptFacts
      <3>4. f.op \in {"checkpoint", "close"} =>
              /\ Mode(p) = "fenced" /\ ~ Resuming(p) /\ cli[p].phase = phase
              /\ owner.step \in {"checkpoint", "close"}
              /\ f.op = "close" => owner.step = "close" /\ owner.plan = "end"
        <4>1. SUFFICES ASSUME f.op \in {"checkpoint", "close"}
                       PROVE  /\ Mode(p) = "fenced" /\ ~ Resuming(p) /\ cli[p].phase = phase
                              /\ owner.step \in {"checkpoint", "close"}
                              /\ f.op = "close" => owner.step = "close" /\ owner.plan = "end"
          OBVIOUS
        <4>2. gate[p] = "control"
          BY <1>1, <2>1, <4>1, WhoAsks
        <4>3. call[p] \in {"checkpoint-rpc", "close-rpc"} /\ (f.op = "close" => call[p] = "close-rpc")
          BY <4>2 DEF Chain, Answered
        <4>4. /\ Mode(p) = "fenced" /\ ~ Resuming(p) /\ cli[p].phase = phase
              /\ owner.step \in {"checkpoint", "close"}
          BY <4>3, RpcIsFenced
        <4>5. f.op = "close" => owner.step = "close"
          BY <4>3, <4>4 DEF Chain, Answered, Ending
        <4> QED
          BY <4>4, <4>5 DEF Understood, Planned
      <3>5. owner.plan = "restart" => ctl'[Child].closed = ctl[Child].closed
        <4>1. owner.plan = "restart" => ctl'[p].closed = ctl[p].closed
          <5>1. ctl[p].closed = FALSE
            BY <1>1, <3>3 DEF Types, Rows
          <5> QED
            BY <3>2, <3>4, <5>1
        <4>2. Child # p => ctl'[Child] = ctl[Child]
          BY <1>1 DEF Producers
        <4> QED
          BY <4>1, <4>2
      <3>6. Mode(p)' = Mode(p) /\ (Resuming(p)' <=> Resuming(p))
        BY <1>1, <3>5, ModeSame
      <3>7. InStep(p)'
        <4>1. CASE f.op \in {"checkpoint", "close"}
          BY <1>1, <2>1, <3>1, <3>2, <3>3, <3>4, <3>6, <4>1 DEF Agrees, InStep
        <4>2. CASE f.op \notin {"checkpoint", "close"}
          BY <1>1, <2>1, <3>1, <3>2, <3>6, <4>2 DEF Agrees, InStep
        <4> QED
          BY <4>1, <4>2
      <3>8. Healthy(p)' /\ PauseHolds(p)'
        BY <1>1, <2>1, <2>2, <3>1, <3>2, <3>3, <3>4, <3>6
           DEF Agrees, Healthy, PauseHolds, Echoed, Open
      <3>9. Matched(p)'
        BY <1>1, <2>1, <2>5, <3>1, AcceptMatches
      <3>10. Owned(p)'
        BY <1>1, <2>1, <3>6 DEF Agrees, Owned
      <3>11. Asks(p)'
        BY <1>1, <2>1, <3>1 DEF Agrees, Asks, Unheard
      <3>12. Agrees(p)'
        BY <3>7, <3>8, <3>9, <3>10, <3>11 DEF Agrees
      <3>13. ASSUME NEW q \in Producers, Sound(q)' PROVE Agrees(q)'
        <4>1. CASE q = p
          BY <3>12, <4>1
        <4>2. CASE q # p
          BY <1>1, <3>5, <3>13, <4>2, LeftAlone DEF Understood
        <4> QED
          BY <4>1, <4>2
      <3>14. \A q \in Producers : /\ ctl'[q].attached = ctl[q].attached
                                  /\ ctl'[q].hardDeath = ctl[q].hardDeath
        BY <1>1, <3>2
      <3>15. Planned'
        BY <1>1, <3>14 DEF Understood, Planned, Sound
      <3>16. Restarted'
        <4>1. ctl[Child].hardDeath => ctl'[Child] = ctl[Child]
          BY <1>1, <1>4 DEF Producers
        <4>2. ~ ctl[Successor].attached => ctl'[Successor] = ctl[Successor]
          BY <1>1, <1>2 DEF Producers
        <4>3. ctl'[Child].hardDeath = ctl[Child].hardDeath
              /\ ctl'[Successor].attached = ctl[Successor].attached
          BY <3>14 DEF Producers
        <4> QED
          BY <1>1, <3>5, <4>1, <4>2, <4>3 DEF Understood, Restarted
      <3> QED
        BY <2>3, <2>5, <3>13, <3>15, <3>16 DEF Understood
    <2> QED
      BY <2>4, <2>5
  <1> QED
    BY <1>3, <1>4

\* EndStream: only the stream of the child that is being killed ends.
LEMMA EndStreamAgrees ==
    ASSUME IInv, Understood, ~ failed, NEW p \in Producers, EndStream(p)
    PROVE  ~ failed' /\ Understood'
  <1>1. /\ UNCHANGED <<phase, fenced, cli, gate, work, call, owner>> /\ Types
        /\ \A q \in Producers \ {p} : wire'[q] = wire[q]
        /\ ctl[p].attached /\ ~ ctl[p].closed /\ ~ Open(p)
        /\ ctl' = [ctl EXCEPT ![p].eof = TRUE] /\ failed' = ~ ctl[p].hardDeath
    BY DEF EndStream, IInv, Send, Types
  <1>2. ctl[p].hardDeath
    <2>1. SUFFICES ASSUME Sound(p) PROVE FALSE
      BY <1>1 DEF Sound
    <2> QED
      BY <1>1, <2>1, OpenOrClosed DEF Understood, Agrees, Healthy
  <1>3. /\ ctl'[p].attached = ctl[p].attached /\ ctl'[p].hardDeath = ctl[p].hardDeath
        /\ ctl'[p].closed = ctl[p].closed /\ ctl'[p].checkpoint = ctl[p].checkpoint
        /\ ctl'[p].active = ctl[p].active
        /\ \A q \in Producers \ {p} : ctl'[q] = ctl[q]
    BY <1>1 DEF Types, Rows
  <1>4. p = Child /\ Parent \in Producers /\ Successor \in Producers /\ Child \in Producers
    BY <1>2 DEF Understood, Planned, Producers
  <1>5. ctl'[Successor] = ctl[Successor]
    BY <1>3, <1>4, ConstantsAssumption
  <1>6. \A q \in Producers : Sound(q)' => Agrees(q)'
    BY <1>1, <1>2, <1>3, <1>4, LeftAlone DEF Understood, Sound
  <1>7. Planned'
    BY <1>1, <1>3 DEF Understood, Planned, Sound
  <1>8. Restarted'
    BY <1>1, <1>3, <1>4, <1>5 DEF Understood, Restarted
  <1> QED
    BY <1>1, <1>2, <1>6, <1>7, <1>8 DEF Understood

\* StreamBreaks: only the stream of the child that is being killed breaks.
LEMMA StreamBreaksOnDeath ==
    ASSUME IInv, Understood, ~ failed, NEW p \in Producers, StreamBreaks(p)
    PROVE  CutOff'
  <1>1. /\ UNCHANGED <<ctl, cli, wire>> /\ failed'
        /\ ctl[p].attached /\ ~ ctl[p].closed /\ ~ ctl[p].eof /\ ~ Open(p) /\ wire[p].echo
    BY DEF StreamBreaks
  <1>2. ctl[p].hardDeath
    <2>1. SUFFICES ASSUME Sound(p) PROVE FALSE
      BY <1>1 DEF Sound
    <2> QED
      BY <1>1, <2>1, OpenOrClosed DEF Understood, Agrees, Healthy
  <1>3. p = Child
    BY <1>2 DEF Understood, Planned
  <1>4. ~ Open(p)'
    BY <1>1 DEF Open
  <1> QED
    BY <1>1, <1>2, <1>3, <1>4 DEF CutOff

------------------------------------------------------------------------------
(* The owner *)

\* A step of the owner that brings its plan no further with a producer leaves it in
\* agreement.
LEMMA ModeKept ==
    ASSUME NEW q \in Producers, Agrees(q), phase' = phase, ctl'[q] = ctl[q], cli'[q] = cli[q],
           gate'[q] = gate[q], wire'[q] = wire[q], work'[q] = work[q], Mode(q)' = Mode(q),
           Mode(q) = "saved" => (owner'.step = "resume" <=> owner.step = "resume"),
           ctl[q].closed => owner'.step \in {"close", "done"},
           call'[q] \in {"refused", "close-rpc"} => call'[q] = call[q],
           call[q] = "pausing" => call'[q] = "pausing"
    PROVE  Agrees(q)'
  <1>1. Resuming(q)' <=> Resuming(q)
    BY DEF Resuming
  <1>2. InStep(q)'
    BY <1>1 DEF Agrees, InStep
  <1>3. Healthy(q)'
    BY DEF Agrees, Healthy, Echoed
  <1>4. PauseHolds(q)'
    BY DEF Agrees, PauseHolds
  <1>5. Owned(q)'
    BY DEF Agrees, Owned
  <1>6. Matched(q)' /\ Asks(q)'
    BY DEF Agrees, Matched, Known, Shadow, Unheard, Echoed, Asks
  <1> QED
    BY <1>2, <1>3, <1>4, <1>5, <1>6 DEF Agrees

\* Before the run ends nobody sound has closed, and only the child being killed is live
\* and not sound.
LEMMA LiveIsSound ==
    ASSUME Understood, owner.step \notin {"kill", "wait", "close", "done"}, NEW q \in Producers
    PROVE  /\ q \in Live <=> Sound(q)
           /\ Sound(q) => ~ ctl[q].closed
           /\ ctl[q].hardDeath => q = Child /\ ctl[q].closed
  <1>1. Sound(q) => ~ ctl[q].closed
    BY DEF Understood, Agrees, Healthy
  <1>2. ctl[q].hardDeath => q = Child /\ ctl[q].closed
    BY DEF Understood, Planned, Restarted
  <1> QED
    BY <1>1, <1>2 DEF Live, Sound

\* Begin: the plan starts with everybody open.
LEMMA BeginAgrees ==
    ASSUME Chain, Understood, ~ failed, Begin
    PROVE  Understood'
  <1>1. /\ UNCHANGED <<phase, fenced, ctl, cli, gate, wire, work, call>> /\ owner.step = "run"
        /\ owner'.step = "pause" /\ owner'.todo = Live
        /\ owner'.plan = "restart" => Child \in Live /\ ~ ctl[Successor].attached
    BY DEF Begin, admission, At
  <1>2. \A q \in Producers : /\ q \in Live <=> Sound(q)
                             /\ Sound(q) => ~ ctl[q].closed
                             /\ ctl[q].hardDeath => q = Child /\ ctl[q].closed
                             /\ call[q] = "none"
    BY <1>1, LiveIsSound DEF Chain, Answered
  <1>3. ASSUME NEW q \in Producers, Sound(q)' PROVE Agrees(q)'
    <2>1. Sound(q) /\ Agrees(q)
      BY <1>1, <1>3 DEF Sound, Understood
    <2>2. Mode(q) = "open" /\ Mode(q)' = "open"
      BY <1>1, <1>2, <2>1 DEF Mode
    <2> QED
      BY <1>1, <1>2, <2>1, <2>2, ModeKept
  <1>4. Planned'
    BY <1>1, <1>2 DEF Understood, Planned, Sound
  <1>5. Restarted'
    <2>1. Child \in Live => ~ ctl[Child].closed
      BY DEF Live
    <2>2. ctl[Child].hardDeath => ctl[Child].closed
      BY <1>2 DEF Producers
    <2> QED
      BY <1>1, <2>1, <2>2 DEF Understood, Restarted
  <1> QED
    BY <1>3, <1>4, <1>5 DEF Understood

\* Call: the owner calls whom it has still to call.
LEMMA CallAgreesToo ==
    ASSUME Chain, OwnerShape, Understood, Call
    PROVE  Understood'
  <1>1. /\ UNCHANGED <<phase, fenced, ctl, cli, gate, wire, work, owner>>
        /\ owner.step \in {"pause", "checkpoint", "resume", "close"}
        /\ \A q \in Producers : call[q] = "none"
    BY DEF Call, admission
  <1>2. PICK p \in owner.todo : call' = [call EXCEPT ![p] = owner.step]
    BY DEF Call
  <1>3. p \in Producers /\ call'[p] = owner.step /\ \A q \in Producers \ {p} : call'[q] = call[q]
    BY <1>2 DEF OwnerShape, Chain
  <1>4. ASSUME NEW q \in Producers, Sound(q)' PROVE Agrees(q)'
    <2>1. Agrees(q)
      BY <1>1, <1>4 DEF Sound, Understood
    <2>2. CASE q = p
      <3>1. Mode(q)' = Mode(q)
        BY <1>1, <1>2, <1>3, <2>2 DEF Mode, Due
      <3>2. ctl[q].closed => owner'.step \in {"close", "done"}
        BY <1>1, <2>1 DEF Agrees, Healthy
      <3> QED
        BY <1>1, <1>3, <2>1, <2>2, <3>1, <3>2, ModeKept
    <2>3. CASE q # p
      BY <1>1, <1>3, <1>4, <2>3, LeftAlone DEF Understood
    <2> QED
      BY <2>2, <2>3
  <1>5. Planned'
    BY <1>1, <1>2, <1>3 DEF Understood, Planned, Sound
  <1>6. Restarted'
    BY <1>1 DEF Understood, Restarted
  <1> QED
    BY <1>4, <1>5, <1>6 DEF Understood

\* Return: every call was answered.
LEMMA ReturnAgrees ==
    ASSUME Chain, OwnerShape, Understood, NEW p \in Producers, Return(p)
    PROVE  Understood'
  <1>1. /\ UNCHANGED <<phase, fenced, ctl, cli, gate, wire, work>> /\ call[p] \in {"done", "refused"}
        /\ Answer(p, "none")
    BY DEF Return, admission
  <1>2. Agrees(p) /\ p \in owner.todo /\ call[p] = "done"
    BY <1>1, CalledIsSound DEF Agrees, Healthy
  <1>3. /\ owner' = [owner EXCEPT !.todo = @ \ {p}] /\ owner'.step = owner.step
        /\ owner'.plan = owner.plan /\ owner'.todo = owner.todo \ {p}
    BY <1>2 DEF Return, OwnerShape
  <1>4. call'[p] = "none" /\ \A q \in Producers \ {p} : call'[q] = call[q]
    BY <1>1, AnswerFacts
  <1>5. owner.step \in {"pause", "checkpoint", "resume", "close"}
    BY <1>2, CalledIsSound DEF Chain, Answered
  <1>6. ASSUME NEW q \in Producers, Sound(q)' PROVE Agrees(q)'
    <2>1. Agrees(q)
      BY <1>1, <1>6 DEF Sound, Understood
    <2>2. Mode(q)' = Mode(q)
      <3>1. CASE q = p
        <4>1. owner.step = "checkpoint" /\ owner.plan = "restart" /\ p = Parent => ctl[Child].closed
          BY <1>2 DEF Understood, Restarted
        <4>2. owner.step = "close" => owner.plan = "end"
          BY DEF Understood, Planned
        <4> QED
          BY <1>1, <1>2, <1>3, <1>4, <1>5, <3>1, <4>1, <4>2 DEF Mode, Due
      <3>2. CASE q # p
        <4>1. Due(q)' <=> Due(q)
          BY <1>1, <1>3, <3>2 DEF Due
        <4>2. call'[q] = call[q] /\ (q \in owner'.todo <=> q \in owner.todo)
          BY <1>3, <1>4, <3>2
        <4> QED
          BY <1>3, <4>1, <4>2 DEF Mode
      <3> QED
        BY <3>1, <3>2
    <2>3. ctl[q].closed => owner'.step \in {"close", "done"}
      BY <1>3, <2>1 DEF Agrees, Healthy
    <2>4. (call'[q] \in {"refused", "close-rpc"} => call'[q] = call[q])
          /\ (call[q] = "pausing" => call'[q] = "pausing")
      BY <1>2, <1>4
    <2> QED
      BY <1>1, <1>3, <2>1, <2>2, <2>3, <2>4, ModeKept
  <1>7. Planned'
    BY <1>1, <1>3, <1>4 DEF Understood, Planned, Sound
  <1>8. Restarted'
    BY <1>1, <1>3 DEF Understood, Restarted
  <1> QED
    BY <1>6, <1>7, <1>8 DEF Understood

\* Fence: everybody is paused.
LEMMA FenceAgrees ==
    ASSUME OwnerShape, Understood, Fence
    PROVE  Understood'
  <1>1. /\ UNCHANGED <<phase, ctl, cli, gate, wire, work, call>> /\ fenced' = TRUE
        /\ owner.step = "pause" /\ owner.todo = {} /\ \A q \in Producers : call[q] = "none"
    BY DEF Fence, Called, At
  <1>2. /\ owner'.plan = owner.plan
        /\ \/ owner.plan = "advance" /\ owner'.step = "checkpoint" /\ owner'.todo = Live
           \/ owner.plan = "restart" /\ owner'.step = "checkpoint" /\ owner'.todo = {Child}
           \/ owner.plan = "end" /\ owner'.step = "close" /\ owner'.todo = Live
    BY <1>1 DEF Fence, Go, OwnerShape
  <1>3. \A q \in Producers : /\ q \in Live <=> Sound(q)
                             /\ Sound(q) => ~ ctl[q].closed
                             /\ ctl[q].hardDeath => q = Child /\ ctl[q].closed
    BY <1>1, LiveIsSound
  <1>4. Child \in Producers /\ Parent # Child /\ Child # Successor
    BY ConstantsAssumption DEF Producers
  <1>5. owner.plan = "restart" => /\ ~ ctl[Child].hardDeath /\ Sound(Child) /\ ~ ctl[Child].closed
                                  /\ ~ ctl[Successor].attached
    BY <1>1, <1>3, <1>4 DEF Understood, Planned, Restarted, Sound
  <1>6. ASSUME NEW q \in Producers, Sound(q)' PROVE Agrees(q)'
    <2>1. Agrees(q) /\ Sound(q)
      BY <1>1, <1>6 DEF Sound, Understood
    <2>2. Mode(q) = "paused"
      BY <1>1 DEF Mode
    <2>3. Due(q)'
      <3>1. CASE owner.plan = "restart"
        BY <1>1, <1>2, <1>5, <2>1, <3>1 DEF Due, Sound, Producers
      <3>2. CASE owner.plan # "restart"
        BY <1>2, <1>3, <2>1, <3>2 DEF Due
      <3> QED
        BY <3>1, <3>2
    <2>4. Mode(q)' = "paused"
      BY <1>1, <1>2, <2>3 DEF Mode
    <2> QED
      BY <1>1, <1>3, <2>1, <2>2, <2>4, ModeKept
  <1>7. Planned'
    <2>1. ASSUME NEW q \in owner'.todo PROVE q \in Producers /\ Sound(q)'
      BY <1>1, <1>2, <1>3, <1>4, <1>5, <2>1 DEF Sound, Live
    <2>2. (owner'.step = "close" => owner'.plan = "end") /\ owner'.step \in {"checkpoint", "close"}
      BY <1>2
    <2> QED
      BY <1>1, <2>1, <2>2 DEF Understood, Planned
  <1>8. Restarted'
    BY <1>1, <1>2, <1>4, <1>5 DEF Understood, Restarted
  <1> QED
    BY <1>6, <1>7, <1>8 DEF Understood

\* Advance: a request that is out settles a command carried from the phase before.
LEMMA AdvanceAgrees ==
    ASSUME IInv, Chain, OwnerShape, Understood, Advance
    PROVE  Understood'
  <1>1. /\ UNCHANGED <<ctl, cli, gate, wire, work, call>> /\ fenced' = FALSE /\ phase' = phase + 1
        /\ owner.step = "checkpoint" /\ owner.todo = {} /\ \A q \in Producers : call[q] = "none"
        /\ owner.plan = "advance" /\ phase \in Nat
    BY DEF Advance, Called, At, IInv, Types
  <1>2. owner'.plan = "advance" /\ owner'.step = "resume" /\ owner'.todo = Live
    BY <1>1 DEF Advance, Go, OwnerShape
  <1>3. \A q \in Producers : /\ q \in Live <=> Sound(q)
                             /\ Sound(q) => ~ ctl[q].closed
    BY <1>1, LiveIsSound
  <1>6. ASSUME NEW q \in Producers, Sound(q)' PROVE Agrees(q)'
    <2>1. Agrees(q) /\ Sound(q) /\ q \in owner'.todo
      BY <1>1, <1>2, <1>3, <1>6 DEF Sound, Understood
    <2>2. Mode(q) = "saved" /\ ~ Resuming(q)
      BY <1>1 DEF Mode, Due, Resuming
    <2>3. Mode(q)' = "saved" /\ Resuming(q)'
      BY <1>1, <1>2, <2>1 DEF Mode, Resuming
    <2>4. /\ cli[q].phase = phase /\ ctl[q].checkpoint = phase
          /\ cli[q].paused /\ cli[q].fenced /\ cli[q].checkpoint
      BY <1>1, <2>1, <2>2 DEF Agrees, InStep
    <2>5. gate[q] # "control"
      BY <1>1 DEF Chain, Answered
    <2>6. wire[q].op \in {"none", "settle"}
      <3> SUFFICES ASSUME wire[q].op # "none" PROVE wire[q].op = "settle"
        OBVIOUS
      <3>1. gate[q] \in Workers[q] /\ wire[q].op \in {"admit", "settle"}
            /\ work[q][gate[q]].step = wire[q].op
        BY <2>1, <2>5, WhoAsks
      <3>2. \A w \in Workers[q] : work[q][w].step # "admit"
        BY <1>1, <2>1, <2>2 DEF Agrees, PauseHolds
      <3> QED
        BY <3>1, <3>2
    <2>7. InStep(q)'
      BY <1>1, <1>2, <2>3, <2>4, <2>6 DEF InStep
    <2>8. Healthy(q)'
      BY <1>1, <1>3, <2>1 DEF Agrees, Healthy
    <2>9. PauseHolds(q)' /\ Owned(q)'
      BY <1>1, <2>1, <2>2, <2>3 DEF Agrees, PauseHolds, Owned
    <2>10. Matched(q)'
      BY <1>1, <2>1 DEF Agrees, Matched, Known, Shadow, Unheard, Echoed
    <2>11. Asks(q)'
      BY <1>1, <2>1, <2>4, <2>6 DEF Agrees, Asks, Unheard
    <2> QED
      BY <2>7, <2>8, <2>9, <2>10, <2>11 DEF Agrees
  <1>7. Planned'
    BY <1>1, <1>2, <1>3 DEF Understood, Planned, Sound
  <1>8. Restarted'
    BY <1>1, <1>2 DEF Understood, Restarted
  <1> QED
    BY <1>6, <1>7, <1>8 DEF Understood

\* Resumed: everybody is open again.
LEMMA ResumedAgrees ==
    ASSUME Understood, Resumed
    PROVE  Understood'
  <1>1. /\ UNCHANGED <<phase, fenced, ctl, cli, gate, wire, work, call>>
        /\ owner.step = "resume" /\ owner.todo = {} /\ \A q \in Producers : call[q] = "none"
        /\ owner'.step = "run" /\ owner'.todo = {} /\ owner'.plan = "none"
    BY DEF Resumed, Called, At, admission
  <1>2. ASSUME NEW q \in Producers, Sound(q)' PROVE Agrees(q)'
    <2>1. Agrees(q) /\ Sound(q) /\ ~ ctl[q].closed
      BY <1>1, <1>2, LiveIsSound DEF Sound, Understood
    <2>2. Mode(q) = "open" /\ Mode(q)' = "open"
      BY <1>1 DEF Mode
    <2> QED
      BY <1>1, <2>1, <2>2, ModeKept
  <1>3. Planned'
    BY <1>1 DEF Understood, Planned, Sound
  <1>4. Restarted'
    BY <1>1 DEF Understood, Restarted
  <1> QED
    BY <1>2, <1>3, <1>4 DEF Understood

\* In a restart the parent is the only producer that is sound and not restarted.
LEMMA OnlyTheParent ==
    ASSUME Understood, owner.plan = "restart", NEW q \in Producers, Sound(q), q # Child
    PROVE  q = Parent
  BY DEF Understood, Restarted, Sound, Producers

\* ExpectHardDeath: the child is checkpointed and the parent still paused.
LEMMA ExpectHardDeathAgrees ==
    ASSUME Chain, OwnerShape, Understood, ExpectHardDeath, IInv
    PROVE  Understood'
  <1> DEFINE r == [ctl[Child] EXCEPT !.hardDeath = TRUE]
  <1>1. /\ UNCHANGED <<phase, fenced, cli, gate, wire, work, call>>
        /\ owner.step = "checkpoint" /\ owner.todo = {} /\ \A q \in Producers : call[q] = "none"
        /\ owner.plan = "restart" /\ ~ ctl[Child].hardDeath /\ ctl[Child].attached
        /\ ctl' = [ctl EXCEPT ![Child] = r] /\ Child \in Producers /\ ctl[Child] \in Rows
    BY DEF ExpectHardDeath, Called, At, IInv, Types, Producers
  <1>2. owner'.plan = "restart" /\ owner'.step = "kill" /\ owner'.todo = {}
    BY <1>1 DEF ExpectHardDeath, Go, OwnerShape
  <1>3. /\ r \in Rows /\ r.attached = ctl[Child].attached /\ r.hardDeath = TRUE
        /\ r.checkpoint = ctl[Child].checkpoint /\ r.closed = ctl[Child].closed
    BY <1>1 DEF Rows
  <1> HIDE DEF r
  <1>4. ctl'[Child] = r /\ \A q \in Producers \ {Child} : ctl'[q] = ctl[q]
    BY <1>1, <1>3, RowFacts DEF IInv
  <1>5. Sound(Child) /\ Agrees(Child) /\ ~ ctl[Child].closed /\ ctl[Child].checkpoint = phase
    BY <1>1, LiveIsSound DEF Sound, Understood, Chain, Heeded
  <1>6. ASSUME NEW q \in Producers, Sound(q)' PROVE Agrees(q)'
    <2>1. q # Child
      BY <1>3, <1>4, <1>6 DEF Sound
    <2>2. ctl'[q] = ctl[q] /\ Sound(q) /\ Agrees(q) /\ ~ ctl[q].closed
      BY <1>1, <1>4, <1>6, <2>1, LiveIsSound DEF Sound, Understood
    <2>3. q = Parent
      BY <1>1, <2>1, <2>2, OnlyTheParent
    <2>4. Mode(q) = "paused" /\ Mode(q)' = "paused"
      BY <1>1, <1>2, <1>5, <2>3 DEF Mode, Due
    <2> QED
      BY <1>1, <2>2, <2>4, ModeKept
  <1>7. Planned'
    <2>1. ASSUME NEW q \in Producers
          PROVE  (ctl'[q].hardDeath => q = Child) /\ (ctl'[q].attached \/ (q = Successor /\ ~ cli'[q].err))
      <3>1. CASE q = Child
        BY <1>1, <1>3, <1>4, <3>1
      <3>2. CASE q # Child
        BY <1>1, <1>4, <3>2 DEF Understood, Planned
      <3> QED
        BY <3>1, <3>2
    <2> QED
      BY <1>1, <1>2, <2>1 DEF Understood, Planned
  <1>8. Restarted'
    <2>1. Successor \in Producers \ {Child}
      BY ConstantsAssumption DEF Producers
    <2>2. ctl'[Successor] = ctl[Successor]
      BY <1>4, <2>1
    <2>3. cli[Child].alive
      BY <1>5 DEF Agrees, Healthy
    <2> QED
      BY <1>1, <1>2, <1>3, <1>4, <1>5, <2>2, <2>3 DEF Understood, Restarted
  <1> QED
    BY <1>6, <1>7, <1>8 DEF Understood

\* Kill: the child was alive and paused.
LEMMA KillAgrees ==
    ASSUME IInv, OwnerShape, Chain, Understood, Kill
    PROVE  Understood'
  <1>1. /\ UNCHANGED <<phase, fenced, ctl, wire, call>> /\ owner.step = "kill" /\ Child \in Producers
        /\ \A q \in Producers : call[q] = "none"
    BY DEF Kill, At, admission, Producers, Chain, Answered
  <1>2. owner.plan = "restart" /\ ctl[Child].hardDeath /\ cli[Child].alive
    BY <1>1 DEF Understood, Restarted
  <1>3. Dies(Child) /\ owner'.step = "wait" /\ owner'.todo = {} /\ owner'.plan = "restart"
    BY <1>1, <1>2 DEF Kill, Go, OwnerShape
  <1>4. /\ ~ cli'[Child].alive
        /\ \A q \in Producers \ {Child} : cli'[q] = cli[q] /\ gate'[q] = gate[q] /\ work'[q] = work[q]
    BY <1>1, <1>3, DiesFacts
  <1>5. ASSUME NEW q \in Producers, Sound(q)' PROVE Agrees(q)'
    <2>1. q # Child /\ Sound(q) /\ Agrees(q)
      BY <1>1, <1>2, <1>5 DEF Sound, Understood
    <2>2. ~ ctl[q].closed
      BY <1>1, <2>1 DEF Agrees, Healthy
    <2>3. Mode(q) = "paused" /\ Mode(q)' = "paused"
      BY <1>1, <1>3 DEF Mode
    <2> QED
      BY <1>1, <1>4, <2>1, <2>2, <2>3, ModeKept
  <1>6. Planned'
    <2>1. ASSUME NEW q \in Producers, NEW w \in Workers[q], work'[q][w].persistent
          PROVE  q \in Persistent
      <3>1. CASE q = Child
        <4>1. work'[q] = [v \in Workers[q] |-> [work[q][v] EXCEPT !.step = "dead"]]
              /\ work[q][w] \in Threads
          BY <1>3, <3>1 DEF Dies, IInv, Types
        <4>2. [work[q][w] EXCEPT !.step = "dead"].persistent = work[q][w].persistent
          BY <4>1 DEF Threads
        <4> QED
          BY <2>1, <4>1, <4>2 DEF Understood, Planned
      <3>2. CASE q # Child
        BY <1>4, <2>1, <3>2 DEF Understood, Planned
      <3> QED
        BY <3>1, <3>2
    <2>2. ASSUME NEW q \in Producers
          PROVE  ctl'[q].attached \/ (q = Successor /\ ~ cli'[q].err)
      <3>1. CASE q = Child
        BY <1>1, <3>1, ConstantsAssumption DEF Understood, Planned
      <3>2. CASE q # Child
        BY <1>1, <1>4, <3>2 DEF Understood, Planned
      <3> QED
        BY <3>1, <3>2
    <2> QED
      BY <1>1, <1>3, <2>1, <2>2 DEF Understood, Planned
  <1>7. Restarted'
    BY <1>1, <1>2, <1>3, <1>4 DEF Understood, Restarted
  <1> QED
    BY <1>5, <1>6, <1>7 DEF Understood

\* CloseHardDeath: the parent is next.
LEMMA CloseHardDeathAgrees ==
    ASSUME IInv, OwnerShape, Chain, Understood, CloseHardDeath
    PROVE  Understood'
  <1> DEFINE r == [ctl[Child] EXCEPT !.active = {}, !.closed = TRUE]
  <1>1. /\ UNCHANGED <<phase, fenced, cli, gate, wire, work, call>> /\ owner.step = "wait"
        /\ Child \in Producers /\ ctl[Child] \in Rows /\ ctl' = [ctl EXCEPT ![Child] = r]
        /\ \A q \in Producers : call[q] = "none"
    BY DEF CloseHardDeath, At, Producers, IInv, Types, Chain, Answered
  <1>2. /\ owner.plan = "restart" /\ ctl[Child].hardDeath /\ ctl[Child].checkpoint = phase
        /\ ~ cli[Child].alive /\ ~ ctl[Successor].attached
    BY <1>1 DEF Understood, Restarted
  <1>3. owner'.step = "checkpoint" /\ owner'.todo = {Parent} /\ owner'.plan = "restart"
    BY <1>2 DEF CloseHardDeath, Go, OwnerShape
  <1>4. /\ r \in Rows /\ r.attached = ctl[Child].attached /\ r.hardDeath /\ r.active = {} /\ r.closed
        /\ r.checkpoint = phase
    BY <1>1, <1>2 DEF Rows
  <1> HIDE DEF r
  <1>5. ctl'[Child] = r /\ \A q \in Producers \ {Child} : ctl'[q] = ctl[q]
    BY <1>1, <1>4, RowFacts DEF IInv
  <1>6. ASSUME NEW q \in Producers, Sound(q)' PROVE Agrees(q)'
    <2>1. q # Child
      BY <1>4, <1>5, <1>6 DEF Sound
    <2>2. ctl'[q] = ctl[q] /\ Sound(q) /\ Agrees(q)
      BY <1>5, <1>6, <2>1 DEF Sound, Understood
    <2>3. q = Parent /\ ~ ctl[q].closed
      BY <1>1, <1>2, <2>1, <2>2, OnlyTheParent DEF Agrees, Healthy
    <2>4. Mode(q) = "paused" /\ Mode(q)' = "paused"
      BY <1>1, <1>3, <2>3 DEF Mode, Due
    <2> QED
      BY <1>1, <2>2, <2>3, <2>4, ModeKept
  <1>7. Planned'
    <2>1. ASSUME NEW q \in Producers
          PROVE  (ctl'[q].hardDeath => q = Child) /\ (ctl'[q].attached \/ (q = Successor /\ ~ cli'[q].err))
      <3>1. CASE q = Child
        BY <1>1, <1>4, <1>5, <3>1 DEF Understood, Planned
      <3>2. CASE q # Child
        BY <1>1, <1>5, <3>2 DEF Understood, Planned
      <3> QED
        BY <3>1, <3>2
    <2>2. Parent \in Producers /\ Parent # Child /\ Parent # Successor
      BY ConstantsAssumption DEF Producers
    <2>3. Sound(Parent)'
      BY <2>1, <2>2 DEF Sound
    <2> QED
      BY <1>1, <1>3, <2>1, <2>2, <2>3 DEF Understood, Planned
  <1>8. Restarted'
    <2>1. Successor \in Producers \ {Child}
      BY ConstantsAssumption DEF Producers
    <2>2. ctl'[Successor] = ctl[Successor]
      BY <1>5, <2>1
    <2> QED
      BY <1>1, <1>2, <1>3, <1>4, <1>5, <2>2 DEF Understood, Restarted
  <1> QED
    BY <1>6, <1>7, <1>8 DEF Understood

\* What the controller and the parent find when the child is replaced: the parent is
\* saved and idle, the child is closed and the successor was never attached.
LEMMA ReadyToReopen ==
    ASSUME IInv, Understood, ParentJoined, Reopen
    PROVE  /\ Sound(Parent) /\ Agrees(Parent) /\ Mode(Parent) = "saved" /\ Open(Parent)
           /\ cli[Parent].active = {} /\ wire[Parent].op = "none" /\ ~ ctl[Parent].closed
           /\ cli[Parent].paused /\ cli[Parent].fenced /\ cli[Parent].checkpoint
           /\ cli[Parent].phase = phase /\ ctl[Parent].checkpoint = phase
           /\ ctl[Child].hardDeath /\ ctl[Child].checkpoint = phase /\ fenced
           /\ ctl[Successor] = Unattached
           /\ Live = {Parent} /\ \A p \in Producers : ctl[p].active = {}
  <1>1. /\ owner.step = "checkpoint" /\ owner.todo = {} /\ \A q \in Producers : call[q] = "none"
        /\ owner.plan = "restart" /\ ctl[Child].closed /\ gate[Parent] = "free" /\ Open(Parent)
    BY DEF Reopen, Called, At
  <1>2. /\ Producers = {Parent, Child, Successor}
        /\ Parent # Child /\ Parent # Successor /\ Child # Successor
    BY ConstantsAssumption DEF Producers
  <1>3. Sound(Parent) /\ Agrees(Parent) /\ ~ ctl[Parent].closed
    BY <1>1, <1>2, LiveIsSound DEF Understood, Planned, Sound
  <1>4. ctl[Child].hardDeath
    <2>1. ~ Sound(Child) /\ ctl[Child].attached
      BY <1>1, <1>2, LiveIsSound DEF Understood, Planned
    <2> QED
      BY <2>1 DEF Sound
  <1>5. /\ ctl[Child].checkpoint = phase /\ ctl[Child].active = {} /\ fenced
        /\ ctl[Successor] = Unattached
    BY <1>1, <1>4 DEF Understood, Planned, Restarted
  <1>6. ~ ctl[Successor].attached /\ ctl[Successor].active = {}
    BY <1>5 DEF Unattached
  <1>7. Mode(Parent) = "saved" /\ ~ Resuming(Parent)
    BY <1>1, <1>2 DEF Mode, Due, Resuming
  <1>8. /\ cli[Parent].paused /\ cli[Parent].fenced /\ cli[Parent].checkpoint
        /\ cli[Parent].phase = phase /\ ctl[Parent].checkpoint = phase
    BY <1>1, <1>3, <1>7 DEF Agrees, InStep
  <1>9. cli[Parent].active = {}
    BY <1>1, <1>3, <1>7 DEF ParentJoined, Joined, Agrees, Owned
  <1>10. ctl[Parent].active = {}
    BY <1>3, <1>9 DEF Agrees, Matched, Known
  <1>11. wire[Parent].op = "none"
    BY <1>1, <1>2 DEF IInv, Producing, OnWire
  <1>12. Live = {Parent}
    BY <1>1, <1>2, <1>3, <1>6 DEF Live, Sound
  <1>13. \A p \in Producers : ctl[p].active = {}
    BY <1>2, <1>5, <1>6, <1>10
  <1> QED
    BY <1>1, <1>3, <1>4, <1>5, <1>7, <1>8, <1>9, <1>11, <1>12, <1>13

\* Reopen: the parent is opened again in the same phase.
LEMMA ReopenAgrees ==
    ASSUME IInv, Chain, OwnerShape, Understood, ParentJoined, ~ failed, Reopen
    PROVE  ~ failed' /\ Understood'
  <1> DEFINE r == [ctl[Parent] EXCEPT !.checkpoint = 0]
             c == [cli[Parent] EXCEPT !.paused = FALSE, !.fenced = FALSE, !.checkpoint = FALSE]
  <1>1. /\ Sound(Parent) /\ Agrees(Parent) /\ Mode(Parent) = "saved" /\ Open(Parent)
        /\ cli[Parent].active = {} /\ wire[Parent].op = "none" /\ ~ ctl[Parent].closed
        /\ cli[Parent].paused /\ cli[Parent].fenced /\ cli[Parent].checkpoint
        /\ cli[Parent].phase = phase /\ ctl[Parent].checkpoint = phase
        /\ ctl[Child].hardDeath /\ ctl[Child].checkpoint = phase /\ fenced
        /\ ctl[Successor] = Unattached
        /\ Live = {Parent} /\ \A p \in Producers : ctl[p].active = {}
    BY ReadyToReopen
  <1>2. /\ owner.step = "checkpoint" /\ owner.todo = {} /\ \A q \in Producers : call[q] = "none"
        /\ owner.plan = "restart" /\ ctl[Child].closed
        /\ UNCHANGED <<phase, gate, wire, work, call>>
    BY DEF Reopen, Called, At
  <1>3. /\ ctl' = [ctl EXCEPT ![Parent] = r] /\ cli' = [cli EXCEPT ![Parent] = c]
        /\ fenced' = FALSE /\ failed' = failed /\ Go("launch", {})
    BY <1>1 DEF Reopen
  <1>4. owner'.step = "launch" /\ owner'.todo = {} /\ owner'.plan = "restart"
    BY <1>2, <1>3 DEF Go, OwnerShape
  <1>5. Parent \in Producers /\ Child \in Producers \ {Parent} /\ Successor \in Producers \ {Parent}
    BY ConstantsAssumption DEF Producers
  <1>6. Types /\ ctl[Parent] \in Rows /\ cli[Parent] \in Clients /\ phase \in Nat \ {0}
    BY <1>5 DEF IInv, Types
  <1>7. /\ r \in Rows /\ r.attached = ctl[Parent].attached /\ r.hardDeath = ctl[Parent].hardDeath
        /\ r.closed = ctl[Parent].closed /\ r.checkpoint = 0 /\ r.ordinal = ctl[Parent].ordinal
        /\ r.active = ctl[Parent].active
    BY <1>6 DEF Rows
  <1>8. /\ c \in Clients /\ c.alive = cli[Parent].alive /\ c.err = cli[Parent].err
        /\ c.closed = cli[Parent].closed /\ c.phase = cli[Parent].phase /\ c.ordinal = cli[Parent].ordinal
        /\ c.active = cli[Parent].active /\ ~ c.paused /\ ~ c.fenced /\ ~ c.checkpoint
    BY <1>6 DEF Clients
  <1> HIDE DEF r, c
  <1>9. ctl'[Parent] = r /\ \A q \in Producers \ {Parent} : ctl'[q] = ctl[q]
    BY <1>3, <1>5, <1>6, <1>7, RowFacts
  <1>10. cli'[Parent] = c /\ \A q \in Producers \ {Parent} : cli'[q] = cli[q]
    BY <1>3, <1>5, <1>6, <1>8, ClientFacts
  <1>11. ASSUME NEW q \in Producers, Sound(q)' PROVE q = Parent
    <2>1. CASE q # Parent
      <3>1. Sound(q)
        BY <1>9, <1>11, <2>1 DEF Sound
      <3>2. q # Child
        BY <1>1, <3>1 DEF Sound
      <3> QED
        BY <1>2, <2>1, <3>1, <3>2, OnlyTheParent
    <2> QED
      BY <2>1
  <1>12. Agrees(Parent)'
    <2>1. Mode(Parent)' = "open" /\ ~ Resuming(Parent)'
      BY <1>4 DEF Mode, Resuming
    <2>2. InStep(Parent)'
      BY <1>1, <1>2, <1>6, <1>7, <1>8, <1>9, <1>10, <2>1 DEF InStep
    <2>3. Healthy(Parent)'
      BY <1>1, <1>2, <1>5, <1>7, <1>8, <1>9, <1>10 DEF Healthy, Open
    <2>4. PauseHolds(Parent)'
      BY <2>1 DEF PauseHolds
    <2>5. Owned(Parent)' /\ Asks(Parent)'
      BY <1>1, <1>2, <1>8, <1>10 DEF Owned, Asks, Unheard
    <2>6. Matched(Parent)'
      <3>1. cli'[Parent].ordinal = ctl'[Parent].ordinal + (IF Unheard(Parent, "admit")' THEN 1 ELSE 0)
        BY <1>1, <1>2, <1>7, <1>8, <1>9, <1>10 DEF Agrees, Matched, Unheard
      <3>2. cli'[Parent].active = {} /\ ctl'[Parent].active = {}
        BY <1>1, <1>5, <1>7, <1>8, <1>9, <1>10
      <3> QED
        BY <3>1, <3>2 DEF Matched, Known
    <2> QED
      BY <2>2, <2>3, <2>4, <2>5, <2>6 DEF Agrees
  <1>13. Planned'
    <2>1. ASSUME NEW q \in Producers
          PROVE  (ctl'[q].hardDeath => q = Child) /\ (ctl'[q].attached \/ (q = Successor /\ ~ cli'[q].err))
      <3>1. CASE q = Parent
        BY <1>1, <1>7, <1>9, <3>1 DEF Sound
      <3>2. CASE q # Parent
        BY <1>9, <1>10, <3>2 DEF Understood, Planned
      <3> QED
        BY <3>1, <3>2
    <2> QED
      BY <1>2, <1>3, <1>4, <2>1 DEF Understood, Planned
  <1>14. Restarted'
    <2>1. ctl'[Child] = ctl[Child] /\ ctl'[Successor] = ctl[Successor] /\ cli'[Child] = cli[Child]
      BY <1>5, <1>9, <1>10
    <2> QED
      BY <1>1, <1>2, <1>4, <2>1 DEF Understood, Restarted
  <1> QED
    BY <1>3, <1>11, <1>12, <1>13, <1>14 DEF Understood

\* Launch: the successor starts with nothing, in the phase the controller is in.
LEMMA LaunchAgrees ==
    ASSUME IInv, Chain, Understood, Launch
    PROVE  Understood'
  <1> DEFINE r == [ctl[Successor] EXCEPT !.attached = TRUE]
  <1>1. /\ UNCHANGED <<phase, fenced, gate, wire, work, call>> /\ owner.step = "launch"
        /\ Successor \in Producers /\ ctl[Successor] = Unattached /\ phase \in Nat \ {0}
        /\ ctl' = [ctl EXCEPT ![Successor] = r]
        /\ cli' = [cli EXCEPT ![Successor] = NewClient(phase)]
        /\ \A q \in Producers : call[q] = "none"
        /\ owner'.plan = "none" /\ owner'.step = "run" /\ owner'.todo = {} /\ Types
    BY DEF Launch, At, Producers, IInv, Types, Chain, Answered
  <1>2. /\ r \in Rows /\ r.attached /\ ~ r.hardDeath /\ ~ r.closed /\ r.checkpoint = 0
        /\ r.ordinal = 0 /\ r.active = {}
    <2>1. ctl[Successor] \in Rows
      BY <1>1 DEF Types
    <2>2. /\ ~ ctl[Successor].hardDeath /\ ~ ctl[Successor].closed /\ ctl[Successor].checkpoint = 0
          /\ ctl[Successor].ordinal = 0 /\ ctl[Successor].active = {}
      BY <1>1 DEF Unattached
    <2> QED
      BY <2>1, <2>2 DEF Rows
  <1>3. LET c == NewClient(phase)
        IN  /\ c \in Clients /\ c.alive /\ ~ c.err /\ ~ c.closed /\ c.phase = phase /\ c.ordinal = 0
            /\ c.active = {} /\ ~ c.paused /\ ~ c.fenced /\ ~ c.checkpoint
    BY <1>1 DEF NewClient, Clients
  <1> HIDE DEF r
  <1>4. ctl'[Successor] = r /\ \A q \in Producers \ {Successor} : ctl'[q] = ctl[q]
    BY <1>1, <1>2, RowFacts
  <1>5. cli'[Successor] = NewClient(phase) /\ \A q \in Producers \ {Successor} : cli'[q] = cli[q]
    BY <1>1, <1>3, ClientFacts
  <1>6. ASSUME NEW q \in Producers, Sound(q)' PROVE Agrees(q)'
    <2>1. Mode(q) = "open" /\ Mode(q)' = "open" /\ ~ Resuming(q)'
      BY <1>1 DEF Mode, Resuming
    <2>2. CASE q # Successor
      <3>1. ctl'[q] = ctl[q] /\ cli'[q] = cli[q] /\ Agrees(q) /\ ~ ctl[q].closed
        BY <1>1, <1>4, <1>5, <1>6, <2>2, LiveIsSound DEF Sound, Understood
      <3> QED
        BY <1>1, <2>1, <3>1, ModeKept
    <2>3. CASE q = Successor
      <3>1. ~ ctl[q].attached
        BY <1>1, <2>3 DEF Unattached
      <3>2. wire[q].op = "none"
        BY <3>1 DEF IInv, Producing, GoneIsQuiet
      <3>3. InStep(q)' /\ Healthy(q)'
        BY <1>1, <1>2, <1>3, <1>4, <1>5, <2>1, <2>3, <3>2 DEF InStep, Healthy
      <3>4. PauseHolds(q)' /\ Owned(q)' /\ Asks(q)'
        BY <1>1, <1>3, <1>5, <2>1, <2>3, <3>2 DEF PauseHolds, Owned, Asks, Unheard
      <3>5. Matched(q)'
        BY <1>1, <1>2, <1>3, <1>4, <1>5, <2>3, <3>2 DEF Matched, Known, Unheard
      <3> QED
        BY <3>3, <3>4, <3>5 DEF Agrees
    <2> QED
      BY <2>2, <2>3
  <1>7. Planned'
    <2>1. ASSUME NEW q \in Producers
          PROVE  (ctl'[q].hardDeath => q = Child) /\ ctl'[q].attached
      <3>1. CASE q = Successor
        BY <1>2, <1>4, <3>1
      <3>2. CASE q # Successor
        BY <1>4, <3>2 DEF Understood, Planned
      <3> QED
        BY <3>1, <3>2
    <2> QED
      BY <1>1, <2>1 DEF Understood, Planned
  <1>8. Restarted'
    <2>1. Child \in Producers \ {Successor}
      BY ConstantsAssumption DEF Producers
    <2>2. ctl'[Child] = ctl[Child] /\ cli'[Child] = cli[Child]
      BY <1>4, <1>5, <2>1
    <2> QED
      BY <1>1, <1>2, <1>4, <2>2 DEF Understood, Restarted
  <1> QED
    BY <1>6, <1>7, <1>8 DEF Understood

\* CancelUnused: whoever was attached has closed.
LEMMA CancelUnusedAgrees ==
    ASSUME IInv, Chain, OwnerShape, Understood, CancelUnused
    PROVE  Understood'
  <1> DEFINE r == [ctl[Successor] EXCEPT !.closed = TRUE]
  <1>1. /\ UNCHANGED <<phase, fenced, cli, gate, wire, work, call>> /\ owner.step = "close"
        /\ owner.todo = {} /\ \A q \in Producers : call[q] = "none"
        /\ Successor \in Producers /\ ctl[Successor] \in Rows /\ ctl' = [ctl EXCEPT ![Successor] = r]
    BY DEF CancelUnused, Called, At, Producers, IInv, Types
  <1>2. owner.plan = "end" /\ owner'.plan = "end" /\ owner'.step = "done" /\ owner'.todo = {}
    BY <1>1 DEF CancelUnused, Go, OwnerShape, Understood, Planned
  <1>3. /\ r \in Rows /\ r.attached = ctl[Successor].attached /\ r.hardDeath = ctl[Successor].hardDeath
        /\ r.closed /\ (ctl[Successor].closed => r = ctl[Successor])
    BY <1>1 DEF Rows
  <1> HIDE DEF r
  <1>4. ctl'[Successor] = r /\ \A q \in Producers \ {Successor} : ctl'[q] = ctl[q]
    BY <1>1, <1>3, RowFacts DEF IInv
  <1>5. ASSUME NEW q \in Producers, Sound(q)' PROVE Agrees(q)'
    <2>1. Sound(q)
      BY <1>3, <1>4, <1>5 DEF Sound
    <2>2. ctl[q].closed /\ Agrees(q)
      BY <1>1, <2>1 DEF Sound, Understood, Chain, Heeded
    <2>3. ctl'[q] = ctl[q]
      BY <1>3, <1>4, <2>2
    <2>4. Mode(q) = "saved" /\ Mode(q)' = "saved"
      BY <1>1, <1>2 DEF Mode, Due
    <2> QED
      BY <1>1, <1>2, <2>2, <2>3, <2>4, ModeKept
  <1>6. Planned'
    <2>1. ASSUME NEW q \in Producers
          PROVE  (ctl'[q].hardDeath => q = Child) /\ (ctl'[q].attached \/ (q = Successor /\ ~ cli'[q].err))
      BY <1>1, <1>3, <1>4 DEF Understood, Planned
    <2> QED
      BY <1>1, <1>2, <2>1 DEF Understood, Planned
  <1>7. Restarted'
    <2>1. Child \in Producers \ {Successor}
      BY ConstantsAssumption DEF Producers
    <2> QED
      BY <1>1, <1>2, <1>4, <2>1 DEF Understood, Restarted
  <1> QED
    BY <1>5, <1>6, <1>7 DEF Understood

------------------------------------------------------------------------------
(* Every step *)

\* Faults are only added up, and the controller's failure is final and freezes it.
LEMMA FaultsAndFailure ==
    ASSUME faults \in Nat, [Next]_vars
    PROVE  /\ faults' = faults \/ faults' = faults + 1
           /\ failed => UNCHANGED <<phase, counts, failed>>
  <1>1. CASE UNCHANGED vars
    BY <1>1 DEF vars, admission
  <1>2. ASSUME NEW p \in Producers, NEW w \in Workers[p],
               \/ Enter(p, w) \/ CancelParked(p, w) \/ StartCanceled(p, w) \/ Exit(p, w)
               \/ Worker(p, w)
        PROVE  (faults' = faults \/ faults' = faults + 1) /\ UNCHANGED <<phase, counts, failed>>
    BY <1>2 DEF Enter, CancelParked, StartCanceled, Exit, Worker, Unpark, Admit, Admitted, Start,
                Settle, Settled, Fault, admission
  <1>3. ASSUME NEW p \in Producers, ExchangeFails(p) \/ CallFails(p) \/ Crash(p) \/ Control(p)
        PROVE  (faults' = faults \/ faults' = faults + 1) /\ UNCHANGED <<phase, counts, failed>>
    BY <1>3 DEF ExchangeFails, CallFails, Crash, Control, Pause, PauseDone, Fences, Drained, Carry,
                Record, Recorded, Resume, Fault, admission
  <1>4. ASSUME NEW p \in Producers, Accept(p) \/ EndStream(p) \/ StreamBreaks(p) \/ Return(p)
        PROVE  faults' = faults /\ (failed => UNCHANGED <<phase, counts, failed>>)
    BY <1>4 DEF Accept, EndStream, StreamBreaks, Return, admission
  <1>5. CASE Begin \/ Call \/ Fence \/ Advance \/ Resumed \/ ExpectHardDeath \/ Kill
             \/ CloseHardDeath \/ Reopen \/ Launch \/ CancelUnused
    BY <1>5 DEF Begin, Call, Fence, Advance, Resumed, ExpectHardDeath, Kill, CloseHardDeath, Reopen,
                Launch, CancelUnused, Called, At, admission
  <1> QED
    BY <1>1, <1>2, <1>3, <1>4, <1>5 DEF Next, Owner

\* A step without a fault keeps everybody in agreement, spends the budget or breaks
\* the stream of a child that is killed.
LEMMA CalmStep ==
    ASSUME IInv, OwnerShape, Chain, Counting, Fits, Understood, ParentJoined, ~ failed, faults = 0,
           faults' = 0, [Next]_vars
    PROVE  IF failed' THEN CutOff' \/ counts'[phase'] >= Budget ELSE Understood'
  <1>1. CASE UNCHANGED vars
    <2>1. UNCHANGED <<phase, fenced, failed, ctl, cli, gate, wire, work, call, owner>>
      BY <1>1 DEF vars, admission
    <2>2. \A q \in Producers : Sound(q)' => Agrees(q)'
      BY <2>1, LeftAlone DEF Understood
    <2>3. Planned' /\ Restarted'
      BY <2>1 DEF Understood, Planned, Restarted, Sound
    <2> QED
      BY <2>1, <2>2, <2>3 DEF Understood
  <1>2. ASSUME NEW p \in Producers, NEW w \in Workers[p],
               \/ Enter(p, w) \/ CancelParked(p, w) \/ StartCanceled(p, w) \/ Exit(p, w)
               \/ Worker(p, w)
        PROVE  ~ failed' /\ Understood'
    <2>1. ~ failed'
      BY <1>2 DEF Enter, CancelParked, StartCanceled, Exit, Worker, Unpark, Admit, Admitted, Start,
                  Settle, Settled, admission
    <2>2. CASE Enter(p, w) \/ Exit(p, w) \/ StartCanceled(p, w)
      BY <2>1, <2>2, EnterAgrees, ExitAgrees, StartCanceledAgrees
    <2>3. CASE CancelParked(p, w)
      BY <2>3 DEF CancelParked, Fault
    <2>4. CASE Worker(p, w)
      BY <2>1, <2>4, UnparkAgrees, AdmitAgrees, AdmittedAgrees, StartAgrees, SettleAgrees, SettledAgrees
      DEF Worker
    <2> QED
      BY <1>2, <2>1, <2>2, <2>3, <2>4
  <1>3. ASSUME NEW p \in Producers, ExchangeFails(p) \/ CallFails(p) \/ Crash(p)
        PROVE  ~ failed' /\ Understood'
    <2>1. CASE ExchangeFails(p)
      BY <2>1, ExchangeFailsAgrees DEF ExchangeFails, admission
    <2>2. CASE CallFails(p)
      BY <2>2, CallDoesNotFail
    <2>3. CASE Crash(p)
      BY <2>3 DEF Crash, Fault
    <2> QED
      BY <1>3, <2>1, <2>2, <2>3
  <1>4. ASSUME NEW p \in Producers, Control(p)
        PROVE  ~ failed' /\ Understood'
    <2>1. ~ failed'
      BY <1>4 DEF Control, Pause, PauseDone, Fences, Drained, Carry, Record, Recorded, Resume, admission
    <2> QED
      BY <1>4, <2>1, PauseAgrees, PauseDoneAgrees, FencesAgrees, DrainedAgrees, CarryAgrees,
         RecordAgrees, RecordedAgrees, ResumeAgrees DEF Control
  <1>5. ASSUME NEW p \in Producers, Accept(p) \/ EndStream(p)
        PROVE  IF failed' THEN counts'[phase'] >= Budget ELSE Understood'
    BY <1>5, AcceptAgrees, EndStreamAgrees
  <1>6. ASSUME NEW p \in Producers, Return(p)
        PROVE  ~ failed' /\ Understood'
    BY <1>6, ReturnAgrees DEF Return, admission
  <1>7. CASE Begin \/ Call \/ Fence \/ Advance \/ Resumed
    <2>1. ~ failed'
      BY <1>7 DEF Begin, Call, Fence, Advance, Resumed, admission
    <2> QED
      BY <1>7, <2>1, BeginAgrees, CallAgreesToo, FenceAgrees, AdvanceAgrees, ResumedAgrees
  <1>8. CASE ExpectHardDeath \/ Kill \/ CloseHardDeath \/ Launch \/ CancelUnused
    <2>1. ~ failed'
      BY <1>8 DEF ExpectHardDeath, Kill, CloseHardDeath, Launch, CancelUnused, admission
    <2> QED
      BY <1>8, <2>1, ExpectHardDeathAgrees, KillAgrees, CloseHardDeathAgrees, LaunchAgrees,
         CancelUnusedAgrees
  <1>9. CASE Reopen
    BY <1>9, ReopenAgrees
  <1>10. ASSUME NEW p \in Producers, StreamBreaks(p)
         PROVE  failed' /\ CutOff'
    BY <1>10, StreamBreaksOnDeath DEF CutOff
  <1> QED
    BY <1>1, <1>2, <1>3, <1>4, <1>5, <1>6, <1>7, <1>8, <1>9, <1>10 DEF Next, Owner

\* A client whose handles are some of those it had, but for a mark.
LEMMA SomeOf ==
    ASSUME Joined, \A t \in cli'[Parent].active : \E h \in cli[Parent].active : h.persistent = t.persistent
    PROVE  Joined'
  BY DEF Joined

\* A step of the threads takes no persistent command in a paused client,
LEMMA ThreadsStayJoined ==
    ASSUME IInv, Joined, cli[Parent].paused, NEW p \in Producers, NEW w \in Workers[p],
           \/ Enter(p, w) \/ CancelParked(p, w) \/ StartCanceled(p, w) \/ Exit(p, w)
           \/ Worker(p, w)
    PROVE  Joined'
  <1>1. Types /\ Parent \in Producers /\ cli[Parent] \in Clients
    BY DEF IInv, Types, Producers
  <1>2. CASE UNCHANGED cli
    BY <1>2 DEF Joined
  <1>3. CASE Fail(p)
    BY <1>1, <1>3, SomeOf DEF Fail, Types, Clients
  <1>4. ASSUME NEW S, cli' = [cli EXCEPT ![p].active = S],
               p = Parent => \A t \in S : \E h \in cli[Parent].active : h.persistent = t.persistent
        PROVE  Joined'
    <2>1. cli'[Parent].active = IF p = Parent THEN S ELSE cli[Parent].active
      BY <1>1, <1>4 DEF Types, Clients
    <2> QED
      BY <1>4, <2>1, SomeOf
  <1>5. CASE Admit(p, w)
    <2>1. CASE p = Parent
      BY <1>2, <1>3, <1>5, <2>1 DEF Admit
    <2>2. CASE p # Parent
      <3>1. UNCHANGED cli \/ \E c : cli' = [cli EXCEPT ![p] = c]
        BY <1>5, Zenon DEF Admit, Fail
      <3>2. cli'[Parent] = cli[Parent]
        BY <1>1, <2>2, <3>1 DEF Types
      <3> QED
        BY <3>2 DEF Joined
    <2> QED
      BY <2>1, <2>2
  <1>6. CASE Start(p, w)
    <2> DEFINE S == {IF t.ordinal = work[p][w].ordinal THEN [t EXCEPT !.pending = FALSE] ELSE t :
                       t \in cli[p].active}
    <2>1. cli' = [cli EXCEPT ![p].active = S]
      BY <1>6 DEF Start
    <2>2. \A h \in cli[p].active : [h EXCEPT !.pending = FALSE].persistent = h.persistent
      BY <1>1 DEF Types, Clients, Helds
    <2>3. \A t \in S : \E h \in cli[p].active : h.persistent = t.persistent
      BY <2>2
    <2> HIDE DEF S
    <2> QED
      BY <1>4, <2>1, <2>3
  <1>7. CASE Settle(p, w) \/ Settled(p, w)
    <2>1. CASE Drop(p, work[p][w].ordinal)
      <3> DEFINE S == {t \in cli[p].active : t.ordinal # work[p][w].ordinal}
      <3>1. cli' = [cli EXCEPT ![p].active = S]
        BY <2>1 DEF Drop
      <3>2. S \subseteq cli[p].active
        OBVIOUS
      <3> HIDE DEF S
      <3> QED
        BY <1>4, <3>1, <3>2
    <2> QED
      BY <1>2, <1>7, <2>1 DEF Settle, Settled
  <1>8. CASE \/ Enter(p, w) \/ CancelParked(p, w) \/ StartCanceled(p, w) \/ Exit(p, w)
             \/ Unpark(p, w) \/ Admitted(p, w)
    BY <1>2, <1>3, <1>8 DEF Enter, CancelParked, StartCanceled, Exit, Unpark, Admitted
  <1> QED
    BY <1>5, <1>6, <1>7, <1>8 DEF Worker

\* ... nor do the owner's calls and the failures of a client.
LEMMA CallsStayJoined ==
    ASSUME IInv, Joined, NEW p \in Producers, ExchangeFails(p) \/ CallFails(p) \/ Crash(p) \/ Control(p)
    PROVE  Joined'
  <1>1. Types /\ Parent \in Producers /\ cli[Parent] \in Clients
    BY DEF IInv, Types, Producers
  <1>2. CASE p # Parent
    <2>1. UNCHANGED cli \/ \E c : cli' = [cli EXCEPT ![p] = c]
      BY Zenon DEF ExchangeFails, CallFails, Crash, Dies, Control, Pause, PauseDone, Fences, Drained, Carry,
                   Record, Recorded, Resume, Fail
    <2>2. cli'[Parent] = cli[Parent]
      BY <1>1, <1>2, <2>1 DEF Types
    <2> QED
      BY <2>2 DEF Joined
  <1>3. CASE p = Parent /\ ExchangeFails(p)
    <2> DEFINE settling == gate[p] # "control" /\ wire[p].op = "settle"
               S == {t \in cli[p].active : ~ (settling /\ t.ordinal = work[p][gate[p]].ordinal)}
    <2>1. cli' = [cli EXCEPT ![p].err = TRUE, ![p].active = S]
      BY <1>3 DEF ExchangeFails
    <2>2. S \subseteq cli[p].active
      OBVIOUS
    <2> HIDE DEF S
    <2>3. cli'[p].active = S
      BY <1>1, <2>1 DEF Types, Clients
    <2> QED
      BY <1>3, <2>2, <2>3, SomeOf
  <1>4. CASE p = Parent /\ Carry(p)
    <2>1. PICK t \in cli[p].active :
            UNCHANGED cli \/ cli' = [cli EXCEPT ![p].active = (@ \ {t}) \cup {[t EXCEPT !.carried = TRUE]}]
      BY <1>4 DEF Carry
    <2>2. [t EXCEPT !.carried = TRUE].persistent = t.persistent
      BY <1>1, <2>1 DEF Types, Clients, Helds
    <2>3. CASE UNCHANGED cli
      BY <2>3 DEF Joined
    <2>4. CASE cli' = [cli EXCEPT ![p].active = (@ \ {t}) \cup {[t EXCEPT !.carried = TRUE]}]
      <3>1. cli'[p].active = (cli[p].active \ {t}) \cup {[t EXCEPT !.carried = TRUE]}
        BY <1>1, <2>4 DEF Types, Clients
      <3> QED
        BY <1>4, <2>2, <3>1, SomeOf
    <2> QED
      BY <2>1, <2>3, <2>4
  <1>5. CASE p = Parent /\ ~ ExchangeFails(p) /\ ~ Carry(p)
    <2>1. cli'[p].active = cli[p].active
      <3>1. CASE CallFails(p) \/ Pause(p) \/ PauseDone(p)
        BY <1>1, <3>1 DEF CallFails, Pause, PauseDone, Fail, Types, Clients
      <3>2. ~ Crash(p)
        BY <1>5 DEF Crash
      <3>3. CASE Drained(p) \/ Record(p)
        BY <3>3 DEF Drained, Record
      <3>4. CASE Fences(p)
        <4>1. \/ cli' = [cli EXCEPT ![p].fenced = TRUE]
              \/ cli' = [cli EXCEPT ![p].fenced = TRUE, ![p].err = TRUE]
          BY <3>4 DEF Fences
        <4> QED
          BY <1>1, <4>1 DEF Types, Clients
      <3>5. CASE Recorded(p) \/ Resume(p)
        BY <1>1, <3>5 DEF Recorded, Resume, Fail, Types, Clients
      <3> QED
        BY <1>5, <3>1, <3>2, <3>3, <3>4, <3>5 DEF Control
    <2> QED
      BY <1>5, <2>1 DEF Joined
  <1> QED
    BY <1>2, <1>3, <1>4, <1>5

\* A step of a producer or of the controller leaves the owner's record alone, whether
\* it has called the parent, and whom it expects to die.
LEMMA NotTheOwner ==
    ASSUME IInv, Chain, [Next]_vars, ~ Begin, ~ Owner
    PROVE  /\ owner' = owner /\ (call'[Parent] # "none" => call[Parent] # "none")
           /\ ctl'[Child].hardDeath = ctl[Child].hardDeath
  <1>1. CASE UNCHANGED vars
    BY <1>1 DEF vars, admission
  <1>2. ASSUME NEW p \in Producers, NEW w \in Workers[p],
               \/ Enter(p, w) \/ CancelParked(p, w) \/ StartCanceled(p, w) \/ Exit(p, w)
               \/ Worker(p, w)
        PROVE  UNCHANGED <<owner, call, ctl>>
    BY <1>2 DEF Enter, CancelParked, StartCanceled, Exit, Worker, Unpark, Admit, Admitted, Start,
                Settle, Settled, admission
  <1>3. ASSUME NEW p \in Producers, ExchangeFails(p) \/ CallFails(p) \/ Crash(p) \/ Control(p)
        PROVE  UNCHANGED <<owner, ctl>> /\ (call'[Parent] # "none" => call[Parent] # "none")
    <2>1. UNCHANGED <<owner, ctl>>
      BY <1>3 DEF ExchangeFails, CallFails, Crash, Control, Pause, PauseDone, Fences, Drained, Carry,
                  Record, Recorded, Resume, admission
    <2>2. UNCHANGED call \/ (call[p] # "none" /\ \E a : call' = [call EXCEPT ![p] = a])
      <3>1. CASE ExchangeFails(p)
        BY <3>1 DEF ExchangeFails, Chain, Answered
      <3>2. CASE CallFails(p)
        BY <3>2 DEF CallFails, Answer
      <3>3. CASE Crash(p)
        <4>1. call' = [call EXCEPT ![p] = IF call[p] = "none" THEN call[p] ELSE "refused"]
          BY <3>3 DEF Crash
        <4> QED
          BY <4>1 DEF Chain
      <3>4. CASE Control(p)
        BY <3>4 DEF Control, Pause, PauseDone, Fences, Drained, Carry, Record, Recorded, Resume, Rpc, Answer
      <3> QED
        BY <1>3, <3>1, <3>2, <3>3, <3>4
    <2> QED
      BY <2>1, <2>2 DEF Chain, Producers
  <1>4. ASSUME NEW p \in Producers, Accept(p) \/ EndStream(p) \/ StreamBreaks(p)
        PROVE  UNCHANGED <<owner, call>> /\ ctl'[Child].hardDeath = ctl[Child].hardDeath
    <2>1. UNCHANGED <<owner, call>> /\ Types /\ Child \in Producers
      BY <1>4 DEF Accept, EndStream, StreamBreaks, IInv, Producers
    <2>2. CASE Accept(p)
      <3>1. RowAfter(p, wire[p]).hardDeath = ctl[p].hardDeath
        BY <2>1, <2>2, AcceptFacts, RowAfterFacts
      <3>2. /\ \A q \in Producers \ {p} : ctl'[q] = ctl[q]
            /\ ctl'[p] = IF Accepted(p) THEN RowAfter(p, wire[p]) ELSE ctl[p]
        BY <2>2, AcceptFacts
      <3> QED
        BY <2>1, <3>1, <3>2
    <2>3. CASE EndStream(p)
      BY <2>1, <2>3 DEF EndStream, Types, Rows
    <2>4. CASE StreamBreaks(p)
      BY <2>1, <2>4 DEF StreamBreaks
    <2> QED
      BY <1>4, <2>1, <2>2, <2>3, <2>4
  <1> QED
    BY <1>1, <1>2, <1>3, <1>4 DEF Next

\* Once joined, the parent takes no persistent command until it is reopened.
LEMMA StaysJoined ==
    ASSUME IInv, OwnerShape, Chain, Understood, ParentJoined, ~ failed, [Next]_vars, Understood'
    PROVE  ParentJoined'
  <1> SUFFICES ASSUME owner'.plan = "restart", owner'.step = "checkpoint", ctl'[Child].closed,
                      call'[Parent] # "none" \/ owner'.todo = {}
               PROVE  Joined'
    BY DEF ParentJoined
  <1>1. /\ Parent \in Producers /\ Child \in Producers /\ Successor \in Producers
        /\ Parent # Child /\ Parent # Successor /\ Child # Successor
        /\ Producers = {Parent, Child, Successor}
    BY ConstantsAssumption DEF Producers
  <1>2. CASE ~ Begin /\ ~ Owner
    <2>1. /\ owner' = owner /\ (call'[Parent] # "none" => call[Parent] # "none")
          /\ ctl'[Child].hardDeath = ctl[Child].hardDeath
      BY <1>2, NotTheOwner
    <2>2. ctl'[Child].hardDeath
      BY <1>1 DEF Understood, Planned, Sound, Agrees, Healthy
    <2>3. ctl[Child].closed
      BY <2>1, <2>2 DEF Understood, Restarted
    <2>4. Joined
      BY <2>1, <2>3 DEF ParentJoined
    <2>5. cli[Parent].paused
      <3>1. Sound(Parent)
        BY <1>1 DEF Understood, Planned, Sound
      <3>2. InStep(Parent)
        BY <1>1, <3>1 DEF Understood, Agrees
      <3>3. Mode(Parent) # "open"
        BY <2>1 DEF Mode
      <3> QED
        BY <3>2, <3>3 DEF InStep
    <2>6. ASSUME NEW p \in Producers, Accept(p) \/ EndStream(p) \/ StreamBreaks(p)
          PROVE  Joined'
      BY <2>4, <2>6 DEF Accept, EndStream, StreamBreaks, Joined
    <2>7. CASE UNCHANGED vars
      BY <2>4, <2>7 DEF vars, Joined
    <2> QED
      BY <1>2, <2>4, <2>5, <2>6, <2>7, ThreadsStayJoined, CallsStayJoined DEF Next
  <1>3. CASE Call
    <2>1. PICK p \in owner.todo :
            /\ owner.plan = "restart" /\ owner.step = "checkpoint" /\ p = Parent => Joined
            /\ call' = [call EXCEPT ![p] = owner.step]
      BY <1>3 DEF Call
    <2>2. UNCHANGED <<owner, cli>> /\ call[Parent] = "none"
      BY <1>1, <1>3 DEF Call
    <2>3. p = Parent
      BY <1>1, <2>1, <2>2 DEF Chain
    <2> QED
      BY <2>1, <2>2, <2>3 DEF Joined
  <1>4. ASSUME NEW p \in Producers, Return(p)
        PROVE  Joined'
    <2>1. UNCHANGED <<ctl, cli>> /\ Answer(p, "none") /\ call[p] # "none" /\ p \in owner.todo
      BY <1>4 DEF Return, admission, Understood, Planned
    <2>2. call[p] = "done" /\ owner'= [owner EXCEPT !.todo = @ \ {p}]
      BY <1>4 DEF Return, OwnerShape
    <2>3. owner.plan = "restart" /\ owner.step = "checkpoint" /\ owner'.todo = owner.todo \ {p}
      BY <2>2 DEF OwnerShape
    <2>4. Sound(p) /\ Agrees(p)
      BY <2>1 DEF Understood, Planned
    <2>5. p # Child
      BY <2>1, <2>3, <2>4 DEF Agrees, Healthy
    <2>6. p # Successor
      BY <2>3, <2>4 DEF Understood, Restarted, Sound
    <2>7. p = Parent
      BY <1>1, <2>5, <2>6
    <2>8. Joined
      BY <2>1, <2>3, <2>7 DEF ParentJoined
    <2> QED
      BY <2>1, <2>8 DEF Joined
  <1>5. CASE Begin \/ Resumed \/ Launch
    BY <1>5 DEF Begin, Resumed, Launch
  <1>6. CASE Fence
    <2>1. Called("pause") /\ owner.plan \in {"advance", "restart", "end"}
      BY <1>6 DEF Fence, Called, At, OwnerShape
    <2>2. owner.plan = "restart"
      BY <1>6, <2>1 DEF Fence, Go, OwnerShape
    <2>3. owner'.todo = {Child} /\ call'[Parent] = "none"
      BY <1>1, <1>6, <2>1, <2>2 DEF Fence, Go, OwnerShape, Called
    <2> QED
      BY <2>3
  <1>7. CASE CloseHardDeath
    <2>1. owner'.todo = {Parent} /\ call'[Parent] = "none"
      BY <1>1, <1>7 DEF CloseHardDeath, At, Go, OwnerShape, Chain, Answered
    <2> QED
      BY <2>1
  <1>8. CASE Advance \/ ExpectHardDeath \/ Kill \/ Reopen \/ CancelUnused
    <2>1. \E step \in {"resume", "kill", "wait", "failed", "launch", "done"}, todo \in SUBSET Producers :
            Go(step, todo)
      BY <1>8 DEF Live, Advance, ExpectHardDeath, Kill, Reopen, CancelUnused
    <2> QED
      BY <2>1 DEF Go, OwnerShape
  <1> QED
    BY <1>2, <1>3, <1>4, <1>5, <1>6, <1>7, <1>8 DEF Owner

\* A stream that broke stays broken: its client is gone and the controller has failed.
LEMMA CutOffStays ==
    ASSUME IInv, CutOff, [Next]_vars
    PROVE  CutOff'
  <1> DEFINE Broken == /\ failed' /\ ctl'[Child].hardDeath /\ ~ ctl'[Child].eof
                       /\ (Open(Child)' => Open(Child)) /\ wire'[Child] = wire[Child]
  <1>1. /\ failed /\ ctl[Child].hardDeath /\ ~ ctl[Child].eof /\ ~ Open(Child) /\ wire[Child].echo
        /\ Child \in Producers /\ Types
    BY DEF CutOff, Producers, IInv
  <1>2. SUFFICES Broken
    BY <1>1, <1>2 DEF CutOff
  <1>3. ASSUME UNCHANGED <<failed, ctl, cli>>, wire'[Child] = wire[Child]
        PROVE  Broken
    BY <1>1, <1>3 DEF Open
  <1>4. CASE UNCHANGED vars
    BY <1>3, <1>4 DEF vars, admission
  <1>5. ASSUME NEW p \in Producers, NEW w \in Workers[p],
               \/ Enter(p, w) \/ CancelParked(p, w) \/ StartCanceled(p, w) \/ Exit(p, w)
               \/ Worker(p, w)
        PROVE  Broken
    <2>1. UNCHANGED <<failed, ctl>>
      BY <1>5 DEF Enter, CancelParked, StartCanceled, Exit, Worker, Unpark, Admit, Admitted, Start,
                  Settle, Settled, admission
    <2>2. UNCHANGED wire \/ (Open(p) /\ \E f : Send(p, f))
      BY <1>5 DEF Enter, CancelParked, StartCanceled, Exit, Worker, Unpark, Admit, Admitted, Start,
                  Settle, Settled
    <2>3. wire'[Child] = wire[Child]
      BY <1>1, <2>2 DEF Send, Types
    <2>4. Open(Child)' => Open(Child)
      <3>1. CASE UNCHANGED cli
        BY <3>1 DEF Open
      <3>2. CASE Fail(p)
        BY <1>1, <3>2 DEF Fail, Open, Types, Clients
      <3>3. ASSUME NEW S, NEW n, cli' = [cli EXCEPT ![p].ordinal = n, ![p].active = S]
            PROVE  Open(Child)' => Open(Child)
        BY <1>1, <3>3 DEF Open, Types, Clients
      <3>4. ASSUME NEW S, cli' = [cli EXCEPT ![p].active = S]
            PROVE  Open(Child)' => Open(Child)
        BY <1>1, <3>4 DEF Open, Types, Clients
      <3>5. CASE Admit(p, w)
        BY <3>1, <3>2, <3>3, <3>5 DEF Admit
      <3>6. CASE Start(p, w)
        BY <3>4, <3>6 DEF Start
      <3>7. CASE Settle(p, w) \/ Settled(p, w)
        BY <3>1, <3>4, <3>7 DEF Settle, Settled, Drop
      <3>8. CASE \/ Enter(p, w) \/ CancelParked(p, w) \/ StartCanceled(p, w) \/ Exit(p, w)
                 \/ Unpark(p, w) \/ Admitted(p, w)
        BY <3>1, <3>2, <3>8 DEF Enter, CancelParked, StartCanceled, Exit, Unpark, Admitted
      <3> QED
        BY <1>5, <3>5, <3>6, <3>7, <3>8 DEF Worker
    <2> QED
      BY <1>1, <2>1, <2>3, <2>4
  <1>6. ASSUME NEW p \in Producers, ExchangeFails(p) \/ CallFails(p) \/ Crash(p)
        PROVE  Broken
    <2>1. UNCHANGED <<failed, ctl, wire>>
      BY <1>6 DEF ExchangeFails, CallFails, Crash, admission
    <2>2. Open(Child)' => Open(Child)
      <3>1. CASE ExchangeFails(p)
        <4>1. PICK S : cli' = [cli EXCEPT ![p].err = TRUE, ![p].active = S]
          BY <3>1 DEF ExchangeFails
        <4> QED
          BY <1>1, <4>1 DEF Open, Types, Clients
      <3>2. CASE CallFails(p)
        BY <1>1, <3>2 DEF CallFails, Fail, Open, Types, Clients
      <3>3. CASE Crash(p)
        BY <1>1, <3>3 DEF Crash, Dies, Open, Types, Clients
      <3> QED
        BY <1>6, <3>1, <3>2, <3>3
    <2> QED
      BY <1>1, <2>1, <2>2
  <1>7. ASSUME NEW p \in Producers, Control(p)
        PROVE  Broken
    <2>1. UNCHANGED <<failed, ctl>> /\ Open(p)
      BY <1>7 DEF Control, Pause, PauseDone, Fences, Drained, Carry, Record, Recorded, Resume, Rpc,
                  admission
    <2>2. p # Child
      BY <1>1, <2>1
    <2>3. wire'[Child] = wire[Child]
      BY <1>1, <1>7, <2>2 DEF Control, Pause, PauseDone, Fences, Drained, Carry, Record, Recorded,
                              Resume, Send, Types
    <2>4. UNCHANGED cli \/ \E c : cli' = [cli EXCEPT ![p] = c]
      BY <1>7, Zenon DEF Control, Pause, PauseDone, Fences, Drained, Carry, Record, Recorded, Resume, Fail
    <2>5. cli'[Child] = cli[Child]
      BY <1>1, <2>2, <2>4 DEF Types
    <2> QED
      BY <1>1, <2>1, <2>3, <2>5 DEF Open
  <1>8. ASSUME NEW p \in Producers, Accept(p) \/ EndStream(p) \/ StreamBreaks(p)
        PROVE  FALSE
    BY <1>1, <1>8 DEF Accept, EndStream, StreamBreaks
  <1>9. ASSUME NEW p \in Producers, Return(p)
        PROVE  Broken
    BY <1>3, <1>9 DEF Return, admission
  <1>10. CASE Begin \/ Call \/ Fence \/ Advance \/ Resumed \/ ExpectHardDeath \/ Kill
             \/ CloseHardDeath \/ Reopen \/ Launch \/ CancelUnused
    BY <1>1, <1>10 DEF Begin, Call, Fence, Advance, Resumed, ExpectHardDeath, Kill, CloseHardDeath,
                       Reopen, Launch, CancelUnused, Called, At
  <1> QED
    BY <1>4, <1>5, <1>6, <1>7, <1>8, <1>9, <1>10 DEF Next, Owner

\* Every step keeps the peace.
LEMMA NextSmooth ==
    ASSUME IInv, OwnerShape, Chain, Counting, Fits, Smooth, [Next]_vars
    PROVE  Smooth'
  <1>1. /\ faults \in Nat /\ faults' \in Nat /\ (faults' = 0 => faults = 0)
        /\ failed => UNCHANGED <<phase, counts, failed>>
    BY FaultsAndFailure DEF Smooth
  <1>2. CASE faults' # 0
    BY <1>1, <1>2 DEF Smooth
  <1>3. CASE faults' = 0 /\ failed
    BY <1>1, <1>3, CutOffStays DEF Smooth
  <1>4. CASE faults' = 0 /\ ~ failed
    <2>1. Understood /\ ParentJoined
      BY <1>1, <1>4 DEF Smooth
    <2>2. IF failed' THEN CutOff' \/ counts'[phase'] >= Budget ELSE Understood'
      BY <1>1, <1>4, <2>1, CalmStep
    <2>3. Understood' => ParentJoined'
      BY <1>4, <2>1, StaysJoined
    <2> QED
      BY <1>1, <2>2, <2>3 DEF Smooth
  <1> QED
    BY <1>2, <1>3, <1>4

\* Initially the parent and the child are open and hold nothing.
LEMMA InitSmooth ==
    ASSUME Init
    PROVE  Smooth
  <1>1. /\ phase = 1 /\ fenced = FALSE /\ failed = FALSE /\ faults = 0
        /\ owner.step = "run" /\ owner.todo = {} /\ owner.plan = "none"
        /\ ctl = [p \in Producers |-> [Unattached EXCEPT !.attached = p # Successor]]
        /\ cli = [p \in Producers |-> [NewClient(1) EXCEPT !.alive = p # Successor]]
        /\ work = [p \in Producers |-> [w \in Workers[p] |-> Idle]]
        /\ \A p \in Producers : gate[p] = "free" /\ wire[p] = NoFrame /\ call[p] = "none"
    BY DEF Init
  <1>2. \A p \in Producers :
          /\ ctl[p] = [Unattached EXCEPT !.attached = p # Successor]
          /\ cli[p] = [NewClient(1) EXCEPT !.alive = p # Successor]
          /\ \A w \in Workers[p] : work[p][w] = Idle
    BY <1>1
  <1>3. ASSUME NEW p \in Producers
        PROVE  /\ ctl[p].attached <=> p # Successor
               /\ ~ ctl[p].hardDeath /\ ~ ctl[p].closed
               /\ ctl[p].checkpoint = 0 /\ ctl[p].ordinal = 0 /\ ctl[p].active = {}
    <2>1. ctl[p] = [Unattached EXCEPT !.attached = p # Successor]
      BY <1>2
    <2> QED
      BY <2>1 DEF Unattached
  <1>4. ASSUME NEW p \in Producers
        PROVE  /\ cli[p].alive <=> p # Successor
               /\ ~ cli[p].err /\ ~ cli[p].closed /\ cli[p].phase = 1
               /\ cli[p].ordinal = 0 /\ cli[p].active = {}
               /\ ~ cli[p].paused /\ ~ cli[p].fenced /\ ~ cli[p].checkpoint
    <2>1. cli[p] = [NewClient(1) EXCEPT !.alive = p # Successor]
      BY <1>2
    <2> QED
      BY <2>1 DEF NewClient
  <1>5. \A p \in Producers : \A w \in Workers[p] : ~ work[p][w].persistent
    BY <1>2, IdleAsksNothing
  <1>6. \A p \in Producers : wire[p].op = "none" /\ ~ wire[p].echo
    BY <1>1 DEF NoFrame
  <1>7. Planned
    BY <1>1, <1>3, <1>4, <1>5 DEF Planned
  <1>8. Restarted
    <2>1. Successor \in Producers /\ Child \in Producers
      BY DEF Producers
    <2>2. ctl[Successor] = Unattached
      BY <1>2, <2>1 DEF Unattached
    <2> QED
      BY <1>1, <1>3, <2>1, <2>2 DEF Restarted
  <1>9. ASSUME NEW p \in Producers, Sound(p) PROVE Agrees(p)
    <2>1. Mode(p) = "open" /\ ~ Resuming(p)
      BY <1>1 DEF Mode, Resuming
    <2>2. InStep(p) /\ Healthy(p)
      BY <1>1, <1>3, <1>4, <1>6, <1>9, <2>1 DEF InStep, Healthy, Sound
    <2>3. PauseHolds(p) /\ Owned(p) /\ Asks(p)
      BY <1>4, <1>6, <2>1 DEF PauseHolds, Owned, Asks, Unheard
    <2>4. Matched(p)
      BY <1>3, <1>4, <1>6 DEF Matched, Known, Unheard
    <2> QED
      BY <2>2, <2>3, <2>4 DEF Agrees
  <1> QED
    BY <1>1, <1>7, <1>8, <1>9 DEF Smooth, Understood, ParentJoined

\* Agreement is what a refusal would need to break.
LEMMA SmoothRefusesNobody ==
    ASSUME Counting, Smooth
    PROVE  NoFalseRefusal
  <1> SUFFICES ASSUME faults = 0, counts[phase] < Budget, ~ CutOff
               PROVE  /\ ~ failed /\ owner.step # "failed"
                      /\ \A p \in Producers : cli[p].err => ctl[p].hardDeath \/ cli[p].closed
    BY DEF NoFalseRefusal
  <1>1. counts[phase] \in Nat /\ Budget \in Nat
    BY ConstantsAssumption DEF Counting, Exact
  <1>2. ~ failed
    BY <1>1 DEF Smooth
  <1>3. Planned /\ \A p \in Producers : Sound(p) => Agrees(p)
    BY <1>2 DEF Smooth, Understood
  <1>4. ASSUME NEW p \in Producers, cli[p].err, ~ ctl[p].hardDeath
        PROVE  cli[p].closed
    BY <1>3, <1>4 DEF Planned, Sound, Agrees, Healthy
  <1> QED
    BY <1>2, <1>3, <1>4 DEF Planned

\* Without a fault nobody is refused before the budget is spent, whatever the threads
\* and the owner's calls do in between, unless the kill of a child cuts off an echo.
\* The threads have to fit the client's limit; any producer may have persistent sites.
THEOREM NobodyIsRefused == Fits => (Spec => []NoFalseRefusal)
  <1> SUFFICES ASSUME Fits PROVE Spec => []NoFalseRefusal
    OBVIOUS
  <1>1. Init => Smooth
    BY InitSmooth
  <1>2. IInv /\ OwnerShape /\ Chain /\ Counting /\ Smooth /\ [Next]_vars => Smooth'
    BY NextSmooth
  <1>3. Counting /\ Smooth => NoFalseRefusal
    BY SmoothRefusesNobody
  <1> QED
    BY <1>1, <1>2, <1>3, DispatchInvariant, PTL DEF Spec

==============================================================================
