-------------------------- MODULE DispatchAdmission --------------------------
(***************************************************************************)
(* Dispatch admission (internal/dispatchadmission): a Controller counts,   *)
(* per phase, every command the producers of a run attempt to start.  A    *)
(* producer's Client asks for one admission at a time over its own socket, *)
(* starts the command once the request is echoed, and settles it after the *)
(* command was waited for.                                                 *)
(*                                                                         *)
(* The owner of the run moves everybody to the next phase: it pauses every *)
(* client, fences the controller, has every client checkpoint, advances    *)
(* and resumes (spike/t421/epoch_cold.go, epoch_physical.go).  It may also *)
(* kill a checkpointed child, reopen the same phase for its successor      *)
(* (epoch_checkpoint.go), or close every producer.  One-shot commands must *)
(* end in their phase; persistent ones are carried over a checkpoint.      *)
(*                                                                         *)
(* The socket is a reliable stream with one request outstanding, so the    *)
(* sequence number and the binding in a frame always match and are left    *)
(* out.  A step of several locked sections whose middle nothing can see is *)
(* one action.                                                             *)
(***************************************************************************)
EXTENDS Naturals, FiniteSets

CONSTANTS
    Parent,      \* the owner's own, in-process producer
    Child,       \* the first child process
    Successor,   \* launched only after the child was killed
    Workers,     \* Workers[p]: the threads of p that run commands
    Persistent,  \* the producers with a persistent site
    Phases,      \* number of configured phases
    Active,      \* Limits.ActivePerProducer
    Budget,      \* attempts allowed in one phase
    MaxAttempts, \* bound on commands tried
    MaxFaults    \* bound on timeouts, cancellations and crashes

Producers == {Parent, Child, Successor}

ASSUME ConstantsAssumption ==
    /\ Parent # Child /\ Parent # Successor /\ Child # Successor /\ Persistent \subseteq Producers
    /\ \A p \in Producers : {"free", "control"} \cap Workers[p] = {}
    /\ {Phases, Active, Budget} \subseteq Nat \ {0}
    /\ {MaxAttempts, MaxFaults} \subseteq Nat

VARIABLES
    phase, fenced, counts, failed, \* the controller; failed: its sticky error
    ctl,     \* ctl[p]: the controller's row of p
    cli,     \* cli[p]: the client of p, in p's process
    gate,    \* gate[p]: who holds p's request gate
    wire,    \* wire[p]: the request or the echo on p's socket
    work,    \* work[p][w]: what a thread of p does
    call,    \* call[p]: progress of the owner's call in p
    owner,   \* the owner's plan, step and the producers it has still to call
    tried,   \* history: tried[k], commands whose start was attempted in phase k
    faults

admission == <<phase, fenced, counts, failed, ctl>>
vars == <<admission, cli, gate, wire, work, call, owner, tried, faults>>

NoFrame == [op |-> "none", phase |-> 0, ordinal |-> 0, persistent |-> FALSE, echo |-> FALSE]
Frame(op, k, n, persistent) ==
    [op |-> op, phase |-> k, ordinal |-> n, persistent |-> persistent, echo |-> FALSE]
Idle == [step |-> "idle", ordinal |-> 0, phase |-> 0, persistent |-> FALSE]
Unattached == [attached |-> FALSE, closed |-> FALSE, hardDeath |-> FALSE, eof |-> FALSE,
               checkpoint |-> 0, ordinal |-> 0, active |-> {}]
NewClient(k) == [alive |-> TRUE, err |-> FALSE, closed |-> FALSE, phase |-> k, ordinal |-> 0,
                 active |-> {}, paused |-> FALSE, fenced |-> FALSE, checkpoint |-> FALSE]
Token(n, persistent) == [ordinal |-> n, persistent |-> persistent, carried |-> FALSE]
Held(n, persistent) == [ordinal |-> n, persistent |-> persistent, carried |-> FALSE, pending |-> TRUE]

Init ==
    /\ phase = 1 /\ fenced = FALSE /\ counts = [k \in 1 .. Phases |-> 0] /\ failed = FALSE
    /\ ctl = [p \in Producers |-> [Unattached EXCEPT !.attached = p # Successor]]
    /\ cli = [p \in Producers |-> [NewClient(1) EXCEPT !.alive = p # Successor]]
    /\ gate = [p \in Producers |-> "free"]
    /\ wire = [p \in Producers |-> NoFrame]
    /\ work = [p \in Producers |-> [w \in Workers[p] |-> Idle]]
    /\ call = [p \in Producers |-> "none"]
    /\ owner = [plan |-> "none", step |-> "run", todo |-> {}]
    /\ tried = [k \in 1 .. Phases |-> 0]
    /\ faults = 0

Open(p) == cli[p].alive /\ ~ cli[p].err /\ ~ cli[p].closed
Fault == faults < MaxFaults /\ faults' = faults + 1
Send(p, frame) == wire' = [wire EXCEPT ![p] = frame]
Echoed(p, op) == wire[p].op = op /\ wire[p].echo
Thread(p, w, state) == work' = [work EXCEPT ![p][w] = state]
Step(p, w, step) == work' = [work EXCEPT ![p][w].step = step]
Hold(p, h) == gate' = [gate EXCEPT ![p] = h]

\* Client.fail: the error is sticky and closes the socket.
Fail(p) == cli' = [cli EXCEPT ![p].err = TRUE]

------------------------------------------------------------------------------
(* Client: the threads of a producer *)

Entered(p) == {w \in Workers[p] : work[p][w].step \in {"parked", "acquire"}}
Tries(p) == cli[p].ordinal + Cardinality(Entered(p))
Begun == Tries(Parent) + Tries(Child) + Tries(Successor)
Parked(p) == {w \in Workers[p] : work[p][w].step = "parked"}

\* waitUnpaused: park behind a pause, or go for the gate.
Enter(p, w) ==
    /\ Open(p) /\ work[p][w].step = "idle" /\ Begun < MaxAttempts
    /\ \E persistent \in BOOLEAN :
         /\ persistent => p \in Persistent
         /\ IF ~ cli[p].paused
            THEN /\ Thread(p, w, [Idle EXCEPT !.step = "acquire", !.persistent = persistent])
                 /\ UNCHANGED cli
            ELSE IF Cardinality(Parked(p)) < Active
                 THEN /\ Thread(p, w, [Idle EXCEPT !.step = "parked", !.persistent = persistent])
                      /\ UNCHANGED cli
                 ELSE Fail(p) /\ UNCHANGED work
    /\ UNCHANGED <<admission, gate, wire, call, owner, tried, faults>>

Unpark(p, w) ==
    /\ cli[p].alive /\ work[p][w].step = "parked"
    /\ IF Open(p)
       THEN ~ cli[p].paused /\ Step(p, w, "acquire")
       ELSE Thread(p, w, Idle)
    /\ UNCHANGED <<admission, cli, gate, wire, call, owner, tried, faults>>

\* A parked caller that is canceled was never admitted: nothing else changes.
CancelParked(p, w) ==
    /\ cli[p].alive /\ work[p][w].step = "parked"
    /\ Fault /\ Thread(p, w, Idle)
    /\ UNCHANGED <<admission, cli, gate, wire, call, owner, tried>>

\* Mutant of Admit: the site's command is taken for a persistent one.
AdmitPersistent(p, w) ==
    /\ Open(p) /\ work[p][w].step = "acquire" /\ gate[p] = "free"
    /\ ~ cli[p].paused /\ ~ cli[p].fenced /\ Cardinality(cli[p].active) < Active
    /\ LET n == cli[p].ordinal + 1
       IN  /\ cli' = [cli EXCEPT ![p].ordinal = n, ![p].active = @ \cup {Held(n, TRUE)}]
           /\ Thread(p, w, [work[p][w] EXCEPT !.step = "admit", !.ordinal = n,
                                              !.phase = cli[p].phase])
           /\ Send(p, Frame("admit", cli[p].phase, n, TRUE))
           /\ Hold(p, w)
    /\ UNCHANGED <<admission, call, owner, tried, faults>>

\* admitInPhase, with the gate: a pause parks the caller after all, if there is
\* room; a failed or fenced client and a full one fail, otherwise the token and its
\* request.
Admit(p, w) ==
    /\ cli[p].alive /\ work[p][w].step = "acquire" /\ gate[p] = "free"
    /\ \/ /\ Open(p) /\ cli[p].paused /\ Cardinality(Parked(p)) < Active
          /\ Step(p, w, "parked") /\ UNCHANGED <<cli, gate, wire>>
       \/ /\ \/ ~ Open(p)
             \/ cli[p].paused /\ Cardinality(Parked(p)) >= Active
             \/ ~ cli[p].paused /\ (cli[p].fenced \/ Cardinality(cli[p].active) >= Active)
          /\ Fail(p) /\ Thread(p, w, Idle) /\ UNCHANGED <<gate, wire>>
       \/ /\ Open(p) /\ ~ cli[p].paused /\ ~ cli[p].fenced /\ Cardinality(cli[p].active) < Active
          /\ LET n == cli[p].ordinal + 1
                 persistent == work[p][w].persistent
             IN  /\ cli' = [cli EXCEPT ![p].ordinal = n, ![p].active = @ \cup {Held(n, persistent)}]
                 /\ Thread(p, w, [work[p][w] EXCEPT !.step = "admit", !.ordinal = n,
                                                    !.phase = cli[p].phase])
                 /\ Send(p, Frame("admit", cli[p].phase, n, persistent))
                 /\ Hold(p, w)
    /\ UNCHANGED <<admission, call, owner, tried, faults>>

Admitted(p, w) ==
    /\ Open(p) /\ gate[p] = w /\ Echoed(p, "admit")
    /\ Step(p, w, "start") /\ Hold(p, "free") /\ Send(p, NoFrame)
    /\ UNCHANGED <<admission, cli, call, owner, tried, faults>>

\* start, after the echo: the command starts or its start fails.  The client may
\* have failed since the contexts were looked at.
Start(p, w) ==
    /\ cli[p].alive /\ work[p][w].step = "start"
    /\ \E step \in {"running", "exited"} : Step(p, w, step)
    /\ tried' = [tried EXCEPT ![phase] = @ + 1]
    /\ cli' = [cli EXCEPT ![p].active = {IF t.ordinal = work[p][w].ordinal
                                         THEN [t EXCEPT !.pending = FALSE] ELSE t : t \in @}]
    /\ UNCHANGED <<admission, gate, wire, call, owner, faults>>

\* Mutant of StartCanceled: the unstarted command is settled and forgotten.
StartCanceledSettles(p, w) ==
    /\ Open(p) /\ work[p][w].step = "start" /\ Fault
    /\ Step(p, w, "exited")
    /\ UNCHANGED <<admission, cli, gate, wire, call, owner, tried>>

\* A caller or a lifetime canceled between the echo and the start.
StartCanceled(p, w) ==
    /\ cli[p].alive /\ work[p][w].step = "start"
    /\ \/ ~ Open(p) /\ UNCHANGED faults
       \/ Open(p) /\ Fault
    /\ Fail(p) /\ Thread(p, w, Idle)
    /\ UNCHANGED <<admission, gate, wire, call, owner, tried>>

\* Handle.Wait: the command ended and was joined.
Exit(p, w) ==
    /\ cli[p].alive /\ work[p][w].step = "running"
    /\ Step(p, w, "exited")
    /\ UNCHANGED <<admission, cli, gate, wire, call, owner, tried, faults>>

\* Mutant of Drop: a settled token stays with the client.
DropNot(p, n) == UNCHANGED cli

Drop(p, n) == cli' = [cli EXCEPT ![p].active = {t \in @ : t.ordinal # n}]

\* settle: one exchange under the gate; a failed client drops the token, if the
\* gate was free, or reports the failure and keeps it.
Settle(p, w) ==
    /\ cli[p].alive /\ work[p][w].step = "exited"
    /\ \/ /\ Open(p) /\ gate[p] = "free"
          /\ Send(p, Frame("settle", cli[p].phase, work[p][w].ordinal, FALSE))
          /\ Hold(p, w) /\ Step(p, w, "settle") /\ UNCHANGED cli
       \/ ~ Open(p) /\ gate[p] = "free" /\ Drop(p, work[p][w].ordinal)
          /\ Thread(p, w, Idle) /\ UNCHANGED <<gate, wire>>
       \/ ~ Open(p) /\ Thread(p, w, Idle) /\ UNCHANGED <<cli, gate, wire>>
    /\ UNCHANGED <<admission, call, owner, tried, faults>>

Settled(p, w) ==
    /\ Open(p) /\ gate[p] = w /\ Echoed(p, "settle")
    /\ Drop(p, work[p][w].ordinal) /\ Thread(p, w, Idle)
    /\ Hold(p, "free") /\ Send(p, NoFrame)
    /\ UNCHANGED <<admission, call, owner, tried, faults>>

\* exchange without an echo: the deadline passed, the controller is gone or the
\* client failed meanwhile and closed its socket.  A request already written stays
\* readable, an echo stays unread.
Unanswered(p) == failed \/ ctl[p].hardDeath \/ ~ Open(p)
ExchangeFails(p) ==
    /\ cli[p].alive /\ gate[p] # "free"
    /\ \/ Unanswered(p) /\ UNCHANGED faults
       \/ ~ Unanswered(p) /\ Fault
    /\ Hold(p, "free")
    /\ LET h == gate[p]
           settling == h # "control" /\ wire[p].op = "settle"
       IN  /\ cli' = [cli EXCEPT ![p].err = TRUE,
                                 ![p].active = {t \in @ : ~ (settling /\ t.ordinal = work[p][h].ordinal)}]
           /\ work' = IF h = "control" THEN work ELSE [work EXCEPT ![p][h] = Idle]
           /\ call' = IF h = "control" THEN [call EXCEPT ![p] = "refused"] ELSE call
    /\ UNCHANGED <<admission, wire, owner, tried>>

------------------------------------------------------------------------------
(* Client: the owner's calls, over PhaseControl or in the owner's process *)

Answer(p, a) == call' = [call EXCEPT ![p] = a]

\* Pause: park new callers, then wait for the gate to clear.
Pause(p) ==
    /\ Open(p) /\ call[p] = "pause"
    /\ IF cli[p].paused \/ cli[p].fenced \/ cli[p].checkpoint
       THEN Fail(p) /\ Answer(p, "refused")
       ELSE cli' = [cli EXCEPT ![p].paused = TRUE] /\ Answer(p, "pausing")
    /\ UNCHANGED <<admission, gate, wire, work, owner, tried, faults>>

\* Mutant of PauseDone: the pause is answered at once.
PauseDoneEarly(p) ==
    /\ Open(p) /\ call[p] = "pausing" /\ Answer(p, "done")
    /\ UNCHANGED <<admission, cli, gate, wire, work, owner, tried, faults>>

PauseDone(p) ==
    /\ Open(p) /\ call[p] = "pausing" /\ gate[p] = "free" /\ Answer(p, "done")
    /\ UNCHANGED <<admission, cli, gate, wire, work, owner, tried, faults>>

\* checkpointOrClose: fence the client and wait for its commands,
Fences(p) ==
    /\ Open(p) /\ call[p] \in {"checkpoint", "close"}
    /\ IF call[p] = "checkpoint" /\ cli[p].checkpoint
       THEN cli' = [cli EXCEPT ![p].fenced = TRUE, ![p].err = TRUE] /\ Answer(p, "refused")
       ELSE /\ cli' = [cli EXCEPT ![p].fenced = TRUE]
            /\ Answer(p, IF call[p] = "close" THEN "closing" ELSE "draining")
    /\ UNCHANGED <<admission, gate, wire, work, owner, tried, faults>>

Closing(p) == call[p] \in {"closing", "close-rpc"}

Quiescent(p) ==
    \A t \in cli[p].active : ~ Closing(p) /\ ~ t.pending /\ t.persistent

\* ... take the gate,
Drained(p) ==
    /\ Open(p) /\ call[p] \in {"draining", "closing"} /\ Quiescent(p) /\ gate[p] = "free"
    /\ Hold(p, "control")
    /\ Answer(p, IF Closing(p) THEN "close-rpc" ELSE "checkpoint-rpc")
    /\ UNCHANGED <<admission, cli, wire, work, owner, tried, faults>>

Rpc(p) == Open(p) /\ call[p] \in {"checkpoint-rpc", "close-rpc"} /\ gate[p] = "control"

\* ... carry what is persistent,
Carry(p) ==
    /\ Rpc(p)
    /\ \E t \in cli[p].active :
         \/ /\ ~ t.carried /\ wire[p] = NoFrame
            /\ Send(p, Frame("carry", cli[p].phase, t.ordinal, FALSE)) /\ UNCHANGED cli
         \/ /\ Echoed(p, "carry") /\ t.ordinal = wire[p].ordinal
            /\ cli' = [cli EXCEPT ![p].active = (@ \ {t}) \cup {[t EXCEPT !.carried = TRUE]}]
            /\ Send(p, NoFrame)
    /\ UNCHANGED <<admission, gate, work, call, owner, tried, faults>>

\* ... and record the checkpoint or the close.
Record(p) ==
    /\ Rpc(p) /\ wire[p] = NoFrame /\ \A t \in cli[p].active : t.carried
    /\ Send(p, Frame(IF Closing(p) THEN "close" ELSE "checkpoint", cli[p].phase,
                     cli[p].ordinal, FALSE))
    /\ UNCHANGED <<admission, cli, gate, work, call, owner, tried, faults>>

Recorded(p) ==
    /\ Rpc(p) /\ wire[p].op \in {"checkpoint", "close"} /\ wire[p].echo
    /\ cli' = [cli EXCEPT ![p].checkpoint = TRUE, ![p].closed = Closing(p)]
    /\ Hold(p, "free") /\ Send(p, NoFrame) /\ Answer(p, "done")
    /\ UNCHANGED <<admission, work, owner, tried, faults>>

\* Resume: local only, to the phase the owner names.
Resume(p) ==
    /\ Open(p) /\ call[p] = "resume"
    /\ IF ~ cli[p].checkpoint \/ phase = cli[p].phase
       THEN Fail(p) /\ Answer(p, "refused")
       ELSE /\ cli' = [cli EXCEPT ![p].phase = phase, ![p].paused = FALSE,
                                  ![p].fenced = FALSE, ![p].checkpoint = FALSE]
            /\ Answer(p, "done")
    /\ UNCHANGED <<admission, gate, wire, work, owner, tried, faults>>

\* A call's deadline passed, or its client failed; PhaseControl closes and the
\* receiving side fails its client.
CallFails(p) ==
    /\ cli[p].alive /\ call[p] \notin {"none", "done", "refused"} /\ gate[p] # "control"
    /\ \/ ~ Open(p) /\ UNCHANGED faults
       \/ Open(p) /\ Fault
    /\ Fail(p) /\ Answer(p, "refused")
    /\ UNCHANGED <<admission, gate, wire, work, owner, tried>>

------------------------------------------------------------------------------
(* Controller: Serve and accept *)

\* A carried handle may end between Advance and Resume.
FramePhase(p, f) ==
    f.phase = phase \/ (f.op = "settle" /\ f.phase = ctl[p].checkpoint)

MayAdmit(p, f) ==
    /\ f.ordinal = ctl[p].ordinal + 1 /\ ctl[p].checkpoint # f.phase /\ ~ fenced
    /\ Cardinality(ctl[p].active) < Active /\ counts[phase] < Budget

\* A checkpoint needs the fence and only carried commands, a close no command.
MayRecord(p, f) ==
    /\ f.ordinal = ctl[p].ordinal
    /\ f.op = "checkpoint" => fenced /\ ctl[p].checkpoint # f.phase
    /\ \A t \in ctl[p].active : f.op = "checkpoint" /\ t.persistent /\ t.carried

Acceptable(p, f) ==
    /\ ~ ctl[p].closed /\ FramePhase(p, f)
    /\ f.op = "admit" => MayAdmit(p, f)
    /\ f.op = "settle" => \E t \in ctl[p].active : t.ordinal = f.ordinal
    /\ f.op = "carry" => \E t \in ctl[p].active : t.ordinal = f.ordinal /\ t.persistent /\ ~ t.carried
    /\ f.op \in {"checkpoint", "close"} => MayRecord(p, f)

\* Mutant of RowAfter: a carried token is no longer tracked.
RowAfterCarryDrops(p, f) ==
    LET row == ctl[p] IN
    CASE f.op = "admit" ->
           [row EXCEPT !.ordinal = @ + 1, !.active = @ \cup {Token(f.ordinal, f.persistent)}]
      [] f.op \in {"settle", "carry"} ->
           [row EXCEPT !.active = {t \in @ : t.ordinal # f.ordinal}]
      [] OTHER ->
           [row EXCEPT !.checkpoint = f.phase, !.closed = f.op = "close"]

\* The producer's row once the frame is accepted.
RowAfter(p, f) ==
    LET row == ctl[p] IN
    CASE f.op = "admit" ->
           [row EXCEPT !.ordinal = @ + 1, !.active = @ \cup {Token(f.ordinal, f.persistent)}]
      [] f.op = "settle" ->
           [row EXCEPT !.active = {t \in @ : t.ordinal # f.ordinal}]
      [] f.op = "carry" ->
           [row EXCEPT !.active = {[t EXCEPT !.carried = @ \/ t.ordinal = f.ordinal] : t \in @}]
      [] OTHER ->
           [row EXCEPT !.checkpoint = f.phase, !.closed = f.op = "close"]

\* serveAttached and accept: the frame of a dying producer is dropped, one that
\* is refused or whose sender is gone fails the controller.  The echo of an
\* accepted frame is under way, written or not, until the client has taken it.
Accept(p) ==
    /\ ~ failed /\ wire[p].op # "none" /\ ~ wire[p].echo
    /\ LET f == wire[p]
           accepted == ~ ctl[p].hardDeath /\ Acceptable(p, f)
       IN  /\ ctl' = IF accepted THEN [ctl EXCEPT ![p] = RowAfter(p, f)] ELSE ctl
           /\ counts' = IF accepted /\ f.op = "admit"
                        THEN [counts EXCEPT ![phase] = @ + 1] ELSE counts
           /\ failed' = (~ ctl[p].hardDeath /\ (~ accepted \/ ~ Open(p)))
           /\ Send(p, IF accepted /\ Open(p) THEN [f EXCEPT !.echo = TRUE] ELSE NoFrame)
    /\ UNCHANGED <<phase, fenced, cli, gate, work, call, owner, tried, faults>>

\* The end of a producer's stream: only a closed or a dying one may end.
EndStream(p) ==
    /\ ~ failed /\ ctl[p].attached /\ ~ ctl[p].closed /\ ~ ctl[p].eof
    /\ ~ Open(p) /\ (wire[p] = NoFrame \/ wire[p].echo)
    /\ ctl' = [ctl EXCEPT ![p].eof = TRUE]
    /\ failed' = ~ ctl[p].hardDeath
    /\ Send(p, NoFrame)
    /\ UNCHANGED <<phase, fenced, counts, cli, gate, work, call, owner, tried, faults>>

\* Instead of the end: an echo cannot be written, or was not read by a client that
\* is gone, and the read after it reports that.  Either fails the controller, also
\* for a dying producer.
StreamBreaks(p) ==
    /\ ~ failed /\ ctl[p].attached /\ ~ ctl[p].closed /\ ~ ctl[p].eof
    /\ ~ Open(p) /\ wire[p].echo
    /\ failed' = TRUE
    /\ UNCHANGED <<phase, fenced, counts, ctl, cli, gate, wire, work, call, owner, tried, faults>>

------------------------------------------------------------------------------
(* The owner *)

Live == {p \in Producers : ctl[p].attached /\ ~ ctl[p].closed}
At(step) == ~ failed /\ owner.step = step
Go(step, todo) == owner' = [owner EXCEPT !.step = step, !.todo = todo]

\* The owner moves to the next phase, restarts its child or ends the run; each
\* begins by pausing every producer.
Begin ==
    /\ At("run")
    /\ \E plan \in {"advance", "restart", "end"} :
         /\ plan = "advance" => phase < Phases
         /\ plan = "restart" => Child \in Live /\ ~ ctl[Successor].attached
         /\ owner' = [plan |-> plan, step |-> "pause", todo |-> Live]
    /\ UNCHANGED <<admission, cli, gate, wire, work, call, tried, faults>>

\* The launcher has joined the session of its child: no persistent command is left
\* in its own producer.
Joined == \A t \in cli[Parent].active : ~ t.persistent

\* One synchronous call at a time, the child's first and the parent's last;
\* only a resume begins with the parent.  In a restart the parent is checkpointed
\* once the killed child's session was joined.
Call ==
    /\ ~ failed /\ owner.step \in {"pause", "checkpoint", "resume", "close"}
    /\ \A p \in Producers : call[p] = "none"
    /\ \E p \in owner.todo :
         /\ (p = Parent) = (owner.step = "resume") \/ owner.todo = {p}
         /\ owner.plan = "restart" /\ owner.step = "checkpoint" /\ p = Parent => Joined
         /\ call' = [call EXCEPT ![p] = owner.step]
    /\ UNCHANGED <<admission, cli, gate, wire, work, owner, tried, faults>>

\* A call that failed ends the run: the owner's failure is latched.
Return(p) ==
    /\ call[p] \in {"done", "refused"}
    /\ Answer(p, "none")
    /\ owner' = IF call[p] = "done" THEN [owner EXCEPT !.todo = @ \ {p}]
                                    ELSE [owner EXCEPT !.step = "failed"]
    /\ UNCHANGED <<admission, cli, gate, wire, work, tried, faults>>

Called(step) == At(step) /\ owner.todo = {} /\ \A p \in Producers : call[p] = "none"

\* Controller.Fence, once every client is paused.
Fence ==
    /\ Called("pause")
    /\ fenced' = TRUE
    /\ CASE owner.plan = "advance" -> Go("checkpoint", Live)
         [] owner.plan = "restart" -> Go("checkpoint", {Child})
         [] owner.plan = "end" -> Go("close", Live)
    /\ UNCHANGED <<phase, counts, failed, ctl, cli, gate, wire, work, call, tried, faults>>

\* Controller.Advance; it reports a live producer without a checkpoint as busy.
Advance ==
    /\ Called("checkpoint") /\ owner.plan = "advance"
    /\ fenced /\ phase < Phases
    /\ \A p \in Live : ~ ctl[p].hardDeath /\ ctl[p].checkpoint = phase
    /\ phase' = phase + 1 /\ fenced' = FALSE /\ Go("resume", Live)
    /\ UNCHANGED <<counts, failed, ctl, cli, gate, wire, work, call, tried, faults>>

Resumed ==
    /\ Called("resume") /\ owner' = [plan |-> "none", step |-> "run", todo |-> {}]
    /\ UNCHANGED <<admission, cli, gate, wire, work, call, tried, faults>>

\* ExpectHardDeath of the checkpointed child,
ExpectHardDeath ==
    /\ Called("checkpoint") /\ owner.plan = "restart" /\ ~ ctl[Child].hardDeath
    /\ fenced /\ ctl[Child].attached
    /\ ctl' = [ctl EXCEPT ![Child].hardDeath = TRUE]
    /\ Go("kill", {})
    /\ UNCHANGED <<phase, fenced, counts, failed, cli, gate, wire, work, call, tried, faults>>

\* A process that dies takes its threads and its commands with it, and leaves an
\* echo unread.
Dies(p) ==
    /\ cli' = [cli EXCEPT ![p].alive = FALSE]
    /\ work' = [work EXCEPT ![p] = [w \in Workers[p] |-> [@[w] EXCEPT !.step = "dead"]]]
    /\ gate' = [gate EXCEPT ![p] = "free"]

\* ... the kill of its session; a child that is found dead already is a failure,
Kill ==
    /\ At("kill")
    /\ \/ cli[Child].alive /\ Dies(Child) /\ Go("wait", {})
       \/ /\ ~ cli[Child].alive /\ \E step \in {"wait", "failed"} : Go(step, {})
          /\ UNCHANGED <<cli, work, gate>>
    /\ UNCHANGED <<admission, wire, call, tried, faults>>

\* ... CloseHardDeath on the end of the stream and the native wait,
CloseHardDeath ==
    /\ At("wait") /\ fenced /\ ctl[Child].hardDeath /\ ctl[Child].eof /\ ~ cli[Child].alive
    /\ ctl' = [ctl EXCEPT ![Child].active = {}, ![Child].closed = TRUE]
    /\ Go("checkpoint", {Parent})
    /\ UNCHANGED <<phase, fenced, counts, failed, cli, gate, wire, work, call, tried, faults>>

\* ... ReopenAfterHardDeath of the parent's producer in the same phase,
Reopen ==
    /\ Called("checkpoint") /\ owner.plan = "restart" /\ ctl[Child].closed
    /\ gate[Parent] = "free" /\ Open(Parent)
    /\ IF /\ fenced /\ cli[Parent].paused /\ cli[Parent].fenced /\ cli[Parent].checkpoint
          /\ cli[Parent].phase = phase /\ cli[Parent].active = {}
          /\ Parent \in Live /\ ctl[Parent].checkpoint = phase
          /\ ctl[Child].hardDeath /\ ctl[Child].checkpoint = phase
          /\ ctl[Successor] = Unattached
          /\ Live = {Parent} /\ \A p \in Producers : ctl[p].active = {}
       THEN /\ ctl' = [ctl EXCEPT ![Parent].checkpoint = 0]
            /\ fenced' = FALSE
            /\ cli' = [cli EXCEPT ![Parent].paused = FALSE, ![Parent].fenced = FALSE,
                                  ![Parent].checkpoint = FALSE]
            /\ Go("launch", {}) /\ UNCHANGED failed
       ELSE Fail(Parent) /\ failed' = TRUE /\ Go("failed", {}) /\ UNCHANGED <<ctl, fenced>>
    /\ UNCHANGED <<phase, counts, gate, wire, work, call, tried, faults>>

\* ... and the successor, launched and attached in the reopened phase.
Launch ==
    /\ At("launch") /\ ~ fenced /\ ctl[Successor] = Unattached
    /\ ctl' = [ctl EXCEPT ![Successor].attached = TRUE]
    /\ cli' = [cli EXCEPT ![Successor] = NewClient(phase)]
    /\ owner' = [plan |-> "none", step |-> "run", todo |-> {}]
    /\ UNCHANGED <<phase, fenced, counts, failed, gate, wire, work, call, tried, faults>>

\* CancelUnused of a producer that was never launched ends the run.
CancelUnused ==
    /\ Called("close") /\ fenced
    /\ ctl' = [ctl EXCEPT ![Successor].closed = TRUE]
    /\ Go("done", {})
    /\ UNCHANGED <<phase, fenced, counts, failed, cli, gate, wire, work, call, tried, faults>>

\* A child process dies unexpectedly.
Crash(p) ==
    /\ p # Parent /\ cli[p].alive /\ Fault /\ Dies(p)
    /\ call' = [call EXCEPT ![p] = IF @ = "none" THEN @ ELSE "refused"]
    /\ UNCHANGED <<admission, wire, owner, tried>>

------------------------------------------------------------------------------
Worker(p, w) ==
    \/ Unpark(p, w) \/ Admit(p, w) \/ Admitted(p, w)
    \/ Start(p, w) \/ Settle(p, w) \/ Settled(p, w)

Control(p) ==
    \/ Pause(p) \/ PauseDone(p) \/ Fences(p) \/ Drained(p)
    \/ Carry(p) \/ Record(p) \/ Recorded(p) \/ Resume(p)

Owner ==
    \/ Call \/ Fence \/ Advance \/ Resumed \/ ExpectHardDeath \/ Kill
    \/ CloseHardDeath \/ Reopen \/ Launch \/ CancelUnused
    \/ \E p \in Producers : Return(p)

Next ==
    \/ \E p \in Producers : \E w \in Workers[p] :
         \/ Enter(p, w) \/ CancelParked(p, w) \/ StartCanceled(p, w) \/ Exit(p, w)
         \/ Worker(p, w)
    \/ \E p \in Producers :
         \/ ExchangeFails(p) \/ CallFails(p) \/ Crash(p)
         \/ Control(p) \/ Accept(p) \/ EndStream(p) \/ StreamBreaks(p)
    \/ Begin \/ Owner

Spec == Init /\ [][Next]_vars

\* A thread of p goes on.  One-shot commands end; persistent ones are stopped
\* before their producer closes, and the parent's, its child's session, with the
\* child.
Works(p, w) ==
    \/ Worker(p, w)
    \/ ~ Open(p) /\ StartCanceled(p, w)
    \/ /\ \/ ~ work[p][w].persistent \/ Closing(p)
          \/ p = Parent /\ owner.plan = "restart" /\ ~ cli[Child].alive
       /\ Exit(p, w)

\* The owner's call in p returns, and an exchange whose echo cannot come fails.
Answers(p) == Control(p) \/ (~ Open(p) /\ CallFails(p))
Receives(p) == Accept(p) \/ EndStream(p) \/ StreamBreaks(p) \/ (Unanswered(p) /\ ExchangeFails(p))

\* Every thread, the controller's receivers and the owner keep going.  Waiters of
\* the gate, a Go channel, are served in turn; MaxAttempts ends the contention for
\* it, so WF is enough.
FairSpec ==
    /\ Spec /\ WF_vars(Owner)
    /\ \A p \in Producers :
         /\ WF_vars(Receives(p)) /\ WF_vars(Answers(p))
         /\ \A w \in Workers[p] : WF_vars(Works(p, w))

------------------------------------------------------------------------------
(* Properties *)

\* The type invariant.
TypeOK ==
    /\ phase \in 1 .. Phases /\ {fenced, failed} \subseteq BOOLEAN
    /\ counts \in [1 .. Phases -> 0 .. Budget] /\ tried \in [1 .. Phases -> 0 .. MaxAttempts]
    /\ \A p \in Producers :
         /\ ctl[p].checkpoint \in 0 .. Phases /\ cli[p].phase \in 1 .. Phases
         /\ gate[p] \in Workers[p] \cup {"free", "control"}
    /\ faults \in 0 .. MaxFaults

\* A one-shot command that may start or runs was admitted in the controller's
\* current phase: no command outlives the phase it was counted in, whatever
\* happens between its echo and its start.
PhaseIsolation ==
    \A p \in Producers : \A w \in Workers[p] :
        LET c == work[p][w]
        IN  c.step \in {"start", "running"} /\ ~ c.persistent => c.phase = phase

\* A command that may start, runs or was not yet settled holds a token at the
\* controller, across checkpoints and after any failure.
RunningIsCounted ==
    \A p \in Producers : \A w \in Workers[p] :
        work[p][w].step \in {"start", "running", "exited"} =>
            \E t \in ctl[p].active : t.ordinal = work[p][w].ordinal

\* Snapshot.Complete
Complete == fenced /\ ~ failed /\ \A p \in Producers : ctl[p].closed

\* A complete snapshot counts, per phase, exactly the commands whose start was
\* attempted in it, and no command runs any more.
CompleteIsExact ==
    Complete =>
        /\ counts = tried
        /\ \A p \in Producers : \A w \in Workers[p] :
             work[p][w].step \notin {"start", "running", "exited"}

\* The controller failed over the stream of the child it expected to die: the
\* child was gone with the echo of its last request, the settlement of a carried
\* command, not read or not written.
CutOff ==
    failed /\ ctl[Child].hardDeath /\ ~ ctl[Child].eof /\ ~ Open(Child) /\ wire[Child].echo

\* Without a fault nobody is refused: no interleaving of the threads with the
\* owner's calls makes the controller or a client report a protocol, fence, busy
\* or limit error, unless the phase's budget is spent or the kill of a child cuts
\* off an echo.  A deadline that passes is a fault, also the one of a checkpoint
\* whose commands wait for a dispatch that the pause has parked.  A client whose
\* process is about to be killed is not answered, and one already closed refuses
\* late callers.
NoFalseRefusal ==
    faults = 0 /\ counts[phase] < Budget =>
        \/ CutOff
        \/ /\ ~ failed /\ owner.step # "failed"
           /\ \A p \in Producers : cli[p].err => ctl[p].hardDeath \/ cli[p].closed

\* A plan the owner began ends, or the run has failed.
PlanEnds ==
    owner.step = "pause" ~> owner.step \in {"run", "done", "failed"} \/ failed

==============================================================================
