----------------------- MODULE SearchPublicationProofs -----------------------
(***************************************************************************)
(* Proofs about SearchPublication, for every number of revisions,          *)
(* generations, faults, crashes and pushes.                                *)
(*                                                                         *)
(* Nothing is assumed of the directories: the sweep may take any of them   *)
(* at any time, and an installation that misses its directory fails.       *)
(***************************************************************************)
EXTENDS SearchPublication, WellFoundedInduction, TLAPS

(* The inductive invariant *)

\* The steps of an installation, of the removal of all files, and of an agent that
\* holds the work lock for a repair.
Moves == {"install", "link", "root"}
Wipes == {"wipe", "wipe flat", "wipe root", "wipe mark", "wipe rest"}
Locked == {"repair", "enqueue", "enqueue force", "unlock"}
\* All steps of an agent, and what it is installing or removing for.
Steps == {"idle", "recover", "resolve", "build", "prepare", "start", "commit", "reread",
          "rollback", "clear", "unmark", "unpublish", "done", "failed", "reclaim", "committed",
          "inspect", "end", "adopt"} \cup Moves \cup Wipes \cup Locked
Goals == {"none", "publish", "reactivate", "rollback", "recover", "commit", "reread", "finish"}

\* What an agent is doing.
Acts == [pc: Steps, gen: Gens \cup {None}, root: Roots, goal: Goals]

\* The parts of the state the proofs depend on have their types.
Types ==
    /\ head \in Revs /\ row \in Revs \cup {None} /\ seen \in Revs \cup {None}
    /\ revOf \in [Gens -> Revs \cup {None}]
    /\ flat \in Gens \cup {None, Partial}
    /\ root \in Roots
    /\ mark \in [cand: Gens \cup {None}, prev: Roots]
    /\ pub \in {"none", "mine", "other"}
    /\ at \in [Agents -> Acts]
    /\ lock \in Agents \cup {"none"}
    /\ auditErr \in BOOLEAN /\ up \in BOOLEAN

\* A generation that was built, and a root that names only such generations.
Built(g) == g \in Gens => revOf[g] # None
WholeRoot(r) == r = NoRoot \/ (r.cur \in Gens /\ Built(r.cur) /\ Built(r.prior))

\* A root or a marker that exists names generations that were built.
ControlsBuilt ==
    /\ WholeRoot(root)
    /\ mark = NoMark \/ (mark.cand \in Gens /\ Built(mark.cand) /\ WholeRoot(mark.prev))
    /\ Built(flat)

\* The row's revision can be selected, by the control that decides.
Selectable ==
    row # None =>
        IF mark # NoMark
        THEN revOf[mark.cand] = row \/ (mark.prev # NoRoot /\ revOf[mark.prev.cur] = row)
        ELSE IF root # NoRoot THEN revOf[root.cur] = row
        ELSE flat \in Gens /\ revOf[flat] = row

\* The flat files are those of a generation the controls name.
FlatFollows ==
    flat \in Gens =>
        IF mark # NoMark THEN flat \in {mark.cand, mark.prev.cur}
        ELSE root # NoRoot => flat = root.cur

\* Files stay hidden without a transition marker only when a root selects them,
\* and in the process that hid them only just before they are shown.
HiddenIsRooted ==
    /\ pub # "none" /\ mark = NoMark => root # NoRoot
    /\ pub = "mine" /\ mark = NoMark => at["index"].pc = "unpublish"
    /\ pub = "mine" => up

\* The marker's previous root, or the root itself, selects the row's revision.
Fallback == row # None => mark.prev # NoRoot /\ revOf[mark.prev.cur] = row
RootCarriesRow == row # None => root # NoRoot /\ revOf[root.cur] = row

\* What an agent names was built, and what its installation relies on.
Installing(a) ==
    /\ Built(at[a].gen) /\ Built(at[a].root.prior)
    /\ at[a].pc \in Moves =>
        /\ mark # NoMark /\ at[a].gen \in Gens
        /\ at[a].gen \in {mark.cand, mark.prev.cur} /\ at[a].root.cur = at[a].gen
        /\ \/ a = "index" /\ at[a].goal \in {"publish", "reactivate"}
           \/ at[a].goal = "recover" /\ (row # None => revOf[at[a].gen] = row)
           \/ a = "index" /\ at[a].goal = "rollback" /\ (row # None => revOf[at[a].gen] = row)
        /\ at[a].pc = "root" => flat = at[a].gen

\* ... the removal of the markers,
Finishing(a) ==
    /\ at[a].pc = "unmark" =>
         /\ RootCarriesRow /\ (pub # "none" => root # NoRoot)
         /\ flat \in Gens /\ root # NoRoot => flat = root.cur
    /\ at[a].pc = "unpublish" => mark = NoMark /\ RootCarriesRow
    /\ at[a].pc \in {"unmark", "unpublish"} =>
         at[a].goal \in (IF a = "index" THEN {"commit", "reread", "recover", "rollback"}
                                        ELSE {"recover", "finish"})

\* ... and the removal of all files, which only a row without a revision meets.
Wiping(a) ==
    at[a].pc \in Wipes =>
        /\ row = None
        /\ at[a].goal = "recover" \/ (a = "index" /\ at[a].goal = "rollback")
        /\ at[a].pc # "wipe" => pub = "none"
        /\ at[a].pc \in {"wipe root", "wipe mark", "wipe rest"} => flat \notin Gens
        /\ at[a].pc \in {"wipe mark", "wipe rest"} => root = NoRoot
        /\ at[a].pc = "wipe rest" => mark = NoMark

\* Index between its first read and its last write.
Publishing ==
    LET x == at["index"] IN
    /\ x.pc \notin {"reclaim", "committed", "inspect", "end"} \cup Locked
    /\ x.pc \in {"resolve", "build", "prepare"} =>
         pub = "none" /\ (row # None => mark = NoMark /\ root # NoRoot)
    /\ x.pc = "adopt" => /\ mark = NoMark /\ root = NoRoot /\ pub = "none"
                         /\ flat \in Gens /\ x.root = [cur |-> flat, prior |-> None]
    /\ x.pc = "prepare" => x.gen \in Gens /\ revOf[x.gen] = head
    /\ x.pc = "start" \/ (x.pc \in Moves /\ x.goal \in {"publish", "reactivate"})
         \/ x.pc \in {"commit", "reread"} =>
         /\ mark # NoMark /\ x.gen = mark.cand /\ x.root.cur = x.gen /\ revOf[x.gen] = head
         /\ x.goal \in {"publish", "reactivate"}
         /\ Fallback \/ (x.pc = "reread" /\ row = head)
         /\ pub = IF x.pc = "start" THEN "none" ELSE "mine"
         /\ x.pc \in {"commit", "reread"} => root.cur = x.gen /\ flat = x.gen
    /\ x.pc = "rollback" => mark # NoMark /\ Fallback /\ pub = "mine"

\* There is no first publication to undo.
NotWipeable == mark = NoMark \/ mark.prev # NoRoot

\* The startup audit is alone.
Startup ==
    LET x == at["audit"] IN
    ~up =>
        /\ at["index"].pc = "idle"
        /\ x.pc \in {"reclaim", "recover", "committed"} => seen = row
        /\ x.pc \in {"recover", "committed"} => pub = "other"
        /\ x.pc = "committed" => NotWipeable /\ (row # None => mark = NoMark)
        /\ x.pc \in {"inspect", "end"} \cup Locked => (pub = "other" /\ ~auditErr => NotWipeable)
        /\ x.pc \in {"enqueue", "enqueue force", "unlock", "end"} => (pub = "other" => row = None)

\* Later audits never touch the files: a marker of another process that is still
\* there can be resolved by nobody, and there is no row.
Runtime ==
    LET x == at["audit"] IN
    up =>
        /\ x.pc \in {"idle", "reclaim", "recover", "committed", "inspect", "end"} \cup Locked
        /\ x.pc \in {"recover", "committed"} => pub = "other"
        /\ pub = "other" =>
             /\ row = None /\ NotWipeable /\ (x.pc # "idle" => seen = None)
             /\ at["index"].pc \in {"idle", "recover", "failed"}

\* The work lock.
LockHeld ==
    /\ lock = "index" <=> at["index"].pc # "idle"
    /\ lock = "audit" <=> at["audit"].pc \in Locked
    /\ at["audit"].pc \in {"idle", "reclaim", "recover", "committed", "inspect", "end", "unmark",
                        "unpublish"} \cup Moves \cup Wipes \cup Locked

\* What holds of the files and the row, and of each agent.
Disk == ControlsBuilt /\ Selectable /\ FlatFollows /\ HiddenIsRooted /\ VisibleMatchesRow
Doing(a) == Installing(a) /\ Finishing(a) /\ Wiping(a)

\* The inductive invariant.
IInv ==
    /\ Types /\ Disk /\ Doing("index") /\ Doing("audit")
    /\ Publishing /\ Startup /\ Runtime /\ LockHeld

------------------------------------------------------------------------------
(* Facts the proofs keep needing *)

\* The absent values are no generations and no revisions.
LEMMA Absent == None \notin Gens /\ Partial \notin Gens /\ None \notin Revs /\ None # Partial
  BY RevsAssumption, BoundsAssumption DEF Gens

\* The absent controls have their types.
LEMMA NoneTyped == NoRoot \in Roots /\ NoMark \in [cand: Gens \cup {None}, prev: Roots]
  BY DEF NoRoot, NoMark, Roots

\* What writing one agent's record does: the other agent's is left alone.
LEMMA ActFacts ==
    ASSUME at \in [Agents -> Acts], NEW a \in Agents, NEW r \in Acts, at' = [at EXCEPT ![a] = r]
    PROVE  at' \in [Agents -> Acts] /\ at'[a] = r /\ \A b \in Agents \ {a} : at'[b] = at[b]
  OBVIOUS

\* An agent that goes to another step changes its step only (Goto),
LEMMA GotoFacts ==
    ASSUME at \in [Agents -> Acts], NEW a \in Agents, NEW p \in Steps, Goto(a, p)
    PROVE  /\ at' \in [Agents -> Acts] /\ at'[a].pc = p /\ at'[a].gen = at[a].gen
           /\ at'[a].root = at[a].root /\ at'[a].goal = at[a].goal
           /\ \A b \in Agents \ {a} : at'[b] = at[b]
  <1>1. [at[a] EXCEPT !.pc = p] \in Acts
    BY DEF Acts
  <1>2. at' = [at EXCEPT ![a] = [at[a] EXCEPT !.pc = p]]
    BY DEF Goto
  <1> QED
    BY <1>2 DEF Acts

\* ... or its step and its goal,
LEMMA GoalFacts ==
    ASSUME at \in [Agents -> Acts], NEW a \in Agents, NEW p \in Steps, NEW g \in Goals,
           at' = [at EXCEPT ![a].pc = p, ![a].goal = g]
    PROVE  /\ at' \in [Agents -> Acts] /\ at'[a].pc = p /\ at'[a].gen = at[a].gen
           /\ at'[a].root = at[a].root /\ at'[a].goal = g
           /\ \A b \in Agents \ {a} : at'[b] = at[b]
  <1>1. [at[a] EXCEPT !.pc = p, !.goal = g] \in Acts
    BY DEF Acts
  <1>2. at' = [at EXCEPT ![a] = [at[a] EXCEPT !.pc = p, !.goal = g]]
    OBVIOUS
  <1> QED
    BY <1>2 DEF Acts

\* ... all of it, when an installation starts (StartInstall),
LEMMA InstallFacts ==
    ASSUME at \in [Agents -> Acts], NEW a \in Agents, NEW g \in Gens, NEW r \in Roots, NEW goal \in Goals,
           StartInstall(a, g, r, goal)
    PROVE  /\ at' \in [Agents -> Acts] /\ at'[a].pc = "install" /\ at'[a].gen = g
           /\ at'[a].root = r /\ at'[a].goal = goal
           /\ \A b \in Agents \ {a} : at'[b] = at[b]
  <1>1. [pc |-> "install", gen |-> g, root |-> r, goal |-> goal] \in Acts
    BY DEF Acts, Steps, Moves
  <1> QED
    BY <1>1 DEF StartInstall

\* ... or its step and its generation.
LEMMA BuildFacts ==
    ASSUME at \in [Agents -> Acts], NEW a \in Agents, NEW p \in Steps, NEW g \in Gens,
           at' = [at EXCEPT ![a].pc = p, ![a].gen = g]
    PROVE  /\ at' \in [Agents -> Acts] /\ at'[a].pc = p /\ at'[a].gen = g
           /\ at'[a].root = at[a].root /\ at'[a].goal = at[a].goal
           /\ \A b \in Agents \ {a} : at'[b] = at[b]
  <1>1. [at[a] EXCEPT !.pc = p, !.gen = g] \in Acts
    BY DEF Acts
  <1>2. at' = [at EXCEPT ![a] = [at[a] EXCEPT !.pc = p, !.gen = g]]
    OBVIOUS
  <1> QED
    BY <1>2 DEF Acts

\* A step that leaves an agent and the files it relies on alone keeps what is
\* known of it,
LEMMA SameAgent ==
    ASSUME NEW a \in Agents, Doing(a), at'[a] = at[a],
           UNCHANGED <<row, revOf, flat, root, mark, pub>>
    PROVE  Doing(a)'
  BY DEF Doing, Installing, Finishing, Wiping, Built, RootCarriesRow

\* ... what is known of Index between its first read and its last write,
LEMMA SameIndex ==
    ASSUME Publishing, at'["index"] = at["index"],
           UNCHANGED <<head, row, revOf, flat, root, mark, pub>>
    PROVE  Publishing'
  BY DEF Publishing, Fallback

\* ... and what is known of the files and the row.
LEMMA SameDisk ==
    ASSUME Disk, HiddenIsRooted', UNCHANGED <<row, revOf, flat, root, mark, pub>>
    PROVE  Disk'
  BY DEF Disk, ControlsBuilt, WholeRoot, Built, Selectable, FlatFollows, VisibleMatchesRow

------------------------------------------------------------------------------
(* The initial states, the sweep, pushes and crashes *)

\* A first index and a restored archive satisfy the invariant.
LEMMA InitKeeps == Init => IInv
  <1> USE DEF Agents, Moves, Wipes, Locked
  <1> SUFFICES ASSUME Init PROVE IInv
    OBVIOUS
  <1>1. /\ at \in [Agents -> Acts] /\ at["index"] = Idle /\ at["audit"] = Idle
    BY DEF Init, Idle, Acts, Steps, Goals, Roots, NoRoot
  <1>2. Idle.pc = "idle" /\ Idle.gen = None /\ Idle.root.prior = None
    BY DEF Idle, NoRoot
  <1>3. Types
    <2>1. 1 \in Gens
      BY BoundsAssumption DEF Gens
    <2>2. row \in Revs \cup {None} /\ flat \in Gens \cup {None, Partial} /\ revOf \in [Gens -> Revs \cup {None}]
      BY <2>1 DEF Init
    <2> QED
      BY <1>1, <2>2, NoneTyped DEF Init, Types, Agents
  <1>4. Disk
    <2>1. root = NoRoot /\ mark = NoMark /\ pub = "none"
      BY DEF Init
    <2>2. \/ row = None /\ flat = None
          \/ row \in Revs /\ flat = 1 /\ 1 \in Gens /\ revOf[1] = row
      BY BoundsAssumption DEF Init, Gens
    <2> QED
      BY <2>1, <2>2, Absent DEF Disk, ControlsBuilt, WholeRoot, Built, Selectable, FlatFollows,
         HiddenIsRooted, VisibleMatchesRow
  <1>5. Doing("index") /\ Doing("audit")
    BY <1>1, <1>2, Absent DEF Doing, Installing, Finishing, Wiping, Built
  <1> QED
    BY <1>2, <1>3, <1>4, <1>5 DEF IInv, Init, Publishing, Startup, Runtime, LockHeld

\* The sweep (Fence, Retire, Delete) changes directories only.
LEMMA SweepKeeps ==
    ASSUME IInv, Fence \/ Retire \/ Delete \/ UNCHANGED vars
    PROVE  IInv'
  <1>1. UNCHANGED <<head, row, revOf, flat, root, mark, pub, at, lock, seen, auditErr, up>>
    BY DEF Fence, Retire, Delete, vars, disk, audit
  <1>2. Types'
    BY <1>1 DEF IInv, Types
  <1>3. Disk'
    BY <1>1 DEF IInv, Disk, ControlsBuilt, WholeRoot, Built, Selectable, FlatFollows,
       HiddenIsRooted, VisibleMatchesRow
  <1>4. Doing("index")' /\ Doing("audit")' /\ Publishing'
    BY <1>1, SameAgent, SameIndex DEF IInv, Agents
  <1> QED
    BY <1>1, <1>2, <1>3, <1>4 DEF IInv, Startup, Runtime, LockHeld, NotWipeable

\* HEAD moves only while nobody holds the work lock, and nobody else knows HEAD.
LEMMA PushKeeps ==
    ASSUME IInv, Push
    PROVE  IInv'
  <1>1. /\ head' \in Revs /\ at["index"].pc = "idle"
        /\ UNCHANGED <<row, revOf, flat, root, mark, pub, at, lock, seen, auditErr, up>>
    BY DEF Push, disk, audit, IInv, LockHeld
  <1>2. Types'
    BY <1>1 DEF IInv, Types
  <1>3. Disk'
    BY <1>1 DEF IInv, Disk, ControlsBuilt, WholeRoot, Built, Selectable, FlatFollows,
       HiddenIsRooted, VisibleMatchesRow
  <1>4. Doing("index")' /\ Doing("audit")'
    BY <1>1, SameAgent DEF IInv, Agents
  <1>5. Publishing'
    BY <1>1 DEF Publishing, Moves, Locked
  <1> QED
    BY <1>1, <1>2, <1>3, <1>4, <1>5 DEF IInv, Startup, Runtime, LockHeld, NotWipeable

\* A crash leaves the files and the row, and nobody at work: the markers become
\* another process's.
LEMMA CrashKeeps ==
    ASSUME IInv, Crash
    PROVE  IInv'
  <1> USE DEF Agents, Moves, Wipes, Locked
  <1>1. /\ at' \in [Agents -> Acts] /\ at'["index"] = Idle /\ at'["audit"] = Idle
    BY DEF Crash, Idle, Acts, Steps, Goals, Roots, NoRoot
  <1>2. Idle.pc = "idle" /\ Idle.gen = None /\ Idle.root.prior = None
    BY DEF Idle, NoRoot
  <1>3. /\ lock' = "none" /\ up' = FALSE /\ seen' = None /\ auditErr' = FALSE
        /\ pub' = (IF pub = "none" THEN "none" ELSE "other")
        /\ UNCHANGED <<head, row, revOf, flat, root, mark>>
    BY DEF Crash
  <1>4. Types'
    BY <1>1, <1>3 DEF IInv, Types
  <1>5. Disk'
    BY <1>2, <1>3 DEF IInv, Disk, ControlsBuilt, WholeRoot, Built, Selectable, FlatFollows,
       HiddenIsRooted, VisibleMatchesRow
  <1>6. Doing("index")' /\ Doing("audit")'
    BY <1>1, <1>2, Absent DEF Doing, Installing, Finishing, Wiping, Built
  <1> QED
    BY <1>1, <1>2, <1>3, <1>4, <1>5, <1>6 DEF IInv, Publishing, Startup, Runtime, LockHeld

\* A set of generations that is not empty has a least one, so Build has its pick.
LEMMA BuildPick ==
    ASSUME Free # {}
    PROVE  (CHOOSE g \in Free : \A h \in Free : g <= h) \in Free
  <1>1. Free \subseteq Nat
    BY BoundsAssumption DEF Free, Gens
  <1>2. \E x \in Free : \A y \in Free : ~ (<<y, x>> \in OpToRel(<, Nat))
    BY <1>1, NatLessThanWellFounded, WFMin
  <1>3. \E x \in Free : \A y \in Free : x <= y
    <2>1. PICK x \in Free : \A y \in Free : ~ (<<y, x>> \in OpToRel(<, Nat))
      BY <1>2
    <2>2. \A y \in Free : ~ (y < x)
      BY <1>1, <2>1 DEF OpToRel
    <2> QED
      BY <1>1, <2>2
  <1> QED
    BY <1>3

------------------------------------------------------------------------------
(* Index and the markers *)

\* Begin: Index takes the lock and has recorded nothing yet.
LEMMA BeginKeeps ==
    ASSUME IInv, Begin
    PROVE  IInv'
  <1> USE DEF Agents, Moves, Wipes, Locked
  <1>1. up /\ at["index"].pc = "idle" /\ lock = "none" /\ at["audit"].pc \notin Locked
    BY DEF IInv, LockHeld, Begin
  <1>2. lock' = "index" /\ UNCHANGED <<head, row, revOf, flat, root, mark, pub, seen, auditErr, up>>
    BY DEF Begin, disk, audit
  <1>3. /\ at' \in [Agents -> Acts] /\ at'["audit"] = at["audit"]
        /\ at'["index"].pc = IF row # None \/ pub # "none" THEN "recover" ELSE "resolve"
        /\ at'["index"].gen = None /\ at'["index"].root = NoRoot /\ at'["index"].goal = "none"
        /\ at'["index"].root.prior = None
    BY ActFacts DEF IInv, Types, Steps, Goals, Begin, Idle, Acts, Roots, NoRoot
  <1>4. Types'
    BY <1>2, <1>3 DEF IInv, Types
  <1>5. HiddenIsRooted'
    BY <1>1, <1>2, <1>3 DEF IInv, Disk, HiddenIsRooted
  <1>6. Disk'
    BY <1>2, <1>5, SameDisk DEF IInv
  <1>7. Installing("index")'
    BY <1>2, <1>3, Absent DEF IInv, Doing, Installing, Built
  <1>8. Finishing("index")'
    BY <1>2, <1>3 DEF IInv, Doing, Finishing
  <1>9. Wiping("index")'
    BY <1>2, <1>3 DEF IInv, Doing, Wiping
  <1>10. Doing("audit")'
    BY <1>2, <1>3, SameAgent DEF IInv
  <1>11. Publishing'
    BY <1>2, <1>3 DEF IInv, Publishing
  <1>12. Startup'
    BY <1>1, <1>2, <1>3 DEF IInv, Startup
  <1>13. Runtime'
    BY <1>2, <1>3 DEF IInv, Runtime, NotWipeable
  <1>14. LockHeld'
    BY <1>1, <1>2, <1>3 DEF IInv, LockHeld
  <1> QED
    BY <1>4, <1>6, <1>7, <1>8, <1>9, <1>10, <1>11, <1>12, <1>13, <1>14 DEF IInv, Doing

\* StartPublication: the visible files are hidden before the first is replaced.
LEMMA StartKeeps ==
    ASSUME IInv, StartPublication
    PROVE  IInv'
  <1> USE DEF Agents, Moves, Wipes, Locked
  <1>1. up /\ at["index"].pc = "start" /\ lock = "index" /\ mark # NoMark /\ at["index"].gen \in Gens
    BY DEF IInv, Disk, ControlsBuilt, LockHeld, Publishing, Startup, StartPublication
  <1>2. pub' = "mine" /\ UNCHANGED <<head, row, revOf, flat, root, mark, lock, seen, auditErr, up>>
    BY DEF StartPublication, disk, audit, bounds
  <1>3. /\ at' \in [Agents -> Acts] /\ at'["audit"] = at["audit"]
        /\ at'["index"].pc = "install"
        /\ at'["index"].gen = at["index"].gen
        /\ at'["index"].root = at["index"].root
        /\ at'["index"].goal = at["index"].goal
    BY GotoFacts DEF IInv, Types, Steps, StartPublication
  <1>4. Types'
    BY <1>2, <1>3 DEF IInv, Types
  <1>5. ControlsBuilt'
    BY <1>2, <1>3 DEF IInv, Disk, ControlsBuilt, WholeRoot, Built
  <1>6. Selectable'
    BY <1>2, <1>3 DEF IInv, Disk, Selectable
  <1>7. FlatFollows'
    BY <1>2, <1>3 DEF IInv, Disk, FlatFollows
  <1>8. HiddenIsRooted'
    BY <1>1, <1>2, <1>3 DEF IInv, Disk, HiddenIsRooted
  <1>9. VisibleMatchesRow'
    BY <1>2, <1>3 DEF IInv, Disk, VisibleMatchesRow
  <1>10. Installing("index")'
    BY <1>1, <1>2, <1>3 DEF IInv, Doing, Installing, Built, Publishing
  <1>11. Finishing("index")'
    BY <1>2, <1>3 DEF IInv, Doing, Finishing
  <1>12. Wiping("index")'
    BY <1>2, <1>3 DEF IInv, Doing, Wiping
  <1>13. Doing("audit")'
    BY <1>1, <1>2, <1>3 DEF IInv, Doing, Installing, Finishing, Wiping, Built, Runtime
  <1>14. Publishing'
    BY <1>1, <1>2, <1>3 DEF IInv, Publishing, Fallback
  <1>15. Startup'
    BY <1>1, <1>2, <1>3 DEF IInv, Startup
  <1>16. Runtime'
    BY <1>1, <1>2, <1>3 DEF IInv, Runtime
  <1>17. LockHeld'
    BY <1>1, <1>2, <1>3 DEF IInv, LockHeld
  <1> QED
    BY <1>4, <1>5, <1>6, <1>7, <1>8, <1>9, <1>10, <1>11, <1>12, <1>13, <1>14, <1>15, <1>16,
       <1>17 DEF IInv, Disk, Doing

\* Commit: the row may change, or its answer be lost, while the files are hidden and
\* the transition marker names both generations.
LEMMA CommitKeeps ==
    ASSUME IInv, Commit
    PROVE  IInv'
  <1> USE DEF Agents, Moves, Wipes, Locked
  <1>1. /\ up /\ at["index"].pc = "commit" /\ lock = "index" /\ mark # NoMark /\ pub = "mine"
        /\ root.cur = mark.cand /\ mark.cand \in Gens /\ flat = mark.cand /\ revOf[mark.cand] = head
    BY DEF IInv, Disk, ControlsBuilt, HiddenIsRooted, LockHeld, Publishing, Commit
  <1>2. root # NoRoot /\ flat = root.cur /\ revOf[root.cur] = head
    BY <1>1, Absent DEF NoRoot
  <1>3. row' \in {row, head} /\ UNCHANGED <<head, revOf, flat, root, mark, pub, lock, seen, auditErr, up>>
    BY <1>2 DEF Commit, disk, audit, bounds
  <1>4. /\ at' \in [Agents -> Acts] /\ at'["audit"] = at["audit"]
        /\ at'["index"].gen = at["index"].gen
        /\ at'["index"].root = at["index"].root
        /\ \/ row' = head /\ at'["index"].pc = "unmark" /\ at'["index"].goal = "commit"
           \/ at'["index"].pc = "reread" /\ at'["index"].goal = at["index"].goal
    BY <1>2, GotoFacts, GoalFacts DEF IInv, Types, Steps, Goals, Commit
  <1>5. Types'
    BY <1>2, <1>3, <1>4 DEF IInv, Types
  <1>6. ControlsBuilt'
    BY <1>2, <1>3, <1>4 DEF IInv, Disk, ControlsBuilt, WholeRoot, Built
  <1>7. Selectable'
    BY <1>1, <1>2, <1>3, <1>4 DEF IInv, Disk, Selectable
  <1>8. FlatFollows'
    BY <1>2, <1>3, <1>4 DEF IInv, Disk, FlatFollows
  <1>9. HiddenIsRooted'
    BY <1>1, <1>2, <1>3, <1>4 DEF IInv, Disk, HiddenIsRooted
  <1>10. VisibleMatchesRow'
    BY <1>2, <1>3, <1>4 DEF IInv, Disk, VisibleMatchesRow
  <1>11. Installing("index")'
    BY <1>2, <1>3, <1>4 DEF IInv, Doing, Installing, Built
  <1>12. Finishing("index")'
    BY <1>2, <1>3, <1>4 DEF IInv, Doing, Finishing, RootCarriesRow
  <1>13. Wiping("index")'
    BY <1>2, <1>3, <1>4 DEF IInv, Doing, Wiping
  <1>14. Doing("audit")'
    BY <1>1, <1>2, <1>3, <1>4 DEF IInv, Doing, Installing, Finishing, Wiping, Built, Runtime
  <1>15. Publishing'
    BY <1>1, <1>2, <1>3, <1>4 DEF IInv, Publishing, Fallback
  <1>16. Startup'
    BY <1>1, <1>2, <1>3, <1>4 DEF IInv, Startup
  <1>17. Runtime'
    BY <1>1, <1>2, <1>3, <1>4 DEF IInv, Runtime
  <1>18. LockHeld'
    BY <1>1, <1>2, <1>3, <1>4 DEF IInv, LockHeld
  <1> QED
    BY <1>5, <1>6, <1>7, <1>8, <1>9, <1>10, <1>11, <1>12, <1>13, <1>14, <1>15, <1>16, <1>17,
       <1>18 DEF IInv, Disk, Doing

\* Reread: what the row says decides between finishing and rolling back.
LEMMA RereadKeeps ==
    ASSUME IInv, Reread
    PROVE  IInv'
  <1> USE DEF Agents, Moves, Wipes, Locked
  <1>1. /\ up /\ at["index"].pc = "reread" /\ lock = "index" /\ mark # NoMark /\ pub = "mine"
        /\ root.cur = mark.cand /\ mark.cand \in Gens /\ flat = mark.cand /\ revOf[mark.cand] = head
    BY DEF IInv, Disk, ControlsBuilt, HiddenIsRooted, LockHeld, Publishing, Reread
  <1>2. root # NoRoot /\ flat = root.cur /\ revOf[root.cur] = head
    BY <1>1, Absent DEF NoRoot
  <1>3. UNCHANGED <<head, row, revOf, flat, root, mark, pub, lock, seen, auditErr, up>>
    BY <1>2 DEF Reread, disk, audit, bounds
  <1>4. /\ at' \in [Agents -> Acts] /\ at'["audit"] = at["audit"]
        /\ at'["index"].gen = at["index"].gen
        /\ at'["index"].root = at["index"].root
        /\ \/ at'["index"].goal = "reread" /\ at'["index"].pc = IF row = head THEN "unmark" ELSE "rollback"
           \/ at'["index"].pc = "failed"
    BY <1>1, <1>2, GotoFacts, GoalFacts DEF IInv, Types, Steps, Goals, Reread
  <1>5. Types'
    BY <1>2, <1>3, <1>4 DEF IInv, Types
  <1>6. HiddenIsRooted'
    BY <1>1, <1>2, <1>3, <1>4 DEF IInv, Disk, HiddenIsRooted
  <1>7. Disk'
    BY <1>3, <1>6, SameDisk DEF IInv
  <1>8. Installing("index")'
    BY <1>2, <1>3, <1>4 DEF IInv, Doing, Installing, Built
  <1>9. Finishing("index")'
    BY <1>2, <1>3, <1>4 DEF IInv, Doing, Finishing, RootCarriesRow
  <1>10. Wiping("index")'
    BY <1>2, <1>3, <1>4 DEF IInv, Doing, Wiping
  <1>11. Doing("audit")'
    BY <1>2, <1>3, <1>4, SameAgent DEF IInv
  <1>12. Publishing'
    BY <1>1, <1>2, <1>3, <1>4 DEF IInv, Publishing, Fallback
  <1>13. Startup'
    BY <1>1, <1>2, <1>3, <1>4 DEF IInv, Startup
  <1>14. Runtime'
    BY <1>1, <1>2, <1>3, <1>4 DEF IInv, Runtime
  <1>15. LockHeld'
    BY <1>1, <1>2, <1>3, <1>4 DEF IInv, LockHeld
  <1> QED
    BY <1>5, <1>7, <1>8, <1>9, <1>10, <1>11, <1>12, <1>13, <1>14, <1>15 DEF IInv, Doing

\* ClearAfterRollback: a row without a root is cleared.
LEMMA ClearKeeps ==
    ASSUME IInv, ClearAfterRollback
    PROVE  IInv'
  <1> USE DEF Agents, Moves, Wipes, Locked
  <1>1. up /\ at["index"].pc = "clear" /\ lock = "index"
    BY DEF IInv, LockHeld, Startup, ClearAfterRollback
  <1>2. row' \in {row, None} /\ UNCHANGED <<head, revOf, flat, root, mark, pub, lock, seen, auditErr, up>>
    BY DEF ClearAfterRollback, disk, audit, bounds
  <1>3. /\ at' \in [Agents -> Acts] /\ at'["audit"] = at["audit"]
        /\ at'["index"].pc = "failed"
        /\ at'["index"].gen = at["index"].gen
        /\ at'["index"].root = at["index"].root
        /\ at'["index"].goal = at["index"].goal
    BY GotoFacts DEF IInv, Types, Steps, ClearAfterRollback
  <1>4. Types'
    BY <1>2, <1>3 DEF IInv, Types
  <1>5. ControlsBuilt'
    BY <1>2, <1>3 DEF IInv, Disk, ControlsBuilt, WholeRoot, Built
  <1>6. Selectable'
    BY <1>2, <1>3 DEF IInv, Disk, Selectable
  <1>7. FlatFollows'
    BY <1>2, <1>3 DEF IInv, Disk, FlatFollows
  <1>8. HiddenIsRooted'
    BY <1>1, <1>2, <1>3 DEF IInv, Disk, HiddenIsRooted
  <1>9. VisibleMatchesRow'
    BY <1>2, <1>3 DEF IInv, Disk, VisibleMatchesRow
  <1>10. Installing("index")'
    BY <1>2, <1>3 DEF IInv, Doing, Installing, Built
  <1>11. Finishing("index")'
    BY <1>2, <1>3 DEF IInv, Doing, Finishing
  <1>12. Wiping("index")'
    BY <1>2, <1>3 DEF IInv, Doing, Wiping
  <1>13. Doing("audit")'
    BY <1>1, <1>2, <1>3 DEF IInv, Doing, Installing, Finishing, Wiping, Built, Runtime
  <1>14. Publishing'
    BY <1>2, <1>3 DEF IInv, Publishing
  <1>15. Startup'
    BY <1>1, <1>2, <1>3 DEF IInv, Startup
  <1>16. Runtime'
    BY <1>1, <1>2, <1>3 DEF IInv, Runtime
  <1>17. LockHeld'
    BY <1>1, <1>2, <1>3 DEF IInv, LockHeld
  <1> QED
    BY <1>4, <1>5, <1>6, <1>7, <1>8, <1>9, <1>10, <1>11, <1>12, <1>13, <1>14, <1>15, <1>16,
       <1>17 DEF IInv, Disk, Doing

\* Return: Index has nothing left to do.
LEMMA ReturnKeeps ==
    ASSUME IInv, Return
    PROVE  IInv'
  <1> USE DEF Agents, Moves, Wipes, Locked
  <1>1. up /\ at["index"].pc \in {"done", "failed"} /\ lock = "index"
    BY DEF IInv, LockHeld, Startup, Return
  <1>2. lock' = "none" /\ UNCHANGED <<head, row, revOf, flat, root, mark, pub, seen, auditErr, up>>
    BY DEF Return, disk, audit
  <1>3. /\ at' \in [Agents -> Acts] /\ at'["audit"] = at["audit"]
        /\ at'["index"].pc = "idle"
        /\ at'["index"].gen = None /\ at'["index"].root = NoRoot /\ at'["index"].goal = "none"
        /\ at'["index"].root.prior = None
    BY ActFacts DEF IInv, Types, Steps, Goals, Return, Idle, Acts, Roots, NoRoot
  <1>4. Types'
    BY <1>2, <1>3 DEF IInv, Types
  <1>5. HiddenIsRooted'
    BY <1>1, <1>2, <1>3 DEF IInv, Disk, HiddenIsRooted
  <1>6. Disk'
    BY <1>2, <1>5, SameDisk DEF IInv
  <1>7. Installing("index")'
    BY <1>2, <1>3, Absent DEF IInv, Doing, Installing, Built
  <1>8. Finishing("index")'
    BY <1>2, <1>3 DEF IInv, Doing, Finishing
  <1>9. Wiping("index")'
    BY <1>2, <1>3 DEF IInv, Doing, Wiping
  <1>10. Doing("audit")'
    BY <1>2, <1>3, SameAgent DEF IInv
  <1>11. Publishing'
    BY <1>2, <1>3 DEF IInv, Publishing
  <1>12. Startup'
    BY <1>1, <1>2, <1>3 DEF IInv, Startup
  <1>13. Runtime'
    BY <1>2, <1>3 DEF IInv, Runtime, NotWipeable
  <1>14. LockHeld'
    BY <1>1, <1>2, <1>3 DEF IInv, LockHeld
  <1> QED
    BY <1>4, <1>6, <1>7, <1>8, <1>9, <1>10, <1>11, <1>12, <1>13, <1>14 DEF IInv, Doing

\* Unmark by Index: the root it wrote carries the row.
LEMMA UnmarkIndex ==
    ASSUME IInv, Unmark("index")
    PROVE  IInv'
  <1> USE DEF Agents, Moves, Wipes, Locked
  <1>1. /\ up /\ lock = "index" /\ pub # "other" /\ at["index"].pc = "unmark"
        /\ RootCarriesRow
    BY DEF IInv, LockHeld, Startup, Runtime, Doing, Finishing, Unmark
  <1>2. mark' = NoMark /\ UNCHANGED <<head, row, revOf, flat, root, pub, lock, seen, auditErr, up>>
    BY DEF Unmark, disk, audit, bounds
  <1>3. /\ at' \in [Agents -> Acts] /\ at'["audit"] = at["audit"]
        /\ at'["index"].pc = "unpublish"
        /\ at'["index"].gen = at["index"].gen
        /\ at'["index"].root = at["index"].root
        /\ at'["index"].goal = at["index"].goal
    BY GotoFacts DEF IInv, Types, Steps, Unmark
  <1>4. Types'
    BY <1>2, <1>3, Absent, NoneTyped DEF IInv, Types
  <1>5. ControlsBuilt'
    BY <1>2, <1>3 DEF IInv, Disk, ControlsBuilt, WholeRoot, Built
  <1>6. Selectable'
    BY <1>1, <1>2, <1>3 DEF Selectable, RootCarriesRow
  <1>7. FlatFollows'
    BY <1>1, <1>2, <1>3 DEF IInv, FlatFollows, Doing, Finishing
  <1>8. HiddenIsRooted'
    BY <1>1, <1>2, <1>3 DEF IInv, HiddenIsRooted, Doing, Finishing
  <1>9. VisibleMatchesRow'
    BY <1>2, <1>3 DEF IInv, Disk, VisibleMatchesRow
  <1>10. Installing("index")'
    BY <1>2, <1>3 DEF IInv, Doing, Installing, Built
  <1>11. Finishing("index")'
    BY <1>1, <1>2, <1>3 DEF IInv, Doing, Finishing, RootCarriesRow
  <1>12. Wiping("index")'
    BY <1>2, <1>3 DEF IInv, Doing, Wiping
  <1>13. Doing("audit")'
    BY <1>1, <1>2, <1>3 DEF IInv, Doing, Installing, Finishing, Wiping, Built, Runtime
  <1>14. Publishing'
    BY <1>2, <1>3 DEF IInv, Publishing
  <1>15. Startup'
    BY <1>1, <1>2, <1>3 DEF IInv, Startup
  <1>16. Runtime'
    BY <1>1, <1>2, <1>3 DEF IInv, Runtime
  <1>17. LockHeld'
    BY <1>1, <1>2, <1>3 DEF IInv, LockHeld
  <1> QED
    BY <1>4, <1>5, <1>6, <1>7, <1>8, <1>9, <1>10, <1>11, <1>12, <1>13, <1>14, <1>15, <1>16,
       <1>17 DEF IInv, Disk, Doing

\* Unmark by the startup audit.
LEMMA UnmarkAudit ==
    ASSUME IInv, Unmark("audit")
    PROVE  IInv'
  <1> USE DEF Agents, Moves, Wipes, Locked
  <1>1. /\ ~up /\ at["index"].pc = "idle" /\ lock = "none" /\ pub # "mine" /\ at["audit"].pc = "unmark"
        /\ RootCarriesRow
    BY DEF IInv, Types, Disk, HiddenIsRooted, LockHeld, Startup, Runtime, Doing, Finishing, Unmark
  <1>2. mark' = NoMark /\ UNCHANGED <<head, row, revOf, flat, root, pub, lock, seen, auditErr, up>>
    BY DEF Unmark, disk, audit, bounds
  <1>3. /\ at' \in [Agents -> Acts] /\ at'["index"] = at["index"]
        /\ at'["audit"].pc = "unpublish"
        /\ at'["audit"].gen = at["audit"].gen
        /\ at'["audit"].root = at["audit"].root
        /\ at'["audit"].goal = at["audit"].goal
    BY GotoFacts DEF IInv, Types, Steps, Unmark
  <1>4. Types'
    BY <1>2, <1>3, Absent, NoneTyped DEF IInv, Types
  <1>5. ControlsBuilt'
    BY <1>2, <1>3 DEF IInv, Disk, ControlsBuilt, WholeRoot, Built
  <1>6. Selectable'
    BY <1>1, <1>2, <1>3 DEF Selectable, RootCarriesRow
  <1>7. FlatFollows'
    BY <1>1, <1>2, <1>3 DEF IInv, FlatFollows, Doing, Finishing
  <1>8. HiddenIsRooted'
    BY <1>1, <1>2, <1>3 DEF IInv, HiddenIsRooted, Doing, Finishing
  <1>9. VisibleMatchesRow'
    BY <1>2, <1>3 DEF IInv, Disk, VisibleMatchesRow
  <1>10. Installing("audit")'
    BY <1>2, <1>3 DEF IInv, Doing, Installing, Built
  <1>11. Finishing("audit")'
    BY <1>1, <1>2, <1>3 DEF IInv, Doing, Finishing, RootCarriesRow
  <1>12. Wiping("audit")'
    BY <1>2, <1>3 DEF IInv, Doing, Wiping
  <1>13. Doing("index")'
    BY <1>1, <1>2, <1>3 DEF IInv, Doing, Installing, Finishing, Wiping, Built
  <1>14. Publishing'
    BY <1>1, <1>2, <1>3 DEF IInv, Publishing
  <1>15. Startup'
    BY <1>2, <1>3 DEF IInv, Startup
  <1>16. Runtime'
    BY <1>1, <1>2, <1>3 DEF IInv, Runtime
  <1>17. LockHeld'
    BY <1>1, <1>2, <1>3 DEF IInv, LockHeld
  <1> QED
    BY <1>4, <1>5, <1>6, <1>7, <1>8, <1>9, <1>10, <1>11, <1>12, <1>13, <1>14, <1>15, <1>16,
       <1>17 DEF IInv, Disk, Doing

\* Unpublish by Index: what becomes visible is the root's generation.
LEMMA UnpublishIndex ==
    ASSUME IInv, Unpublish("index")
    PROVE  IInv'
  <1> USE DEF Agents, Moves, Wipes, Locked
  <1>1. /\ up /\ lock = "index" /\ pub # "other" /\ at["index"].pc = "unpublish"
        /\ RootCarriesRow /\ mark = NoMark /\ at["index"].goal \in {"commit", "reread", "recover", "rollback"}
    BY DEF IInv, LockHeld, Startup, Runtime, Doing, Finishing, Unpublish
  <1>2. pub' = "none" /\ UNCHANGED <<head, row, revOf, flat, root, mark, lock, seen, auditErr, up>>
    BY DEF Unpublish, audit
  <1>3. /\ at' \in [Agents -> Acts] /\ at'["audit"] = at["audit"]
        /\ at'["index"].gen = at["index"].gen
        /\ at'["index"].root = at["index"].root
        /\ at'["index"].goal = at["index"].goal
        /\ at'["index"].pc \in {"resolve", "clear", "done", "failed"}
    BY <1>1, GotoFacts DEF IInv, Types, Steps, Unpublish, Returned
  <1>4. Types'
    BY <1>2, <1>3 DEF IInv, Types
  <1>5. ControlsBuilt'
    BY <1>2, <1>3 DEF IInv, Disk, ControlsBuilt, WholeRoot, Built
  <1>6. Selectable'
    BY <1>2, <1>3 DEF IInv, Disk, Selectable
  <1>7. FlatFollows'
    BY <1>2, <1>3 DEF IInv, Disk, FlatFollows
  <1>8. HiddenIsRooted'
    BY <1>2, <1>3 DEF IInv, Disk, HiddenIsRooted
  <1>9. VisibleMatchesRow'
    BY <1>1, <1>2, <1>3 DEF IInv, Disk, VisibleMatchesRow, RootCarriesRow, FlatFollows
  <1>10. Installing("index")'
    BY <1>2, <1>3 DEF IInv, Doing, Installing, Built
  <1>11. Finishing("index")'
    BY <1>2, <1>3 DEF IInv, Doing, Finishing
  <1>12. Wiping("index")'
    BY <1>2, <1>3 DEF IInv, Doing, Wiping
  <1>13. Doing("audit")'
    BY <1>1, <1>2, <1>3 DEF IInv, Doing, Installing, Finishing, Wiping, Built, RootCarriesRow
  <1>14. Publishing'
    BY <1>1, <1>2, <1>3 DEF Publishing, RootCarriesRow
  <1>15. Startup'
    BY <1>1, <1>2, <1>3 DEF IInv, Startup
  <1>16. Runtime'
    BY <1>1, <1>2, <1>3 DEF IInv, Runtime
  <1>17. LockHeld'
    BY <1>1, <1>2, <1>3 DEF IInv, LockHeld
  <1> QED
    BY <1>4, <1>5, <1>6, <1>7, <1>8, <1>9, <1>10, <1>11, <1>12, <1>13, <1>14, <1>15, <1>16,
       <1>17 DEF IInv, Disk, Doing

\* Unpublish by the startup audit.
LEMMA UnpublishAudit ==
    ASSUME IInv, Unpublish("audit")
    PROVE  IInv'
  <1> USE DEF Agents, Moves, Wipes, Locked
  <1>1. /\ ~up /\ at["index"].pc = "idle" /\ lock = "none" /\ pub # "mine" /\ at["audit"].pc = "unpublish"
        /\ RootCarriesRow /\ mark = NoMark /\ at["audit"].goal \in {"recover", "finish"}
    BY DEF IInv, Types, Disk, HiddenIsRooted, LockHeld, Startup, Runtime, Doing, Finishing,
       Unpublish
  <1>2. pub' = "none" /\ UNCHANGED <<head, row, revOf, flat, root, mark, lock, seen, auditErr, up>>
    BY DEF Unpublish, audit
  <1>3. /\ at' \in [Agents -> Acts] /\ at'["index"] = at["index"]
        /\ at'["audit"].gen = at["audit"].gen
        /\ at'["audit"].root = at["audit"].root
        /\ at'["audit"].goal = at["audit"].goal
        /\ at'["audit"].pc \in {"inspect"}
    BY <1>1, GotoFacts DEF IInv, Types, Steps, Unpublish, Returned
  <1>4. Types'
    BY <1>2, <1>3 DEF IInv, Types
  <1>5. ControlsBuilt'
    BY <1>2, <1>3 DEF IInv, Disk, ControlsBuilt, WholeRoot, Built
  <1>6. Selectable'
    BY <1>2, <1>3 DEF IInv, Disk, Selectable
  <1>7. FlatFollows'
    BY <1>2, <1>3 DEF IInv, Disk, FlatFollows
  <1>8. HiddenIsRooted'
    BY <1>2, <1>3 DEF IInv, Disk, HiddenIsRooted
  <1>9. VisibleMatchesRow'
    BY <1>1, <1>2, <1>3 DEF IInv, Disk, VisibleMatchesRow, RootCarriesRow, FlatFollows
  <1>10. Installing("audit")'
    BY <1>2, <1>3 DEF IInv, Doing, Installing, Built
  <1>11. Finishing("audit")'
    BY <1>2, <1>3 DEF IInv, Doing, Finishing
  <1>12. Wiping("audit")'
    BY <1>2, <1>3 DEF IInv, Doing, Wiping
  <1>13. Doing("index")'
    BY <1>1, <1>2, <1>3 DEF IInv, Doing, Installing, Finishing, Wiping, Built
  <1>14. Publishing'
    BY <1>1, <1>2, <1>3 DEF IInv, Publishing
  <1>15. Startup'
    BY <1>2, <1>3 DEF IInv, Startup
  <1>16. Runtime'
    BY <1>2, <1>3 DEF IInv, Runtime
  <1>17. LockHeld'
    BY <1>1, <1>2, <1>3 DEF IInv, LockHeld
  <1> QED
    BY <1>4, <1>5, <1>6, <1>7, <1>8, <1>9, <1>10, <1>11, <1>12, <1>13, <1>14, <1>15, <1>16,
       <1>17 DEF IInv, Disk, Doing

\* WriteRoot by Index, after an installation: the flat files are already those of
\* the new root.
LEMMA RootInstalled ==
    ASSUME IInv, WriteRoot("index"), at["index"].pc = "root"
    PROVE  IInv'
  <1> USE DEF Agents, Moves, Wipes, Locked
  <1>1. /\ up /\ lock = "index" /\ pub # "other" /\ at["index"].pc = "root"
        /\ mark # NoMark /\ at["index"].gen \in Gens /\ at["index"].root.cur = at["index"].gen
        /\ flat = at["index"].gen /\ at["index"].root \in Roots
    BY DEF IInv, Types, Doing, Installing, Startup, Runtime, LockHeld, Acts, WriteRoot
  <1>2. at["index"].root # NoRoot
    BY <1>1, Absent DEF NoRoot
  <1>3. root' = at["index"].root /\ UNCHANGED <<head, row, revOf, flat, mark, pub, lock, seen, auditErr, up>>
    BY <1>2 DEF WriteRoot, disk, audit, bounds
  <1>4. /\ at' \in [Agents -> Acts] /\ at'["audit"] = at["audit"]
        /\ at'["index"].pc = (IF at["index"].goal \in {"publish", "reactivate"} THEN "commit" ELSE "unmark")
        /\ at'["index"].gen = at["index"].gen
        /\ at'["index"].root = at["index"].root
        /\ at'["index"].goal = at["index"].goal
    BY <1>2, GotoFacts DEF IInv, Types, Steps, WriteRoot
  <1>5. Types'
    BY <1>1, <1>2, <1>3, <1>4 DEF IInv, Types
  <1>6. ControlsBuilt'
    BY <1>1, <1>2, <1>3, <1>4 DEF IInv, Disk, Doing, Installing, ControlsBuilt, WholeRoot, Built
  <1>7. Selectable'
    BY <1>1, <1>2, <1>3, <1>4 DEF IInv, Disk, Selectable
  <1>8. FlatFollows'
    BY <1>1, <1>2, <1>3, <1>4 DEF IInv, Disk, FlatFollows
  <1>9. HiddenIsRooted'
    BY <1>1, <1>2, <1>3, <1>4 DEF IInv, Disk, HiddenIsRooted
  <1>10. VisibleMatchesRow'
    BY <1>2, <1>3, <1>4 DEF IInv, Disk, VisibleMatchesRow
  <1>11. Installing("index")'
    BY <1>2, <1>3, <1>4 DEF IInv, Doing, Installing, Built
  <1>12. Finishing("index")'
    BY <1>1, <1>2, <1>3, <1>4 DEF IInv, Doing, Installing, Finishing, RootCarriesRow
  <1>13. Wiping("index")'
    BY <1>2, <1>3, <1>4 DEF IInv, Doing, Wiping
  <1>14. Doing("audit")'
    BY <1>1, <1>2, <1>3, <1>4 DEF IInv, Doing, Installing, Finishing, Wiping, Built, Runtime
  <1>15. Publishing'
    BY <1>1, <1>2, <1>3, <1>4 DEF IInv, Publishing, Fallback
  <1>16. Startup'
    BY <1>1, <1>2, <1>3, <1>4 DEF IInv, Startup
  <1>17. Runtime'
    BY <1>1, <1>2, <1>3, <1>4 DEF IInv, Runtime
  <1>18. LockHeld'
    BY <1>1, <1>2, <1>3, <1>4 DEF IInv, LockHeld
  <1> QED
    BY <1>5, <1>6, <1>7, <1>8, <1>9, <1>10, <1>11, <1>12, <1>13, <1>14, <1>15, <1>16, <1>17,
       <1>18 DEF IInv, Disk, Doing

\* WriteRoot by the startup audit.
LEMMA WriteRootAudit ==
    ASSUME IInv, WriteRoot("audit")
    PROVE  IInv'
  <1> USE DEF Agents, Moves, Wipes, Locked
  <1>1. /\ ~up /\ at["index"].pc = "idle" /\ lock = "none" /\ pub # "mine" /\ at["audit"].pc = "root"
        /\ mark # NoMark /\ at["audit"].gen \in Gens /\ at["audit"].root.cur = at["audit"].gen
        /\ flat = at["audit"].gen /\ at["audit"].root \in Roots
    BY DEF IInv, Types, Disk, Doing, HiddenIsRooted, Installing, Startup, Runtime, LockHeld, Acts,
       WriteRoot
  <1>2. at["audit"].root # NoRoot
    BY <1>1, Absent DEF NoRoot
  <1>3. root' = at["audit"].root /\ UNCHANGED <<head, row, revOf, flat, mark, pub, lock, seen, auditErr, up>>
    BY <1>2 DEF WriteRoot, disk, audit, bounds
  <1>4. /\ at' \in [Agents -> Acts] /\ at'["index"] = at["index"]
        /\ at'["audit"].pc = (IF at["audit"].goal \in {"publish", "reactivate"} THEN "commit" ELSE "unmark")
        /\ at'["audit"].gen = at["audit"].gen
        /\ at'["audit"].root = at["audit"].root
        /\ at'["audit"].goal = at["audit"].goal
    BY <1>1, GotoFacts DEF IInv, Types, Steps, WriteRoot
  <1>5. Types'
    BY <1>1, <1>2, <1>3, <1>4 DEF IInv, Types
  <1>6. ControlsBuilt'
    BY <1>1, <1>2, <1>3, <1>4 DEF IInv, Disk, Doing, Installing, ControlsBuilt, WholeRoot, Built
  <1>7. Selectable'
    BY <1>1, <1>2, <1>3, <1>4 DEF IInv, Disk, Selectable
  <1>8. FlatFollows'
    BY <1>1, <1>2, <1>3, <1>4 DEF IInv, Disk, FlatFollows
  <1>9. HiddenIsRooted'
    BY <1>2, <1>3, <1>4 DEF IInv, Disk, HiddenIsRooted
  <1>10. VisibleMatchesRow'
    BY <1>2, <1>3, <1>4 DEF IInv, Disk, VisibleMatchesRow
  <1>11. Installing("audit")'
    BY <1>2, <1>3, <1>4 DEF IInv, Doing, Installing, Built
  <1>12. Finishing("audit")'
    BY <1>1, <1>2, <1>3, <1>4 DEF IInv, Doing, Installing, Finishing, RootCarriesRow
  <1>13. Wiping("audit")'
    BY <1>2, <1>3, <1>4 DEF IInv, Doing, Wiping
  <1>14. Doing("index")'
    BY <1>1, <1>2, <1>3, <1>4 DEF IInv, Doing, Installing, Finishing, Wiping, Built
  <1>15. Publishing'
    BY <1>1, <1>2, <1>3, <1>4 DEF IInv, Publishing
  <1>16. Startup'
    BY <1>2, <1>3, <1>4 DEF IInv, Startup
  <1>17. Runtime'
    BY <1>1, <1>2, <1>3, <1>4 DEF IInv, Runtime
  <1>18. LockHeld'
    BY <1>1, <1>2, <1>3, <1>4 DEF IInv, Doing, Installing, LockHeld
  <1> QED
    BY <1>5, <1>6, <1>7, <1>8, <1>9, <1>10, <1>11, <1>12, <1>13, <1>14, <1>15, <1>16, <1>17,
       <1>18 DEF IInv, Disk, Doing

------------------------------------------------------------------------------
(* The audit *)

\* AuditBegin: the audit reads the row.
LEMMA AuditBeginKeeps ==
    ASSUME IInv, AuditBegin
    PROVE  IInv'
  <1> USE DEF Agents, Moves, Wipes, Locked
  <1>1. at["audit"].pc = "idle"
    BY DEF AuditBegin
  <1>2. seen' = row /\ auditErr' = FALSE /\ UNCHANGED <<head, row, revOf, flat, root, mark, pub, lock, up>>
    BY DEF AuditBegin, disk
  <1>3. /\ at' \in [Agents -> Acts] /\ at'["index"] = at["index"]
        /\ at'["audit"].pc = "reclaim"
        /\ at'["audit"].gen = None /\ at'["audit"].root = NoRoot /\ at'["audit"].goal = "none"
        /\ at'["audit"].root.prior = None
    BY ActFacts DEF IInv, Types, Steps, Goals, AuditBegin, Idle, Acts, Roots, NoRoot
  <1>4. Types'
    BY <1>2, <1>3 DEF IInv, Types
  <1>5. HiddenIsRooted'
    BY <1>2, <1>3 DEF IInv, Disk, HiddenIsRooted
  <1>6. Disk'
    BY <1>2, <1>5, SameDisk DEF IInv
  <1>7. Installing("audit")'
    BY <1>2, <1>3, Absent DEF IInv, Doing, Installing, Built
  <1>8. Finishing("audit")'
    BY <1>2, <1>3 DEF IInv, Doing, Finishing
  <1>9. Wiping("audit")'
    BY <1>2, <1>3 DEF IInv, Doing, Wiping
  <1>10. Doing("index")'
    BY <1>2, <1>3, SameAgent DEF IInv
  <1>11. Publishing'
    BY <1>2, <1>3, SameIndex DEF IInv
  <1>12. Startup'
    BY <1>2, <1>3 DEF IInv, Startup
  <1>13. Runtime'
    BY <1>2, <1>3 DEF IInv, Runtime, NotWipeable
  <1>14. LockHeld'
    BY <1>1, <1>2, <1>3 DEF IInv, LockHeld
  <1> QED
    BY <1>4, <1>6, <1>7, <1>8, <1>9, <1>10, <1>11, <1>12, <1>13, <1>14 DEF IInv, Doing

\* Reclaim: a marker of another process is looked at.
LEMMA ReclaimKeeps ==
    ASSUME IInv, Reclaim
    PROVE  IInv'
  <1> USE DEF Agents, Moves, Wipes, Locked
  <1>1. at["audit"].pc = "reclaim"
    BY DEF Reclaim
  <1>2. UNCHANGED <<head, row, revOf, flat, root, mark, pub, lock, seen, auditErr, up>>
    BY DEF Reclaim, disk, audit
  <1>3. /\ at' \in [Agents -> Acts] /\ at'["index"] = at["index"]
        /\ at'["audit"].pc = (IF pub = "other" THEN "recover" ELSE "inspect")
        /\ at'["audit"].gen = at["audit"].gen
        /\ at'["audit"].root = at["audit"].root
        /\ at'["audit"].goal = at["audit"].goal
    BY GotoFacts DEF IInv, Types, Steps, Reclaim, Abandoned
  <1>4. Types'
    BY <1>2, <1>3 DEF IInv, Types
  <1>5. HiddenIsRooted'
    BY <1>2, <1>3 DEF IInv, Disk, HiddenIsRooted
  <1>6. Disk'
    BY <1>2, <1>5, SameDisk DEF IInv
  <1>7. Installing("audit")'
    BY <1>2, <1>3 DEF IInv, Doing, Installing, Built
  <1>8. Finishing("audit")'
    BY <1>2, <1>3 DEF IInv, Doing, Finishing
  <1>9. Wiping("audit")'
    BY <1>2, <1>3 DEF IInv, Doing, Wiping
  <1>10. Doing("index")'
    BY <1>2, <1>3, SameAgent DEF IInv
  <1>11. Publishing'
    BY <1>2, <1>3, SameIndex DEF IInv
  <1>12. Startup'
    BY <1>1, <1>2, <1>3 DEF IInv, Startup
  <1>13. Runtime'
    BY <1>1, <1>2, <1>3 DEF IInv, Runtime, NotWipeable
  <1>14. LockHeld'
    BY <1>1, <1>2, <1>3 DEF IInv, LockHeld
  <1> QED
    BY <1>4, <1>6, <1>7, <1>8, <1>9, <1>10, <1>11, <1>12, <1>13, <1>14 DEF IInv, Doing

\* Inspect: the audit takes a free lock, or ends.
LEMMA InspectKeeps ==
    ASSUME IInv, Inspect
    PROVE  IInv'
  <1> USE DEF Agents, Moves, Wipes, Locked
  <1>1. at["audit"].pc = "inspect" /\ lock # "audit" /\ (~up => lock = "none")
    BY DEF IInv, Types, LockHeld, Startup, Inspect
  <1>2. UNCHANGED <<head, row, revOf, flat, root, mark, pub, seen, up>>
    BY DEF Inspect, disk
  <1>3. /\ at' \in [Agents -> Acts] /\ at'["index"] = at["index"]
        /\ at'["audit"].gen = at["audit"].gen
        /\ at'["audit"].root = at["audit"].root
        /\ at'["audit"].goal = at["audit"].goal
        /\ \/ /\ at'["audit"].pc = "end" /\ UNCHANGED lock
              /\ (pub = "none" /\ auditErr' = auditErr) \/ (up /\ auditErr' = TRUE)
           \/ at'["audit"].pc = "repair" /\ lock = "none" /\ lock' = "audit" /\ auditErr' = auditErr
    BY <1>1, GotoFacts DEF IInv, Types, Steps, Inspect, Mismatch
  <1>4. Types'
    BY <1>2, <1>3 DEF IInv, Types
  <1>5. HiddenIsRooted'
    BY <1>2, <1>3 DEF IInv, Disk, HiddenIsRooted
  <1>6. Disk'
    BY <1>2, <1>5, SameDisk DEF IInv
  <1>7. Installing("audit")'
    BY <1>2, <1>3 DEF IInv, Doing, Installing, Built
  <1>8. Finishing("audit")'
    BY <1>2, <1>3 DEF IInv, Doing, Finishing
  <1>9. Wiping("audit")'
    BY <1>2, <1>3 DEF IInv, Doing, Wiping
  <1>10. Doing("index")'
    BY <1>2, <1>3, SameAgent DEF IInv
  <1>11. Publishing'
    BY <1>2, <1>3, SameIndex DEF IInv
  <1>12. Startup'
    <2>1. CASE up
      BY <1>2, <2>1 DEF Startup
    <2>2. CASE ~up /\ at'["audit"].pc = "end"
      BY <1>2, <1>3, <2>2 DEF IInv, Startup
    <2>3. CASE ~up /\ at'["audit"].pc = "repair"
      BY <1>1, <1>2, <1>3, <2>3 DEF IInv, Startup, NotWipeable
    <2> QED
      BY <1>3, <2>1, <2>2, <2>3
  <1>13. Runtime'
    BY <1>1, <1>2, <1>3 DEF IInv, Runtime, NotWipeable
  <1>14. LockHeld'
    BY <1>1, <1>2, <1>3 DEF IInv, LockHeld
  <1> QED
    BY <1>4, <1>6, <1>7, <1>8, <1>9, <1>10, <1>11, <1>12, <1>13, <1>14 DEF IInv, Doing

\* Repair: a row that visible files do not carry is cleared, which harms no file.
LEMMA RepairKeeps ==
    ASSUME IInv, Repair
    PROVE  IInv'
  <1> USE DEF Agents, Moves, Wipes, Locked
  <1>1. at["audit"].pc = "repair" /\ lock = "audit" /\ at["index"].pc = "idle"
    BY DEF IInv, LockHeld, Repair
  <1>2. UNCHANGED <<head, revOf, flat, root, mark, pub, lock, seen, auditErr, up>>
    BY DEF Repair, disk, audit
  <1>3. /\ at' \in [Agents -> Acts] /\ at'["index"] = at["index"]
        /\ at'["audit"].gen = at["audit"].gen
        /\ at'["audit"].root = at["audit"].root
        /\ at'["audit"].goal = at["audit"].goal
        /\ \/ at'["audit"].pc = "unlock" /\ UNCHANGED row /\ pub = "none"
           \/ at'["audit"].pc \in {"enqueue", "enqueue force"} /\ row' = None
    BY GotoFacts DEF IInv, Types, Steps, Repair, Mismatch
  <1>4. Types'
    BY <1>2, <1>3 DEF IInv, Types
  <1>5. ControlsBuilt'
    BY <1>2, <1>3 DEF IInv, Disk, ControlsBuilt, WholeRoot, Built
  <1>6. Selectable'
    BY <1>2, <1>3 DEF IInv, Disk, Selectable
  <1>7. FlatFollows'
    BY <1>2, <1>3 DEF IInv, Disk, FlatFollows
  <1>8. HiddenIsRooted'
    BY <1>2, <1>3 DEF IInv, Disk, HiddenIsRooted
  <1>9. VisibleMatchesRow'
    BY <1>2, <1>3 DEF IInv, Disk, VisibleMatchesRow
  <1>10. Installing("audit")'
    BY <1>2, <1>3 DEF IInv, Doing, Installing, Built
  <1>11. Finishing("audit")'
    BY <1>2, <1>3 DEF IInv, Doing, Finishing
  <1>12. Wiping("audit")'
    BY <1>2, <1>3 DEF IInv, Doing, Wiping
  <1>13. Doing("index")'
    BY <1>1, <1>2, <1>3 DEF IInv, Doing, Installing, Finishing, Wiping, Built
  <1>14. Publishing'
    BY <1>1, <1>2, <1>3 DEF IInv, Publishing
  <1>15. Startup'
    BY <1>1, <1>2, <1>3 DEF IInv, Startup, NotWipeable
  <1>16. Runtime'
    BY <1>1, <1>2, <1>3 DEF IInv, Runtime, NotWipeable
  <1>17. LockHeld'
    BY <1>1, <1>2, <1>3 DEF IInv, LockHeld
  <1> QED
    BY <1>4, <1>5, <1>6, <1>7, <1>8, <1>9, <1>10, <1>11, <1>12, <1>13, <1>14, <1>15, <1>16,
       <1>17 DEF IInv, Disk, Doing

\* AuditEnqueue: an index job is queued.
LEMMA EnqueueKeeps ==
    ASSUME IInv, AuditEnqueue
    PROVE  IInv'
  <1> USE DEF Agents, Moves, Wipes, Locked
  <1>1. at["audit"].pc \in {"enqueue", "enqueue force"} /\ lock = "audit" /\ at["index"].pc = "idle"
    BY DEF IInv, LockHeld, AuditEnqueue
  <1>2. UNCHANGED <<head, row, revOf, flat, root, mark, pub, lock, seen, auditErr, up>>
    BY DEF AuditEnqueue, disk, audit, bounds
  <1>3. /\ at' \in [Agents -> Acts] /\ at'["index"] = at["index"]
        /\ at'["audit"].pc = "unlock"
        /\ at'["audit"].gen = at["audit"].gen
        /\ at'["audit"].root = at["audit"].root
        /\ at'["audit"].goal = at["audit"].goal
    BY GotoFacts DEF IInv, Types, Steps, AuditEnqueue
  <1>4. Types'
    BY <1>2, <1>3 DEF IInv, Types
  <1>5. HiddenIsRooted'
    BY <1>2, <1>3 DEF IInv, Disk, HiddenIsRooted
  <1>6. Disk'
    BY <1>2, <1>5, SameDisk DEF IInv
  <1>7. Installing("audit")'
    BY <1>2, <1>3 DEF IInv, Doing, Installing, Built
  <1>8. Finishing("audit")'
    BY <1>2, <1>3 DEF IInv, Doing, Finishing
  <1>9. Wiping("audit")'
    BY <1>2, <1>3 DEF IInv, Doing, Wiping
  <1>10. Doing("index")'
    BY <1>2, <1>3, SameAgent DEF IInv
  <1>11. Publishing'
    BY <1>2, <1>3, SameIndex DEF IInv
  <1>12. Startup'
    BY <1>1, <1>2, <1>3 DEF IInv, Startup, NotWipeable
  <1>13. Runtime'
    BY <1>1, <1>2, <1>3 DEF IInv, Runtime, NotWipeable
  <1>14. LockHeld'
    BY <1>1, <1>2, <1>3 DEF IInv, LockHeld
  <1> QED
    BY <1>4, <1>6, <1>7, <1>8, <1>9, <1>10, <1>11, <1>12, <1>13, <1>14 DEF IInv, Doing

\* AuditUnlock: the lock is given back.
LEMMA UnlockKeeps ==
    ASSUME IInv, AuditUnlock
    PROVE  IInv'
  <1> USE DEF Agents, Moves, Wipes, Locked
  <1>1. at["audit"].pc = "unlock" /\ lock = "audit" /\ at["index"].pc = "idle"
    BY DEF IInv, LockHeld, AuditUnlock
  <1>2. lock' = "none" /\ UNCHANGED <<head, row, revOf, flat, root, mark, pub, seen, auditErr, up>>
    BY DEF AuditUnlock, disk, audit, bounds
  <1>3. /\ at' \in [Agents -> Acts] /\ at'["index"] = at["index"]
        /\ at'["audit"].pc = "end"
        /\ at'["audit"].gen = at["audit"].gen
        /\ at'["audit"].root = at["audit"].root
        /\ at'["audit"].goal = at["audit"].goal
    BY GotoFacts DEF IInv, Types, Steps, AuditUnlock
  <1>4. Types'
    BY <1>2, <1>3 DEF IInv, Types
  <1>5. HiddenIsRooted'
    BY <1>2, <1>3 DEF IInv, Disk, HiddenIsRooted
  <1>6. Disk'
    BY <1>2, <1>5, SameDisk DEF IInv
  <1>7. Installing("audit")'
    BY <1>2, <1>3 DEF IInv, Doing, Installing, Built
  <1>8. Finishing("audit")'
    BY <1>2, <1>3 DEF IInv, Doing, Finishing
  <1>9. Wiping("audit")'
    BY <1>2, <1>3 DEF IInv, Doing, Wiping
  <1>10. Doing("index")'
    BY <1>2, <1>3, SameAgent DEF IInv
  <1>11. Publishing'
    BY <1>2, <1>3, SameIndex DEF IInv
  <1>12. Startup'
    BY <1>1, <1>2, <1>3 DEF IInv, Startup, NotWipeable
  <1>13. Runtime'
    BY <1>1, <1>2, <1>3 DEF IInv, Runtime, NotWipeable
  <1>14. LockHeld'
    BY <1>1, <1>2, <1>3 DEF IInv, LockHeld
  <1> QED
    BY <1>4, <1>6, <1>7, <1>8, <1>9, <1>10, <1>11, <1>12, <1>13, <1>14 DEF IInv, Doing

\* AuditEnd: the runners start only after an audit without an error, so a marker of
\* another process that is left then has no row.
LEMMA AuditEndKeeps ==
    ASSUME IInv, AuditEnd
    PROVE  IInv'
  <1> USE DEF Agents, Moves, Wipes, Locked
  <1>1. at["audit"].pc = "end"
    BY DEF AuditEnd
  <1>2. up' = (up \/ ~auditErr) /\ seen' = None /\ auditErr' = FALSE /\ UNCHANGED <<head, row, revOf, flat, root, mark, pub, lock>>
    BY DEF AuditEnd, disk
  <1>3. /\ at' \in [Agents -> Acts] /\ at'["index"] = at["index"]
        /\ at'["audit"].pc = "idle"
        /\ at'["audit"].gen = None /\ at'["audit"].root = NoRoot /\ at'["audit"].goal = "none"
        /\ at'["audit"].root.prior = None
    BY ActFacts DEF IInv, Types, Steps, Goals, AuditEnd, Idle, Acts, Roots, NoRoot
  <1>4. Types'
    BY <1>2, <1>3 DEF IInv, Types
  <1>5. HiddenIsRooted'
    BY <1>2, <1>3 DEF IInv, Disk, HiddenIsRooted
  <1>6. Disk'
    BY <1>2, <1>5, SameDisk DEF IInv
  <1>7. Installing("audit")'
    BY <1>2, <1>3, Absent DEF IInv, Doing, Installing, Built
  <1>8. Finishing("audit")'
    BY <1>2, <1>3 DEF IInv, Doing, Finishing
  <1>9. Wiping("audit")'
    BY <1>2, <1>3 DEF IInv, Doing, Wiping
  <1>10. Doing("index")'
    BY <1>2, <1>3, SameAgent DEF IInv
  <1>11. Publishing'
    BY <1>2, <1>3, SameIndex DEF IInv
  <1>12. Startup'
    BY <1>2, <1>3 DEF IInv, Startup
  <1>13. Runtime'
    BY <1>1, <1>2, <1>3 DEF IInv, Runtime, NotWipeable, Startup
  <1>14. LockHeld'
    BY <1>1, <1>2, <1>3 DEF IInv, LockHeld
  <1> QED
    BY <1>4, <1>6, <1>7, <1>8, <1>9, <1>10, <1>11, <1>12, <1>13, <1>14 DEF IInv, Doing

\* ReclaimCommitted: flat files that carry the row are exposed, at startup only.
LEMMA CommittedKeeps ==
    ASSUME IInv, ReclaimCommitted
    PROVE  IInv'
  <1> USE DEF Agents, Moves, Wipes, Locked
  <1>1. at["audit"].pc = "committed"
    BY DEF ReclaimCommitted
  <1>2. UNCHANGED <<head, row, revOf, flat, root, mark, pub, lock, seen, auditErr, up>>
    BY DEF ReclaimCommitted, disk, audit
  <1>3. /\ at' \in [Agents -> Acts] /\ at'["index"] = at["index"]
        /\ at'["audit"].gen = at["audit"].gen /\ at'["audit"].root = at["audit"].root
        /\ \/ at'["audit"].pc = "inspect"
           \/ at'["audit"].pc = "unmark" /\ at'["audit"].goal = "finish" /\ seen # None
    <2>1. at \in [Agents -> Acts] /\ {"inspect", "unmark"} \subseteq Steps /\ "finish" \in Goals
      BY DEF IInv, Types, Steps, Goals
    <2>2. \/ Goto("audit", "inspect")
          \/ seen # None /\ at' = [at EXCEPT !["audit"].pc = "unmark", !["audit"].goal = "finish"]
      BY DEF ReclaimCommitted, Goto
    <2> QED
      BY <2>1, <2>2, GotoFacts, GoalFacts
  <1>4. Types'
    BY <1>2, <1>3 DEF IInv, Types
  <1>5. HiddenIsRooted'
    BY <1>2, <1>3 DEF IInv, Disk, HiddenIsRooted
  <1>6. Disk'
    BY <1>2, <1>5, SameDisk DEF IInv
  <1>7. Installing("audit")'
    BY <1>2, <1>3 DEF IInv, Doing, Installing, Built
  <1>8. Finishing("audit")'
    BY <1>1, <1>2, <1>3 DEF IInv, Disk, Selectable, FlatFollows, HiddenIsRooted, Finishing,
       RootCarriesRow, Startup, Runtime
  <1>9. Wiping("audit")'
    BY <1>2, <1>3 DEF IInv, Doing, Wiping
  <1>10. Doing("index")'
    BY <1>2, <1>3, SameAgent DEF IInv
  <1>11. Publishing'
    BY <1>2, <1>3, SameIndex DEF IInv
  <1>12. Startup'
    BY <1>1, <1>2, <1>3 DEF IInv, Startup, NotWipeable
  <1>13. Runtime'
    BY <1>1, <1>2, <1>3 DEF IInv, Runtime, NotWipeable
  <1>14. LockHeld'
    BY <1>1, <1>2, <1>3 DEF IInv, LockHeld
  <1> QED
    BY <1>4, <1>6, <1>7, <1>8, <1>9, <1>10, <1>11, <1>12, <1>13, <1>14 DEF IInv, Doing

------------------------------------------------------------------------------
(* Installations and removals *)

\* Install by Index, or its failure.
LEMMA InstallIndex ==
    ASSUME IInv, Install("index")
    PROVE  IInv'
  <1> USE DEF Agents, Moves, Wipes, Locked
  <1>1. /\ up /\ lock = "index" /\ pub # "other" /\ at["index"].pc = "install"
        /\ mark # NoMark /\ at["index"].gen \in Gens /\ at["index"].goal \in {"publish", "reactivate", "rollback", "recover"}
        /\ (at["audit"].pc \in Moves => at["audit"].goal = "recover")
    BY DEF IInv, LockHeld, Startup, Runtime, Doing, Installing, Install
  <1>2. flat' \in {flat, Partial} /\ UNCHANGED <<head, row, revOf, root, mark, pub, lock, seen, up>>
    BY DEF Install
  <1>3. /\ at' \in [Agents -> Acts] /\ at'["audit"] = at["audit"]
        /\ at'["index"].gen = at["index"].gen
        /\ at'["index"].root = at["index"].root
        /\ at'["index"].goal = at["index"].goal
        /\ auditErr' \in BOOLEAN
        /\ \/ at'["index"].pc = "link" /\ flat' = Partial /\ auditErr' = auditErr
           \/ UNCHANGED flat /\ auditErr' = auditErr
              /\ \/ at["index"].goal = "publish" /\ at'["index"].pc = "rollback"
                 \/ at["index"].goal = "rollback" /\ at'["index"].pc = "clear"
                 \/ at["index"].goal \in {"reactivate", "recover"} /\ at'["index"].pc = "failed"
    BY <1>1, GotoFacts DEF IInv, Types, Steps, Install, Broken, Returned, NoteError
  <1>4. Types'
    BY <1>2, <1>3 DEF IInv, Types
  <1>5. ControlsBuilt'
    BY <1>2, <1>3, Absent DEF IInv, Disk, ControlsBuilt, WholeRoot, Built
  <1>6. Selectable'
    BY <1>1, <1>2, <1>3 DEF IInv, Disk, Selectable
  <1>7. FlatFollows'
    BY <1>2, <1>3, Absent DEF IInv, Disk, FlatFollows
  <1>8. HiddenIsRooted'
    BY <1>1, <1>2, <1>3 DEF IInv, Disk, HiddenIsRooted
  <1>9. VisibleMatchesRow'
    BY <1>2, <1>3, Absent DEF IInv, Disk, VisibleMatchesRow
  <1>10. Installing("index")'
    BY <1>1, <1>2, <1>3 DEF IInv, Doing, Installing, Built
  <1>11. Finishing("index")'
    BY <1>2, <1>3 DEF IInv, Doing, Finishing
  <1>12. Wiping("index")'
    BY <1>2, <1>3 DEF IInv, Doing, Wiping
  <1>13. Doing("audit")'
    BY <1>1, <1>2, <1>3 DEF IInv, Doing, Installing, Finishing, Wiping, Built, Runtime
  <1>14. Publishing'
    BY <1>1, <1>2, <1>3 DEF IInv, Publishing, Fallback
  <1>15. Startup'
    BY <1>1, <1>2, <1>3 DEF IInv, Startup
  <1>16. Runtime'
    BY <1>1, <1>2, <1>3 DEF IInv, Runtime
  <1>17. LockHeld'
    BY <1>1, <1>2, <1>3 DEF IInv, LockHeld
  <1> QED
    BY <1>4, <1>5, <1>6, <1>7, <1>8, <1>9, <1>10, <1>11, <1>12, <1>13, <1>14, <1>15, <1>16,
       <1>17 DEF IInv, Disk, Doing

\* Install by the startup audit.
LEMMA InstallAudit ==
    ASSUME IInv, Install("audit")
    PROVE  IInv'
  <1> USE DEF Agents, Moves, Wipes, Locked
  <1>1. /\ ~up /\ at["index"].pc = "idle" /\ lock = "none" /\ pub # "mine" /\ at["audit"].pc = "install"
        /\ mark # NoMark /\ at["audit"].gen \in Gens /\ at["audit"].goal \in {"publish", "reactivate", "rollback", "recover"}
        /\ (at["audit"].pc \in Moves => at["audit"].goal = "recover")
    BY DEF IInv, Types, Disk, HiddenIsRooted, LockHeld, Startup, Runtime, Doing, Installing, Install
  <1>2. flat' \in {flat, Partial} /\ UNCHANGED <<head, row, revOf, root, mark, pub, lock, seen, up>>
    BY DEF Install
  <1>3. /\ at' \in [Agents -> Acts] /\ at'["index"] = at["index"]
        /\ at'["audit"].gen = at["audit"].gen
        /\ at'["audit"].root = at["audit"].root
        /\ at'["audit"].goal = at["audit"].goal
        /\ auditErr' \in BOOLEAN
        /\ \/ at'["audit"].pc = "link" /\ flat' = Partial /\ auditErr' = auditErr
           \/ UNCHANGED flat /\ at'["audit"].pc = "inspect" /\ auditErr' = TRUE
    BY <1>1, GotoFacts DEF IInv, Types, Steps, Install, Broken, Returned, NoteError
  <1>4. Types'
    BY <1>2, <1>3 DEF IInv, Types
  <1>5. ControlsBuilt'
    BY <1>2, <1>3, Absent DEF IInv, Disk, ControlsBuilt, WholeRoot, Built
  <1>6. Selectable'
    BY <1>1, <1>2, <1>3 DEF IInv, Disk, Selectable
  <1>7. FlatFollows'
    BY <1>2, <1>3, Absent DEF IInv, Disk, FlatFollows
  <1>8. HiddenIsRooted'
    BY <1>2, <1>3 DEF IInv, Disk, HiddenIsRooted
  <1>9. VisibleMatchesRow'
    BY <1>2, <1>3, Absent DEF IInv, Disk, VisibleMatchesRow
  <1>10. Installing("audit")'
    BY <1>1, <1>2, <1>3 DEF IInv, Doing, Installing, Built
  <1>11. Finishing("audit")'
    BY <1>2, <1>3 DEF IInv, Doing, Finishing
  <1>12. Wiping("audit")'
    BY <1>2, <1>3 DEF IInv, Doing, Wiping
  <1>13. Doing("index")'
    BY <1>1, <1>2, <1>3 DEF IInv, Doing, Installing, Finishing, Wiping, Built
  <1>14. Publishing'
    BY <1>1, <1>2, <1>3 DEF IInv, Publishing
  <1>15. Startup'
    BY <1>2, <1>3 DEF IInv, Startup
  <1>16. Runtime'
    BY <1>1, <1>2, <1>3 DEF IInv, Runtime
  <1>17. LockHeld'
    BY <1>1, <1>2, <1>3 DEF IInv, LockHeld
  <1> QED
    BY <1>4, <1>5, <1>6, <1>7, <1>8, <1>9, <1>10, <1>11, <1>12, <1>13, <1>14, <1>15, <1>16,
       <1>17 DEF IInv, Disk, Doing

\* Link by Index: the flat files become the generation's, hidden.
LEMMA LinkIndex ==
    ASSUME IInv, Link("index")
    PROVE  IInv'
  <1> USE DEF Agents, Moves, Wipes, Locked
  <1>1. /\ up /\ lock = "index" /\ pub # "other" /\ at["index"].pc = "link"
        /\ mark # NoMark /\ at["index"].gen \in Gens /\ at["index"].goal \in {"publish", "reactivate", "rollback", "recover"}
        /\ (at["audit"].pc \in Moves => at["audit"].goal = "recover")
    BY DEF IInv, LockHeld, Startup, Runtime, Doing, Installing, Link
  <1>2. flat' \in {flat, at["index"].gen} /\ UNCHANGED <<head, row, revOf, root, mark, pub, lock, seen, up>>
    BY DEF Link
  <1>3. /\ at' \in [Agents -> Acts] /\ at'["audit"] = at["audit"]
        /\ at'["index"].gen = at["index"].gen
        /\ at'["index"].root = at["index"].root
        /\ at'["index"].goal = at["index"].goal
        /\ auditErr' \in BOOLEAN
        /\ \/ at'["index"].pc = "root" /\ flat' = at["index"].gen /\ auditErr' = auditErr
           \/ UNCHANGED flat /\ auditErr' = auditErr
              /\ \/ at["index"].goal = "publish" /\ at'["index"].pc = "rollback"
                 \/ at["index"].goal = "rollback" /\ at'["index"].pc = "clear"
                 \/ at["index"].goal \in {"reactivate", "recover"} /\ at'["index"].pc = "failed"
    BY <1>1, GotoFacts DEF IInv, Types, Steps, Link, Broken, Returned, NoteError
  <1>4. Types'
    BY <1>1, <1>2, <1>3 DEF IInv, Types
  <1>5. ControlsBuilt'
    BY <1>2, <1>3 DEF IInv, Disk, Doing, Installing, ControlsBuilt, WholeRoot, Built
  <1>6. Selectable'
    BY <1>1, <1>2, <1>3 DEF IInv, Disk, Selectable
  <1>7. FlatFollows'
    BY <1>1, <1>2, <1>3 DEF IInv, Disk, FlatFollows, Doing, Installing
  <1>8. HiddenIsRooted'
    BY <1>1, <1>2, <1>3 DEF IInv, Disk, HiddenIsRooted
  <1>9. VisibleMatchesRow'
    BY <1>1, <1>2, <1>3 DEF IInv, Disk, VisibleMatchesRow, Doing, Installing, Publishing
  <1>10. Installing("index")'
    BY <1>1, <1>2, <1>3 DEF IInv, Doing, Installing, Built
  <1>11. Finishing("index")'
    BY <1>2, <1>3 DEF IInv, Doing, Finishing
  <1>12. Wiping("index")'
    BY <1>2, <1>3 DEF IInv, Doing, Wiping
  <1>13. Doing("audit")'
    BY <1>1, <1>2, <1>3 DEF IInv, Doing, Installing, Finishing, Wiping, Built, Runtime
  <1>14. Publishing'
    BY <1>1, <1>2, <1>3 DEF IInv, Publishing, Fallback
  <1>15. Startup'
    BY <1>1, <1>2, <1>3 DEF IInv, Startup
  <1>16. Runtime'
    BY <1>1, <1>2, <1>3 DEF IInv, Runtime
  <1>17. LockHeld'
    BY <1>1, <1>2, <1>3 DEF IInv, LockHeld
  <1> QED
    BY <1>4, <1>5, <1>6, <1>7, <1>8, <1>9, <1>10, <1>11, <1>12, <1>13, <1>14, <1>15, <1>16,
       <1>17 DEF IInv, Disk, Doing

\* Link by the startup audit.
LEMMA LinkAudit ==
    ASSUME IInv, Link("audit")
    PROVE  IInv'
  <1> USE DEF Agents, Moves, Wipes, Locked
  <1>1. /\ ~up /\ at["index"].pc = "idle" /\ lock = "none" /\ pub # "mine" /\ at["audit"].pc = "link"
        /\ mark # NoMark /\ at["audit"].gen \in Gens /\ at["audit"].goal \in {"publish", "reactivate", "rollback", "recover"}
        /\ (at["audit"].pc \in Moves => at["audit"].goal = "recover")
    BY DEF IInv, Types, Disk, HiddenIsRooted, LockHeld, Startup, Runtime, Doing, Installing, Link
  <1>2. flat' \in {flat, at["audit"].gen} /\ UNCHANGED <<head, row, revOf, root, mark, pub, lock, seen, up>>
    BY DEF Link
  <1>3. /\ at' \in [Agents -> Acts] /\ at'["index"] = at["index"]
        /\ at'["audit"].gen = at["audit"].gen
        /\ at'["audit"].root = at["audit"].root
        /\ at'["audit"].goal = at["audit"].goal
        /\ auditErr' \in BOOLEAN
        /\ \/ at'["audit"].pc = "root" /\ flat' = at["audit"].gen /\ auditErr' = auditErr
           \/ UNCHANGED flat /\ at'["audit"].pc = "inspect" /\ auditErr' = TRUE
    BY <1>1, GotoFacts DEF IInv, Types, Steps, Link, Broken, Returned, NoteError
  <1>4. Types'
    BY <1>1, <1>2, <1>3 DEF IInv, Types
  <1>5. ControlsBuilt'
    BY <1>2, <1>3 DEF IInv, Disk, Doing, Installing, ControlsBuilt, WholeRoot, Built
  <1>6. Selectable'
    BY <1>1, <1>2, <1>3 DEF IInv, Disk, Selectable
  <1>7. FlatFollows'
    BY <1>1, <1>2, <1>3 DEF IInv, Disk, FlatFollows, Doing, Installing
  <1>8. HiddenIsRooted'
    BY <1>2, <1>3 DEF IInv, Disk, HiddenIsRooted
  <1>9. VisibleMatchesRow'
    BY <1>1, <1>2, <1>3 DEF IInv, Disk, VisibleMatchesRow, Doing, Installing
  <1>10. Installing("audit")'
    BY <1>1, <1>2, <1>3 DEF IInv, Doing, Installing, Built
  <1>11. Finishing("audit")'
    BY <1>2, <1>3 DEF IInv, Doing, Finishing
  <1>12. Wiping("audit")'
    BY <1>2, <1>3 DEF IInv, Doing, Wiping
  <1>13. Doing("index")'
    BY <1>1, <1>2, <1>3 DEF IInv, Doing, Installing, Finishing, Wiping, Built
  <1>14. Publishing'
    BY <1>1, <1>2, <1>3 DEF IInv, Publishing
  <1>15. Startup'
    BY <1>2, <1>3 DEF IInv, Startup
  <1>16. Runtime'
    BY <1>1, <1>2, <1>3 DEF IInv, Runtime
  <1>17. LockHeld'
    BY <1>1, <1>2, <1>3 DEF IInv, LockHeld
  <1> QED
    BY <1>4, <1>5, <1>6, <1>7, <1>8, <1>9, <1>10, <1>11, <1>12, <1>13, <1>14, <1>15, <1>16,
       <1>17 DEF IInv, Disk, Doing

\* Wipe by Index: there is no row.
LEMMA WipeIndex ==
    ASSUME IInv, Wipe("index")
    PROVE  IInv'
  <1> USE DEF Agents, Moves, Wipes, Locked
  <1>1. /\ up /\ lock = "index" /\ pub # "other" /\ at["index"].pc \in Wipes
        /\ row = None /\ at["index"].goal \in {"rollback", "recover"} /\ (at["index"].goal = "recover" \/ pub # "other")
    BY DEF IInv, LockHeld, Startup, Runtime, Doing, Wiping, Wipe
  <1>2. UNCHANGED <<head, row, revOf, lock, seen, auditErr, up>>
    BY DEF Wipe, disk, audit, bounds
  <1>3. /\ at' \in [Agents -> Acts] /\ at'["audit"] = at["audit"]
        /\ at'["index"].gen = at["index"].gen
        /\ at'["index"].root = at["index"].root
        /\ at'["index"].goal = at["index"].goal
        /\ \/ /\ at["index"].pc = "wipe" /\ at'["index"].pc = "wipe flat"
              /\ pub' = "none" /\ UNCHANGED <<flat, root, mark>>
           \/ /\ at["index"].pc = "wipe flat" /\ at'["index"].pc = "wipe root"
              /\ flat' \in {None, Partial} /\ UNCHANGED <<root, mark, pub>>
           \/ /\ at["index"].pc = "wipe root" /\ at'["index"].pc = "wipe mark"
              /\ root' = NoRoot /\ UNCHANGED <<flat, mark, pub>>
           \/ /\ at["index"].pc = "wipe mark" /\ at'["index"].pc = "wipe rest"
              /\ mark' = NoMark /\ UNCHANGED <<flat, root, pub>>
           \/ /\ at["index"].pc = "wipe rest" /\ at'["index"].pc = "unmark"
              /\ flat' = None /\ UNCHANGED <<root, mark, pub>>
    BY GotoFacts DEF IInv, Types, Steps, Wipe
  <1>4. Types'
    BY <1>2, <1>3, Absent, NoneTyped DEF IInv, Types
  <1>5. ControlsBuilt'
    <2>1. WholeRoot(root)' /\ Built(flat)'
      BY <1>2, <1>3, Absent DEF IInv, Disk, ControlsBuilt, WholeRoot, Built
    <2>2. CASE UNCHANGED mark
      BY <1>2, <2>1, <2>2 DEF IInv, Disk, ControlsBuilt, WholeRoot, Built
    <2>3. CASE mark' = NoMark
      BY <2>1, <2>3 DEF ControlsBuilt
    <2> QED
      BY <1>3, <2>2, <2>3
  <1>6. Selectable'
    BY <1>1, <1>2, <1>3 DEF IInv, Disk, Selectable
  <1>7. FlatFollows'
    BY <1>2, <1>3, Absent DEF IInv, Disk, FlatFollows, Doing, Wiping
  <1>8. HiddenIsRooted'
    BY <1>2, <1>3 DEF IInv, HiddenIsRooted, Doing, Wiping
  <1>9. VisibleMatchesRow'
    BY <1>1, <1>2, <1>3 DEF IInv, Disk, VisibleMatchesRow
  <1>10. Installing("index")'
    BY <1>2, <1>3 DEF IInv, Doing, Installing, Built
  <1>11. Finishing("index")'
    BY <1>2, <1>3 DEF IInv, Doing, Wiping, Finishing, RootCarriesRow
  <1>12. Wiping("index")'
    BY <1>2, <1>3, Absent DEF IInv, Doing, Wiping
  <1>13. Doing("audit")'
    BY <1>2, <1>3 DEF IInv, Doing, Installing, Finishing, Wiping, Built, Startup, Runtime
  <1>14. Publishing'
    BY <1>2, <1>3 DEF IInv, Publishing
  <1>15. Startup'
    BY <1>2, <1>3 DEF IInv, Startup
  <1>16. Runtime'
    BY <1>2, <1>3 DEF IInv, Runtime
  <1>17. LockHeld'
    BY <1>2, <1>3 DEF IInv, LockHeld
  <1> QED
    BY <1>4, <1>5, <1>6, <1>7, <1>8, <1>9, <1>10, <1>11, <1>12, <1>13, <1>14, <1>15, <1>16,
       <1>17 DEF IInv, Disk, Doing

\* Wipe by the startup audit.
LEMMA WipeAudit ==
    ASSUME IInv, Wipe("audit")
    PROVE  IInv'
  <1> USE DEF Agents, Moves, Wipes, Locked
  <1>1. /\ ~up /\ at["index"].pc = "idle" /\ lock = "none" /\ pub # "mine" /\ at["audit"].pc \in Wipes
        /\ row = None /\ at["audit"].goal \in {"rollback", "recover"} /\ (at["audit"].goal = "recover" \/ pub # "other")
    BY DEF IInv, Types, Disk, HiddenIsRooted, LockHeld, Startup, Runtime, Doing, Wiping, Wipe
  <1>2. UNCHANGED <<head, row, revOf, lock, seen, auditErr, up>>
    BY DEF Wipe, disk, audit, bounds
  <1>3. /\ at' \in [Agents -> Acts] /\ at'["index"] = at["index"]
        /\ at'["audit"].gen = at["audit"].gen
        /\ at'["audit"].root = at["audit"].root
        /\ at'["audit"].goal = at["audit"].goal
        /\ \/ /\ at["audit"].pc = "wipe" /\ at'["audit"].pc = "wipe flat"
              /\ pub' = "none" /\ UNCHANGED <<flat, root, mark>>
           \/ /\ at["audit"].pc = "wipe flat" /\ at'["audit"].pc = "wipe root"
              /\ flat' \in {None, Partial} /\ UNCHANGED <<root, mark, pub>>
           \/ /\ at["audit"].pc = "wipe root" /\ at'["audit"].pc = "wipe mark"
              /\ root' = NoRoot /\ UNCHANGED <<flat, mark, pub>>
           \/ /\ at["audit"].pc = "wipe mark" /\ at'["audit"].pc = "wipe rest"
              /\ mark' = NoMark /\ UNCHANGED <<flat, root, pub>>
           \/ /\ at["audit"].pc = "wipe rest" /\ at'["audit"].pc = "unmark"
              /\ flat' = None /\ UNCHANGED <<root, mark, pub>>
    BY GotoFacts DEF IInv, Types, Steps, Wipe
  <1>4. Types'
    BY <1>2, <1>3, Absent, NoneTyped DEF IInv, Types
  <1>5. ControlsBuilt'
    <2>1. WholeRoot(root)' /\ Built(flat)'
      BY <1>2, <1>3, Absent DEF IInv, Disk, ControlsBuilt, WholeRoot, Built
    <2>2. CASE UNCHANGED mark
      BY <1>2, <2>1, <2>2 DEF IInv, Disk, ControlsBuilt, WholeRoot, Built
    <2>3. CASE mark' = NoMark
      BY <2>1, <2>3 DEF ControlsBuilt
    <2> QED
      BY <1>3, <2>2, <2>3
  <1>6. Selectable'
    BY <1>1, <1>2, <1>3 DEF IInv, Disk, Selectable
  <1>7. FlatFollows'
    BY <1>2, <1>3, Absent DEF IInv, Disk, FlatFollows, Doing, Wiping
  <1>8. HiddenIsRooted'
    BY <1>2, <1>3 DEF IInv, HiddenIsRooted, Doing, Wiping
  <1>9. VisibleMatchesRow'
    BY <1>1, <1>2, <1>3 DEF IInv, Disk, VisibleMatchesRow
  <1>10. Installing("audit")'
    BY <1>2, <1>3 DEF IInv, Doing, Installing, Built
  <1>11. Finishing("audit")'
    BY <1>2, <1>3 DEF IInv, Doing, Wiping, Finishing, RootCarriesRow
  <1>12. Wiping("audit")'
    BY <1>2, <1>3, Absent DEF IInv, Doing, Wiping
  <1>13. Doing("index")'
    BY <1>2, <1>3 DEF IInv, Doing, Installing, Finishing, Wiping, Built, Startup, Runtime
  <1>14. Publishing'
    BY <1>1, <1>2, <1>3 DEF IInv, Publishing
  <1>15. Startup'
    BY <1>2, <1>3 DEF IInv, Startup
  <1>16. Runtime'
    BY <1>2, <1>3 DEF IInv, Runtime
  <1>17. LockHeld'
    BY <1>2, <1>3 DEF IInv, LockHeld
  <1> QED
    BY <1>4, <1>5, <1>6, <1>7, <1>8, <1>9, <1>10, <1>11, <1>12, <1>13, <1>14, <1>15, <1>16,
       <1>17 DEF IInv, Disk, Doing

\* Rollback: the previous root carries the row, or there is no row.
LEMMA RollbackKeeps ==
    ASSUME IInv, Rollback
    PROVE  IInv'
  <1> USE DEF Agents, Moves, Wipes, Locked
  <1>1. /\ up /\ lock = "index" /\ pub = "mine" /\ at["index"].pc = "rollback" /\ mark # NoMark
        /\ mark.prev = NoRoot => row = None
        /\ mark.prev # NoRoot => mark.prev.cur \in Gens /\ Built(mark.prev.cur) /\ Built(mark.prev.prior)
        /\ mark.prev \in Roots
    BY DEF IInv, Types, Disk, ControlsBuilt, WholeRoot, HiddenIsRooted, LockHeld, Publishing,
       Fallback, Rollback
  <1>2. UNCHANGED <<head, row, revOf, flat, root, mark, pub, lock, seen, auditErr, up>>
    BY DEF Rollback, disk, audit, bounds
  <1>3. /\ at' \in [Agents -> Acts] /\ at'["audit"] = at["audit"]
        /\ \/ /\ mark.prev # NoRoot /\ at'["index"].pc = "install" /\ at'["index"].goal = "rollback"
              /\ at'["index"].gen = mark.prev.cur /\ at'["index"].root = mark.prev
           \/ /\ at'["index"].gen = at["index"].gen /\ at'["index"].root = at["index"].root
              /\ \/ mark.prev = NoRoot /\ at'["index"].pc = "wipe" /\ at'["index"].goal = "rollback"
                 \/ at'["index"].pc = "clear"
    <2>1. at \in [Agents -> Acts] /\ {"wipe", "clear"} \subseteq Steps /\ "rollback" \in Goals
      BY DEF IInv, Types, Steps, Goals
    <2>2. \/ mark.prev # NoRoot /\ StartInstall("index", mark.prev.cur, mark.prev, "rollback")
          \/ mark.prev = NoRoot /\ at' = [at EXCEPT !["index"].pc = "wipe", !["index"].goal = "rollback"]
          \/ Goto("index", "clear")
      BY DEF Rollback
    <2> QED
      BY <1>1, <2>1, <2>2, GotoFacts, GoalFacts, InstallFacts
  <1>4. Types'
    BY <1>2, <1>3 DEF IInv, Types
  <1>5. HiddenIsRooted'
    BY <1>1, <1>2, <1>3 DEF IInv, Disk, HiddenIsRooted
  <1>6. Disk'
    BY <1>2, <1>5, SameDisk DEF IInv
  <1>7. Installing("index")'
    BY <1>1, <1>2, <1>3 DEF IInv, Doing, Installing, Built, Publishing, Fallback
  <1>8. Finishing("index")'
    BY <1>2, <1>3 DEF IInv, Doing, Finishing
  <1>9. Wiping("index")'
    BY <1>1, <1>2, <1>3 DEF IInv, Doing, Wiping
  <1>10. Doing("audit")'
    BY <1>2, <1>3, SameAgent DEF IInv
  <1>11. Publishing'
    BY <1>2, <1>3 DEF IInv, Publishing
  <1>12. Startup'
    BY <1>1, <1>2, <1>3 DEF IInv, Startup
  <1>13. Runtime'
    BY <1>1, <1>2, <1>3 DEF IInv, Runtime
  <1>14. LockHeld'
    BY <1>1, <1>2, <1>3 DEF IInv, LockHeld
  <1> QED
    BY <1>4, <1>6, <1>7, <1>8, <1>9, <1>10, <1>11, <1>12, <1>13, <1>14 DEF IInv, Doing

------------------------------------------------------------------------------
(* RecoverSearchPublication *)

\* Recover by Index installs the generation that carries the row,
LEMMA IndexInstalls ==
    ASSUME IInv, at["index"].pc = "recover", NEW g \in Gens, NEW r \in Roots, mark # NoMark,
           g \in {mark.cand, mark.prev.cur}, r.cur = g, Built(g), Built(r.prior), revOf[g] = row,
           StartInstall("index", g, r, "recover"), UNCHANGED <<head, row, revOf, flat, root, mark, pub, lock, seen, auditErr, up>>
    PROVE  IInv'
  <1> USE DEF Agents, Moves, Wipes, Locked
  <1>1. up /\ lock = "index" /\ (pub = "other" => row = None) /\ pub # "other"
    BY DEF IInv, Built, LockHeld, Startup, Runtime
  <1>2. /\ at' \in [Agents -> Acts] /\ at'["audit"] = at["audit"]
        /\ at'["index"].pc = "install"
        /\ at'["index"].gen = g
        /\ at'["index"].root = r
        /\ at'["index"].goal = "recover"
    BY InstallFacts DEF IInv, Types, Goals
  <1>3. Types'
    BY <1>2 DEF IInv, Types
  <1>4. HiddenIsRooted'
    BY <1>2 DEF IInv, Disk, HiddenIsRooted
  <1>5. Disk'
    BY <1>4, SameDisk DEF IInv
  <1>6. Installing("index")'
    BY <1>2 DEF IInv, Doing, Installing, Built
  <1>7. Finishing("index")'
    BY <1>2 DEF IInv, Doing, Finishing
  <1>8. Wiping("index")'
    BY <1>2 DEF IInv, Doing, Wiping
  <1>9. Doing("audit")'
    BY <1>2, SameAgent DEF IInv
  <1>10. Publishing'
    BY <1>2 DEF IInv, Publishing
  <1>11. Startup'
    BY <1>2 DEF IInv, Startup
  <1>12. Runtime'
    BY <1>1, <1>2 DEF IInv, Runtime
  <1>13. LockHeld'
    BY <1>2 DEF IInv, LockHeld
  <1> QED
    BY <1>3, <1>5, <1>6, <1>7, <1>8, <1>9, <1>10, <1>11, <1>12, <1>13 DEF IInv, Doing

\* ... removes all files, when there is neither row nor previous root,
LEMMA IndexWipes ==
    ASSUME IInv, at["index"].pc = "recover", row = None, pub # "other",
           at' = [at EXCEPT !["index"].pc = "wipe", !["index"].goal = "recover"], UNCHANGED <<head, row, revOf, flat, root, mark, pub, lock, seen, auditErr, up>>
    PROVE  IInv'
  <1> USE DEF Agents, Moves, Wipes, Locked
  <1>1. up /\ lock = "index" /\ (pub = "other" => row = None)
    BY DEF IInv, LockHeld, Startup
  <1>2. /\ at' \in [Agents -> Acts] /\ at'["audit"] = at["audit"]
        /\ at'["index"].pc = "wipe"
        /\ at'["index"].gen = at["index"].gen
        /\ at'["index"].root = at["index"].root
        /\ at'["index"].goal = "recover"
    BY GoalFacts DEF IInv, Types, Steps, Goals
  <1>3. Types'
    BY <1>2 DEF IInv, Types
  <1>4. HiddenIsRooted'
    BY <1>2 DEF IInv, Disk, HiddenIsRooted
  <1>5. Disk'
    BY <1>4, SameDisk DEF IInv
  <1>6. Installing("index")'
    BY <1>2 DEF IInv, Doing, Installing, Built
  <1>7. Finishing("index")'
    BY <1>2 DEF IInv, Doing, Finishing
  <1>8. Wiping("index")'
    BY <1>2 DEF IInv, Doing, Wiping
  <1>9. Doing("audit")'
    BY <1>2, SameAgent DEF IInv
  <1>10. Publishing'
    BY <1>2 DEF IInv, Publishing
  <1>11. Startup'
    BY <1>2 DEF IInv, Startup
  <1>12. Runtime'
    BY <1>2 DEF IInv, Runtime
  <1>13. LockHeld'
    BY <1>2 DEF IInv, LockHeld
  <1> QED
    BY <1>3, <1>5, <1>6, <1>7, <1>8, <1>9, <1>10, <1>11, <1>12, <1>13 DEF IInv, Doing

\* ... fails,
LEMMA IndexFails ==
    ASSUME IInv, at["index"].pc \in {"recover", "resolve", "build", "prepare"}, Goto("index", "failed"), UNCHANGED <<head, row, revOf, flat, root, mark, pub, lock, seen, auditErr, up>>
    PROVE  IInv'
  <1> USE DEF Agents, Moves, Wipes, Locked
  <1>1. up /\ lock = "index" /\ (pub = "other" => row = None)
    BY DEF IInv, LockHeld, Startup, Runtime
  <1>2. /\ at' \in [Agents -> Acts] /\ at'["audit"] = at["audit"]
        /\ at'["index"].pc = "failed"
        /\ at'["index"].gen = at["index"].gen
        /\ at'["index"].root = at["index"].root
        /\ at'["index"].goal = at["index"].goal
    BY GotoFacts DEF IInv, Types, Steps
  <1>3. Types'
    BY <1>2 DEF IInv, Types
  <1>4. HiddenIsRooted'
    BY <1>2 DEF IInv, Disk, HiddenIsRooted
  <1>5. Disk'
    BY <1>4, SameDisk DEF IInv
  <1>6. Installing("index")'
    BY <1>2 DEF IInv, Doing, Installing, Built
  <1>7. Finishing("index")'
    BY <1>2 DEF IInv, Doing, Finishing
  <1>8. Wiping("index")'
    BY <1>2 DEF IInv, Doing, Wiping
  <1>9. Doing("audit")'
    BY <1>2, SameAgent DEF IInv
  <1>10. Publishing'
    BY <1>2 DEF IInv, Publishing
  <1>11. Startup'
    BY <1>2 DEF IInv, Startup
  <1>12. Runtime'
    BY <1>2 DEF IInv, Runtime, NotWipeable
  <1>13. LockHeld'
    BY <1>2 DEF IInv, LockHeld
  <1> QED
    BY <1>3, <1>5, <1>6, <1>7, <1>8, <1>9, <1>10, <1>11, <1>12, <1>13 DEF IInv, Doing

\* ... or goes on, when the root carries the row or there is nothing;
LEMMA IndexGoesOn ==
    ASSUME IInv, at["index"].pc = "recover", Goto("index", "resolve"), mark = NoMark, pub = "none",
           row # None => root # NoRoot, UNCHANGED <<head, row, revOf, flat, root, mark, pub, lock, seen, auditErr, up>>
    PROVE  IInv'
  <1> USE DEF Agents, Moves, Wipes, Locked
  <1>1. up /\ lock = "index" /\ (pub = "other" => row = None)
    BY DEF IInv, LockHeld, Startup
  <1>2. /\ at' \in [Agents -> Acts] /\ at'["audit"] = at["audit"]
        /\ at'["index"].pc = "resolve"
        /\ at'["index"].gen = at["index"].gen
        /\ at'["index"].root = at["index"].root
        /\ at'["index"].goal = at["index"].goal
    BY GotoFacts DEF IInv, Types, Steps
  <1>3. Types'
    BY <1>2 DEF IInv, Types
  <1>4. HiddenIsRooted'
    BY <1>2 DEF IInv, Disk, HiddenIsRooted
  <1>5. Disk'
    BY <1>4, SameDisk DEF IInv
  <1>6. Installing("index")'
    BY <1>2 DEF IInv, Doing, Installing, Built
  <1>7. Finishing("index")'
    BY <1>2 DEF IInv, Doing, Finishing
  <1>8. Wiping("index")'
    BY <1>2 DEF IInv, Doing, Wiping
  <1>9. Doing("audit")'
    BY <1>2, SameAgent DEF IInv
  <1>10. Publishing'
    BY <1>2 DEF IInv, Publishing
  <1>11. Startup'
    BY <1>2 DEF IInv, Startup
  <1>12. Runtime'
    BY <1>2 DEF IInv, Runtime
  <1>13. LockHeld'
    BY <1>2 DEF IInv, LockHeld
  <1> QED
    BY <1>3, <1>5, <1>6, <1>7, <1>8, <1>9, <1>10, <1>11, <1>12, <1>13 DEF IInv, Doing

\* Recover by the startup audit installs the generation that carries the row,
LEMMA AuditInstalls ==
    ASSUME IInv, at["audit"].pc = "recover", NEW g \in Gens, NEW r \in Roots, mark # NoMark,
           g \in {mark.cand, mark.prev.cur}, r.cur = g, Built(g), Built(r.prior), revOf[g] = row,
           StartInstall("audit", g, r, "recover"), ~up, UNCHANGED <<head, row, revOf, flat, root, mark, pub, lock, seen, auditErr, up>>
    PROVE  IInv'
  <1> USE DEF Agents, Moves, Wipes, Locked
  <1>1. pub = "other" /\ lock # "audit" /\ at["index"].pc = "idle"
    BY DEF IInv, LockHeld, Startup
  <1>2. /\ at' \in [Agents -> Acts] /\ at'["index"] = at["index"]
        /\ at'["audit"].pc = "install"
        /\ at'["audit"].gen = g
        /\ at'["audit"].root = r
        /\ at'["audit"].goal = "recover"
    BY InstallFacts DEF IInv, Types, Goals
  <1>3. Types'
    BY <1>2 DEF IInv, Types
  <1>4. HiddenIsRooted'
    BY <1>2 DEF IInv, Disk, HiddenIsRooted
  <1>5. Disk'
    BY <1>4, SameDisk DEF IInv
  <1>6. Installing("audit")'
    BY <1>2 DEF IInv, Doing, Installing, Built
  <1>7. Finishing("audit")'
    BY <1>2 DEF IInv, Doing, Finishing
  <1>8. Wiping("audit")'
    BY <1>2 DEF IInv, Doing, Wiping
  <1>9. Doing("index")'
    BY <1>2, SameAgent DEF IInv
  <1>10. Publishing'
    BY <1>2, SameIndex DEF IInv
  <1>11. Startup'
    BY <1>2 DEF IInv, Startup
  <1>12. Runtime'
    BY <1>2 DEF IInv, Runtime
  <1>13. LockHeld'
    BY <1>2 DEF IInv, LockHeld
  <1> QED
    BY <1>3, <1>5, <1>6, <1>7, <1>8, <1>9, <1>10, <1>11, <1>12, <1>13 DEF IInv, Doing

\* ... removes all files,
LEMMA AuditWipes ==
    ASSUME IInv, at["audit"].pc = "recover", row = None, ~up,
           at' = [at EXCEPT !["audit"].pc = "wipe", !["audit"].goal = "recover"], UNCHANGED <<head, row, revOf, flat, root, mark, pub, lock, seen, auditErr, up>>
    PROVE  IInv'
  <1> USE DEF Agents, Moves, Wipes, Locked
  <1>1. pub = "other" /\ lock # "audit" /\ at["index"].pc = "idle"
    BY DEF IInv, LockHeld, Startup
  <1>2. /\ at' \in [Agents -> Acts] /\ at'["index"] = at["index"]
        /\ at'["audit"].pc = "wipe"
        /\ at'["audit"].gen = at["audit"].gen
        /\ at'["audit"].root = at["audit"].root
        /\ at'["audit"].goal = "recover"
    BY GoalFacts DEF IInv, Types, Steps, Goals
  <1>3. Types'
    BY <1>2 DEF IInv, Types
  <1>4. HiddenIsRooted'
    BY <1>2 DEF IInv, Disk, HiddenIsRooted
  <1>5. Disk'
    BY <1>4, SameDisk DEF IInv
  <1>6. Installing("audit")'
    BY <1>2 DEF IInv, Doing, Installing, Built
  <1>7. Finishing("audit")'
    BY <1>2 DEF IInv, Doing, Finishing
  <1>8. Wiping("audit")'
    BY <1>2 DEF IInv, Doing, Wiping
  <1>9. Doing("index")'
    BY <1>2, SameAgent DEF IInv
  <1>10. Publishing'
    BY <1>2, SameIndex DEF IInv
  <1>11. Startup'
    BY <1>2 DEF IInv, Startup
  <1>12. Runtime'
    BY <1>2 DEF IInv, Runtime
  <1>13. LockHeld'
    BY <1>2 DEF IInv, LockHeld
  <1> QED
    BY <1>3, <1>5, <1>6, <1>7, <1>8, <1>9, <1>10, <1>11, <1>12, <1>13 DEF IInv, Doing

\* ... or leaves them.  A later audit can do no more than that.
LEMMA AuditGoesOn ==
    ASSUME IInv, at["audit"].pc = "recover", Goto("audit", "committed"), NotWipeable,
           ~up /\ row # None => mark = NoMark, UNCHANGED <<head, row, revOf, flat, root, mark, pub, lock, seen, auditErr, up>>
    PROVE  IInv'
  <1> USE DEF Agents, Moves, Wipes, Locked
  <1>1. pub = "other" /\ lock # "audit"
    BY DEF IInv, LockHeld, Startup, Runtime
  <1>2. /\ at' \in [Agents -> Acts] /\ at'["index"] = at["index"]
        /\ at'["audit"].pc = "committed"
        /\ at'["audit"].gen = at["audit"].gen
        /\ at'["audit"].root = at["audit"].root
        /\ at'["audit"].goal = at["audit"].goal
    BY GotoFacts DEF IInv, Types, Steps
  <1>3. Types'
    BY <1>2 DEF IInv, Types
  <1>4. HiddenIsRooted'
    BY <1>2 DEF IInv, Disk, HiddenIsRooted
  <1>5. Disk'
    BY <1>4, SameDisk DEF IInv
  <1>6. Installing("audit")'
    BY <1>2 DEF IInv, Doing, Installing, Built
  <1>7. Finishing("audit")'
    BY <1>2 DEF IInv, Doing, Finishing
  <1>8. Wiping("audit")'
    BY <1>2 DEF IInv, Doing, Wiping
  <1>9. Doing("index")'
    BY <1>2, SameAgent DEF IInv
  <1>10. Publishing'
    BY <1>2, SameIndex DEF IInv
  <1>11. Startup'
    BY <1>2 DEF IInv, Startup, NotWipeable
  <1>12. Runtime'
    BY <1>2 DEF IInv, Runtime, NotWipeable
  <1>13. LockHeld'
    BY <1>2 DEF IInv, LockHeld
  <1> QED
    BY <1>3, <1>5, <1>6, <1>7, <1>8, <1>9, <1>10, <1>11, <1>12, <1>13 DEF IInv, Doing

\* Flat files without controls are adopted when they carry the row,
LEMMA IndexAdopts ==
    ASSUME IInv, at["index"].pc = "recover", mark = NoMark, root = NoRoot, flat \in Gens,
           at' = [at EXCEPT !["index"] = [pc |-> "adopt", gen |-> flat, goal |-> "recover",
                                          root |-> [cur |-> flat, prior |-> None]]],
           UNCHANGED <<head, row, revOf, flat, root, mark, pub, lock, seen, auditErr, up>>
    PROVE  IInv'
  <1> USE DEF Agents, Moves, Wipes, Locked
  <1> DEFINE x == [pc |-> "adopt", gen |-> flat, goal |-> "recover",
                   root |-> [cur |-> flat, prior |-> None]]
  <1>1. up /\ lock = "index" /\ pub = "none" /\ Built(flat)
    BY DEF IInv, Disk, ControlsBuilt, HiddenIsRooted, LockHeld, Startup
  <1>2. x \in Acts
    BY DEF Acts, Steps, Goals, Roots
  <1>3. /\ at' \in [Agents -> Acts] /\ at'["audit"] = at["audit"]
        /\ at'["index"].pc = "adopt" /\ at'["index"].gen = flat /\ at'["index"].goal = "recover"
        /\ at'["index"].root = [cur |-> flat, prior |-> None] /\ at'["index"].root.prior = None
    BY <1>2 DEF IInv, Types
  <1>4. Types'
    BY <1>3 DEF IInv, Types
  <1>5. HiddenIsRooted'
    BY <1>1, <1>3 DEF IInv, Disk, HiddenIsRooted
  <1>6. Disk'
    BY <1>5, SameDisk DEF IInv
  <1>7. Installing("index")'
    BY <1>1, <1>3, Absent DEF Installing, Built
  <1>8. Finishing("index")' /\ Wiping("index")'
    BY <1>3 DEF Finishing, Wiping
  <1>9. Doing("audit")'
    BY <1>3, SameAgent DEF IInv
  <1>10. Publishing'
    BY <1>1, <1>3 DEF IInv, Publishing
  <1>11. Startup' /\ Runtime'
    BY <1>1, <1>3 DEF IInv, Startup, Runtime
  <1>12. LockHeld'
    BY <1>1, <1>3 DEF IInv, LockHeld
  <1> QED
    BY <1>4, <1>6, <1>7, <1>8, <1>9, <1>10, <1>11, <1>12 DEF IInv, Doing

\* ... and its root is written.
LEMMA RootAdopted ==
    ASSUME IInv, WriteRoot("index"), at["index"].pc = "adopt"
    PROVE  IInv'
  <1> USE DEF Agents, Moves, Wipes, Locked
  <1>1. /\ up /\ lock = "index" /\ pub = "none" /\ mark = NoMark /\ root = NoRoot /\ flat \in Gens
        /\ at["index"].root = [cur |-> flat, prior |-> None] /\ revOf[flat] # None
    BY DEF IInv, Disk, ControlsBuilt, Built, LockHeld, Startup, Publishing
  <1>2. /\ root'.cur = flat /\ root'.prior = None /\ root' # NoRoot /\ root' \in Roots
        /\ UNCHANGED <<head, row, revOf, flat, mark, pub, lock, seen, auditErr, up>>
    BY <1>1, Absent DEF WriteRoot, Roots, NoRoot, audit
  <1>3. /\ at' \in [Agents -> Acts] /\ at'["audit"] = at["audit"]
        /\ at'["index"].pc = "resolve"
        /\ at'["index"].gen = at["index"].gen
        /\ at'["index"].root = at["index"].root
        /\ at'["index"].goal = at["index"].goal
    <2>1. at \in [Agents -> Acts] /\ "resolve" \in Steps
      BY DEF IInv, Types, Steps
    <2>2. Goto("index", "resolve")
      BY DEF WriteRoot, Returned
    <2> QED
      BY <2>1, <2>2, GotoFacts
  <1>4. Types'
    BY <1>1, <1>2, <1>3 DEF IInv, Types
  <1>5. ControlsBuilt'
    BY <1>1, <1>2, <1>3, Absent DEF IInv, Disk, ControlsBuilt, WholeRoot, Built
  <1>6. Selectable'
    BY <1>1, <1>2, <1>3 DEF IInv, Disk, Selectable
  <1>7. FlatFollows'
    BY <1>1, <1>2, <1>3 DEF IInv, Disk, FlatFollows
  <1>8. HiddenIsRooted'
    BY <1>1, <1>2, <1>3 DEF IInv, Disk, HiddenIsRooted
  <1>9. VisibleMatchesRow'
    BY <1>1, <1>2, <1>3 DEF IInv, Disk, VisibleMatchesRow
  <1>10. Installing("index")'
    BY <1>1, <1>2, <1>3 DEF IInv, Doing, Installing, Built
  <1>11. Finishing("index")'
    BY <1>1, <1>2, <1>3 DEF IInv, Doing, Finishing
  <1>12. Wiping("index")'
    BY <1>1, <1>2, <1>3 DEF IInv, Doing, Wiping
  <1>13. Doing("audit")'
    BY <1>1, <1>2, <1>3 DEF IInv, Doing, Installing, Finishing, Wiping, Built, RootCarriesRow
  <1>14. Publishing'
    BY <1>1, <1>2, <1>3 DEF IInv, Publishing
  <1>15. Startup'
    BY <1>1, <1>2, <1>3 DEF IInv, Startup
  <1>16. Runtime'
    BY <1>1, <1>2, <1>3 DEF IInv, Runtime
  <1>17. LockHeld'
    BY <1>1, <1>2, <1>3 DEF IInv, LockHeld
  <1> QED
    BY <1>4, <1>5, <1>6, <1>7, <1>8, <1>9, <1>10, <1>11, <1>12, <1>13, <1>14, <1>15, <1>16,
       <1>17 DEF IInv, Disk, Doing

\* WriteRoot by Index is one of the two.
LEMMA WriteRootIndex ==
    ASSUME IInv, WriteRoot("index")
    PROVE  IInv'
  BY RootInstalled, RootAdopted DEF WriteRoot

\* Recover by Index is one of the cases above.
LEMMA RecoverIndex ==
    ASSUME IInv, Recover("index", row)
    PROVE  IInv'
  <1>1. /\ at["index"].pc = "recover" /\ (pub = "other" => row = None /\ NotWipeable)
        /\ mark = NoMark /\ root = NoRoot => pub = "none" /\ (row # None => flat \in Gens)
        /\ mark = NoMark /\ row # None => pub = "none"
        /\ WholeRoot(root) /\ (mark # NoMark => mark.cand \in Gens /\ Built(mark.cand) /\ WholeRoot(mark.prev))
    BY DEF Recover, IInv, Types, Runtime, Startup, Disk, ControlsBuilt, Selectable, HiddenIsRooted
  <1>2. UNCHANGED <<head, row, revOf, flat, root, mark, pub, lock, seen, auditErr, up>>
    BY DEF Recover, audit
  <1>3. CASE mark = NoMark /\ root # NoRoot
    <2>1. Goto("index", IF revOf[root.cur] = row THEN "resolve" ELSE "failed")
      BY <1>3 DEF Recover, Returned
    <2>2. CASE revOf[root.cur] = row
      <3>1. row # None
        BY <1>1, <1>3, <2>2 DEF WholeRoot, Built
      <3> QED
        BY <1>1, <1>2, <1>3, <2>1, <2>2, <3>1, IndexGoesOn
    <2> QED
      BY <1>1, <1>2, <2>1, <2>2, IndexFails
  <1>4. CASE mark = NoMark /\ root = NoRoot
    <2>1. CASE row = None \/ flat \notin Gens
      <3>1. Goto("index", "resolve")
        BY <1>4, <2>1 DEF Recover, Returned
      <3> QED
        BY <1>1, <1>2, <1>4, <2>1, <3>1, IndexGoesOn
    <2>2. CASE row # None /\ flat \in Gens
      <3>1. revOf[flat] = row
        BY <1>4, <2>2 DEF IInv, Disk, Selectable
      <3>2. at' = [at EXCEPT !["index"] = [pc |-> "adopt", gen |-> flat, goal |-> "recover",
                                           root |-> [cur |-> flat, prior |-> None]]]
        BY <1>4, <2>2, <3>1 DEF Recover
      <3> QED
        BY <1>1, <1>2, <1>4, <2>2, <3>2, IndexAdopts
    <2> QED
      BY <2>1, <2>2
  <1>5. CASE mark # NoMark
    <2>1. root' = root
      BY <1>5 DEF Recover
    <2>2. CASE revOf[mark.cand] = row
      <3>1. StartInstall("index", mark.cand, Prospective(mark), "recover")
        BY <1>1, <1>5, <2>2 DEF Recover, Built
      <3>2. Prospective(mark) \in Roots /\ Prospective(mark).cur = mark.cand /\ Built(Prospective(mark).prior)
        BY <1>1, <1>5, Absent DEF Prospective, WholeRoot, Built, Roots, NoRoot
      <3> QED
        BY <1>1, <1>2, <1>5, <2>1, <2>2, <3>1, <3>2, IndexInstalls
    <2>3. CASE revOf[mark.cand] # row /\ mark.prev # NoRoot /\ revOf[mark.prev.cur] = row
      <3>1. StartInstall("index", mark.prev.cur, mark.prev, "recover")
        BY <1>5, <2>3 DEF Recover
      <3>2. mark.prev \in Roots /\ mark.prev.cur \in Gens /\ Built(mark.prev.cur) /\ Built(mark.prev.prior)
        BY <1>1, <1>5, <2>3 DEF WholeRoot, IInv, Types
      <3> QED
        BY <1>1, <1>2, <1>5, <2>1, <2>3, <3>1, <3>2, IndexInstalls
    <2>4. CASE revOf[mark.cand] # row /\ mark.prev = NoRoot /\ row = None
      <3>1. at' = [at EXCEPT !["index"].pc = "wipe", !["index"].goal = "recover"]
        BY <1>5, <2>4 DEF Recover
      <3> QED
        BY <1>1, <1>2, <1>5, <2>1, <2>4, <3>1, IndexWipes DEF NotWipeable
    <2>5. CASE /\ revOf[mark.cand] # row /\ ~ (mark.prev # NoRoot /\ revOf[mark.prev.cur] = row)
               /\ ~ (mark.prev = NoRoot /\ row = None)
      <3>1. Goto("index", "failed")
        BY <1>5, <2>5 DEF Recover, Returned
      <3> QED
        BY <1>1, <1>2, <2>1, <3>1, IndexFails
    <2> QED
      BY <2>2, <2>3, <2>4, <2>5
  <1> QED
    BY <1>3, <1>4, <1>5

\* Recover by the audit is one of the cases above.
LEMMA RecoverAudit ==
    ASSUME IInv, Recover("audit", seen)
    PROVE  IInv'
  <1>1. /\ at["audit"].pc = "recover" /\ pub = "other"
        /\ up => seen = None /\ NotWipeable
        /\ ~up => seen = row
        /\ mark = NoMark => root # NoRoot
        /\ WholeRoot(root) /\ (mark # NoMark => mark.cand \in Gens /\ Built(mark.cand) /\ WholeRoot(mark.prev))
    BY DEF Recover, IInv, Runtime, Startup, Disk, ControlsBuilt, HiddenIsRooted
  <1>2. UNCHANGED <<head, row, revOf, flat, root, mark, pub, lock, seen, auditErr, up>>
    BY DEF Recover, audit
  <1>3. CASE mark = NoMark
    <2>1. Goto("audit", "committed")
      BY <1>1, <1>3 DEF Recover, Returned
    <2> QED
      BY <1>1, <1>2, <1>3, <2>1, AuditGoesOn DEF NotWipeable
  <1>4. CASE mark # NoMark
    <2>1. root' = root
      BY <1>4 DEF Recover
    <2>2. CASE revOf[mark.cand] = seen
      <3>1. StartInstall("audit", mark.cand, Prospective(mark), "recover")
        BY <1>1, <1>4, <2>2 DEF Recover, Built
      <3>2. Prospective(mark) \in Roots /\ Prospective(mark).cur = mark.cand /\ Built(Prospective(mark).prior)
        BY <1>1, <1>4, Absent DEF Prospective, WholeRoot, Built, Roots, NoRoot
      <3>3. ~up /\ seen = row
        BY <1>1, <1>4, <2>2 DEF Built
      <3> QED
        BY <1>1, <1>2, <1>4, <2>1, <2>2, <3>1, <3>2, <3>3, AuditInstalls
    <2>3. CASE revOf[mark.cand] # seen /\ mark.prev # NoRoot /\ revOf[mark.prev.cur] = seen
      <3>1. StartInstall("audit", mark.prev.cur, mark.prev, "recover")
        BY <1>4, <2>3 DEF Recover
      <3>2. mark.prev \in Roots /\ mark.prev.cur \in Gens /\ Built(mark.prev.cur) /\ Built(mark.prev.prior)
        BY <1>1, <1>4, <2>3 DEF WholeRoot, IInv, Types
      <3>3. ~up /\ seen = row
        BY <1>1, <1>4, <2>3, <3>2 DEF Built
      <3> QED
        BY <1>1, <1>2, <1>4, <2>1, <2>3, <3>1, <3>2, <3>3, AuditInstalls
    <2>4. CASE revOf[mark.cand] # seen /\ mark.prev = NoRoot /\ seen = None
      <3>1. at' = [at EXCEPT !["audit"].pc = "wipe", !["audit"].goal = "recover"]
        BY <1>4, <2>4 DEF Recover
      <3> QED
        BY <1>1, <1>2, <1>4, <2>1, <2>4, <3>1, AuditWipes DEF NotWipeable
    <2>5. CASE /\ revOf[mark.cand] # seen /\ ~ (mark.prev # NoRoot /\ revOf[mark.prev.cur] = seen)
               /\ ~ (mark.prev = NoRoot /\ seen = None)
      <3>1. Goto("audit", "committed")
        BY <1>4, <2>5 DEF Recover, Returned
      <3>2. NotWipeable /\ (~up => row = None)
        BY <1>1, <1>4, <2>5 DEF IInv, Disk, Selectable, NotWipeable
      <3> QED
        BY <1>1, <1>2, <2>1, <3>1, <3>2, AuditGoesOn
    <2> QED
      BY <2>2, <2>3, <2>4, <2>5
  <1> QED
    BY <1>3, <1>4

------------------------------------------------------------------------------
(* Resolve, Prepare and Build *)

\* Resolve without a reactivation changes nothing.
LEMMA ResolveGoes ==
    ASSUME IInv, at["index"].pc = "resolve", NEW p \in {"done", "build", "failed"}, Goto("index", p), UNCHANGED <<head, row, revOf, flat, root, mark, pub, lock, seen, auditErr, up>>
    PROVE  IInv'
  <1> USE DEF Agents, Moves, Wipes, Locked
  <1>1. up /\ lock = "index" /\ pub = "none"
    BY DEF IInv, LockHeld, Publishing, Startup
  <1>2. /\ at' \in [Agents -> Acts] /\ at'["audit"] = at["audit"]
        /\ at'["index"].pc = p
        /\ at'["index"].gen = at["index"].gen
        /\ at'["index"].root = at["index"].root
        /\ at'["index"].goal = at["index"].goal
    BY GotoFacts DEF IInv, Types, Steps
  <1>3. Types'
    BY <1>2 DEF IInv, Types
  <1>4. HiddenIsRooted'
    BY <1>2 DEF IInv, Disk, HiddenIsRooted
  <1>5. Disk'
    BY <1>4, SameDisk DEF IInv
  <1>6. Installing("index")'
    BY <1>2 DEF IInv, Doing, Installing, Built
  <1>7. Finishing("index")'
    BY <1>2 DEF IInv, Doing, Finishing
  <1>8. Wiping("index")'
    BY <1>2 DEF IInv, Doing, Wiping
  <1>9. Doing("audit")'
    BY <1>2, SameAgent DEF IInv
  <1>10. Publishing'
    BY <1>2 DEF IInv, Publishing
  <1>11. Startup'
    BY <1>2 DEF IInv, Startup
  <1>12. Runtime'
    BY <1>2 DEF IInv, Runtime
  <1>13. LockHeld'
    BY <1>2 DEF IInv, LockHeld
  <1> QED
    BY <1>3, <1>5, <1>6, <1>7, <1>8, <1>9, <1>10, <1>11, <1>12, <1>13 DEF IInv, Doing

\* A transition marker is written that names the new generation and the root the
\* row is carried by.
LEMMA IndexMarks ==
    ASSUME IInv, NEW m \in [cand: Gens, prev: Roots], mark = NoMark, mark' = m,
           m.cand = at'["index"].gen, Built(m.cand), WholeRoot(m.prev), revOf[m.cand] = head,
           root # NoRoot => m.prev = root, root = NoRoot /\ flat \in Gens => m.prev.cur = flat,
           at["index"].pc \in {"resolve", "prepare"}, at' \in [Agents -> Acts], at'["audit"] = at["audit"],
           at'["index"].pc = "start", at'["index"].goal \in {"publish", "reactivate"},
           at'["index"].root = Prospective(m), UNCHANGED <<head, row, revOf, flat, root, pub, lock, seen, auditErr, up>>
    PROVE  IInv'
  <1> USE DEF Agents, Moves, Wipes, Locked
  <1>1. up /\ lock = "index" /\ pub = "none"
    BY DEF IInv, LockHeld, Publishing, Startup
  <1>2. /\ mark' # NoMark /\ mark'.cand \in Gens /\ mark' \in [cand: Gens \cup {None}, prev: Roots]
        /\ at'["index"].root.cur = m.cand /\ Built(at'["index"].root.prior)
        /\ row # None => m.prev # NoRoot /\ revOf[m.prev.cur] = row
    <2>1. m.cand \in Gens /\ m.prev \in Roots /\ mark' = m
      OBVIOUS
    <2>2. m # NoMark
      BY <2>1, Absent DEF NoMark
    <2>3. m \in [cand: Gens \cup {None}, prev: Roots]
      OBVIOUS
    <2>4. at'["index"].root.cur = m.cand /\ Built(at'["index"].root.prior)
      BY <2>1, Absent DEF Prospective, WholeRoot, Built, NoRoot
    <2>5. row # None => root # NoRoot /\ revOf[root.cur] = row
      BY DEF IInv, Publishing, Disk, Selectable
    <2> QED
      BY <2>1, <2>2, <2>3, <2>4, <2>5
  <1>3. Types'
    BY <1>2 DEF IInv, Types
  <1>4. ControlsBuilt'
    BY <1>2 DEF IInv, Disk, ControlsBuilt, WholeRoot, Built
  <1>5. Selectable'
    BY <1>2 DEF IInv, Disk, Selectable
  <1>6. FlatFollows'
    BY <1>2 DEF IInv, Disk, FlatFollows
  <1>7. HiddenIsRooted'
    BY <1>2 DEF IInv, Disk, HiddenIsRooted
  <1>8. VisibleMatchesRow'
    BY <1>2 DEF IInv, Disk, VisibleMatchesRow
  <1>9. Installing("index")'
    BY <1>2 DEF IInv, Doing, Installing, Built
  <1>10. Finishing("index")'
    BY <1>2 DEF IInv, Doing, Finishing
  <1>11. Wiping("index")'
    BY <1>2 DEF IInv, Doing, Wiping
  <1>12. Doing("audit")'
    BY <1>2 DEF IInv, Doing, Installing, Finishing, Wiping, Built, Startup, Runtime
  <1>13. Publishing'
    BY <1>2 DEF IInv, Publishing, Fallback
  <1>14. Startup'
    BY <1>2 DEF IInv, Startup
  <1>15. Runtime'
    BY <1>2 DEF IInv, Runtime
  <1>16. LockHeld'
    BY <1>2 DEF IInv, LockHeld
  <1> QED
    BY <1>3, <1>4, <1>5, <1>6, <1>7, <1>8, <1>9, <1>10, <1>11, <1>12, <1>13, <1>14, <1>15,
       <1>16 DEF IInv, Disk, Doing

\* Resolve: with a reactivation, the marker names the prior generation.
LEMMA ResolveKeeps ==
    ASSUME IInv, Resolve
    PROVE  IInv'
  <1>1. /\ at["index"].pc = "resolve" /\ WholeRoot(root) /\ root \in Roots
        /\ UNCHANGED <<head, row, revOf, flat, root, pub, lock, seen, auditErr, up>>
    BY DEF Resolve, audit, IInv, Types, Disk, ControlsBuilt
  <1>2. CASE \E p \in {"done", "build", "failed"} : Goto("index", p) /\ UNCHANGED mark
    BY <1>1, <1>2, ResolveGoes
  <1>3. CASE /\ root.prior # None /\ revOf[root.prior] = head /\ mark = NoMark
             /\ mark' = [cand |-> root.prior, prev |-> root]
             /\ at' = [at EXCEPT !["index"] =
                         [pc |-> "start", gen |-> root.prior,
                          root |-> Prospective([cand |-> root.prior, prev |-> root]), goal |-> "reactivate"]]
    <2> DEFINE m == [cand |-> root.prior, prev |-> root]
    <2>1. root # NoRoot /\ root.prior \in Gens /\ Built(root.prior)
      BY <1>1, <1>3 DEF WholeRoot, Roots, NoRoot
    <2>2. m \in [cand: Gens, prev: Roots] /\ m.cand = root.prior /\ m.prev = root
      BY <1>1, <2>1
    <2> HIDE DEF m
    <2>3. Prospective(m) \in Roots
      BY <2>1, <2>2 DEF Prospective, Roots
    <2>4. [pc |-> "start", gen |-> root.prior, root |-> Prospective(m), goal |-> "reactivate"] \in Acts
      BY <2>1, <2>3 DEF Acts, Steps, Goals
    <2>5. /\ at' \in [Agents -> Acts] /\ at'["audit"] = at["audit"]
          /\ at'["index"] = [pc |-> "start", gen |-> root.prior, root |-> Prospective(m), goal |-> "reactivate"]
      BY <1>3, <2>4 DEF IInv, Types, Agents, m
    <2>6. /\ at'["index"].pc = "start" /\ at'["index"].gen = root.prior
          /\ at'["index"].root = Prospective(m) /\ at'["index"].goal = "reactivate"
      BY <2>5
    <2>7. mark' = m
      BY <1>3 DEF m
    <2> QED
      BY <1>1, <1>3, <2>1, <2>2, <2>5, <2>6, <2>7, IndexMarks
  <1> QED
    BY <1>2, <1>3 DEF Resolve

\* Prepare: the marker names the generation just built.
LEMMA PrepareKeeps ==
    ASSUME IInv, Prepare
    PROVE  IInv'
  <1> DEFINE m == [cand |-> at["index"].gen, prev |-> Previous]
  <1>1. /\ at["index"].pc = "prepare" /\ at["index"].gen \in Gens /\ revOf[at["index"].gen] = head
        /\ head \in Revs /\ WholeRoot(root) /\ root \in Roots /\ Built(flat)
        /\ UNCHANGED <<head, row, revOf, flat, root, pub, lock, seen, auditErr, up>>
    BY DEF Prepare, audit, IInv, Types, Disk, ControlsBuilt, Publishing
  <1>2. /\ WholeRoot(Previous) /\ Previous \in Roots /\ (root # NoRoot => Previous = root)
        /\ root = NoRoot /\ flat \in Gens => Previous.cur = flat
    BY <1>1, NoneTyped, Absent DEF Previous, WholeRoot, Built, Roots
  <1>3. m \in [cand: Gens, prev: Roots] /\ m.cand = at["index"].gen /\ m.prev = Previous
    BY <1>1, <1>2
  <1>4. \/ Goto("index", "failed") /\ UNCHANGED mark
        \/ /\ mark = NoMark /\ mark' = m
           /\ at' = [at EXCEPT !["index"].pc = "start", !["index"].root = Prospective(m),
                               !["index"].goal = "publish"]
    BY DEF Prepare
  <1> HIDE DEF m
  <1>5. CASE Goto("index", "failed") /\ UNCHANGED mark
    BY <1>1, <1>5, IndexFails
  <1>6. CASE /\ mark = NoMark /\ mark' = m
             /\ at' = [at EXCEPT !["index"].pc = "start", !["index"].root = Prospective(m),
                                 !["index"].goal = "publish"]
    <2>1. Prospective(m) \in Roots
      BY <1>2, <1>3 DEF Prospective, Roots
    <2>2. /\ at' \in [Agents -> Acts] /\ at'["audit"] = at["audit"] /\ at'["index"].pc = "start"
          /\ at'["index"].gen = at["index"].gen /\ at'["index"].root = Prospective(m)
          /\ at'["index"].goal = "publish"
      <3> DEFINE r == Prospective(m)
      <3>1. r \in Roots /\ at' = [at EXCEPT !["index"].pc = "start", !["index"].root = r,
                                              !["index"].goal = "publish"]
        BY <1>6, <2>1
      <3> HIDE DEF r
      <3>2. at \in [Agents -> Acts] /\ "start" \in Steps /\ "publish" \in Goals
        BY DEF IInv, Types, Steps, Goals
      <3> DEFINE x == [at["index"] EXCEPT !.pc = "start", !.root = r, !.goal = "publish"]
      <3>3. /\ x \in Acts /\ x.pc = "start" /\ x.gen = at["index"].gen
            /\ x.root = r /\ x.goal = "publish"
        BY <3>1, <3>2 DEF Acts, Agents
      <3>4. at' = [at EXCEPT !["index"] = x]
        BY <3>1
      <3> HIDE DEF x
      <3>5. at' \in [Agents -> Acts] /\ at'["index"] = x /\ at'["audit"] = at["audit"]
        BY <3>2, <3>3, <3>4 DEF Agents
      <3> QED
        BY <3>3, <3>5 DEF r
    <2> QED
      BY <1>1, <1>2, <1>3, <1>6, <2>2, Absent, IndexMarks DEF Built
  <1> QED
    BY <1>4, <1>5, <1>6

\* A build uses a number nothing names.
LEMMA IndexBuilds ==
    ASSUME IInv, NEW g \in Gens, at["index"].pc = "build", g \notin Named, revOf' = [revOf EXCEPT ![g] = head],
           at' = [at EXCEPT !["index"].pc = "prepare", !["index"].gen = g], UNCHANGED <<head, row, flat, root, mark, pub, lock, seen, auditErr, up>>
    PROVE  IInv'
  <1> USE DEF Agents, Moves, Wipes, Locked
  <1>1. /\ up /\ lock = "index" /\ pub = "none" /\ head \in Revs
        /\ revOf \in [Gens -> Revs \cup {None}]
        /\ at["audit"].pc \notin Moves \cup Wipes \cup {"unmark", "unpublish"}
    BY DEF IInv, Types, LockHeld, Publishing, Startup, Runtime, IInv
  <1>2. /\ revOf'[g] = head /\ \A h \in Gens \ {g} : revOf'[h] = revOf[h]
        /\ revOf' \in [Gens -> Revs \cup {None}]
        /\ g \notin {root.cur, root.prior, mark.cand, mark.prev.cur, mark.prev.prior, flat}
        /\ \A a \in Agents : g # at[a].gen /\ g # at[a].root.cur /\ g # at[a].root.prior
    <2>1. revOf'[g] = head /\ \A h \in Gens \ {g} : revOf'[h] = revOf[h]
      BY <1>1
    <2>2. revOf' \in [Gens -> Revs \cup {None}]
      BY <1>1
    <2>3. g \notin {root.cur, root.prior, mark.cand, mark.prev.cur, mark.prev.prior, flat}
      BY DEF Named
    <2>4. ASSUME NEW a \in Agents
          PROVE  g # at[a].gen /\ g # at[a].root.cur /\ g # at[a].root.prior
      <3>1. {at[a].gen, at[a].root.cur, at[a].root.prior} \subseteq Named
        BY DEF Named
      <3> QED
        BY <3>1
    <2> QED
      BY <2>1, <2>2, <2>3, <2>4
  <1>3. /\ at' \in [Agents -> Acts] /\ at'["audit"] = at["audit"]
        /\ at'["index"].pc = "prepare"
        /\ at'["index"].gen = g
        /\ at'["index"].root = at["index"].root
        /\ at'["index"].goal = at["index"].goal
    BY BuildFacts DEF IInv, Types, Steps
  <1>4. Types'
    BY <1>2, <1>3 DEF IInv, Types
  <1>5. ControlsBuilt'
    BY <1>2, <1>3, Absent DEF IInv, Disk, ControlsBuilt, WholeRoot, Built
  <1>6. Selectable'
    BY <1>2, <1>3 DEF IInv, Disk, Selectable
  <1>7. FlatFollows'
    BY <1>2, <1>3 DEF IInv, Disk, FlatFollows
  <1>8. HiddenIsRooted'
    BY <1>2, <1>3 DEF IInv, Disk, HiddenIsRooted
  <1>9. VisibleMatchesRow'
    BY <1>2, <1>3 DEF IInv, Disk, VisibleMatchesRow
  <1>10. Installing("index")'
    BY <1>1, <1>2, <1>3, Absent DEF IInv, Doing, Installing, Built
  <1>11. Finishing("index")'
    BY <1>2, <1>3 DEF IInv, Doing, Finishing
  <1>12. Wiping("index")'
    BY <1>2, <1>3 DEF IInv, Doing, Wiping
  <1>13. Doing("audit")'
    BY <1>2, <1>3 DEF IInv, Doing, Installing, Finishing, Wiping, Built, Startup, Runtime
  <1>14. Publishing'
    BY <1>2, <1>3 DEF IInv, Publishing
  <1>15. Startup'
    BY <1>2, <1>3 DEF IInv, Startup
  <1>16. Runtime'
    BY <1>2, <1>3 DEF IInv, Runtime
  <1>17. LockHeld'
    BY <1>2, <1>3 DEF IInv, LockHeld
  <1> QED
    BY <1>4, <1>5, <1>6, <1>7, <1>8, <1>9, <1>10, <1>11, <1>12, <1>13, <1>14, <1>15, <1>16,
       <1>17 DEF IInv, Disk, Doing

\* Build: it succeeds, or it fails.
LEMMA BuildKeeps ==
    ASSUME IInv, Build
    PROVE  IInv'
  <1>1. /\ at["index"].pc = "build"
        /\ UNCHANGED <<head, row, flat, root, mark, pub, lock, seen, auditErr, up>>
    BY DEF Build, audit
  <1>2. CASE Goto("index", "failed") /\ UNCHANGED <<revOf, dir>>
    BY <1>1, <1>2, IndexFails
  <1>3. ASSUME NEW g, g = (CHOOSE x \in Free : \A h \in Free : x <= h), Free # {},
               revOf' = [revOf EXCEPT ![g] = head],
               at' = [at EXCEPT !["index"].pc = "prepare", !["index"].gen = g]
        PROVE  IInv'
    <2>1. g \in Free
      BY <1>3, BuildPick
    <2>2. g \in Gens /\ g \notin Named
      BY <2>1 DEF Free
    <2> QED
      BY <1>1, <1>3, <2>2, IndexBuilds
  <1> QED
    BY <1>2, <1>3 DEF Build

------------------------------------------------------------------------------
(* The theorems *)

\* A step of Index keeps the invariant,
LEMMA IndexKeeps ==
    ASSUME IInv, Index
    PROVE  IInv'
  BY BeginKeeps, ResolveKeeps, BuildKeeps, PrepareKeeps, StartKeeps, CommitKeeps, RereadKeeps,
     RollbackKeeps, ClearKeeps, ReturnKeeps, RecoverIndex, InstallIndex, LinkIndex,
     WriteRootIndex, UnmarkIndex, UnpublishIndex, WipeIndex DEF Index

\* ... and so does one of the audit.
LEMMA AuditKeeps ==
    ASSUME IInv, Audit
    PROVE  IInv'
  BY AuditBeginKeeps, ReclaimKeeps, CommittedKeeps, InspectKeeps, RepairKeeps, EnqueueKeeps,
     UnlockKeeps, AuditEndKeeps, RecoverAudit, InstallAudit, LinkAudit, WriteRootAudit,
     UnmarkAudit, UnpublishAudit, WipeAudit DEF Audit

\* The invariant holds at every point where the process may stop: no interleaving of
\* Indexer.Index, the audit, the sweep, pushes, lost answers and crashes breaks it.
THEOREM PublicationInvariant == Spec => []IInv
  <1>1. IInv /\ [Next]_vars => IInv'
    <2> SUFFICES ASSUME IInv, [Next]_vars
                 PROVE  IInv'
      OBVIOUS
    <2>1. CASE Index
      BY <2>1, IndexKeeps
    <2>2. CASE Audit
      BY <2>2, AuditKeeps
    <2>3. CASE Fence \/ Retire \/ Delete \/ UNCHANGED vars
      BY <2>3, SweepKeeps
    <2>4. CASE Push
      BY <2>4, PushKeeps
    <2>5. CASE Crash
      BY <2>5, CrashKeeps
    <2> QED
      BY <2>1, <2>2, <2>3, <2>4, <2>5 DEF Next
  <1> QED
    BY <1>1, InitKeeps, PTL DEF Spec

\* What search opens is what the row records: while the publishing marker is away,
\* complete flat files are those of the row's revision, whatever was interrupted.
THEOREM VisibleIsRecorded == Spec => []VisibleMatchesRow
  <1>1. IInv => VisibleMatchesRow
    BY DEF IInv, Disk
  <1> QED
    BY <1>1, PublicationInvariant, PTL

\* The row's revision can be selected: startPublication, the commit, the rollback, the
\* recovery and the removal of the markers never leave a row whose generation neither
\* the lifecycle root nor the transition marker nor the flat files name.
THEOREM RowStaysSelectable == Spec => []RowIsSelectable
  <1>1. ASSUME IInv
        PROVE  RowIsSelectable
    <2> SUFFICES ASSUME row # None
                 PROVE  \E g \in {root.cur, mark.cand, mark.prev.cur, flat} \cap Gens : revOf[g] = row
      BY DEF RowIsSelectable
    <2>1. Selectable /\ ControlsBuilt
      BY <1>1 DEF IInv, Disk
    <2>2. CASE mark # NoMark
      BY <2>1, <2>2 DEF Selectable, ControlsBuilt, WholeRoot
    <2>3. CASE mark = NoMark /\ root # NoRoot
      BY <2>1, <2>3 DEF Selectable, ControlsBuilt, WholeRoot
    <2>4. CASE mark = NoMark /\ root = NoRoot
      BY <2>1, <2>4 DEF Selectable
    <2> QED
      BY <2>2, <2>3, <2>4
  <1> QED
    BY <1>1, PublicationInvariant, PTL

=============================================================================
