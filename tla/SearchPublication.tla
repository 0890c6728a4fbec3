-------------------------- MODULE SearchPublication --------------------------
(***************************************************************************)
(* Publishing one repository's whole search index: Indexer.Index           *)
(* (internal/indexer/indexer.go), the immutable generations, the           *)
(* transition marker and the lifecycle root (internal/focusedindex), the   *)
(* startup and runtime audit (internal/sync/reconcile.go) and the sweep of *)
(* retired generations.                                                    *)
(*                                                                         *)
(* The repository row names the indexed revision; the flat files carry the *)
(* bytes that search opens.  They live in different stores and are         *)
(* replaced in small steps, so the publishing marker hides the flat files  *)
(* while they may disagree with the row, and the transition marker says    *)
(* which two generations the row may name.  A process may stop between any *)
(* two steps; a context may be canceled and an answer of the store lost.   *)
(*                                                                         *)
(* Index and the audit's repair hold the repository's work lock.  The      *)
(* shared mutation lock excludes only backups, so it is not a variable.    *)
(***************************************************************************)
EXTENDS Naturals, FiniteSets

CONSTANTS
    Revs,        \* revisions HEAD may be at
    None,        \* no revision, no generation
    Partial,     \* flat files that are not a complete generation
    MaxGen,      \* MaxSearchRepositoryGenerations: directories a repository may have
    MaxPushes,   \* bound on changes of HEAD
    MaxFaults,   \* bound on canceled calls, lost store answers and sweeps that overtake Index
    MaxCrashes,  \* bound on process crashes
    RuntimeAudit \* sync.cleanup_orphans: the audit also runs after a sync

Gens == 1 .. MaxGen
NoRoot == [cur |-> None, prior |-> None]
NoMark == [cand |-> None, prev |-> NoRoot]
Agents == {"index", "audit"}

ASSUME RevsAssumption == Revs # {} /\ None \notin Revs /\ None \notin Nat /\ Partial \notin Nat /\ None # Partial
ASSUME BoundsAssumption ==
    /\ MaxGen \in Nat \ {0}
    /\ MaxPushes \in Nat /\ MaxFaults \in Nat /\ MaxCrashes \in Nat
    /\ RuntimeAudit \in BOOLEAN

VARIABLES
    head,    \* HEAD of the mirror
    row,     \* the revision the repository row records, or None
    revOf,   \* revOf[g]: revision generation g was built from
    dir,     \* dir[g]: the immutable directory of g
    flat,    \* generation whose files lie in the index directory, Partial or None
    root,    \* the lifecycle root: current and prior generation
    mark,    \* the transition marker: candidate and previous root
    pub,     \* the publishing marker: "none", or whose process wrote it
    at,      \* at[a]: the step of agent a and the installation it performs
    lock,    \* holder of the repository's work lock
    seen,    \* the row as the audit listed it
    auditErr,\* the audit met an error
    due,     \* the pending index job: "no", "plain" or "force"
    force,   \* the running index job is forced
    up,      \* the startup audit finished and the runners started
    sweep,   \* generation the sweep is about to rename, or None
    faults, crashes, pushes

disk == <<revOf, dir, flat, root, mark, pub>>
audit == <<seen, auditErr>>
bounds == <<faults, crashes, pushes>>
vars == <<head, row, disk, at, lock, audit, due, force, up, sweep, bounds>>

Idle == [pc |-> "idle", gen |-> None, root |-> NoRoot, goal |-> "none"]
Roots == [cur: Gens \cup {None}, prior: Gens \cup {None}]

\* The type invariant.
TypeOK ==
    /\ head \in Revs /\ row \in Revs \cup {None} /\ seen \in Revs \cup {None}
    /\ revOf \in [Gens -> Revs \cup {None}]
    /\ dir \in [Gens -> {"absent", "complete", "collecting"}]
    /\ flat \in Gens \cup {None, Partial}
    /\ root \in Roots
    /\ mark \in [cand: Gens \cup {None}, prev: Roots]
    /\ pub \in {"none", "mine", "other"}
    /\ \A a \in Agents : at[a].gen \in Gens \cup {None} /\ at[a].root \in Roots
    /\ lock \in Agents \cup {"none"}
    /\ due \in {"no", "plain", "force"}
    /\ {auditErr, force, up} \subseteq BOOLEAN
    /\ sweep \in Gens \cup {None}

------------------------------------------------------------------------------

\* A first index, or an archive restored without its lifecycle controls.
Init ==
    /\ head \in Revs
    /\ \/ row = None /\ flat = None /\ revOf = [g \in Gens |-> None]
       \/ /\ row \in Revs /\ flat = 1
          /\ revOf = [g \in Gens |-> IF g = 1 THEN row ELSE None]
    /\ dir = [g \in Gens |-> "absent"]
    /\ root = NoRoot /\ mark = NoMark /\ pub = "none"
    /\ at = [a \in Agents |-> Idle] /\ lock = "none"
    /\ seen = None /\ auditErr = FALSE
    /\ due = "plain" /\ force = FALSE /\ up = FALSE
    /\ sweep = None
    /\ faults = 0 /\ crashes = 0 /\ pushes = 0

Goto(a, p) == at' = [at EXCEPT ![a].pc = p]

\* A canceled context, a store answer that does not arrive, an overtaking sweep.
Fault == faults < MaxFaults /\ faults' = faults + 1 /\ UNCHANGED <<crashes, pushes>>

\* prospectiveSearchGenerationRoot: the root that selects the candidate.
Prospective(m) ==
    [cur |-> m.cand, prior |-> IF m.prev.cur = m.cand THEN None ELSE m.prev.cur]

\* Where a recovery returns to: Index goes on or fails, the audit's reclaim
\* treats a mismatch as "not recovered" and collects any other error.
Returned(a, outcome) ==
    IF a = "index"
    THEN IF outcome \in {"recovered", "nothing"} THEN "resolve" ELSE "failed"
    ELSE IF outcome \in {"nothing", "mismatch"} THEN "committed" ELSE "inspect"

\* The continuation of a failed installation.
Broken(a) ==
    CASE at[a].goal = "publish"    -> "rollback"
      [] at[a].goal = "rollback"   -> "clear"
      [] at[a].goal = "reactivate" -> "failed"
      [] OTHER                     -> Returned(a, "error")

StartInstall(a, g, r, goal) ==
    at' = [at EXCEPT ![a] = [pc |-> "install", gen |-> g, root |-> r, goal |-> goal]]

NoteError(a) == auditErr' = (auditErr \/ (a = "audit" /\ at[a].goal = "recover"))

\* installStableSearchGeneration: validate the immutable directory, remove the
\* flat files.  A canceled context is noticed before the first removal.
Install(a) ==
    /\ at[a].pc = "install"
    /\ \/ /\ dir[at[a].gen] = "complete"
          /\ flat' = Partial
          /\ Goto(a, "link")
          /\ UNCHANGED <<auditErr, bounds>>
       \/ /\ \/ dir[at[a].gen] # "complete" /\ UNCHANGED bounds
             \/ dir[at[a].gen] = "complete" /\ Fault
          /\ Goto(a, Broken(a)) /\ NoteError(a)
          /\ UNCHANGED flat
    /\ UNCHANGED <<head, row, revOf, dir, root, mark, pub, lock, seen, due, force, up, sweep>>

\* ... and link the generation's files in their place.
Link(a) ==
    /\ at[a].pc = "link"
    /\ IF dir[at[a].gen] = "complete"
       THEN flat' = at[a].gen /\ Goto(a, "root") /\ UNCHANGED auditErr
       ELSE Goto(a, Broken(a)) /\ NoteError(a) /\ UNCHANGED flat
    /\ UNCHANGED <<head, row, revOf, dir, root, mark, pub, lock, seen, due, force, up,
                   sweep, bounds>>

\* writeSearchGenerationRoot, an atomic replacement, after an installation or
\* an adoption.
WriteRoot(a) ==
    /\ at[a].pc \in {"root", "adopt"}
    /\ root' = at[a].root
    /\ Goto(a, IF at[a].pc = "adopt" THEN Returned(a, "recovered")
               ELSE IF at[a].goal \in {"publish", "reactivate"} THEN "commit" ELSE "unmark")
    /\ UNCHANGED <<head, row, revOf, dir, flat, mark, pub, lock, audit, due, force, up,
                   sweep, bounds>>

\* FinishPublication removes the transition marker first ...
Unmark(a) ==
    /\ at[a].pc = "unmark"
    /\ mark' = NoMark
    /\ Goto(a, "unpublish")
    /\ UNCHANGED <<head, row, revOf, dir, flat, root, pub, lock, audit, due, force, up,
                   sweep, bounds>>

\* ... and the publishing marker last: the flat files become visible.
Unpublish(a) ==
    /\ at[a].pc = "unpublish"
    /\ pub' = "none"
    /\ Goto(a, CASE at[a].goal = "recover"  -> Returned(a, "recovered")
                 [] at[a].goal = "rollback" -> "clear"
                 [] at[a].goal = "finish"   -> "inspect"
                 [] at[a].goal = "reread"   -> "failed"
                 [] OTHER                   -> "done")
    /\ UNCHANGED <<head, row, revOf, dir, flat, root, mark, lock, audit, due, force, up,
                   sweep, bounds>>

\* removeRepositoryArtifacts without preserving the markers: the files go in
\* the order of their names, the publishing marker first.
Wipe(a) ==
    /\ \/ at[a].pc = "wipe" /\ pub' = "none" /\ Goto(a, "wipe flat")
          /\ UNCHANGED <<flat, root, mark>>
       \/ /\ at[a].pc = "wipe flat" /\ Goto(a, "wipe root")
          /\ flat' = IF flat = None THEN None ELSE Partial
          /\ UNCHANGED <<root, mark, pub>>
       \/ at[a].pc = "wipe root" /\ root' = NoRoot /\ Goto(a, "wipe mark")
          /\ UNCHANGED <<flat, mark, pub>>
       \/ at[a].pc = "wipe mark" /\ mark' = NoMark /\ Goto(a, "wipe rest")
          /\ UNCHANGED <<flat, root, pub>>
       \/ at[a].pc = "wipe rest" /\ flat' = None /\ Goto(a, "unmark")
          /\ UNCHANGED <<root, mark, pub>>
    /\ UNCHANGED <<head, row, revOf, dir, lock, audit, due, force, up, sweep, bounds>>

\* adoptLegacySearchGeneration: hard-link complete flat files into a directory.
Adopted == IF flat \in Gens THEN [dir EXCEPT ![flat] = "complete"] ELSE dir

\* RecoverSearchPublication against the row's revision r.  The root of adopted
\* files is written in a step of its own, and nothing protects them before.
Recover(a, r) ==
    /\ at[a].pc = "recover"
    /\ \/ /\ mark = NoMark /\ root # NoRoot
          /\ Goto(a, Returned(a, IF revOf[root.cur] = r THEN "nothing" ELSE "mismatch"))
          /\ UNCHANGED dir
       \/ /\ mark = NoMark /\ root = NoRoot
          /\ IF r = None \/ flat \notin Gens
             THEN Goto(a, Returned(a, "nothing")) /\ UNCHANGED dir
             ELSE /\ dir' = Adopted
                  /\ IF revOf[flat] = r
                     THEN at' = [at EXCEPT ![a] =
                                    [pc |-> "adopt", gen |-> flat, goal |-> "recover",
                                     root |-> [cur |-> flat, prior |-> None]]]
                     ELSE Goto(a, Returned(a, "mismatch"))
       \/ /\ mark # NoMark
          /\ CASE revOf[mark.cand] = r ->
                    StartInstall(a, mark.cand, Prospective(mark), "recover")
               [] mark.prev # NoRoot /\ revOf[mark.cand] # r /\ revOf[mark.prev.cur] = r ->
                    StartInstall(a, mark.prev.cur, mark.prev, "recover")
               [] mark.prev = NoRoot /\ r = None ->
                    at' = [at EXCEPT ![a].pc = "wipe", ![a].goal = "recover"]
               [] OTHER -> Goto(a, Returned(a, "mismatch"))
          /\ UNCHANGED dir
    /\ UNCHANGED <<head, row, revOf, flat, root, mark, pub, lock, audit, due, force, up,
                   sweep, bounds>>

------------------------------------------------------------------------------
(* Indexer.Index *)

\* The job is claimed, the work lock taken and the row read.
Begin ==
    /\ up /\ due # "no" /\ at["index"].pc = "idle" /\ lock = "none"
    /\ lock' = "index" /\ force' = (due = "force") /\ due' = "no"
    /\ at' = [at EXCEPT !["index"] =
                 [Idle EXCEPT !.pc = IF row # None \/ pub # "none" THEN "recover" ELSE "resolve"]]
    /\ UNCHANGED <<head, row, disk, audit, up, sweep, bounds>>

\* HEAD is resolved: nothing to do, the retained prior generation, or a build.
\* Reactivation writes its transition marker, which must not exist.
Resolve ==
    /\ at["index"].pc = "resolve"
    /\ IF row = head /\ ~force /\ pub = "none"
       THEN Goto("index", "done") /\ UNCHANGED mark
       ELSE IF root.prior = None
       THEN Goto("index", "build") /\ UNCHANGED mark
       ELSE IF revOf[root.prior] # head
       THEN Goto("index", "build") /\ UNCHANGED mark
       ELSE IF dir[root.prior] = "complete" /\ mark = NoMark
       THEN LET m == [cand |-> root.prior, prev |-> root] IN
            /\ mark' = m
            /\ at' = [at EXCEPT !["index"] = [pc |-> "start", gen |-> root.prior,
                                              root |-> Prospective(m), goal |-> "reactivate"]]
       ELSE Goto("index", "failed") /\ UNCHANGED mark
    /\ UNCHANGED <<head, row, revOf, dir, flat, root, pub, lock, audit, due, force, up,
                   sweep, bounds>>

\* Generations nothing names any more: a build may use their number.
Named == {root.cur, root.prior, mark.cand, mark.prev.cur, mark.prev.prior, flat, sweep}
         \cup UNION {{at[a].gen, at[a].root.cur, at[a].root.prior} : a \in Agents}
Free == {g \in Gens : dir[g] = "absent"} \ Named

\* The child's output becomes an immutable generation by one rename.  Its bytes
\* hold build times, so no two builds are the same generation.  The number of
\* directories is limited (admitSearchGenerationGrowth).
Build ==
    /\ at["index"].pc = "build"
    /\ \/ /\ Free # {}
          /\ LET g == CHOOSE g \in Free : \A h \in Free : g <= h IN
             /\ revOf' = [revOf EXCEPT ![g] = head]
             /\ dir' = [dir EXCEPT ![g] = "complete"]
             /\ at' = [at EXCEPT !["index"].pc = "prepare", !["index"].gen = g]
          /\ UNCHANGED bounds
       \/ /\ IF Free = {} THEN UNCHANGED bounds ELSE Fault
          /\ Goto("index", "failed") /\ UNCHANGED <<revOf, dir>>
    /\ UNCHANGED <<head, row, flat, root, mark, pub, lock, audit, due, force, up, sweep>>

\* Mutant of Previous: the marker names the candidate only.
PreviousForgotten == NoRoot

\* The root that a failed transition returns to.
Previous ==
    IF root # NoRoot THEN root
    ELSE IF flat \in Gens THEN [cur |-> flat, prior |-> None] ELSE NoRoot

\* prepareSearchGenerationTransition: the current generation must still be
\* whole, flat files without a root are adopted, and the marker must not exist.
Prepare ==
    LET m == [cand |-> at["index"].gen, prev |-> Previous] IN
    /\ at["index"].pc = "prepare"
    /\ dir' = IF root = NoRoot THEN Adopted ELSE dir
    /\ IF mark = NoMark /\ (root # NoRoot => dir[root.cur] = "complete")
       THEN /\ mark' = m
            /\ at' = [at EXCEPT !["index"].pc = "start", !["index"].root = Prospective(m),
                                !["index"].goal = "publish"]
       ELSE Goto("index", "failed") /\ UNCHANGED mark
    /\ UNCHANGED <<head, row, revOf, flat, root, pub, lock, audit, due, force, up, sweep,
                   bounds>>

\* Mutant of StartPublication: the flat files are replaced in the open.
StartPublicationOpenly ==
    /\ at["index"].pc = "start"
    /\ Goto("index", "install")
    /\ UNCHANGED <<head, row, disk, lock, audit, due, force, up, sweep, bounds>>

\* startPublication
StartPublication ==
    /\ at["index"].pc = "start"
    /\ pub' = "mine"
    /\ Goto("index", "install")
    /\ UNCHANGED <<head, row, revOf, dir, flat, root, mark, lock, audit, due, force, up,
                   sweep, bounds>>

\* SetRepoIndexedState: it answers, or its answer is lost and it may or may
\* not have committed.
Commit ==
    /\ at["index"].pc = "commit"
    /\ \/ row' = head /\ at' = [at EXCEPT !["index"].pc = "unmark", !["index"].goal = "commit"]
          /\ UNCHANGED bounds
       \/ Fault /\ row' \in {row, head} /\ Goto("index", "reread")
    /\ UNCHANGED <<head, disk, lock, audit, due, force, up, sweep>>

\* The row is read again: committed, unknown (both markers stay) or not.  The
\* lost answer is an error of Index also when the row turns out committed.
Reread ==
    /\ at["index"].pc = "reread"
    /\ \/ /\ at' = [at EXCEPT !["index"].pc = IF row = head THEN "unmark" ELSE "rollback",
                              !["index"].goal = "reread"]
          /\ UNCHANGED bounds
       \/ Fault /\ Goto("index", "failed")
    /\ UNCHANGED <<head, row, disk, lock, audit, due, force, up, sweep>>

\* RollbackSearchPublication: back to the previous root, or to nothing.
Rollback ==
    /\ at["index"].pc = "rollback"
    /\ \/ /\ mark.prev # NoRoot
          /\ StartInstall("index", mark.prev.cur, mark.prev, "rollback")
          /\ UNCHANGED bounds
       \/ /\ mark # NoMark /\ mark.prev = NoRoot
          /\ at' = [at EXCEPT !["index"].pc = "wipe", !["index"].goal = "rollback"]
          /\ UNCHANGED bounds
       \/ /\ mark.prev = NoRoot
          /\ IF mark = NoMark THEN UNCHANGED bounds ELSE Fault
          /\ Goto("index", "clear")
    /\ UNCHANGED <<head, row, disk, lock, audit, due, force, up, sweep>>

\* After a rollback, whether it succeeded or not: a row without a root is cleared.
ClearAfterRollback ==
    /\ at["index"].pc = "clear"
    /\ \/ row' = (IF root = NoRoot THEN None ELSE row) /\ UNCHANGED bounds
       \/ root = NoRoot /\ Fault /\ UNCHANGED row
    /\ Goto("index", "failed")
    /\ UNCHANGED <<head, disk, lock, audit, due, force, up, sweep>>

Stronger(d, forced) == IF forced \/ d = "force" THEN "force" ELSE "plain"

\* Mutant of Requeued: a failed job is not retried.
RequeuedNever == due

\* The queue retries a failed job.
Requeued == IF at["index"].pc = "failed" THEN Stronger(due, force) ELSE due

\* Index returns and the lock is released.
Return ==
    /\ at["index"].pc \in {"done", "failed"}
    /\ due' = Requeued
    /\ at' = [at EXCEPT !["index"] = Idle]
    /\ lock' = "none" /\ force' = FALSE
    /\ UNCHANGED <<head, row, disk, audit, up, sweep, bounds>>

Index ==
    \/ Begin \/ Resolve \/ Build \/ Prepare \/ StartPublication \/ Commit \/ Reread
    \/ Rollback \/ ClearAfterRollback \/ Return
    \/ Recover("index", row) \/ Install("index") \/ Link("index") \/ WriteRoot("index")
    \/ Unmark("index") \/ Unpublish("index") \/ Wipe("index")

------------------------------------------------------------------------------
(* ReconcileArtifacts *)

\* The audit lists the rows: alone at startup, beside the runners later.
AuditBegin ==
    /\ at["audit"].pc = "idle" /\ (~up \/ RuntimeAudit)
    /\ seen' = row /\ auditErr' = FALSE
    /\ at' = [at EXCEPT !["audit"] = [Idle EXCEPT !.pc = "reclaim"]]
    /\ UNCHANGED <<head, row, disk, lock, due, force, up, sweep, bounds>>

\* abandonedPublicationMarker: the publishing marker of another process.
Abandoned == pub = "other"

\* reclaimCommittedPublicationMarkers
Reclaim ==
    /\ at["audit"].pc = "reclaim"
    /\ Goto("audit", IF Abandoned THEN "recover" ELSE "inspect")
    /\ UNCHANGED <<head, row, disk, lock, audit, due, force, up, sweep, bounds>>

\* Nothing was recovered: flat files that carry the listed row are exposed.
ReclaimCommitted ==
    /\ at["audit"].pc = "committed"
    /\ at' = IF seen # None /\ \E g \in Gens : flat = g /\ revOf[g] = seen
             THEN [at EXCEPT !["audit"].pc = "unmark", !["audit"].goal = "finish"]
             ELSE [at EXCEPT !["audit"].pc = "inspect"]
    /\ UNCHANGED <<head, row, disk, lock, audit, due, force, up, sweep, bounds>>

\* committedIndexMismatch: the receipt is invalid while the marker is present.
Mismatch(r) == r # None /\ ~(pub = "none" /\ \E g \in Gens : flat = g /\ revOf[g] = r)

\* reconcileIndexedRevisions: a listed row that needs work, then the work lock
\* (a busy lock ends the audit with an error), then both sides again.
Inspect ==
    /\ at["audit"].pc = "inspect"
    /\ IF seen # None /\ ~Mismatch(seen)
       THEN Goto("audit", "end") /\ UNCHANGED <<lock, auditErr>>
       ELSE IF lock # "none"
       THEN Goto("audit", "end") /\ auditErr' = TRUE /\ UNCHANGED lock
       ELSE lock' = "audit" /\ Goto("audit", "repair") /\ UNCHANGED auditErr
    /\ UNCHANGED <<head, row, disk, seen, due, force, up, sweep, bounds>>

\* ClearRepoIndexState when the fresh row is not proved by the flat files.
Repair ==
    /\ at["audit"].pc = "repair"
    /\ IF row # None /\ ~Mismatch(row)
       THEN Goto("audit", "unlock") /\ UNCHANGED row
       ELSE row' = None /\ Goto("audit", IF row = None THEN "enqueue" ELSE "enqueue force")
    /\ UNCHANGED <<head, disk, lock, audit, due, force, up, sweep, bounds>>

AuditEnqueue ==
    /\ at["audit"].pc \in {"enqueue", "enqueue force"}
    /\ due' = Stronger(due, at["audit"].pc = "enqueue force" \/ flat # None \/ pub # "none")
    /\ Goto("audit", "unlock")
    /\ UNCHANGED <<head, row, disk, lock, audit, force, up, sweep, bounds>>

AuditUnlock ==
    /\ at["audit"].pc = "unlock"
    /\ lock' = "none"
    /\ Goto("audit", "end")
    /\ UNCHANGED <<head, row, disk, audit, due, force, up, sweep, bounds>>

\* The startup audit starts the runners unless it met an error.
AuditEnd ==
    /\ at["audit"].pc = "end"
    /\ at' = [at EXCEPT !["audit"] = Idle]
    /\ up' = (up \/ ~auditErr)
    /\ seen' = None /\ auditErr' = FALSE
    /\ UNCHANGED <<head, row, disk, lock, due, force, sweep, bounds>>

Audit ==
    \/ AuditBegin \/ Reclaim \/ ReclaimCommitted \/ Inspect \/ Repair \/ AuditEnqueue
    \/ AuditUnlock \/ AuditEnd
    \/ Recover("audit", seen) \/ Install("audit") \/ Link("audit") \/ WriteRoot("audit")
    \/ Unmark("audit") \/ Unpublish("audit") \/ Wipe("audit")

------------------------------------------------------------------------------
(* The search lifecycle sweep *)

Protected(g) == g \in {root.cur, root.prior, mark.cand, mark.prev.cur, mark.prev.prior}
Complete == {g \in Gens : dir[g] = "complete"}

\* searchGenerationLifecycleFence: an unprotected generation is chosen.  Age
\* retires any generation but the one Index has only just built or adopted; that
\* one may be chosen while no root exists or two older generations do, until its
\* transition marker, or the root of an adopted one, is written.
Fence ==
    /\ up /\ sweep = None /\ \A g \in Gens : dir[g] # "collecting"
    /\ \E g \in Complete :
         /\ ~Protected(g)
         /\ \/ at["index"].gen # g /\ UNCHANGED bounds
            \/ at["index"].gen = g /\ (root = NoRoot \/ Cardinality(Complete) > 2) /\ Fault
         /\ sweep' = g
    /\ UNCHANGED <<head, row, disk, at, lock, audit, due, force, up>>

\* The directory is renamed; its files are deleted over later turns.
Retire ==
    /\ sweep # None
    /\ dir' = [dir EXCEPT ![sweep] = "collecting"]
    /\ sweep' = None
    /\ UNCHANGED <<head, row, revOf, flat, root, mark, pub, at, lock, audit, due, force, up,
                   bounds>>

Delete ==
    /\ up /\ \E g \in Gens : dir[g] = "collecting" /\ dir' = [dir EXCEPT ![g] = "absent"]
    /\ UNCHANGED <<head, row, revOf, flat, root, mark, pub, at, lock, audit, due, force, up,
                   sweep, bounds>>

------------------------------------------------------------------------------

\* A fetch moves HEAD under the work lock and queues an index job.
Push ==
    /\ up /\ lock = "none" /\ pushes < MaxPushes
    /\ head' \in Revs \ {head} /\ pushes' = pushes + 1
    /\ due' = Stronger(due, FALSE)
    /\ UNCHANGED <<row, disk, at, lock, audit, force, up, sweep, faults, crashes>>

\* The process stops.  Locks are the kernel's or the process's, the markers
\* stay, and the reaper later hands the running job back.
Crash ==
    /\ crashes < MaxCrashes /\ crashes' = crashes + 1
    /\ at' = [a \in Agents |-> Idle] /\ lock' = "none"
    /\ pub' = IF pub = "none" THEN "none" ELSE "other"
    /\ due' = IF at["index"].pc # "idle" THEN Stronger(due, force) ELSE due
    /\ seen' = None /\ auditErr' = FALSE /\ force' = FALSE /\ up' = FALSE /\ sweep' = None
    /\ UNCHANGED <<head, row, revOf, dir, flat, root, mark, faults, pushes>>

Next == Index \/ Audit \/ Fence \/ Retire \/ Delete \/ Push \/ Crash

Spec == Init /\ [][Next]_vars

\* The runners, the audit and the sweep keep going; a waiting Index is given the
\* work lock (its queue is first come, first served).  Nobody has to push or crash.
FairSpec ==
    /\ Spec
    /\ WF_vars(Index) /\ SF_vars(Begin) /\ WF_vars(Audit)
    /\ WF_vars(Fence) /\ WF_vars(Retire \/ Delete)

------------------------------------------------------------------------------
(* Properties *)

\* What search can open (no publishing marker, complete flat files) is the
\* revision the row records: search never serves one revision while the row,
\* and every caller that defaults to it, names another.
VisibleMatchesRow ==
    (row # None /\ pub = "none" /\ flat \in Gens) => revOf[flat] = row

\* The revision the row records can always be selected: the lifecycle root or
\* the transition marker names a generation built from it, or the flat files
\* still carry it, at every point where the process may stop.
RowIsSelectable ==
    row # None => \E g \in {root.cur, mark.cand, mark.prev.cur, flat} \cap Gens : revOf[g] = row

Quiet == \A a \in Agents : at[a].pc = "idle"

\* The next Index calls RecoverSearchPublication, which finds its generation.
Resolvable ==
    /\ row # None \/ pub # "none"
    /\ \/ revOf[mark.cand] = row
       \/ mark.prev # NoRoot /\ revOf[mark.prev.cur] = row
       \/ mark.prev = NoRoot /\ row = None

\* RecoverSearchPublication "is the startup repair for every publication crash
\* point": after startup, with nothing running, a transition marker that was
\* left behind can be resolved by the next Index.
MarkerResolvable == (up /\ Quiet) => (mark = NoMark \/ Resolvable)

\* "Current, rollback, a transition marker ... are exact roots" of the sweep:
\* every generation the root or the marker selects has its directory.
ControlsAreWhole ==
    \A g \in {root.cur, root.prior, mark.cand, mark.prev.cur} \cap Gens : dir[g] = "complete"

\* The index follows HEAD: once pushes and failures end, the row and the visible
\* files reach HEAD, unless the controls are past repair in one of the two ways
\* that MarkerResolvable and ControlsAreWhole describe.
Converges ==
    \/ <>[](row = head /\ pub = "none" /\ flat \in Gens)
    \/ <>[](Quiet => (mark # NoMark /\ ~Resolvable) \/ ~ControlsAreWhole)

==============================================================================
