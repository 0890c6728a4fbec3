-------------------------- MODULE RepositoryProofs --------------------------
(***************************************************************************)
(* The work lock of a repository and the deletion that relies on it.       *)
(*                                                                         *)
(* First, mutual exclusion of the lock (RepoLock), for any number of       *)
(* callers, spellings and entries and any folding of spellings to keys.    *)
(* Then, with the lock as one variable, that a deleted repository leaves   *)
(* nothing searchable behind (RepoDeletion), for every number of listing   *)
(* changes, webhooks, failures and crashes.                                *)
(***************************************************************************)
EXTENDS RepoLock, RepoDeletion, FiniteSetTheorems, TLAPS

-----------------------------------------------------------------------------
(* The inductive invariant *)

\* The count of an entry is the number of callers that were handed it.
RefsExact == \A e \in Entries : refs[e] = Cardinality(Referencing(e))

\* A caller waits, holds and releases on the entry registered for its key.
CallersRegistered == \A p \in Callers : pc[p] # "idle" => registry[Fold[name[p]]] = entry[p]

\* A registered entry has a caller, and belongs to one key.
EntriesUsed == \A k \in Names : registry[k] # NoEntry => Referencing(registry[k]) # {}
EntriesDistinct ==
    \A j, k \in Names : registry[j] = registry[k] /\ registry[j] # NoEntry => j = k

\* An entry's one token is in its channel or with the one holder.
TokenExact ==
    /\ \A p \in Callers : pc[p] = "holding" => token[entry[p]] = 0
    /\ \A p, q \in Callers : pc[p] = "holding" /\ pc[q] = "holding" /\ entry[p] = entry[q] => p = q

IInv ==
    /\ TypeOK /\ RefsExact /\ CallersRegistered
    /\ EntriesUsed /\ EntriesDistinct /\ TokenExact

-----------------------------------------------------------------------------
(* Counting references *)

\* A set of callers is finite.
LEMMA CallerSets ==
    \A S \in SUBSET Callers :
        /\ IsFiniteSet(S)
        /\ Cardinality(S) \in 0 .. Cardinality(Callers)
        /\ Cardinality(S) = 0 <=> S = {}
  <1> TAKE S \in SUBSET Callers
  <1>1. IsFiniteSet(S) /\ Cardinality(S) <= Cardinality(Callers)
    BY EntryAssumption, FS_Subset
  <1>2. Cardinality(S) \in Nat /\ Cardinality(Callers) \in Nat
    BY <1>1, EntryAssumption, FS_CardinalityType
  <1> QED
    BY <1>1, <1>2, FS_EmptySet

\* The callers of an entry are a set of callers, before and after a step.
LEMMA ReferencingCallers ==
    \A e : Referencing(e) \in SUBSET Callers /\ Referencing(e)' \in SUBSET Callers
  BY DEF Referencing

\* A caller that registers with an entry is added to its references only.
LEMMA RegisterAdds ==
    ASSUME TypeOK, NEW p \in Callers, NEW e \in Entries, pc[p] = "idle",
           pc' = [pc EXCEPT ![p] = "waiting"], entry' = [entry EXCEPT ![p] = e]
    PROVE  /\ Referencing(e)' = Referencing(e) \cup {p}
           /\ \A d \in Entries \ {e} : Referencing(d)' = Referencing(d)
           /\ Cardinality(Referencing(e)') = Cardinality(Referencing(e)) + 1
  <1>1. Referencing(e)' = Referencing(e) \cup {p} /\ p \notin Referencing(e)
    BY DEF Referencing, TypeOK
  <1>2. \A d \in Entries \ {e} : Referencing(d)' = Referencing(d)
    BY DEF Referencing, TypeOK
  <1> QED
    BY <1>1, <1>2, ReferencingCallers, CallerSets, FS_AddElement

\* A caller that leaves is taken from the references of its entry only.
LEMMA ReleaseRemoves ==
    ASSUME TypeOK, NEW p \in Callers, NEW e \in Entries, pc[p] # "idle", entry[p] = e,
           pc' = [pc EXCEPT ![p] = "idle"], entry' = [entry EXCEPT ![p] = NoEntry]
    PROVE  /\ p \in Referencing(e)
           /\ Referencing(e)' = Referencing(e) \ {p}
           /\ \A d \in Entries \ {e} : Referencing(d)' = Referencing(d)
           /\ Cardinality(Referencing(e)') = Cardinality(Referencing(e)) - 1
  <1>1. p \in Referencing(e)
    BY DEF Referencing, TypeOK
  <1>2. Referencing(e)' = Referencing(e) \ {p}
    BY EntryAssumption DEF Referencing, TypeOK
  <1>3. \A d \in Entries \ {e} : Referencing(d)' = Referencing(d)
    BY EntryAssumption DEF Referencing, TypeOK
  <1> QED
    BY <1>1, <1>2, <1>3, ReferencingCallers, CallerSets, FS_RemoveElement

\* A step inside LockContext or the unlock function keeps all references.
LEMMA MoveKeeps ==
    ASSUME TypeOK, NEW p \in Callers, pc[p] # "idle", NEW s, s # "idle",
           pc' = [pc EXCEPT ![p] = s], entry' = entry
    PROVE  \A e : Referencing(e)' = Referencing(e)
  BY DEF Referencing, TypeOK

-----------------------------------------------------------------------------
(* The steps *)

\* The registry starts empty and nobody is inside.
LEMMA InitIInv == Init => IInv
  <1> SUFFICES ASSUME Init PROVE IInv
    OBVIOUS
  <1>1. \A e : Referencing(e) = {}
    BY DEF Init, Referencing
  <1>2. Cardinality(Callers) \in Nat
    BY EntryAssumption, FS_CardinalityType
  <1>3. TypeOK
    BY <1>2, FoldAssumption, EntryAssumption DEF Init, TypeOK
  <1>4. RefsExact
    BY <1>1, FS_EmptySet DEF Init, RefsExact
  <1> QED
    BY <1>3, <1>4 DEF Init, IInv, CallersRegistered, EntriesUsed, EntriesDistinct, TokenExact

\* Registration with the entry that is there.
LEMMA RegisterKnown ==
    ASSUME IInv, NEW p \in Callers, NEW n \in Names, Register(p, n), registry[Fold[n]] # NoEntry
    PROVE  IInv'
  <1>1. Fold[n] \in Names /\ registry[Fold[n]] \in Entries
    BY FoldAssumption, EntryAssumption DEF IInv, TypeOK
  <1> PICK e \in Entries : e = registry[Fold[n]]
    BY <1>1
  <1>2. /\ pc[p] = "idle" /\ pc' = [pc EXCEPT ![p] = "waiting"]
        /\ name' = [name EXCEPT ![p] = n] /\ entry' = [entry EXCEPT ![p] = e]
        /\ refs' = [refs EXCEPT ![e] = @ + 1] /\ UNCHANGED <<registry, token>>
    BY DEF Register, CanonicalKey
  <1>3. /\ Referencing(e)' = Referencing(e) \cup {p}
        /\ \A d \in Entries \ {e} : Referencing(d)' = Referencing(d)
        /\ Cardinality(Referencing(e)') = Cardinality(Referencing(e)) + 1
    BY <1>1, <1>2, RegisterAdds DEF IInv
  <1>4. RefsExact'
    BY <1>1, <1>2, <1>3 DEF IInv, TypeOK, RefsExact
  <1>5. TypeOK'
    <2>1. \A d \in Entries : Cardinality(Referencing(d)') \in 0 .. Cardinality(Callers)
      BY ReferencingCallers, CallerSets
    <2>2. refs' \in [Entries -> 0 .. Cardinality(Callers)]
      BY <1>2, <1>4, <2>1 DEF IInv, TypeOK, RefsExact
    <2> QED
      BY <1>1, <1>2, <2>2, EntryAssumption DEF IInv, TypeOK
  <1>6. CallersRegistered'
    BY <1>1, <1>2 DEF IInv, TypeOK, CallersRegistered
  <1>7. EntriesUsed' /\ EntriesDistinct'
    <2>1. \A d \in Entries : Referencing(d) # {} => Referencing(d)' # {}
      BY <1>3
    <2> QED
      BY <1>2, <2>1 DEF IInv, TypeOK, EntriesUsed, EntriesDistinct
  <1>8. TokenExact'
    BY <1>2 DEF IInv, TypeOK, TokenExact
  <1> QED
    BY <1>4, <1>5, <1>6, <1>7, <1>8 DEF IInv

\* Registration with a new entry, which nothing refers to yet.
LEMMA RegisterNew ==
    ASSUME IInv, NEW p \in Callers, NEW n \in Names, Register(p, n), registry[Fold[n]] = NoEntry
    PROVE  IInv'
  <1>1. Fold[n] \in Names
    BY FoldAssumption
  <1>2. PICK e \in Entries :
          /\ Unreferenced(e)
          /\ pc[p] = "idle" /\ pc' = [pc EXCEPT ![p] = "waiting"]
          /\ name' = [name EXCEPT ![p] = n] /\ entry' = [entry EXCEPT ![p] = e]
          /\ registry' = [registry EXCEPT ![Fold[n]] = e]
          /\ refs' = [refs EXCEPT ![e] = 1] /\ token' = [token EXCEPT ![e] = 1]
    BY DEF Register, CanonicalKey
  <1>3. /\ Referencing(e)' = Referencing(e) \cup {p}
        /\ \A d \in Entries \ {e} : Referencing(d)' = Referencing(d)
        /\ Cardinality(Referencing(e)') = Cardinality(Referencing(e)) + 1
    BY <1>2, RegisterAdds DEF IInv
  <1>4. Referencing(e) = {} /\ \A k \in Names : registry[k] # e
    BY <1>2 DEF Unreferenced
  <1>5. RefsExact'
    <2>1. Cardinality(Referencing(e)') = 1
      BY <1>3, <1>4, FS_EmptySet
    <2> QED
      BY <1>2, <1>3, <2>1 DEF IInv, TypeOK, RefsExact
  <1>6. TypeOK'
    <2>1. \A d \in Entries : Cardinality(Referencing(d)') \in 0 .. Cardinality(Callers)
      BY ReferencingCallers, CallerSets
    <2>2. refs' \in [Entries -> 0 .. Cardinality(Callers)]
      BY <1>2, <1>5, <2>1 DEF IInv, TypeOK, RefsExact
    <2> QED
      BY <1>1, <1>2, <2>2, EntryAssumption DEF IInv, TypeOK
  <1>7. CallersRegistered'
    <2>1. \A q \in Callers \ {p} : pc[q] # "idle" => Fold[name[q]] # Fold[n]
      BY DEF IInv, TypeOK, CallersRegistered
    <2> QED
      BY <1>1, <1>2, <2>1 DEF IInv, TypeOK, CallersRegistered
  <1>8. EntriesUsed'
    BY <1>1, <1>2, <1>3, <1>4 DEF IInv, TypeOK, EntriesUsed
  <1>9. EntriesDistinct'
    BY <1>1, <1>2, <1>4 DEF IInv, TypeOK, EntriesDistinct
  <1>10. TokenExact'
    <2>1. \A q \in Callers : pc[q] = "holding" => entry[q] # e
      BY <1>4 DEF Referencing
    <2> QED
      BY <1>2, <2>1 DEF IInv, TypeOK, TokenExact
  <1> QED
    BY <1>5, <1>6, <1>7, <1>8, <1>9, <1>10 DEF IInv

\* Taking the token, giving up and giving the token back.
LEMMA MoveIInv ==
    ASSUME IInv, NEW p \in Callers, Take(p) \/ Cancel(p) \/ Unlock(p)
    PROVE  IInv'
  <1>1. /\ pc[p] \in {"waiting", "holding"} /\ entry[p] \in Entries
        /\ UNCHANGED <<registry, refs, name, entry>>
    BY EntryAssumption DEF Take, Cancel, Unlock, IInv, TypeOK
  <1>2. \A e : Referencing(e)' = Referencing(e)
    <2>1. CASE Take(p)
      BY <1>1, <2>1, MoveKeeps DEF Take, IInv
    <2>2. CASE Cancel(p)
      BY <1>1, <2>2, MoveKeeps DEF Cancel, IInv
    <2>3. CASE Unlock(p)
      BY <1>1, <2>3, MoveKeeps DEF Unlock, IInv
    <2> QED
      BY <2>1, <2>2, <2>3
  <1>3. TypeOK' /\ CallersRegistered'
    BY <1>1 DEF Take, Cancel, Unlock, IInv, TypeOK, CallersRegistered
  <1>4. RefsExact' /\ EntriesUsed' /\ EntriesDistinct'
    BY <1>1, <1>2 DEF IInv, RefsExact, EntriesUsed, EntriesDistinct
  <1>5. TokenExact'
    BY <1>1 DEF Take, Cancel, Unlock, IInv, TypeOK, TokenExact
  <1> QED
    BY <1>3, <1>4, <1>5 DEF IInv

\* The last caller of an entry removes it, any other only leaves.
LEMMA ReleaseIInv ==
    ASSUME IInv, NEW p \in Callers, ReleaseEntry(p)
    PROVE  IInv'
  <1>1. Fold[name[p]] \in Names /\ entry[p] \in Entries
    BY FoldAssumption, EntryAssumption DEF ReleaseEntry, IInv, TypeOK
  <1> PICK e \in Entries : e = entry[p]
    BY <1>1
  <1> PICK k \in Names : k = Fold[name[p]]
    BY <1>1
  <1>2. /\ pc[p] \in {"canceled", "releasing"} /\ pc' = [pc EXCEPT ![p] = "idle"]
        /\ refs' = [refs EXCEPT ![e] = @ - 1] /\ entry' = [entry EXCEPT ![p] = NoEntry]
        /\ registry' = IF refs[e] = 1 THEN [registry EXCEPT ![k] = NoEntry] ELSE registry
        /\ registry[k] = e /\ UNCHANGED <<token, name>>
    BY DEF ReleaseEntry, Drops, CanonicalKey, IInv, CallersRegistered
  <1>3. /\ p \in Referencing(e)
        /\ Referencing(e)' = Referencing(e) \ {p}
        /\ \A d \in Entries \ {e} : Referencing(d)' = Referencing(d)
        /\ Cardinality(Referencing(e)') = Cardinality(Referencing(e)) - 1
    BY <1>2, ReleaseRemoves DEF IInv
  <1>4. RefsExact'
    BY <1>2, <1>3 DEF IInv, TypeOK, RefsExact
  <1>5. refs[e] = 1 <=> Referencing(e)' = {}
    <2>1. refs[e] = Cardinality(Referencing(e)) /\ Cardinality(Referencing(e)) \in Nat
      BY ReferencingCallers, CallerSets DEF IInv, RefsExact
    <2> QED
      BY <1>3, <2>1, ReferencingCallers, CallerSets
  <1>6. TypeOK'
    <2>1. \A d \in Entries : Cardinality(Referencing(d)') \in 0 .. Cardinality(Callers)
      BY ReferencingCallers, CallerSets
    <2>2. refs' \in [Entries -> 0 .. Cardinality(Callers)]
      BY <1>2, <1>4, <2>1 DEF IInv, TypeOK, RefsExact
    <2> QED
      BY <1>2, <2>2, EntryAssumption DEF IInv, TypeOK
  <1>7. CallersRegistered'
    <2>1. ASSUME NEW q \in Callers, q # p, pc[q] # "idle", Fold[name[q]] = k
          PROVE  refs[e] # 1
      <3>1. q \in Referencing(e)'
        BY <1>2, <1>3, <2>1 DEF IInv, TypeOK, CallersRegistered, Referencing
      <3> QED
        BY <1>5, <3>1
    <2> QED
      BY <1>2, <2>1 DEF IInv, TypeOK, CallersRegistered
  <1>8. EntriesUsed'
    BY <1>2, <1>3, <1>5, EntryAssumption DEF IInv, TypeOK, EntriesUsed, EntriesDistinct
  <1>9. EntriesDistinct' /\ TokenExact'
    BY <1>2 DEF IInv, TypeOK, EntriesDistinct, TokenExact
  <1> QED
    BY <1>4, <1>6, <1>7, <1>8, <1>9 DEF IInv

-----------------------------------------------------------------------------
(* The theorems *)

\* The invariant holds in every reachable state.
LEMMA Inductive == Spec => []IInv
  <1>1. IInv /\ [Next]_vars => IInv'
    <2> SUFFICES ASSUME IInv, [Next]_vars PROVE IInv'
      OBVIOUS
    <2>1. ASSUME NEW p \in Callers, Step(p) PROVE IInv'
      BY <2>1, RegisterKnown, RegisterNew, MoveIInv, ReleaseIInv DEF Step
    <2>2. CASE UNCHANGED vars
      BY <2>2 DEF vars, IInv, TypeOK, RefsExact, CallersRegistered, EntriesUsed,
                  EntriesDistinct, TokenExact, Referencing
    <2> QED
      BY <2>1, <2>2 DEF Next
  <1> QED
    BY <1>1, InitIInv, PTL DEF Spec

\* No two callers ever hold the lock of one mirror, for any number of callers,
\* mirrors and spellings: LockContext and its unlock function exclude each other.
THEOREM LockExcludes == Spec => []MutualExclusion
  <1>1. IInv => MutualExclusion
    BY DEF IInv, CallersRegistered, TokenExact, MutualExclusion
  <1> QED
    BY <1>1, Inductive, PTL

\* The registry holds exactly the entries that callers share, with their exact
\* counts: releaseEntry neither orphans a waiter nor leaks an entry.
THEOREM RegistryStaysExact == Spec => [](TypeOK /\ RegistryAgrees)
  <1>1. IInv => TypeOK /\ RegistryAgrees
    <2> SUFFICES ASSUME IInv PROVE RegistryAgrees
      BY DEF IInv
    <2>1. ASSUME NEW k \in Names, registry[k] # NoEntry
          PROVE  /\ refs[registry[k]] = Cardinality(Referencing(registry[k]))
                 /\ refs[registry[k]] > 0
      <3>1. registry[k] \in Entries /\ Referencing(registry[k]) # {}
        BY <2>1 DEF IInv, TypeOK, EntriesUsed
      <3> QED
        BY <3>1, ReferencingCallers, CallerSets DEF IInv, RefsExact
    <2> QED
      BY <2>1 DEF IInv, CallersRegistered, RegistryAgrees, CanonicalKey
  <1> QED
    BY <1>1, Inductive, PTL

-----------------------------------------------------------------------------
(* Deletion                                                                  *)
(*                                                                           *)
(* That a row without bytes stays without bytes is not inductive by itself:  *)
(* an index job that has passed its row check writes files later.  The proof *)
(* needs to know that whoever is past a check holds the work lock, that a    *)
(* row which somebody acts upon is there, and that the files do not come     *)
(* back between their removal and the removal of the row.                    *)

\* The steps in which the sync runner acts under the work lock.
Locked == {"upsert", "reactivate", "plan", "files", "tree", "row"}

\* Who is past the check that the work lock protects holds the lock.
HolderActs ==
    /\ sync \in Locked => lock = "sync"
    /\ fetch = "recheck" => lock = "fetch"
    /\ index \in {"publish", "commit"} => lock = "index"

\* A publication under way has its row, a deletion that has removed the files
\* does not meet them again, and a row that is gone has none.
BytesFollowRow ==
    /\ index \in {"publish", "commit"} => row # "absent"
    /\ sync \in {"tree", "row"} => ~files
    /\ row = "absent" => ~files

DeletionInv == HolderActs /\ BytesFollowRow

-----------------------------------------------------------------------------
(* One lemma for each runner and one for the environment *)

\* The initial state: nothing runs and nothing is on disk.
LEMMA InitDeletion == RepoInit => DeletionInv
BY DEF RepoInit, DeletionInv, HolderActs, BytesFollowRow, Locked

\* The sync itself: mirror, upsert, reactivate, queue and claim.
LEMMA SyncKeeps ==
    ASSUME DeletionInv,
           SyncBegin \/ SyncMirror \/ SyncUpsert \/ SyncReactivate \/ SyncEnqueue
             \/ SyncMembers \/ SyncFail
    PROVE  DeletionInv'
<1> USE DEF DeletionInv, HolderActs, BytesFollowRow, Locked
<1>1. CASE SyncBegin BY <1>1 DEF SyncBegin
<1>2. CASE SyncMirror BY <1>2 DEF SyncMirror
<1>3. CASE SyncUpsert BY <1>3 DEF SyncUpsert
<1>4. CASE SyncReactivate BY <1>4 DEF SyncReactivate
<1>5. CASE SyncEnqueue BY <1>5 DEF SyncEnqueue
<1>6. CASE SyncMembers BY <1>6 DEF SyncMembers
<1>7. CASE SyncFail BY <1>7 DEF SyncFail, UnlockSync
<1> QED BY <1>1, <1>2, <1>3, <1>4, <1>5, <1>6, <1>7

\* Deletion up to the first removal: mark, lock, look again or give up.
LEMMA MarkingKeeps ==
    ASSUME DeletionInv,
           Startup \/ Orphans \/ MarkDeleting \/ LockForDeletion \/ GiveUp \/ Undo \/ Plan
    PROVE  DeletionInv'
<1> USE DEF DeletionInv, HolderActs, BytesFollowRow, Locked
<1>1. CASE Startup BY <1>1 DEF Startup
<1>2. CASE Orphans BY <1>2 DEF Orphans
<1>3. CASE MarkDeleting BY <1>3 DEF MarkDeleting
<1>4. CASE LockForDeletion BY <1>4 DEF LockForDeletion, Lockable
<1>5. CASE GiveUp BY <1>5 DEF GiveUp
<1>6. CASE Undo
  <2>1. sync' \in {"trees", "end"} /\ row' \in {"live", row} BY <1>6 DEF Undo
  <2>2. lock' = (IF lock = "sync" THEN "none" ELSE lock)
        /\ UNCHANGED <<files, fetch, index>>
    BY <1>6 DEF Undo, UnlockSync
  <2> QED BY <2>1, <2>2
<1>7. CASE Plan BY <1>7 DEF Plan
<1> QED BY <1>1, <1>2, <1>3, <1>4, <1>5, <1>6, <1>7

\* The removals, the row last, and the audits that follow them.
LEMMA RemovingKeeps ==
    ASSUME DeletionInv,
           RemoveFiles \/ RemoveMirror \/ DeleteRow \/ DestructiveFailure \/ UntrackedFiles
             \/ UntrackedMirror \/ RevisionAudit \/ ReconcileEnd
    PROVE  DeletionInv'
<1> USE DEF DeletionInv, HolderActs, BytesFollowRow, Locked
<1>1. CASE RemoveFiles BY <1>1 DEF RemoveFiles
<1>2. CASE RemoveMirror BY <1>2 DEF RemoveMirror
<1>3. CASE DeleteRow BY <1>3 DEF DeleteRow
<1>4. CASE DestructiveFailure BY <1>4 DEF DestructiveFailure
<1>5. CASE UntrackedFiles BY <1>5 DEF UntrackedFiles
<1>6. CASE UntrackedMirror BY <1>6 DEF UntrackedMirror
<1>7. CASE RevisionAudit BY <1>7 DEF RevisionAudit
<1>8. CASE ReconcileEnd BY <1>8 DEF ReconcileEnd
<1> QED BY <1>1, <1>2, <1>3, <1>4, <1>5, <1>6, <1>7, <1>8

\* The fetch and the index runner.
LEMMA JobsKeep ==
    ASSUME DeletionInv, Fetch \/ Index
    PROVE  DeletionInv'
<1> USE DEF DeletionInv, HolderActs, BytesFollowRow, Locked
<1>1. CASE FetchClaim BY <1>1 DEF FetchClaim
<1>2. CASE FetchMirror BY <1>2 DEF FetchMirror
<1>3. CASE FetchRecheck BY <1>3 DEF FetchRecheck
<1>4. CASE IndexClaim BY <1>4 DEF IndexClaim
<1>5. CASE IndexStart BY <1>5 DEF IndexStart
<1>6. CASE IndexPublish BY <1>6 DEF IndexPublish
<1>7. CASE IndexCommit BY <1>7 DEF IndexCommit
<1> QED BY <1>1, <1>2, <1>3, <1>4, <1>5, <1>6, <1>7 DEF Fetch, Index

\* The listing, the webhooks and a crash, which forgets every runner and the lock.
LEMMA EnvironmentKeeps ==
    ASSUME DeletionInv, Relist \/ WebhookFind \/ WebhookEnqueue \/ Crash
    PROVE  DeletionInv'
<1> USE DEF DeletionInv, HolderActs, BytesFollowRow, Locked
<1>1. CASE Relist BY <1>1 DEF Relist
<1>2. CASE WebhookFind BY <1>2 DEF WebhookFind
<1>3. CASE WebhookEnqueue BY <1>3 DEF WebhookEnqueue
<1>4. CASE Crash
  <2>1. sync' = "idle" /\ fetch' = "idle" /\ index' = "idle" /\ UNCHANGED <<row, files>>
    BY <1>4 DEF Crash
  <2> QED BY <2>1
<1> QED BY <1>1, <1>2, <1>3, <1>4

\* Every step keeps the inductive invariant.
LEMMA DeletionInductive == DeletionInv /\ [RepoNext]_repoVars => DeletionInv'
<1> SUFFICES ASSUME DeletionInv, [RepoNext]_repoVars PROVE DeletionInv'
  OBVIOUS
<1>1. CASE Sync BY <1>1, SyncKeeps, MarkingKeeps, RemovingKeeps DEF Sync
<1>2. CASE Fetch \/ Index BY <1>2, JobsKeep
<1>3. CASE Relist \/ WebhookFind \/ WebhookEnqueue \/ Crash BY <1>3, EnvironmentKeeps
<1>4. CASE UNCHANGED repoVars
  BY <1>4 DEF repoVars, DeletionInv, HolderActs, BytesFollowRow
<1> QED BY <1>1, <1>2, <1>3, <1>4 DEF RepoNext

-----------------------------------------------------------------------------
(* Theorems *)

\* A repository without a row has no index files, and no index job, however old
\* or late, is about to publish some: reconcileOrphan removes the bytes under
\* the work lock before the row, and Index holds that lock from its row check
\* to its commit.
THEOREM DeletionIsComplete == RepoSpec => []DeletedLeavesNothing
<1>1. DeletionInv => DeletedLeavesNothing
  BY DEF DeletionInv, BytesFollowRow, DeletedLeavesNothing
<1> QED BY InitDeletion, DeletionInductive, <1>1, PTL DEF RepoSpec

\* At most one of a sync's mirroring or deletion, a fetch and a publication is
\* past its check of the row.
OneAtWork ==
    /\ ~(sync \in Locked /\ fetch = "recheck")
    /\ ~(sync \in Locked /\ index \in {"publish", "commit"})
    /\ ~(fetch = "recheck" /\ index \in {"publish", "commit"})

\* Whoever works past a check of the row holds the one work lock, so at most one
\* of a sync's mirroring or deletion, a fetch and a publication is under way,
\* through failures that release the lock and crashes that forget it.
THEOREM OneWorksOnTheRepository == RepoSpec => []OneAtWork
<1>1. DeletionInv => OneAtWork
  BY DEF DeletionInv, HolderActs, OneAtWork
<1> QED BY InitDeletion, DeletionInductive, <1>1, PTL DEF RepoSpec

==============================================================================
