------------------------------ MODULE RepoLock ------------------------------
(***************************************************************************)
(* The process-wide lock of one bare mirror (internal/repowork/lock.go).   *)
(* The registry holds one entry per canonical key; an entry is a channel   *)
(* of capacity one with the single token, and a reference count that lets  *)
(* the last caller drop the entry.  The registry mutex makes registration  *)
(* and releaseEntry atomic; the channel operations lie between them.       *)
(***************************************************************************)
EXTENDS Naturals, FiniteSets

CONSTANTS
    Callers,   \* goroutines
    Names,     \* spellings of mirror directories that callers pass as the key
    Fold,      \* Fold[n]: the normal form of n (case folding, NFC, Clean)
    Entries,   \* lockEntry objects (the bound on live allocations)
    NoEntry

ASSUME FoldAssumption ==
    Names # {} /\ Fold \in [Names -> Names] /\ \A n \in Names : Fold[Fold[n]] = Fold[n]
ASSUME EntryAssumption == NoEntry \notin Entries /\ IsFiniteSet(Callers)

VARIABLES
    registry, \* registry[k]: the entry of key k, or NoEntry
    token,    \* token[e]: tokens in the channel
    refs,     \* refs[e]
    pc,       \* where a caller is in LockContext or its unlock function
    name,     \* the spelling the caller passed
    entry     \* the entry it was handed

vars == <<registry, token, refs, pc, name, entry>>

CanonicalKey(n) == Fold[n]

Referencing(e) == {p \in Callers : pc[p] # "idle" /\ entry[p] = e}

\* The type invariant: a channel never holds two tokens and a caller inside
\* LockContext or its unlock function has an entry.
TypeOK ==
    /\ registry \in [Names -> Entries \cup {NoEntry}]
    /\ token \in [Entries -> 0 .. 1]
    /\ refs \in [Entries -> 0 .. Cardinality(Callers)]
    /\ pc \in [Callers -> {"idle", "waiting", "canceled", "holding", "releasing"}]
    /\ name \in [Callers -> Names]
    /\ entry \in [Callers -> Entries \cup {NoEntry}]
    /\ \A p \in Callers : pc[p] # "idle" <=> entry[p] # NoEntry

-----------------------------------------------------------------------------

\* An allocation nothing points to.
Unreferenced(e) ==
    /\ \A k \in Names : registry[k] # e
    /\ Referencing(e) = {}

\* LockContext up to the registry's unlock: find or make the entry, count.
Register(p, n) ==
    LET k == CanonicalKey(n) IN
    /\ pc[p] = "idle"
    /\ pc' = [pc EXCEPT ![p] = "waiting"]
    /\ name' = [name EXCEPT ![p] = n]
    /\ \/ /\ registry[k] # NoEntry
          /\ entry' = [entry EXCEPT ![p] = registry[k]]
          /\ refs' = [refs EXCEPT ![registry[k]] = @ + 1]
          /\ UNCHANGED <<registry, token>>
       \/ /\ registry[k] = NoEntry
          /\ \E e \in Entries :
               /\ Unreferenced(e)
               /\ registry' = [registry EXCEPT ![k] = e]
               /\ entry' = [entry EXCEPT ![p] = e]
               /\ refs' = [refs EXCEPT ![e] = 1]
               /\ token' = [token EXCEPT ![e] = 1]

Take(p) ==
    /\ pc[p] = "waiting"
    /\ token[entry[p]] = 1
    /\ token' = [token EXCEPT ![entry[p]] = 0]
    /\ pc' = [pc EXCEPT ![p] = "holding"]
    /\ UNCHANGED <<registry, refs, name, entry>>

\* The select may prefer a done context to a ready token.
Cancel(p) ==
    /\ pc[p] = "waiting"
    /\ pc' = [pc EXCEPT ![p] = "canceled"]
    /\ UNCHANGED <<registry, token, refs, name, entry>>

\* Mutant of Unlock: the lock is dropped before the token is back.
UnlockKeepsToken(p) ==
    /\ pc[p] = "holding"
    /\ pc' = [pc EXCEPT ![p] = "releasing"]
    /\ UNCHANGED <<registry, token, refs, name, entry>>

\* The unlock function; sync.Once makes a second call a no-op.
Unlock(p) ==
    /\ pc[p] = "holding"
    /\ token' = [token EXCEPT ![entry[p]] = 1]
    /\ pc' = [pc EXCEPT ![p] = "releasing"]
    /\ UNCHANGED <<registry, refs, name, entry>>

\* Mutant of Drops: the caller that leaves takes the entry along.
DropsAlways(e, k) == registry[k] = e

\* The last reference removes the entry, if it is still the registered one.
Drops(e, k) == refs[e] = 1 /\ registry[k] = e

ReleaseEntry(p) ==
    /\ pc[p] \in {"canceled", "releasing"}
    /\ pc' = [pc EXCEPT ![p] = "idle"]
    /\ refs' = [refs EXCEPT ![entry[p]] = @ - 1]
    /\ registry' = IF Drops(entry[p], CanonicalKey(name[p]))
                   THEN [registry EXCEPT ![CanonicalKey(name[p])] = NoEntry] ELSE registry
    /\ entry' = [entry EXCEPT ![p] = NoEntry]
    /\ UNCHANGED <<token, name>>

-----------------------------------------------------------------------------

Init ==
    /\ registry = [k \in Names |-> NoEntry]
    /\ token = [e \in Entries |-> 0]
    /\ refs = [e \in Entries |-> 0]
    /\ pc = [p \in Callers |-> "idle"]
    /\ name \in [Callers -> {CHOOSE n \in Names : TRUE}]
    /\ entry = [p \in Callers |-> NoEntry]

Step(p) ==
    \/ \E n \in Names : Register(p, n)
    \/ Take(p) \/ Cancel(p) \/ Unlock(p) \/ ReleaseEntry(p)

Next == \E p \in Callers : Step(p)

Spec == Init /\ [][Next]_vars

\* Holders release, releaseEntry returns, and the runtime queues the receivers
\* of a channel first come first served.
FairSpec ==
    /\ Spec
    /\ \A p \in Callers : WF_vars(Unlock(p)) /\ WF_vars(ReleaseEntry(p)) /\ SF_vars(Take(p))

-----------------------------------------------------------------------------
(* Properties *)

\* No two callers work on one mirror, whatever spelling they used and however
\* registration, cancellation and the removal of entries interleave.
MutualExclusion ==
    \A p, q \in Callers :
        pc[p] = "holding" /\ pc[q] = "holding" /\ Fold[name[p]] = Fold[name[q]] => p = q

\* The registry maps a key to the one entry its callers share, exactly while
\* there are such callers: nobody waits on an orphan and no entry leaks.
RegistryAgrees ==
    /\ \A p \in Callers : pc[p] # "idle" => registry[CanonicalKey(name[p])] = entry[p]
    /\ \A k \in Names : registry[k] # NoEntry =>
         refs[registry[k]] = Cardinality(Referencing(registry[k])) /\ refs[registry[k]] > 0

\* Every caller that waits gets the lock or gives up: no token is lost.
WaiterServed ==
    \A p \in Callers : pc[p] = "waiting" ~> pc[p] # "waiting"

=============================================================================
