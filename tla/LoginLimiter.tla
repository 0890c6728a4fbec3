---------------------------- MODULE LoginLimiter ----------------------------
(***************************************************************************)
(* The attempt limiter of password logins (internal/auth/limiter.go) under *)
(* the two handlers that use it, handleLogin and handleSetup.  A request   *)
(* reserves an attempt for its client's key before any work and ends the   *)
(* reservation exactly once: fail, success, or cancel by the handler's     *)
(* defer.  Failures of a key count for one fixed window; the table of keys *)
(* is bounded, and a sweep makes room when it is full.                     *)
(*                                                                         *)
(* Instead of an absolute resetAt an entry keeps the time left of its      *)
(* window, which the clock lowers; no time left means resetAt has passed.  *)
(* An absent key has zeros, as a Go map lookup yields.                     *)
(***************************************************************************)
EXTENDS Naturals, FiniteSets

CONSTANTS
    Keys,       \* client keys
    Requests,   \* concurrent requests
    Max,        \* failures and attempts in flight allowed to a key
    Window,     \* length of a window
    MaxEntries, \* bound of the table
    ArgonSlots  \* concurrent password hashes

ASSUME LimiterAssumption ==
    /\ IsFiniteSet(Keys) /\ IsFiniteSet(Requests)
    /\ {Max, Window, MaxEntries, ArgonSlots} \subseteq Nat \ {0}

VARIABLES
    present,  \* the keys with an entry
    failures, \* failures[k]: failed attempts in k's window
    inFlight, \* inFlight[k]: reservations counted for k
    left,     \* left[k]: time left of k's window
    step,     \* step[r]: where the handler of r is
    key       \* key[r]: the client key of r

entries == <<present, failures, inFlight, left>>
limiterVars == <<entries, step, key>>

\* The handler holds a reservation.
Active(r) == step[r] # "idle"
\* ... and an Argon2 slot.
Hashing == {r \in Requests : step[r] = "verify"}

\* The key of an idle request means nothing.
LimiterInit ==
    /\ present = {}
    /\ failures = [k \in Keys |-> 0] /\ inFlight = [k \in Keys |-> 0] /\ left = [k \in Keys |-> 0]
    /\ step = [r \in Requests |-> "idle"] /\ key \in [Requests -> Keys]

Expired(k) == left[k] = 0 /\ inFlight[k] = 0

\* Mutant of Stale: an entry is swept whatever is left of its window.
StaleIdle == {k \in present : inFlight[k] = 0}

\* What makeRoom's sweep deletes.
Stale == {k \in present : Expired(k)}

\* makeRoom: only a full table is swept, and only for a new key.
Swept(k) ==
    IF k \in present \/ Cardinality(present) < MaxEntries THEN {} ELSE Stale

Roomy(k) == k \in present \/ Cardinality(present \ Swept(k)) < MaxEntries

\* Failures that count: an attempt after the window's end opens a new window,
\* unless attempts of the old one are still in flight.
Counted(k) == IF Expired(k) THEN 0 ELSE failures[k]

\* Mutant of Admissible: attempts in flight are not counted against the limit.
AdmissibleIgnoresFlying(k) == Roomy(k) /\ Counted(k) < Max

Admissible(k) == Roomy(k) /\ Counted(k) + inFlight[k] < Max

Without(f, S) == [k \in Keys |-> IF k \in S THEN 0 ELSE f[k]]

\* reserve, admitted
Reserve(r, k) ==
    /\ step[r] = "idle" /\ Admissible(k)
    /\ present' = (present \ Swept(k)) \cup {k}
    /\ failures' = [Without(failures, Swept(k)) EXCEPT ![k] = Counted(k)]
    /\ inFlight' = [Without(inFlight, Swept(k)) EXCEPT ![k] = inFlight[k] + 1]
    /\ left' = [Without(left, Swept(k)) EXCEPT ![k] = IF Expired(k) THEN Window ELSE left[k]]
    /\ step' = [step EXCEPT ![r] = "reserved"]
    /\ key' = [key EXCEPT ![r] = k]

\* reserve, refused: the sweep stands.
Refuse(k) ==
    /\ ~ Admissible(k)
    /\ present' = present \ Swept(k)
    /\ failures' = Without(failures, Swept(k))
    /\ inFlight' = Without(inFlight, Swept(k))
    /\ left' = Without(left, Swept(k))
    /\ UNCHANGED <<step, key>>

Landed(k) == IF inFlight[k] > 0 THEN inFlight[k] - 1 ELSE 0

\* The end of r's reservation, with its key's failures and time left; an entry
\* that is not kept is deleted.
End(r, kept, fails, time) ==
    LET k == key[r] IN
    /\ step' = [step EXCEPT ![r] = "idle"]
    /\ present' = IF kept THEN present \cup {k} ELSE present \ {k}
    /\ failures' = [failures EXCEPT ![k] = IF kept THEN fails ELSE 0]
    /\ inFlight' = [inFlight EXCEPT ![k] = IF kept THEN Landed(k) ELSE 0]
    /\ left' = [left EXCEPT ![k] = IF kept THEN time ELSE 0]
    /\ UNCHANGED key

\* Mutant of Cancel: a canceled attempt takes the entry with it.
CancelForgets(r) ==
    /\ step[r] \in {"reserved", "verify", "create"}
    /\ End(r, FALSE, 0, 0)

\* cancel: bad input, no free Argon2 slot or an infrastructure error.
Cancel(r) ==
    /\ step[r] \in {"reserved", "verify", "create"}
    /\ LET k == key[r] IN End(r, failures[k] > 0 \/ Landed(k) > 0, failures[k], left[k])

\* A slot is taken if one is free; otherwise the request is turned away.
AcquireArgon(r) ==
    /\ step[r] = "reserved" /\ Cardinality(Hashing) < ArgonSlots
    /\ step' = [step EXCEPT ![r] = "verify"]
    /\ UNCHANGED <<entries, key>>

\* handleSetup gives its slot back before it creates the first user.
Hashed(r) ==
    /\ step[r] = "verify"
    /\ step' = [step EXCEPT ![r] = "create"]
    /\ UNCHANGED <<entries, key>>

\* fail: a wrong password after the hash; a wrong setup token, email or password
\* before or after it.  An attempt that outlived its window opens the next one.
Fail(r) ==
    /\ step[r] \in {"reserved", "verify"}
    /\ LET k == key[r] IN
       IF left[k] = 0 THEN End(r, TRUE, 1, Window) ELSE End(r, TRUE, failures[k] + 1, left[k])

\* success clears the key's failures.
Success(r) ==
    /\ step[r] \in {"verify", "create"}
    /\ LET k == key[r] IN End(r, Landed(k) > 0, 0, left[k])

\* The clock.
Tick ==
    /\ \E k \in Keys : left[k] > 0
    /\ left' = [k \in Keys |-> IF left[k] > 0 THEN left[k] - 1 ELSE 0]
    /\ UNCHANGED <<present, failures, inFlight, step, key>>

Ends(r) == Cancel(r) \/ Fail(r) \/ Success(r)

LimiterNext ==
    \/ \E r \in Requests :
         (\E k \in Keys : Reserve(r, k)) \/ AcquireArgon(r) \/ Hashed(r) \/ Ends(r)
    \/ \E k \in Keys : Refuse(k)
    \/ Tick

LimiterSpec == LimiterInit /\ [][LimiterNext]_limiterVars

------------------------------------------------------------------------------
(* Properties *)

\* The type invariant.
LimiterTypeOK ==
    /\ present \subseteq Keys
    /\ failures \in [Keys -> Nat] /\ inFlight \in [Keys -> Nat] /\ left \in [Keys -> 0 .. Window]
    /\ step \in [Requests -> {"idle", "reserved", "verify", "create"}]
    /\ key \in [Requests -> Keys]

Flying(k) == {r \in Requests : Active(r) /\ key[r] = k}

\* An entry counts exactly the reservations that are open for its key: none is
\* lost by a sweep, a success or a cancel of another request, and none leaks.
ReservationsCounted ==
    \A k \in Keys : inFlight[k] = Cardinality(Flying(k))

\* Failures of the window and attempts in flight never exceed the limit, across
\* the end of a window as well: together they cannot fail more than Max times.
WithinBudget ==
    \A k \in Keys : failures[k] + inFlight[k] <= Max

\* The table is bounded, also when a reservation ends long after it was made, and
\* a key outside it has no state.
TableBounded ==
    /\ Cardinality(present) <= MaxEntries
    /\ \A k \in Keys \ present : failures[k] = 0 /\ inFlight[k] = 0 /\ left[k] = 0

Succeeds(k) == \E r \in Requests : key[r] = k /\ Success(r)

\* A failure stands until its window ends or a login of the same key succeeds;
\* no other key's traffic sweeps it away.
FailuresStand ==
    [][\A k \in Keys : failures'[k] < failures[k] => left[k] = 0 \/ Succeeds(k)]_limiterVars

==============================================================================
