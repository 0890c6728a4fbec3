---------------------- MODULE GenerationScheduleProofs ----------------------
(* The safety of the generation schedules of a repository, proved for any   *)
(* number of schedules, workers and leases and any admitted specification.  *)
EXTENDS GenerationSchedule, FiniteSetTheorems, TLAPS

-----------------------------------------------------------------------------
(* The inductive invariant *)

\* A chunk row belongs to a schedule that exists and was expanded past it.
RowsExpanded ==
    \A c \in Ids : chunk[c].status # "absent" =>
        /\ schedule[c.digest].status # "absent"
        /\ c.offset < schedule[c.digest].nextOffset
        /\ chunk[c].length = Length(c.digest, c.offset)

\* A running chunk carries a lease and a claimant.
RunningLeased ==
    \A c \in Ids : chunk[c].status = "running" =>
        chunk[c].lease \in Leases /\ chunk[c].worker \in Workers

\* A current row points at a schedule of its stage that was not superseded.
CurrentIsLive ==
    /\ \A s \in Stages : current[s] # NoDigest => StageOf(current[s]) = s
    /\ \A d \in Digests : IsCurrent(d) => schedule[d].status \in {"active", "settled"}

RunningChunks == {c \in Ids : chunk[c].status = "running"}

\* One value for each worker, and what it did is what the row says.
HandlesDistinct == \A g, h \in handles : g.worker = h.worker => g = h
DoneByHolder ==
    \A h \in handles :
        h.did = "done" <=> chunk[h.id].status = "done" /\ chunk[h.id].worker = h.worker
FailedByHolder ==
    \A h \in handles :
        /\ chunk[h.id].status = "failed" /\ chunk[h.id].worker = h.worker =>
             h.did \in {"failed", "exhausted", "retried"}
        /\ h.did = "retried" => ~Exhausted(h.id)
        /\ h.did = "exhausted" =>
             Exhausted(h.id) /\ chunk[h.id].status = "failed" /\ chunk[h.id].worker = h.worker

\* The offsets handed out so far, one for each unit of work that is counted.
Started(d) ==
    schedule[d].pending + schedule[d].running + schedule[d].succeeded + schedule[d].failed

\* The counters of a schedule that was not superseded add up to the part of
\* the plan that was expanded, and it is settled once all of it has a result.
Progress ==
    \A d \in Digests : schedule[d].status \in {"active", "settled"} =>
        /\ Started(d) <= TotalChunks(d)
        /\ schedule[d].nextOffset =
             IF Started(d) < TotalChunks(d) THEN Started(d) * Specs[d].chunkItems ELSE TotalItems(d)
        /\ schedule[d].status = "settled" <=> schedule[d].succeeded + schedule[d].failed = TotalChunks(d)

\* Without a failure every expanded offset has a chunk that is live or done.
OffsetsCovered ==
    \A d \in Digests : schedule[d].status \in {"active", "settled"} /\ schedule[d].failed = 0 =>
        \A j \in 0..(TotalItems(d) - 1) : j * Specs[d].chunkItems < schedule[d].nextOffset =>
            \E c \in ChunksOf(d) :
                /\ c.offset = j * Specs[d].chunkItems
                /\ chunk[c].status \in {"pending", "running", "done"}

\* A serial plan is applied up to its prefix, and only that far is work done.
PlanFollowed ==
    \A d \in Serial :
        /\ plan[d] <= TotalItems(d)
        /\ \A c \in InStatus(d, "done") : c.offset < plan[d]

Table == TypeOK /\ RowsExpanded /\ RunningLeased /\ OneLiveAttempt
Counters == IsFiniteSet(RunningChunks) /\ CountersAgree
Evidence == HandlesDistinct /\ DoneByHolder /\ FailedByHolder
Settling == Progress /\ OffsetsCovered /\ PlanFollowed

IInv == Table /\ ActiveIsCurrent /\ CurrentIsLive /\ Counters /\ Evidence /\ Settling

-----------------------------------------------------------------------------
(* Specifications and identities *)

\* What an admitted specification says.
LEMMA SpecFacts ==
    ASSUME NEW d \in Digests
    PROVE  /\ StageOf(d) \in Stages /\ TotalItems(d) \in Nat \ {0}
           /\ Specs[d].chunkItems \in Nat \ {0} /\ Specs[d].maxAttempts \in Nat \ {0}
           /\ Specs[d].repositoryTokens \in Nat \ {0}
  BY SpecsAssumption DEF StageOf, TotalItems

\* The parts of an identity, and the identities there are.
LEMMA IdFacts ==
    /\ \A c \in Ids : /\ c.digest \in Digests
                      /\ c.offset \in 0..(TotalItems(c.digest) - 1)
                      /\ c.attempt \in 0..(Specs[c.digest].maxAttempts - 1)
                      /\ c = [digest |-> c.digest, offset |-> c.offset, attempt |-> c.attempt]
    /\ \A d \in Digests : \A o \in 0..(TotalItems(d) - 1), a \in 0..(Specs[d].maxAttempts - 1) :
          [digest |-> d, offset |-> o, attempt |-> a] \in Ids
  <1>1. ASSUME NEW c \in Ids
        PROVE  /\ c.digest \in Digests
               /\ c.offset \in 0..(TotalItems(c.digest) - 1)
               /\ c.attempt \in 0..(Specs[c.digest].maxAttempts - 1)
               /\ c = [digest |-> c.digest, offset |-> c.offset, attempt |-> c.attempt]
    <2>1. PICK d \in Digests : c \in [digest: {d}, offset: 0..(TotalItems(d) - 1),
                                      attempt: 0..(Specs[d].maxAttempts - 1)]
      BY DEF Ids
    <2> QED
      BY <2>1
  <1>2. ASSUME NEW d \in Digests, NEW o \in 0..(TotalItems(d) - 1),
               NEW a \in 0..(Specs[d].maxAttempts - 1)
        PROVE  [digest |-> d, offset |-> o, attempt |-> a] \in Ids
    <2>1. [digest |-> d, offset |-> o, attempt |-> a] \in
             [digest: {d}, offset: 0..(TotalItems(d) - 1), attempt: 0..(Specs[d].maxAttempts - 1)]
      OBVIOUS
    <2> QED
      BY <2>1 DEF Ids
  <1> QED
    BY <1>1, <1>2

\* Offsets and attempts are integers.
LEMMA IdNumbers ==
    ASSUME NEW c \in Ids
    PROVE  c.digest \in Digests /\ c.offset \in Nat /\ c.offset < TotalItems(c.digest) /\ c.attempt \in Nat
  BY IdFacts, SpecFacts

\* A chunk that has an attempt left has a next identity.
LEMMA NextAttemptFacts ==
    ASSUME NEW c \in Ids, ~Exhausted(c)
    PROVE  /\ NextAttempt(c) \in Ids /\ NextAttempt(c).digest = c.digest
           /\ NextAttempt(c).offset = c.offset /\ NextAttempt(c).attempt = c.attempt + 1
           /\ NextAttempt(c) # c
  <1>1. /\ c.digest \in Digests /\ c.offset \in 0..(TotalItems(c.digest) - 1) /\ c.attempt \in Nat
        /\ c = [digest |-> c.digest, offset |-> c.offset, attempt |-> c.attempt]
    BY IdFacts, IdNumbers
  <1>2. Specs[c.digest].maxAttempts \in Nat /\ c.attempt + 1 \in 0..(Specs[c.digest].maxAttempts - 1)
    BY <1>1, SpecFacts DEF Exhausted
  <1>3. NextAttempt(c) = [digest |-> c.digest, offset |-> c.offset, attempt |-> c.attempt + 1]
    BY <1>1 DEF NextAttempt
  <1> QED
    BY <1>1, <1>2, <1>3, IdFacts

\* A schedule has finitely many identities.
LEMMA ChunksFinite ==
    ASSUME NEW d \in Digests
    PROVE  IsFiniteSet(ChunksOf(d))
  <1> DEFINE O == 0..(TotalItems(d) - 1)
             A == 0..(Specs[d].maxAttempts - 1)
             f == [p \in O \X A |-> [digest |-> d, offset |-> p[1], attempt |-> p[2]]]
  <1>1. IsFiniteSet(O) /\ IsFiniteSet(A)
    BY SpecFacts, FS_Interval
  <1>2. IsFiniteSet(O \X A)
    BY <1>1, FS_Product
  <1>3. ASSUME NEW c \in ChunksOf(d) PROVE \E p \in O \X A : f[p] = c
    <2>1. c \in Ids /\ c.digest = d /\ c.offset \in O /\ c.attempt \in A
          /\ c = [digest |-> c.digest, offset |-> c.offset, attempt |-> c.attempt]
      BY IdFacts DEF ChunksOf
    <2>2. <<c.offset, c.attempt>> \in O \X A /\ f[<<c.offset, c.attempt>>] = c
      BY <2>1
    <2> QED
      BY <2>2
  <1>4. \A p \in O \X A : f[p] \in ChunksOf(d)
    BY IdFacts DEF ChunksOf
  <1>5. f \in Surjection(O \X A, ChunksOf(d))
    <2>1. f \in [O \X A -> ChunksOf(d)]
      BY <1>4
    <2> HIDE DEF f
    <2> QED
      BY <1>3, <2>1 DEF Surjection
  <1> QED
    BY <1>2, <1>5, FS_Surjection

\* So the chunks in each status can be counted.
LEMMA StatusFinite ==
    ASSUME NEW d \in Digests, NEW s
    PROVE  /\ IsFiniteSet(InStatus(d, s)) /\ Cardinality(InStatus(d, s)) \in Nat
           /\ Cardinality(ChunksOf(d)) \in Nat
  <1>1. InStatus(d, s) \in SUBSET ChunksOf(d)
    BY DEF InStatus
  <1> QED
    BY <1>1, ChunksFinite, FS_Subset, FS_CardinalityType

-----------------------------------------------------------------------------
(* Arithmetic of pages *)

\* A product with a positive factor grows with the other factor.
LEMMA ProductGrows ==
    ASSUME NEW a \in Int, NEW b \in Int, NEW n \in Nat \ {0}
    PROVE  /\ a * n \in Int /\ (a <= b <=> a * n <= b * n) /\ (a < b <=> a * n < b * n)
           /\ (a + b) * n = a * n + b * n /\ (a - 1) * n = a * n - n
  <1>1. ASSUME NEW x \in Nat PROVE x * n \in Nat /\ (x > 0 => x * n >= n)
    <2>1. CASE x = 0
      BY <2>1
    <2>2. CASE x > 0
      <3>1. PICK y \in Nat : x = y + 1
        BY <2>2
      <3>2. x * n = y * n + n /\ y * n \in Nat
        BY <3>1
      <3> QED
        BY <3>2
    <2> QED
      BY <2>1, <2>2
  <1>2. a * n \in Int /\ b * n \in Int /\ (a + b) * n = a * n + b * n /\ (a - 1) * n = a * n - n
    OBVIOUS
  <1>3. CASE a <= b
    <2>1. b - a \in Nat /\ (b - a) * n = b * n - a * n
      BY <1>3
    <2>2. (b - a) * n \in Nat /\ (b - a > 0 => (b - a) * n >= n)
      BY <1>1, <2>1
    <2> QED
      BY <1>2, <1>3, <2>1, <2>2
  <1>4. CASE b < a
    <2>1. a - b \in Nat /\ (a - b) * n = a * n - b * n
      BY <1>4
    <2>2. (a - b) * n \in Nat /\ (a - b > 0 => (a - b) * n >= n)
      BY <1>1, <2>1
    <2> QED
      BY <1>2, <1>4, <2>1, <2>2
  <1> QED
    BY <1>3, <1>4

\* The rounded-up quotient is the number of chunks of n items that hold x.
LEMMA CeilFacts ==
    ASSUME NEW x \in Nat \ {0}, NEW n \in Nat \ {0}
    PROVE  LET q == (x + n - 1) \div n IN
           q \in Nat \ {0} /\ (q - 1) * n < x /\ x <= q * n
  <1> DEFINE y == x + n - 1
             q == y \div n
             r == y % n
  <1>1. y \in Nat /\ y >= n
    OBVIOUS
  <1>2. q \in Int /\ r \in 0..(n - 1) /\ y = n * q + r
    BY <1>1
  <1> HIDE DEF q, r
  <1>3. q * n = n * q /\ q * n \in Int
    BY <1>2
  <1>4. (q - 1) * n = q * n - n
    BY <1>2
  <1>5. 0 < q
    BY <1>1, <1>2, <1>3, ProductGrows
  <1> QED
    BY <1>1, <1>2, <1>3, <1>4, <1>5 DEF q

\* Every item lies in the chunk that its rounded-down quotient counts.
LEMMA FloorFacts ==
    ASSUME NEW n \in Nat, NEW size \in Nat \ {0}
    PROVE  \E j \in Nat : j * size \in Int /\ j * size <= n /\ n < j * size + size /\ j <= n
  <1> DEFINE q == n \div size
             r == n % size
  <1>1. q \in Int /\ r \in 0..(size - 1) /\ n = size * q + r
    OBVIOUS
  <1> HIDE DEF q, r
  <1>2. /\ q * size = size * q /\ q * size \in Int /\ (q + 1) * size = q * size + size
        /\ q + 1 \in Int /\ 0 * size = 0 /\ 0 \in Int
    BY <1>1
  <1>3. n = q * size + r
    BY <1>1, <1>2
  <1>4. 0 * size < (q + 1) * size
    BY <1>1, <1>2, <1>3
  <1>5. 0 < q + 1
    BY <1>2, <1>4, ProductGrows
  <1>6. q \in Nat
    BY <1>1, <1>5
  <1>7. q <= q * size
    <2>1. q * size = q + q * (size - 1) /\ q * (size - 1) \in Nat
      BY <1>6
    <2> QED
      BY <1>6, <2>1
  <1> QED
    BY <1>1, <1>2, <1>3, <1>6, <1>7

-----------------------------------------------------------------------------
(* Counting chunks *)

Statuses == [c \in Ids |-> chunk[c].status]

\* The chunks of a schedule, and all chunks, in status s of a table f.
Having(f, d, s) == {c \in ChunksOf(d) : f[c] = s}
AllHaving(f, s) == {c \in Ids : f[c] = s}

\* The table f with the status of c set to b.
Moved(f, c, b) == [e \in Ids |-> IF e = c THEN b ELSE f[e]]

\* When one chunk changes its status one count goes down and another one up.
LEMMA MoveCounts ==
    ASSUME NEW f, NEW c \in Ids, NEW a, NEW b, a # b, f[c] = a, NEW d \in Digests, NEW s
    PROVE  /\ Cardinality(Having(f, d, s)) \in Nat /\ Cardinality(Having(Moved(f, c, b), d, s)) \in Nat
           /\ Cardinality(Having(Moved(f, c, b), d, s)) =
                IF d = c.digest /\ s = a THEN Cardinality(Having(f, d, s)) - 1
                ELSE IF d = c.digest /\ s = b THEN Cardinality(Having(f, d, s)) + 1
                ELSE Cardinality(Having(f, d, s))
  <1> DEFINE g == Moved(f, c, b)
  <1>0. g[c] = b /\ \A e \in Ids \ {c} : g[e] = f[e]
    BY DEF Moved
  <1> HIDE DEF g
  <1>1. IsFiniteSet(Having(f, d, s)) /\ IsFiniteSet(Having(g, d, s))
    <2>1. Having(f, d, s) \in SUBSET ChunksOf(d) /\ Having(g, d, s) \in SUBSET ChunksOf(d)
      BY DEF Having
    <2> QED
      BY <2>1, ChunksFinite, FS_Subset
  <1>2. Cardinality(Having(f, d, s)) \in Nat /\ Cardinality(Having(g, d, s)) \in Nat
    BY <1>1, FS_CardinalityType
  <1>4. CASE d = c.digest /\ s = a
    <2>1. c \in Having(f, d, s) /\ Having(g, d, s) = Having(f, d, s) \ {c}
      BY <1>0, <1>4 DEF Having, ChunksOf
    <2>2. Cardinality(Having(g, d, s)) = Cardinality(Having(f, d, s)) - 1
      BY <1>1, <2>1, FS_RemoveElement
    <2> QED
      BY <1>2, <1>4, <2>2 DEF g
  <1>5. CASE d = c.digest /\ s = b
    <2>1. c \notin Having(f, d, s) /\ Having(g, d, s) = Having(f, d, s) \cup {c}
      BY <1>0, <1>5 DEF Having, ChunksOf
    <2>2. Cardinality(Having(g, d, s)) = Cardinality(Having(f, d, s)) + 1
      BY <1>1, <2>1, FS_AddElement
    <2> QED
      BY <1>2, <1>5, <2>2 DEF g
  <1>6. CASE d # c.digest \/ s \notin {a, b}
    <2>1. Having(g, d, s) = Having(f, d, s)
      BY <1>0, <1>6 DEF Having, ChunksOf
    <2> QED
      BY <1>2, <1>6, <2>1 DEF g
  <1> QED
    BY <1>4, <1>5, <1>6

\* The same for the chunks that run anywhere in the repository.
LEMMA MoveRunning ==
    ASSUME NEW f, NEW c \in Ids, NEW a, NEW b, a # b, f[c] = a,
           IsFiniteSet(AllHaving(f, "running"))
    PROVE  /\ IsFiniteSet(AllHaving(Moved(f, c, b), "running"))
           /\ Cardinality(AllHaving(f, "running")) \in Nat
           /\ Cardinality(AllHaving(Moved(f, c, b), "running")) \in Nat
           /\ Cardinality(AllHaving(Moved(f, c, b), "running")) =
                IF a = "running" THEN Cardinality(AllHaving(f, "running")) - 1
                ELSE IF b = "running" THEN Cardinality(AllHaving(f, "running")) + 1
                ELSE Cardinality(AllHaving(f, "running"))
  <1> DEFINE g == Moved(f, c, b)
  <1>0. g[c] = b /\ \A e \in Ids \ {c} : g[e] = f[e]
    BY DEF Moved
  <1> HIDE DEF g
  <1>2. CASE a = "running"
    <2>1. c \in AllHaving(f, "running") /\ AllHaving(g, "running") = AllHaving(f, "running") \ {c}
      BY <1>0, <1>2 DEF AllHaving
    <2>2. IsFiniteSet(AllHaving(g, "running"))
          /\ Cardinality(AllHaving(g, "running")) = Cardinality(AllHaving(f, "running")) - 1
      BY <2>1, FS_RemoveElement
    <2> QED
      BY <1>2, <2>2, FS_CardinalityType DEF g
  <1>3. CASE a # "running" /\ b = "running"
    <2>1. c \notin AllHaving(f, "running") /\ AllHaving(g, "running") = AllHaving(f, "running") \cup {c}
      BY <1>0, <1>3 DEF AllHaving
    <2>2. IsFiniteSet(AllHaving(g, "running"))
          /\ Cardinality(AllHaving(g, "running")) = Cardinality(AllHaving(f, "running")) + 1
      BY <2>1, FS_AddElement
    <2> QED
      BY <1>3, <2>2, FS_CardinalityType DEF g
  <1>4. CASE a # "running" /\ b # "running"
    <2>1. AllHaving(g, "running") = AllHaving(f, "running")
      BY <1>0, <1>4 DEF AllHaving
    <2> QED
      BY <1>4, <2>1, FS_CardinalityType DEF g
  <1> QED
    BY <1>2, <1>3, <1>4

\* What the counters say, in terms of a table.
CountersOf(f) ==
    /\ IsFiniteSet(AllHaving(f, "running"))
    /\ \A d \in Digests :
        /\ schedule[d].pending = Cardinality(Having(f, d, "pending"))
        /\ schedule[d].running = Cardinality(Having(f, d, "running"))
        /\ schedule[d].succeeded = Cardinality(Having(f, d, "done"))
        /\ schedule[d].materialized = Cardinality(ChunksOf(d)) - Cardinality(Having(f, d, "absent"))
    /\ running = Cardinality(AllHaving(f, "running"))

\* The counters are right when they are right about the table of statuses.
LEMMA CountersTable ==
    /\ Counters <=> CountersOf(Statuses)
    /\ Counters' <=> CountersOf(Statuses)'
  <1>1. \A d, s : InStatus(d, s) = Having(Statuses, d, s)
    BY DEF Statuses, Having, InStatus, ChunksOf
  <1>2. \A d, s : InStatus(d, s)' = Having(Statuses', d, s)
    BY DEF Statuses, Having, InStatus, ChunksOf
  <1>3. RunningChunks = AllHaving(Statuses, "running")
    BY DEF Statuses, AllHaving, RunningChunks
  <1>4. RunningChunks' = AllHaving(Statuses', "running")
    BY DEF Statuses, AllHaving, RunningChunks
  <1>5. Counters <=> CountersOf(Statuses)
    BY <1>1, <1>3 DEF Counters, CountersAgree, CountersOf, RunningChunks
  <1>6. Counters' <=> CountersOf(Statuses)'
    BY <1>2, <1>4 DEF Counters, CountersAgree, CountersOf, RunningChunks
  <1> QED
    BY <1>5, <1>6

-----------------------------------------------------------------------------
(* A chunk changes its status *)

\* What the type invariant says of a schedule row and a chunk row.
LEMMA TypeFacts ==
    ASSUME TypeOK
    PROVE  /\ DOMAIN schedule = Digests /\ DOMAIN chunk = Ids /\ DOMAIN current = Stages
           /\ \A d \in Digests :
                /\ schedule[d] \in Schedule /\ schedule[d].status \in ScheduleStatus
                /\ schedule[d].nextOffset \in Nat /\ schedule[d].materialized \in Nat
                /\ schedule[d].pending \in Nat /\ schedule[d].running \in Nat
                /\ schedule[d].succeeded \in Nat /\ schedule[d].failed \in Nat
           /\ \A c \in Ids :
                /\ chunk[c] \in Chunk /\ chunk[c].status \in ChunkStatus
                /\ chunk[c].length \in Nat /\ chunk[c].worker \in Workers \cup {NoWorker}
  BY DEF TypeOK, Schedule, Chunk

\* An offset keeps one live attempt when a live attempt of it changes its status.
LEMMA OneLiveMove ==
    ASSUME OneLiveAttempt, NEW c \in Ids, chunk[c].status \in {"pending", "running"},
           \A e \in Ids \ {c} : chunk'[e].status = chunk[e].status
    PROVE  OneLiveAttempt'
  <1> SUFFICES ASSUME NEW x \in Ids, chunk'[x].status # "absent", NEW b \in Ids,
                      b.digest = x.digest, b.offset = x.offset, b.attempt < x.attempt
               PROVE  chunk'[b].status = "failed"
    BY DEF OneLiveAttempt
  <1>1. chunk[x].status # "absent"
    OBVIOUS
  <1>2. chunk[b].status = "failed"
    BY <1>1 DEF OneLiveAttempt
  <1> QED
    BY <1>2

\* The counters stay right when they follow the chunk.
LEMMA CountersMove ==
    ASSUME Counters, NEW c \in Ids, NEW a, NEW b, a # b,
           chunk[c].status = a, chunk'[c].status = b,
           \A e \in Ids \ {c} : chunk'[e].status = chunk[e].status,
           \A d \in Digests \ {c.digest} : schedule'[d].pending = schedule[d].pending
               /\ schedule'[d].running = schedule[d].running
               /\ schedule'[d].succeeded = schedule[d].succeeded
               /\ schedule'[d].materialized = schedule[d].materialized,
           NEW u, NEW v, u = schedule[c.digest], v = schedule'[c.digest],
           v.pending = IF a = "pending" THEN u.pending - 1
                       ELSE IF b = "pending" THEN u.pending + 1 ELSE u.pending,
           v.running = IF a = "running" THEN u.running - 1
                       ELSE IF b = "running" THEN u.running + 1 ELSE u.running,
           v.succeeded = IF a = "done" THEN u.succeeded - 1
                         ELSE IF b = "done" THEN u.succeeded + 1 ELSE u.succeeded,
           v.materialized = u.materialized, a # "absent", b # "absent",
           running' = IF a = "running" THEN running - 1
                      ELSE IF b = "running" THEN running + 1 ELSE running
    PROVE  Counters'
  <1>1. PICK f : f = Statuses
    OBVIOUS
  <1>2. PICK g : g = Statuses'
    OBVIOUS
  <1>3. f[c] = a /\ g = Moved(f, c, b)
    <2>1. f = [e \in Ids |-> chunk[e].status] /\ g = [e \in Ids |-> chunk'[e].status]
      BY <1>1, <1>2 DEF Statuses
    <2> QED
      BY <2>1 DEF Moved
  <1>4. CountersOf(f)
    BY <1>1, CountersTable
  <1>5. ASSUME NEW d \in Digests, NEW s
        PROVE  /\ Cardinality(Having(f, d, s)) \in Nat /\ Cardinality(Having(g, d, s)) \in Nat
               /\ Cardinality(Having(g, d, s)) =
                    IF d = c.digest /\ s = a THEN Cardinality(Having(f, d, s)) - 1
                    ELSE IF d = c.digest /\ s = b THEN Cardinality(Having(f, d, s)) + 1
                    ELSE Cardinality(Having(f, d, s))
    BY <1>3, MoveCounts
  <1>6. /\ IsFiniteSet(AllHaving(g, "running"))
        /\ running' = Cardinality(AllHaving(g, "running"))
    <2>1. IsFiniteSet(AllHaving(f, "running")) /\ running = Cardinality(AllHaving(f, "running"))
      BY <1>3, <1>4 DEF CountersOf
    <2>2. /\ IsFiniteSet(AllHaving(g, "running"))
          /\ Cardinality(AllHaving(g, "running")) =
                IF a = "running" THEN Cardinality(AllHaving(f, "running")) - 1
                ELSE IF b = "running" THEN Cardinality(AllHaving(f, "running")) + 1
                ELSE Cardinality(AllHaving(f, "running"))
      BY <1>3, <2>1, MoveRunning
    <2> QED
      BY <1>3, <2>1, <2>2
  <1>7. ASSUME NEW d \in Digests
        PROVE  /\ schedule'[d].pending = Cardinality(Having(g, d, "pending"))
               /\ schedule'[d].running = Cardinality(Having(g, d, "running"))
               /\ schedule'[d].succeeded = Cardinality(Having(g, d, "done"))
               /\ schedule'[d].materialized = Cardinality(ChunksOf(d)) - Cardinality(Having(g, d, "absent"))
    <2>1. /\ schedule[d].pending = Cardinality(Having(f, d, "pending"))
          /\ schedule[d].running = Cardinality(Having(f, d, "running"))
          /\ schedule[d].succeeded = Cardinality(Having(f, d, "done"))
          /\ schedule[d].materialized = Cardinality(ChunksOf(d)) - Cardinality(Having(f, d, "absent"))
      BY <1>4 DEF CountersOf
    <2>2. CASE d # c.digest
      BY <1>5, <2>1, <2>2
    <2>3. CASE d = c.digest
      <3>1. schedule'[d].pending = Cardinality(Having(g, d, "pending"))
        BY <1>5, <2>1, <2>3
      <3>2. schedule'[d].running = Cardinality(Having(g, d, "running"))
        BY <1>5, <2>1, <2>3
      <3>3. schedule'[d].succeeded = Cardinality(Having(g, d, "done"))
        BY <1>5, <2>1, <2>3
      <3>4. schedule'[d].materialized = Cardinality(ChunksOf(d)) - Cardinality(Having(g, d, "absent"))
        BY <1>5, <2>1, <2>3
      <3> QED
        BY <3>1, <3>2, <3>3, <3>4
    <2> QED
      BY <2>2, <2>3
  <1>8. CountersOf(Statuses)'
    BY <1>2, <1>6, <1>7 DEF CountersOf
  <1> QED
    BY <1>8, CountersTable

\* A running chunk is counted twice: on its schedule and on the repository.
LEMMA RunningPositive ==
    ASSUME TypeOK, Counters, NEW c \in Ids, chunk[c].status = "running"
    PROVE  schedule[c.digest].running > 0 /\ running > 0
  <1>1. c.digest \in Digests
    BY IdNumbers
  <1>2. c \in InStatus(c.digest, "running") /\ c \in RunningChunks
    BY DEF InStatus, ChunksOf, RunningChunks
  <1>3. IsFiniteSet(InStatus(c.digest, "running")) /\ IsFiniteSet(RunningChunks)
    BY <1>1, StatusFinite DEF Counters
  <1>4. Cardinality(InStatus(c.digest, "running")) # 0 /\ Cardinality(RunningChunks) # 0
    BY <1>2, <1>3, FS_EmptySet
  <1>5. /\ schedule[c.digest].running = Cardinality(InStatus(c.digest, "running"))
        /\ running = Cardinality(RunningChunks)
    BY <1>1 DEF Counters, CountersAgree, RunningChunks
  <1>6. schedule[c.digest].running \in Nat /\ running \in Nat
    BY <1>1, TypeFacts DEF TypeOK
  <1> QED
    BY <1>4, <1>5, <1>6

\* The number of chunks of a schedule.
LEMMA TotalFacts ==
    ASSUME NEW d \in Digests
    PROVE  /\ TotalChunks(d) \in Nat \ {0}
           /\ (TotalChunks(d) - 1) * Specs[d].chunkItems < TotalItems(d)
           /\ TotalItems(d) <= TotalChunks(d) * Specs[d].chunkItems
  BY SpecFacts, CeilFacts DEF TotalChunks

\* A settled schedule has nothing pending and nothing running.
LEMMA SettledIsOver ==
    ASSUME TypeOK, Progress, NEW d \in Digests, schedule[d].status = "settled"
    PROVE  /\ schedule[d].pending = 0 /\ schedule[d].running = 0
           /\ schedule[d].nextOffset = TotalItems(d)
           /\ schedule[d].succeeded + schedule[d].failed = TotalChunks(d)
  <1>1. /\ Started(d) <= TotalChunks(d)
        /\ schedule[d].nextOffset =
             IF Started(d) < TotalChunks(d) THEN Started(d) * Specs[d].chunkItems ELSE TotalItems(d)
        /\ schedule[d].succeeded + schedule[d].failed = TotalChunks(d)
    BY DEF Progress
  <1>2. TotalChunks(d) \in Nat
    BY TotalFacts
  <1> QED
    BY <1>1, <1>2, TypeFacts DEF Started

\* The step that ends a lease, apart from what the holder remembers of it.
LEMMA EndIInv ==
    ASSUME IInv, NEW c \in Ids, chunk[c].status = "running",
           chunk' = [chunk EXCEPT ![c] = chunk'[c]], chunk'[c] \in Chunk,
           chunk'[c].status \in {"pending", "done", "failed", "canceled"},
           chunk'[c].length = chunk[c].length,
           LET d == c.digest
               u == schedule[d]
               v == schedule'[d]
               s == chunk'[c].status
           IN  /\ schedule' = [schedule EXCEPT ![d] = v] /\ v \in Schedule
               /\ v.nextOffset = u.nextOffset /\ v.materialized = u.materialized
               /\ v.pending = (IF s = "pending" THEN u.pending + 1 ELSE u.pending)
               /\ v.running = u.running - 1
               /\ v.succeeded = (IF s = "done" THEN u.succeeded + 1 ELSE u.succeeded)
               /\ v.failed = (IF s = "failed" THEN u.failed + 1 ELSE u.failed)
               /\ v.status = (IF s \in {"done", "failed"} /\ Settles(d) THEN "settled" ELSE u.status)
               /\ s = "canceled" <=> ~IsCurrent(d)
               /\ d \in Serial /\ s = "done" => c.offset < plan[d],
           running' = running - 1, UNCHANGED <<current, authority>>,
           handles' \subseteq Handle, observed' \subseteq Handle, Evidence'
    PROVE  IInv'
  <1> PICK d \in Digests : d = c.digest
    BY IdNumbers
  <1> PICK row \in Chunk : row = chunk'[c]
    OBVIOUS
  <1> PICK v \in Schedule : v = schedule'[d]
    OBVIOUS
  <1> PICK u \in Schedule : u = schedule[d]
    BY TypeFacts DEF IInv, Table
  <1>0. TypeOK /\ UNCHANGED <<collecting, plan>>
    BY DEF IInv, Table, authority
  <1>1. chunk'[c] = row /\ \A e \in Ids \ {c} : chunk'[e] = chunk[e]
    BY <1>0, TypeFacts
  <1>2. schedule'[d] = v /\ \A e \in Digests \ {d} : schedule'[e] = schedule[e]
    BY <1>0, TypeFacts
  <1>3. u.running > 0 /\ running > 0
    BY <1>0, RunningPositive DEF IInv
  <1>4. /\ u.nextOffset \in Nat /\ u.materialized \in Nat /\ u.pending \in Nat /\ u.running \in Nat
        /\ u.succeeded \in Nat /\ u.failed \in Nat /\ u.status \in ScheduleStatus
    BY DEF Schedule
  <1>5. /\ v.nextOffset = u.nextOffset /\ v.materialized = u.materialized
        /\ v.pending = (IF row.status = "pending" THEN u.pending + 1 ELSE u.pending)
        /\ v.running = u.running - 1
        /\ v.succeeded = (IF row.status = "done" THEN u.succeeded + 1 ELSE u.succeeded)
        /\ v.failed = (IF row.status = "failed" THEN u.failed + 1 ELSE u.failed)
        /\ v.status = (IF row.status \in {"done", "failed"} /\ Settles(d) THEN "settled" ELSE u.status)
    OBVIOUS
  <1>6. Counters'
    <2>1. PICK b : b = row.status
      OBVIOUS
    <2>2. Counters
      BY DEF IInv
    <2> QED
      BY <1>1, <1>2, <1>5, <2>1, <2>2, CountersMove
  <1>7. TypeOK'
    BY <1>0, <1>3 DEF TypeOK
  <1>8. RowsExpanded'
    <2>1. ASSUME NEW e \in Ids, chunk'[e].status # "absent"
          PROVE  /\ schedule'[e.digest].status # "absent" /\ e.offset < schedule'[e.digest].nextOffset
                 /\ chunk'[e].length = Length(e.digest, e.offset)
      <3>1. chunk[e].status # "absent" /\ chunk'[e].length = chunk[e].length
        BY <1>1, <2>1
      <3>2. /\ schedule[e.digest].status # "absent" /\ e.offset < schedule[e.digest].nextOffset
            /\ chunk[e].length = Length(e.digest, e.offset)
        BY <3>1 DEF IInv, Table, RowsExpanded
      <3>3. e.digest \in Digests
        BY IdNumbers
      <3> QED
        BY <1>2, <1>5, <3>1, <3>2, <3>3
    <2> QED
      BY <2>1 DEF RowsExpanded, Length, TotalItems
  <1>9. RunningLeased'
    BY <1>1 DEF IInv, Table, RunningLeased
  <1>10. OneLiveAttempt'
    BY <1>1, OneLiveMove DEF IInv, Table
  <1>11. ActiveIsCurrent'
    <2>1. ASSUME NEW e \in Digests
          PROVE  /\ schedule'[e].status = "active" => schedule[e].status = "active"
                 /\ InStatus(e, "running")' \subseteq InStatus(e, "running")
      BY <1>1, <1>2, <1>5 DEF InStatus, ChunksOf
    <2> QED
      BY <1>0, <2>1 DEF IInv, ActiveIsCurrent, IsCurrent, RootLive
  <1>12. Settling'
    <2>0. Progress /\ OffsetsCovered /\ PlanFollowed
      BY DEF IInv, Settling
    <2>1. u.status # "settled"
      BY <1>0, <1>3, <2>0, SettledIsOver
    <2>2. u.status = "active" => IsCurrent(d) /\ row.status # "canceled"
      BY DEF IInv, ActiveIsCurrent
    <2>3. TotalChunks(d) \in Nat \ {0}
      BY TotalFacts
    <2>4. u.status = "active" =>
            /\ Started(d) <= TotalChunks(d)
            /\ u.nextOffset =
                 IF Started(d) < TotalChunks(d) THEN Started(d) * Specs[d].chunkItems ELSE TotalItems(d)
            /\ u.succeeded + u.failed # TotalChunks(d)
      BY <2>0 DEF Progress
    <2>5. Started(d) = u.pending + u.running + u.succeeded + u.failed
      BY DEF Started
    <2>6. row.status # "canceled" => v.pending + v.running + v.succeeded + v.failed = Started(d)
      BY <1>4, <1>5, <2>5
    <2>7. u.status = "active" =>
            (Settles(d) <=> u.succeeded + u.failed + 1 = TotalChunks(d))
      BY <1>3, <1>4, <2>2, <2>3, <2>4, <2>5 DEF Settles
    <2>8. Progress'
      <3>1. ASSUME NEW e \in Digests, schedule'[e].status \in {"active", "settled"}, e # d
            PROVE  /\ Started(e)' <= TotalChunks(e)
                   /\ schedule'[e].nextOffset =
                        IF Started(e)' < TotalChunks(e) THEN Started(e)' * Specs[e].chunkItems ELSE TotalItems(e)
                   /\ schedule'[e].status = "settled" <=>
                        schedule'[e].succeeded + schedule'[e].failed = TotalChunks(e)
        <4>1. schedule'[e] = schedule[e]
          BY <1>2, <3>1
        <4>2. Started(e)' = Started(e)
          BY <4>1 DEF Started
        <4> QED
          BY <2>0, <3>1, <4>1, <4>2 DEF Progress
      <3>2. ASSUME v.status \in {"active", "settled"}
            PROVE  /\ Started(d)' <= TotalChunks(d)
                   /\ v.nextOffset =
                        IF Started(d)' < TotalChunks(d) THEN Started(d)' * Specs[d].chunkItems ELSE TotalItems(d)
                   /\ v.status = "settled" <=> v.succeeded + v.failed = TotalChunks(d)
        <4>1. u.status = "active"
          <5>1. CASE row.status \in {"done", "failed"} /\ Settles(d)
            BY <2>1, <5>1 DEF Settles, IInv, CurrentIsLive
          <5>2. CASE ~(row.status \in {"done", "failed"} /\ Settles(d))
            BY <1>5, <2>1, <3>2, <5>2
          <5> QED
            BY <5>1, <5>2
        <4>2. Started(d)' = Started(d)
          BY <1>2, <2>2, <2>6, <4>1 DEF Started
        <4>3. v.status = "settled" <=> v.succeeded + v.failed = TotalChunks(d)
          BY <1>4, <1>5, <2>2, <2>3, <2>4, <2>7, <4>1
        <4> QED
          BY <1>5, <2>4, <4>1, <4>2, <4>3
      <3> QED
        BY <1>2, <3>1, <3>2 DEF Progress, TotalChunks, TotalItems
    <2>9. OffsetsCovered'
      <3>1. ASSUME NEW e \in Digests, schedule'[e].status \in {"active", "settled"},
                   schedule'[e].failed = 0, NEW j \in 0..(TotalItems(e) - 1),
                   j * Specs[e].chunkItems < schedule'[e].nextOffset
            PROVE  \E x \in ChunksOf(e) : x.offset = j * Specs[e].chunkItems
                                          /\ chunk'[x].status \in {"pending", "running", "done"}
        <4>1. /\ schedule[e].status \in {"active", "settled"} /\ schedule[e].failed = 0
              /\ schedule[e].nextOffset = schedule'[e].nextOffset
              /\ e = d => row.status \in {"pending", "done"}
          <5>1. CASE e # d
            BY <1>2, <3>1, <5>1
          <5>2. CASE e = d
            <6>1. row.status # "failed" /\ u.failed = 0
              BY <1>2, <1>4, <1>5, <3>1, <5>2
            <6>2. u.status = "active"
              BY <1>2, <1>5, <2>1, <3>1, <5>2 DEF Settles, IInv, CurrentIsLive
            <6> QED
              BY <1>2, <1>5, <2>2, <5>2, <6>1, <6>2
          <5> QED
            BY <5>1, <5>2
        <4>2. PICK x \in ChunksOf(e) : /\ x.offset = j * Specs[e].chunkItems
                                       /\ chunk[x].status \in {"pending", "running", "done"}
          BY <2>0, <3>1, <4>1 DEF OffsetsCovered
        <4>3. chunk'[x].status \in {"pending", "running", "done"}
          BY <1>1, <4>1, <4>2 DEF ChunksOf
        <4> QED
          BY <4>2, <4>3
      <3> QED
        BY <3>1 DEF OffsetsCovered, TotalItems
    <2>10. PlanFollowed'
      BY <1>0, <1>1, <2>0 DEF PlanFollowed, InStatus, ChunksOf
    <2> QED
      BY <2>8, <2>9, <2>10 DEF Settling
  <1>13. CurrentIsLive'
    <2>1. IsCurrent(d) => v.status \in {"active", "settled"}
      BY <1>5 DEF IInv, CurrentIsLive
    <2> QED
      BY <1>2, <2>1 DEF IInv, CurrentIsLive, IsCurrent
  <1> QED
    BY <1>6, <1>7, <1>8, <1>9, <1>10, <1>11, <1>12, <1>13 DEF IInv, Table

-----------------------------------------------------------------------------
(* What a holder remembers *)

\* A chunk keeps its result, or had none and has none.
OutcomeKept(e) ==
    \/ chunk'[e].status = chunk[e].status /\ chunk'[e].worker = chunk[e].worker
    \/ chunk[e].status \notin {"done", "failed"} /\ chunk'[e].status \notin {"done", "failed"}

\* A step that leaves results alone, and adds no value, keeps the evidence.
LEMMA EvidenceKept ==
    ASSUME Evidence, handles \subseteq Handle, handles' \subseteq handles, \A e \in Ids : OutcomeKept(e)
    PROVE  Evidence'
  <1>1. HandlesDistinct'
    BY DEF Evidence, HandlesDistinct
  <1>2. \A h \in handles : h.id \in Ids
    BY DEF Handle
  <1>3. DoneByHolder' /\ FailedByHolder'
    BY <1>2 DEF Evidence, DoneByHolder, FailedByHolder, OutcomeKept, Exhausted
  <1> QED
    BY <1>1, <1>3 DEF Evidence

\* A holder's own call ends its lease: what it remembers is what the row says.
LEMMA EvidenceDid ==
    ASSUME Evidence, handles \subseteq Handle, NEW h \in handles, Owned(h),
           NEW row, chunk'[h.id] = row, \A e \in Ids \ {h.id} : OutcomeKept(e),
           NEW what, Did(h, what), what = "done" <=> row.status = "done",
           row.status \in {"done", "failed"} => row.worker = h.worker,
           row.status = "failed" => what \in {"failed", "exhausted", "retried"},
           what = "retried" => ~Exhausted(h.id),
           what = "exhausted" => Exhausted(h.id) /\ row.status = "failed"
    PROVE  Evidence'
  <1>1. h \in Handle /\ \A g \in handles : g.id \in Ids
    BY DEF Handle
  <1>2. PICK k : k = [h EXCEPT !.did = what]
    OBVIOUS
  <1>3. k.id = h.id /\ k.worker = h.worker /\ k.did = what /\ k.lease = h.lease
    BY <1>1, <1>2 DEF Handle
  <1>4. handles' = (handles \ {h}) \cup {k}
    BY <1>2 DEF Did
  <1>5. HandlesDistinct'
    BY <1>3, <1>4 DEF Evidence, HandlesDistinct
  <1>6. \A g \in handles \ {h} : g.worker # h.worker
    BY DEF Evidence, HandlesDistinct
  <1>7. chunk[h.id].status = "running"
    BY DEF Owned
  <1>8. ASSUME NEW g \in handles'
        PROVE  /\ g.did = "done" <=> chunk'[g.id].status = "done" /\ chunk'[g.id].worker = g.worker
               /\ chunk'[g.id].status = "failed" /\ chunk'[g.id].worker = g.worker =>
                    g.did \in {"failed", "exhausted", "retried"}
               /\ g.did = "retried" => ~Exhausted(g.id)
               /\ g.did = "exhausted" =>
                    Exhausted(g.id) /\ chunk'[g.id].status = "failed" /\ chunk'[g.id].worker = g.worker
    <2>1. CASE g = k
      BY <1>3, <2>1
    <2>2. CASE g # k
      <3>1. /\ g \in handles \ {h}
            /\ g.did = "done" <=> chunk[g.id].status = "done" /\ chunk[g.id].worker = g.worker
            /\ chunk[g.id].status = "failed" /\ chunk[g.id].worker = g.worker =>
                 g.did \in {"failed", "exhausted", "retried"}
            /\ g.did = "retried" => ~Exhausted(g.id)
            /\ g.did = "exhausted" =>
                 Exhausted(g.id) /\ chunk[g.id].status = "failed" /\ chunk[g.id].worker = g.worker
        BY <1>4, <2>2 DEF Evidence, DoneByHolder, FailedByHolder
      <3>2. CASE g.id = h.id
        BY <1>6, <1>7, <3>1, <3>2
      <3>3. CASE g.id # h.id
        BY <1>1, <3>1, <3>3 DEF OutcomeKept
      <3> QED
        BY <3>2, <3>3
    <2> QED
      BY <2>1, <2>2
  <1>9. DoneByHolder' /\ FailedByHolder'
    BY <1>8 DEF DoneByHolder, FailedByHolder, Exhausted
  <1> QED
    BY <1>5, <1>9 DEF Evidence

\* What the call of a holder remembers is a value again.
LEMMA DidType ==
    ASSUME handles \subseteq Handle, NEW h \in handles, NEW what, Did(h, what),
           what \in {"none", "done", "failed", "exhausted", "canceled", "returned", "retried"}
    PROVE  handles' \subseteq Handle
  <1>1. [h EXCEPT !.did = what] \in Handle
    BY DEF Handle
  <1> QED
    BY <1>1 DEF Did

-----------------------------------------------------------------------------
(* The ends of a lease *)

\* The rows that end a lease.
LEMMA FinishedFacts ==
    ASSUME NEW row \in Chunk, NEW s \in ChunkStatus
    PROVE  /\ Finished(row, s) \in Chunk /\ Finished(row, s).status = s
           /\ Finished(row, s).length = row.length /\ Finished(row, s).worker = row.worker
  BY DEF Chunk, Finished

\* The row a claim writes.
LEMMA ClaimedFacts ==
    ASSUME NEW row \in Chunk, NEW w \in Workers, NEW l \in Leases
    PROVE  /\ Claimed(row, w, l) \in Chunk /\ Claimed(row, w, l).status = "running"
           /\ Claimed(row, w, l).lease = l /\ Claimed(row, w, l).worker = w
           /\ Claimed(row, w, l).length = row.length
  BY DEF Claimed, Chunk, ChunkStatus

\* The row an expansion or a retry inserts.
LEMMA NewChunkFacts ==
    ASSUME NEW n \in Nat, NEW p \in 0..2, NEW gate \in BOOLEAN
    PROVE  /\ NewChunk(n, p, gate) \in Chunk /\ NewChunk(n, p, gate).status = "pending"
           /\ NewChunk(n, p, gate).length = n
  BY DEF NewChunk, Chunk, ChunkStatus

\* The counters of the three ways a lease ends without a successor.
LEMMA CountFacts ==
    ASSUME NEW d \in Digests, NEW u \in Schedule, u = schedule[d], u.running > 0
    PROVE  /\ \A v \in {CountDone(d), CountFailed(d), CountReturned(d)} :
                /\ v \in Schedule /\ v.nextOffset = u.nextOffset
                /\ v.materialized = u.materialized /\ v.running = u.running - 1
           /\ \A v \in {CountDone(d), CountFailed(d)} :
                v.pending = u.pending /\ v.status = IF Settles(d) THEN "settled" ELSE u.status
           /\ CountDone(d).succeeded = IF IsCurrent(d) THEN u.succeeded + 1 ELSE u.succeeded
           /\ CountFailed(d).succeeded = u.succeeded /\ CountReturned(d).succeeded = u.succeeded
           /\ CountFailed(d).failed = IF IsCurrent(d) THEN u.failed + 1 ELSE u.failed
           /\ CountDone(d).failed = u.failed /\ CountReturned(d).failed = u.failed
           /\ CountReturned(d).pending = IF IsCurrent(d) THEN u.pending + 1 ELSE u.pending
           /\ CountReturned(d).status = u.status
  <1>0. /\ u.running \in Nat /\ u.pending \in Nat /\ u.succeeded \in Nat /\ u.failed \in Nat
        /\ u.status \in ScheduleStatus
    BY DEF Schedule
  <1>a. PICK r \in Nat : r = u.running - 1
    BY <1>0
  <1>b. PICK st \in ScheduleStatus : st = IF Settles(d) THEN "settled" ELSE u.status
    BY <1>0 DEF ScheduleStatus
  <1>1. /\ CountDone(d) \in Schedule /\ CountDone(d).nextOffset = u.nextOffset
        /\ CountDone(d).materialized = u.materialized /\ CountDone(d).running = u.running - 1
        /\ CountDone(d).pending = u.pending /\ CountDone(d).failed = u.failed
        /\ CountDone(d).status = (IF Settles(d) THEN "settled" ELSE u.status)
        /\ CountDone(d).succeeded = (IF IsCurrent(d) THEN u.succeeded + 1 ELSE u.succeeded)
    <2>1. PICK n \in Nat : n = IF IsCurrent(d) THEN u.succeeded + 1 ELSE u.succeeded
      BY <1>0
    <2>2. CountDone(d) = [u EXCEPT !.running = r, !.succeeded = n, !.status = st]
      BY <1>a, <1>b, <2>1 DEF CountDone
    <2> QED
      BY <1>a, <1>b, <2>1, <2>2 DEF Schedule
  <1>2. /\ CountFailed(d) \in Schedule /\ CountFailed(d).nextOffset = u.nextOffset
        /\ CountFailed(d).materialized = u.materialized /\ CountFailed(d).running = u.running - 1
        /\ CountFailed(d).pending = u.pending /\ CountFailed(d).succeeded = u.succeeded
        /\ CountFailed(d).status = (IF Settles(d) THEN "settled" ELSE u.status)
        /\ CountFailed(d).failed = (IF IsCurrent(d) THEN u.failed + 1 ELSE u.failed)
    <2>1. PICK n \in Nat : n = IF IsCurrent(d) THEN u.failed + 1 ELSE u.failed
      BY <1>0
    <2>2. CountFailed(d) = [u EXCEPT !.running = r, !.failed = n, !.status = st]
      BY <1>a, <1>b, <2>1 DEF CountFailed
    <2> QED
      BY <1>a, <1>b, <2>1, <2>2 DEF Schedule
  <1>3. /\ CountReturned(d) \in Schedule /\ CountReturned(d).nextOffset = u.nextOffset
        /\ CountReturned(d).materialized = u.materialized /\ CountReturned(d).running = u.running - 1
        /\ CountReturned(d).succeeded = u.succeeded /\ CountReturned(d).failed = u.failed
        /\ CountReturned(d).status = u.status
        /\ CountReturned(d).pending = (IF IsCurrent(d) THEN u.pending + 1 ELSE u.pending)
    <2>1. PICK n \in Nat : n = IF IsCurrent(d) THEN u.pending + 1 ELSE u.pending
      BY <1>0
    <2>2. CountReturned(d) = [u EXCEPT !.running = r, !.pending = n]
      BY <1>a, <2>1 DEF CountReturned
    <2> QED
      BY <1>a, <2>1, <2>2 DEF Schedule
  <1> QED
    BY <1>1, <1>2, <1>3

\* A handle names a chunk of a schedule.
LEMMA HandleFacts ==
    ASSUME IInv, NEW h \in handles \cup observed
    PROVE  /\ h \in Handle /\ h.id \in Ids /\ h.id.digest \in Digests
           /\ handles \subseteq Handle /\ observed \subseteq Handle
           /\ chunk[h.id] \in Chunk /\ schedule[h.id.digest] \in Schedule
  <1>1. h \in Handle /\ handles \subseteq Handle /\ observed \subseteq Handle
    BY DEF IInv, Table, TypeOK
  <1>2. h.id \in Ids
    BY <1>1 DEF Handle
  <1> QED
    BY <1>1, <1>2, IdNumbers, TypeFacts DEF IInv, Table

\* CompleteGenerationChunk and FailGenerationChunk, and the retries that end the offset.
LEMMA ResultIInv ==
    ASSUME IInv, NEW h \in handles, Owned(h), NEW d, d = h.id.digest,
           NEW s, NEW what, NEW v, v \in {CountDone(d), CountFailed(d)},
           IF IsCurrent(d) THEN s \in {"done", "failed"} ELSE s = "canceled",
           IsCurrent(d) => v = IF s = "done" THEN CountDone(d) ELSE CountFailed(d),
           EndLease(h.id, Finished(chunk[h.id], s), v),
           d \in Serial /\ s = "done" => h.id.offset < plan[d],
           Did(h, what), UNCHANGED observed,
           what \in {"done", "failed", "exhausted", "canceled"},
           what = "done" <=> s = "done", s = "failed" => what \in {"failed", "exhausted"},
           what = "exhausted" => Exhausted(h.id) /\ s = "failed"
    PROVE  IInv'
  <1>1. /\ h \in Handle /\ h.id \in Ids /\ d \in Digests
        /\ handles \subseteq Handle /\ observed \subseteq Handle
        /\ chunk[h.id] \in Chunk /\ schedule[d] \in Schedule
    BY HandleFacts
  <1>2. PICK row : row = Finished(chunk[h.id], s)
    OBVIOUS
  <1>3. s \in {"done", "failed", "canceled"} /\ s \in ChunkStatus
    BY DEF ChunkStatus
  <1>4. row \in Chunk /\ row.status = s /\ row.length = chunk[h.id].length /\ row.worker = chunk[h.id].worker
    BY <1>1, <1>2, <1>3, FinishedFacts
  <1>5. /\ chunk' = [chunk EXCEPT ![h.id] = row] /\ schedule' = [schedule EXCEPT ![d] = v]
        /\ running' = running - 1 /\ UNCHANGED <<current, authority>>
    BY <1>2 DEF EndLease
  <1>6. chunk[h.id].status = "running" /\ chunk[h.id].worker = h.worker
    BY DEF Owned
  <1>7. Evidence'
    <2>1. chunk'[h.id] = row /\ \A e \in Ids \ {h.id} : chunk'[e] = chunk[e]
      BY <1>1, <1>5, TypeFacts DEF IInv, Table
    <2>2. \A e \in Ids \ {h.id} : OutcomeKept(e)
      BY <2>1 DEF OutcomeKept
    <2>3. Evidence
      BY DEF IInv
    <2> QED
      BY <1>1, <1>3, <1>4, <1>6, <2>1, <2>2, <2>3, EvidenceDid
  <1>8. handles' \subseteq Handle
    BY <1>1, DidType
  <1>9. PICK u \in Schedule : u = schedule[d]
    BY <1>1
  <1>10. u.running > 0
    BY <1>1, <1>6, <1>9, RunningPositive DEF IInv, Table
  <1>11. ~IsCurrent(d) => ~Settles(d)
    BY DEF Settles
  <1>12. /\ v \in Schedule /\ v.nextOffset = u.nextOffset /\ v.materialized = u.materialized
         /\ v.running = u.running - 1 /\ v.pending = u.pending
         /\ v.status = IF Settles(d) THEN "settled" ELSE u.status
    BY <1>1, <1>9, <1>10, CountFacts
  <1>13. v.succeeded = IF s = "done" THEN u.succeeded + 1 ELSE u.succeeded
    BY <1>1, <1>9, <1>10, CountFacts
  <1>14. v.failed = IF s = "failed" THEN u.failed + 1 ELSE u.failed
    BY <1>1, <1>9, <1>10, CountFacts
  <1>15. v.status = IF s \in {"done", "failed"} /\ Settles(d) THEN "settled" ELSE u.status
    BY <1>11, <1>12
  <1>16. row.status \in {"pending", "done", "failed", "canceled"} /\ row.status # "pending"
         /\ (row.status = "canceled" <=> ~IsCurrent(d))
    BY <1>3, <1>4
  <1>17. chunk'[h.id] = row /\ schedule'[d] = v
    BY <1>1, <1>5, TypeFacts DEF IInv, Table
  <1> QED
    BY <1>1, <1>4, <1>5, <1>6, <1>7, <1>8, <1>9, <1>12, <1>13, <1>14, <1>15, <1>16, <1>17, EndIInv

\* A chunk handed back is pending again, or canceled when its schedule is fenced.
LEMMA HandBackIInv ==
    ASSUME IInv, NEW h \in handles \cup observed, NEW gate \in BOOLEAN, HandBack(h, gate),
           \/ h \in handles /\ Did(h, "returned") /\ UNCHANGED observed
           \/ observed' \subseteq observed /\ UNCHANGED handles
    PROVE  IInv'
  <1>0. PICK d : d = h.id.digest
    OBVIOUS
  <1>1. /\ h \in Handle /\ h.id \in Ids /\ d \in Digests
        /\ handles \subseteq Handle /\ observed \subseteq Handle
        /\ chunk[h.id] \in Chunk /\ schedule[d] \in Schedule
    BY <1>0, HandleFacts
  <1>2. PICK row : row = Returned(h.id, gate)
    OBVIOUS
  <1>3. PICK v : v = CountReturned(d)
    OBVIOUS
  <1>4. /\ row \in Chunk /\ row.length = chunk[h.id].length
        /\ row.status = IF IsCurrent(d) THEN "pending" ELSE "canceled"
    <2>1. chunk[h.id].priority \in 0..2 /\ 2 \in 0..2 /\ {"pending", "canceled"} \subseteq ChunkStatus
      BY <1>1 DEF Chunk, ChunkStatus
    <2>2. CASE IsCurrent(d)
      <3>1. row = Unclaimed(chunk[h.id], "pending", 2, gate)
        BY <1>0, <1>2, <2>2 DEF Returned
      <3> QED
        BY <1>1, <2>1, <2>2, <3>1 DEF Unclaimed, Chunk
    <2>3. CASE ~IsCurrent(d)
      <3>1. row = Unclaimed(chunk[h.id], "canceled", chunk[h.id].priority, FALSE)
        BY <1>0, <1>2, <2>3 DEF Returned
      <3> QED
        BY <1>1, <2>1, <2>3, <3>1 DEF Unclaimed, Chunk
    <2> QED
      BY <2>2, <2>3
  <1>5. /\ chunk' = [chunk EXCEPT ![h.id] = row] /\ schedule' = [schedule EXCEPT ![d] = v]
        /\ running' = running - 1 /\ UNCHANGED <<current, authority>> /\ Owned(h)
    BY <1>0, <1>2, <1>3 DEF HandBack, EndLease
  <1>6. chunk[h.id].status = "running" /\ chunk[h.id].worker = h.worker
    BY <1>5 DEF Owned
  <1>7. chunk'[h.id] = row /\ \A e \in Ids \ {h.id} : chunk'[e] = chunk[e]
    BY <1>1, <1>5, TypeFacts DEF IInv, Table
  <1>8. \A e \in Ids : OutcomeKept(e)
    BY <1>4, <1>6, <1>7 DEF OutcomeKept
  <1>9. Evidence' /\ handles' \subseteq Handle /\ observed' \subseteq Handle
    <2>0. Evidence
      BY DEF IInv
    <2>1. CASE h \in handles /\ Did(h, "returned") /\ UNCHANGED observed
      <3>1. handles' \subseteq Handle
        BY <1>1, <2>1, DidType
      <3>2. Evidence'
        BY <1>1, <1>4, <1>5, <1>7, <1>8, <2>0, <2>1, EvidenceDid
      <3> QED
        BY <1>1, <2>1, <3>1, <3>2
    <2>2. CASE observed' \subseteq observed /\ UNCHANGED handles
      BY <1>1, <1>8, <2>0, <2>2, EvidenceKept
    <2> QED
      BY <2>1, <2>2
  <1>10. PICK u \in Schedule : u = schedule[d]
    BY <1>1
  <1>11. u.running > 0
    BY <1>0, <1>1, <1>6, <1>10, RunningPositive DEF IInv, Table
  <1>12. /\ v \in Schedule /\ v.nextOffset = u.nextOffset /\ v.materialized = u.materialized
         /\ v.running = u.running - 1 /\ v.succeeded = u.succeeded /\ v.failed = u.failed
         /\ v.status = u.status
    BY <1>1, <1>3, <1>10, <1>11, CountFacts
  <1>13. v.pending = IF row.status = "pending" THEN u.pending + 1 ELSE u.pending
    BY <1>1, <1>3, <1>4, <1>10, <1>11, CountFacts
  <1>14. /\ row.status \in {"pending", "canceled"} /\ (row.status = "canceled" <=> ~IsCurrent(d))
         /\ row.status \in {"pending", "done", "failed", "canceled"}
         /\ v.succeeded = (IF row.status = "done" THEN u.succeeded + 1 ELSE u.succeeded)
         /\ v.failed = (IF row.status = "failed" THEN u.failed + 1 ELSE u.failed)
         /\ v.status = (IF row.status \in {"done", "failed"} /\ Settles(d) THEN "settled" ELSE u.status)
         /\ d \in Serial /\ row.status = "done" => h.id.offset < plan[d]
    BY <1>4, <1>12
  <1>15. schedule'[d] = v
    BY <1>1, <1>5, TypeFacts DEF IInv, Table
  <1>16. LET e == h.id.digest
             x == schedule[e]
             y == schedule'[e]
             s == chunk'[h.id].status
         IN  /\ schedule' = [schedule EXCEPT ![e] = y] /\ y \in Schedule
             /\ y.nextOffset = x.nextOffset /\ y.materialized = x.materialized
             /\ y.pending = (IF s = "pending" THEN x.pending + 1 ELSE x.pending)
             /\ y.running = x.running - 1
             /\ y.succeeded = (IF s = "done" THEN x.succeeded + 1 ELSE x.succeeded)
             /\ y.failed = (IF s = "failed" THEN x.failed + 1 ELSE x.failed)
             /\ y.status = (IF s \in {"done", "failed"} /\ Settles(e) THEN "settled" ELSE x.status)
             /\ s = "canceled" <=> ~IsCurrent(e)
             /\ e \in Serial /\ s = "done" => h.id.offset < plan[e]
    BY <1>0, <1>5, <1>7, <1>10, <1>12, <1>13, <1>14, <1>15
  <1>17. /\ chunk' = [chunk EXCEPT ![h.id] = chunk'[h.id]] /\ chunk'[h.id] \in Chunk
         /\ chunk'[h.id].status \in {"pending", "done", "failed", "canceled"}
         /\ chunk'[h.id].length = chunk[h.id].length
    BY <1>4, <1>5, <1>7, <1>14
  <1> QED
    BY <1>1, <1>5, <1>6, <1>9, <1>16, <1>17, EndIInv

\* A step that moves units of work between the counters of one schedule keeps
\* its progress, and a plan that does not change is followed as before.
LEMMA ProgressMove ==
    ASSUME TypeOK, Progress, NEW d \in Digests,
           \A e \in Digests \ {d} : schedule'[e] = schedule[e],
           schedule'[d].status = schedule[d].status, schedule'[d].nextOffset = schedule[d].nextOffset,
           schedule'[d].succeeded = schedule[d].succeeded, schedule'[d].failed = schedule[d].failed,
           schedule'[d].pending + schedule'[d].running = schedule[d].pending + schedule[d].running,
           schedule'[d].pending \in Nat, schedule'[d].running \in Nat
    PROVE  Progress'
  <1>1. ASSUME NEW e \in Digests
        PROVE  /\ Started(e)' = Started(e) /\ schedule'[e].nextOffset = schedule[e].nextOffset
               /\ schedule'[e].status = schedule[e].status
               /\ schedule'[e].succeeded = schedule[e].succeeded /\ schedule'[e].failed = schedule[e].failed
    <2>1. CASE e # d
      BY <2>1 DEF Started
    <2>2. CASE e = d
      BY <2>2, TypeFacts DEF Started
    <2> QED
      BY <2>1, <2>2
  <1>2. \A e \in Digests : schedule'[e].status \in {"active", "settled"} =>
          /\ Started(e)' <= TotalChunks(e)
          /\ schedule'[e].nextOffset =
               IF Started(e)' < TotalChunks(e) THEN Started(e)' * Specs[e].chunkItems ELSE TotalItems(e)
          /\ schedule'[e].status = "settled" <=>
               schedule'[e].succeeded + schedule'[e].failed = TotalChunks(e)
    BY <1>1 DEF Progress
  <1> QED
    BY <1>2 DEF Progress, TotalChunks, TotalItems

\* RetryGenerationChunk with an attempt left: the successor takes the place.
LEMMA RetryIInv ==
    ASSUME IInv, NEW h \in handles, Owned(h), IsCurrent(h.id.digest), ~Exhausted(h.id),
           chunk' = [chunk EXCEPT ![h.id] = Finished(@, "failed"),
                                  ![NextAttempt(h.id)] = NewChunk(chunk[h.id].length, 1, TRUE)],
           schedule' = [schedule EXCEPT ![h.id.digest] = CountRetried(h.id.digest)],
           running' = running - 1, Did(h, "retried"), UNCHANGED <<current, authority, observed>>
    PROVE  IInv'
  <1> PICK c \in Ids : c = h.id
    BY HandleFacts
  <1> PICK d \in Digests : d = c.digest
    BY IdNumbers
  <1> PICK n \in Ids : n = NextAttempt(c)
    BY NextAttemptFacts
  <1> PICK u \in Schedule : u = schedule[d]
    BY TypeFacts DEF IInv, Table
  <1> PICK v : v = schedule'[d]
    OBVIOUS
  <1>0. TypeOK /\ UNCHANGED <<collecting, plan>> /\ handles \subseteq Handle /\ observed \subseteq Handle
    BY DEF IInv, Table, TypeOK, authority
  <1>1. n # c /\ n.digest = d /\ n.offset = c.offset /\ n.attempt = c.attempt + 1
    BY NextAttemptFacts
  <1>2. c.attempt \in Nat /\ c.offset \in Nat
    BY IdNumbers
  <1>3. chunk[c].status = "running" /\ chunk[c].worker = h.worker
    BY DEF Owned
  <1>4. chunk[n].status = "absent"
    BY <1>1, <1>2, <1>3 DEF IInv, Table, OneLiveAttempt
  <1>5. PICK row \in Chunk : row = Finished(chunk[c], "failed") /\ row.status = "failed"
                             /\ row.length = chunk[c].length /\ row.worker = h.worker
    BY <1>0, <1>3, TypeFacts, FinishedFacts DEF ChunkStatus
  <1>6. PICK new \in Chunk : new = NewChunk(chunk[c].length, 1, TRUE) /\ new.status = "pending"
                             /\ new.length = chunk[c].length
    <2>1. chunk[c].length \in Nat /\ 1 \in 0..2
      BY <1>0, TypeFacts
    <2>2. /\ NewChunk(chunk[c].length, 1, TRUE) \in Chunk
          /\ NewChunk(chunk[c].length, 1, TRUE).status = "pending"
          /\ NewChunk(chunk[c].length, 1, TRUE).length = chunk[c].length
      BY <2>1, NewChunkFacts, Zenon
    <2> QED
      BY <2>2
  <1>7. chunk'[c] = row /\ chunk'[n] = new /\ \A e \in Ids \ {c, n} : chunk'[e] = chunk[e]
    BY <1>0, <1>1, <1>5, <1>6, TypeFacts
  <1>8. u.running > 0 /\ running > 0
    BY <1>0, <1>3, RunningPositive DEF IInv
  <1>9. /\ v \in Schedule /\ v.nextOffset = u.nextOffset /\ v.status = u.status
        /\ v.materialized = u.materialized + 1 /\ v.running = u.running - 1 /\ v.pending = u.pending + 1
        /\ v.succeeded = u.succeeded /\ v.failed = u.failed
    <2>1. v = [u EXCEPT !.running = @ - 1, !.materialized = @ + 1, !.pending = @ + 1]
      BY <1>0, TypeFacts DEF CountRetried
    <2>2. u.running \in Nat /\ u.pending \in Nat /\ u.materialized \in Nat
      BY DEF Schedule
    <2>3. PICK r \in Nat, m \in Nat, p \in Nat :
             r = u.running - 1 /\ m = u.materialized + 1 /\ p = u.pending + 1
      BY <1>8, <2>2
    <2>4. v = [u EXCEPT !.running = r, !.materialized = m, !.pending = p]
      BY <2>1, <2>3
    <2> QED
      BY <2>3, <2>4 DEF Schedule
  <1>10. \A e \in Digests \ {d} : schedule'[e] = schedule[e]
    BY <1>0, TypeFacts
  <1>11. TypeOK'
    <2>1. chunk' \in [Ids -> Chunk]
      BY <1>0, <1>5, <1>6 DEF TypeOK
    <2>2. schedule' \in [Digests -> Schedule]
      BY <1>0, <1>9 DEF TypeOK
    <2>3. handles' \subseteq Handle
      BY <1>0, DidType
    <2>4. running' \in Nat
      BY <1>0, <1>8 DEF TypeOK
    <2>5. /\ current' \in [Stages -> Digests \cup {NoDigest}] /\ collecting' \subseteq Typed
          /\ plan' \in [Serial -> Nat \cup {Unplanned}] /\ observed' \subseteq Handle
      BY <1>0 DEF TypeOK
    <2> QED
      BY <2>1, <2>2, <2>3, <2>4, <2>5 DEF TypeOK
  <1>12. RowsExpanded'
    <2>1. ASSUME NEW e \in Ids, chunk'[e].status # "absent"
          PROVE  /\ schedule'[e.digest].status # "absent" /\ e.offset < schedule'[e.digest].nextOffset
                 /\ chunk'[e].length = Length(e.digest, e.offset)
      <3>1. PICK x \in Ids : /\ x.digest = e.digest /\ x.offset = e.offset
                             /\ chunk[x].status # "absent" /\ chunk'[e].length = chunk[x].length
        <4>1. CASE e = n
          BY <1>1, <1>3, <1>6, <1>7, <4>1
        <4>2. CASE e # n
          BY <1>3, <1>5, <1>7, <2>1, <4>2
        <4> QED
          BY <4>1, <4>2
      <3>2. /\ schedule[e.digest].status # "absent" /\ e.offset < schedule[e.digest].nextOffset
            /\ chunk[x].length = Length(e.digest, e.offset)
        BY <3>1 DEF IInv, Table, RowsExpanded
      <3>3. e.digest \in Digests
        BY IdNumbers
      <3> QED
        BY <1>9, <1>10, <3>1, <3>2, <3>3
    <2> QED
      BY <2>1 DEF RowsExpanded, Length, TotalItems
  <1>13. RunningLeased'
    BY <1>5, <1>6, <1>7 DEF IInv, Table, RunningLeased
  <1>14. OneLiveAttempt'
    <2> SUFFICES ASSUME NEW x \in Ids, chunk'[x].status # "absent", NEW b \in Ids,
                        b.digest = x.digest, b.offset = x.offset, b.attempt < x.attempt
                 PROVE  chunk'[b].status = "failed"
      BY DEF OneLiveAttempt
    <2>1. b.attempt \in Nat /\ x.attempt \in Nat
      BY IdNumbers
    <2>2. CASE x = n
      <3>1. CASE b.attempt = c.attempt
        <4>1. b = c
          BY <1>1, <2>2, <3>1, IdFacts
        <4> QED
          BY <1>5, <1>7, <4>1
      <3>2. CASE b.attempt # c.attempt
        <4>1. b.attempt < c.attempt /\ b # c /\ b # n
          BY <1>1, <1>2, <2>1, <2>2, <3>2
        <4>2. chunk[b].status = "failed"
          BY <1>1, <1>3, <2>2, <4>1 DEF IInv, Table, OneLiveAttempt
        <4> QED
          BY <1>7, <4>1, <4>2
      <3> QED
        BY <3>1, <3>2
    <2>3. CASE x # n
      <3>1. chunk[x].status # "absent"
        BY <1>3, <1>7, <2>3
      <3>2. chunk[b].status = "failed"
        BY <3>1 DEF IInv, Table, OneLiveAttempt
      <3> QED
        BY <1>3, <1>4, <1>7, <3>2
    <2> QED
      BY <2>2, <2>3
  <1>15. ActiveIsCurrent' /\ CurrentIsLive'
    <2>1. ASSUME NEW e \in Digests
          PROVE  /\ schedule'[e].status = schedule[e].status
                 /\ InStatus(e, "running")' \subseteq InStatus(e, "running")
      BY <1>5, <1>6, <1>7, <1>9, <1>10 DEF InStatus, ChunksOf
    <2> QED
      BY <1>0, <2>1 DEF IInv, ActiveIsCurrent, CurrentIsLive, IsCurrent, RootLive
  <1>16. Counters'
    <2>1. PICK f : f = Statuses
      OBVIOUS
    <2>2. PICK g : g = Moved(f, c, "failed")
      OBVIOUS
    <2>3. PICK k : k = Moved(g, n, "pending")
      OBVIOUS
    <2>4. Statuses' = k /\ f[c] = "running" /\ g[n] = "absent"
      <3>1. \A e \in Ids : f[e] = chunk[e].status
        BY <2>1 DEF Statuses
      <3>2. \A e \in Ids : g[e] = IF e = c THEN "failed" ELSE f[e]
        BY <2>2 DEF Moved
      <3>3. k = [e \in Ids |-> IF e = n THEN "pending" ELSE g[e]]
        BY <2>3 DEF Moved
      <3>4. \A e \in Ids : chunk'[e].status = IF e = n THEN "pending" ELSE g[e]
        BY <1>1, <1>5, <1>6, <1>7, <3>1, <3>2
      <3>5. Statuses' = k
        BY <3>3, <3>4 DEF Statuses
      <3> QED
        BY <1>1, <1>3, <1>4, <3>1, <3>2, <3>5
    <2>5. CountersOf(f)
      BY <2>1, CountersTable DEF IInv
    <2>6. ASSUME NEW e \in Digests, NEW s
          PROVE  /\ Cardinality(Having(f, e, s)) \in Nat /\ Cardinality(Having(g, e, s)) \in Nat
                 /\ Cardinality(Having(g, e, s)) =
                      IF e = c.digest /\ s = "running" THEN Cardinality(Having(f, e, s)) - 1
                      ELSE IF e = c.digest /\ s = "failed" THEN Cardinality(Having(f, e, s)) + 1
                      ELSE Cardinality(Having(f, e, s))
      BY <2>2, <2>4, MoveCounts
    <2>7. ASSUME NEW e \in Digests, NEW s
          PROVE  /\ Cardinality(Having(k, e, s)) \in Nat
                 /\ Cardinality(Having(k, e, s)) =
                      IF e = n.digest /\ s = "absent" THEN Cardinality(Having(g, e, s)) - 1
                      ELSE IF e = n.digest /\ s = "pending" THEN Cardinality(Having(g, e, s)) + 1
                      ELSE Cardinality(Having(g, e, s))
      BY <2>3, <2>4, MoveCounts
    <2>8. /\ IsFiniteSet(AllHaving(k, "running"))
          /\ Cardinality(AllHaving(k, "running")) = Cardinality(AllHaving(f, "running")) - 1
      <3>1. IsFiniteSet(AllHaving(f, "running"))
        BY <2>5 DEF CountersOf
      <3>2. /\ IsFiniteSet(AllHaving(g, "running"))
            /\ Cardinality(AllHaving(g, "running")) = Cardinality(AllHaving(f, "running")) - 1
        BY <2>2, <2>4, <3>1, MoveRunning
      <3>3. /\ IsFiniteSet(AllHaving(k, "running"))
            /\ Cardinality(AllHaving(k, "running")) = Cardinality(AllHaving(g, "running"))
        BY <2>3, <2>4, <3>2, MoveRunning
      <3> QED
        BY <3>2, <3>3
    <2>9. ASSUME NEW e \in Digests
          PROVE  /\ schedule'[e].pending = Cardinality(Having(k, e, "pending"))
                 /\ schedule'[e].running = Cardinality(Having(k, e, "running"))
                 /\ schedule'[e].succeeded = Cardinality(Having(k, e, "done"))
                 /\ schedule'[e].materialized = Cardinality(ChunksOf(e)) - Cardinality(Having(k, e, "absent"))
      <3>1. /\ schedule[e].pending = Cardinality(Having(f, e, "pending"))
            /\ schedule[e].running = Cardinality(Having(f, e, "running"))
            /\ schedule[e].succeeded = Cardinality(Having(f, e, "done"))
            /\ schedule[e].materialized = Cardinality(ChunksOf(e)) - Cardinality(Having(f, e, "absent"))
            /\ Cardinality(ChunksOf(e)) \in Nat
        BY <2>5, StatusFinite DEF CountersOf
      <3>2. CASE e # d
        BY <1>1, <1>10, <2>6, <2>7, <3>1, <3>2
      <3>3. CASE e = d
        <4>1. schedule'[e].pending = Cardinality(Having(k, e, "pending"))
          BY <1>1, <1>9, <2>6, <2>7, <3>1, <3>3
        <4>2. schedule'[e].running = Cardinality(Having(k, e, "running"))
          BY <1>1, <1>9, <2>6, <2>7, <3>1, <3>3
        <4>3. schedule'[e].succeeded = Cardinality(Having(k, e, "done"))
          BY <1>1, <1>9, <2>6, <2>7, <3>1, <3>3
        <4>4. schedule'[e].materialized = Cardinality(ChunksOf(e)) - Cardinality(Having(k, e, "absent"))
          BY <1>1, <1>9, <2>6, <2>7, <3>1, <3>3
        <4> QED
          BY <4>1, <4>2, <4>3, <4>4
      <3> QED
        BY <3>2, <3>3
    <2>10. running' = Cardinality(AllHaving(k, "running"))
      BY <2>5, <2>8 DEF CountersOf
    <2>11. CountersOf(Statuses)'
      BY <2>4, <2>8, <2>9, <2>10 DEF CountersOf
    <2> QED
      BY <2>11, CountersTable
  <1>17. Evidence'
    <2>1. \A e \in Ids \ {c} : OutcomeKept(e)
      BY <1>4, <1>6, <1>7 DEF OutcomeKept
    <2>2. Evidence
      BY DEF IInv
    <2> QED
      BY <1>0, <1>5, <1>7, <2>1, <2>2, EvidenceDid
  <1>18. Settling'
    <2>0. Progress /\ OffsetsCovered /\ PlanFollowed
      BY DEF IInv, Settling
    <2>1. u.pending \in Nat /\ u.running \in Nat
      BY DEF Schedule
    <2>2. v.pending \in Nat /\ v.running \in Nat /\ v.pending + v.running = u.pending + u.running
      BY <1>8, <1>9, <2>1
    <2>3. Progress'
      BY <1>0, <1>9, <1>10, <2>0, <2>2, ProgressMove
    <2>4. OffsetsCovered'
      <3>1. ASSUME NEW e \in Digests, schedule'[e].status \in {"active", "settled"},
                   schedule'[e].failed = 0, NEW j \in 0..(TotalItems(e) - 1),
                   j * Specs[e].chunkItems < schedule'[e].nextOffset
            PROVE  \E x \in ChunksOf(e) : x.offset = j * Specs[e].chunkItems
                                          /\ chunk'[x].status \in {"pending", "running", "done"}
        <4>1. /\ schedule[e].status \in {"active", "settled"} /\ schedule[e].failed = 0
              /\ j * Specs[e].chunkItems < schedule[e].nextOffset
          BY <1>9, <1>10, <3>1
        <4>2. PICK x \in ChunksOf(e) : /\ x.offset = j * Specs[e].chunkItems
                                       /\ chunk[x].status \in {"pending", "running", "done"}
          BY <2>0, <3>1, <4>1 DEF OffsetsCovered
        <4>3. CASE x = c
          <5>1. n \in ChunksOf(e) /\ n.offset = j * Specs[e].chunkItems /\ chunk'[n].status = "pending"
            BY <1>1, <1>6, <1>7, <4>2, <4>3 DEF ChunksOf
          <5> QED
            BY <5>1
        <4>4. CASE x # c
          BY <1>4, <1>7, <4>2, <4>4 DEF ChunksOf
        <4> QED
          BY <4>3, <4>4
      <3> QED
        BY <3>1 DEF OffsetsCovered, TotalItems
    <2>5. PlanFollowed'
      BY <1>0, <1>5, <1>6, <1>7, <2>0 DEF PlanFollowed, InStatus, ChunksOf
    <2> QED
      BY <2>3, <2>4, <2>5 DEF Settling
  <1> QED
    BY <1>11, <1>12, <1>13, <1>14, <1>15, <1>16, <1>17, <1>18 DEF IInv, Table

-----------------------------------------------------------------------------
(* Claims *)

\* ClaimGenerationChunk leases one pending chunk of an active schedule.
LEMMA ClaimIInv ==
    ASSUME IInv, NEW w \in Workers, NEW l \in Leases, ClaimGenerationChunk(w, l)
    PROVE  IInv'
  <1>0. TypeOK /\ handles \subseteq Handle /\ UNCHANGED <<current, collecting, plan, observed>>
    BY DEF IInv, Table, TypeOK, ClaimGenerationChunk, authority
  <1>1. PICK d \in Digests, c \in Ids :
          /\ Eligible(d) /\ c \in Candidate(d)
          /\ chunk' = [chunk EXCEPT ![c] = Claimed(@, w, l)]
          /\ schedule' = [schedule EXCEPT ![d].pending = @ - 1, ![d].running = @ + 1]
          /\ handles' \in {handles, handles \cup
                {[id |-> c, lease |-> l, worker |-> w, did |-> "none"]}}
    BY DEF ClaimGenerationChunk
  <1>2. chunk[c].status = "pending" /\ c.digest = d
    BY <1>1 DEF Candidate, Pending, InStatus, ChunksOf
  <1>3. RootLive(d) /\ schedule[d].status = "active" /\ schedule[d].pending > 0
        /\ running' = running + 1 /\ \A h \in handles : h.worker # w
    BY <1>1 DEF Eligible, ClaimGenerationChunk
  <1> PICK u \in Schedule : u = schedule[d]
    BY <1>0, TypeFacts
  <1> PICK v : v = schedule'[d]
    OBVIOUS
  <1>4. PICK row \in Chunk : row = Claimed(chunk[c], w, l) /\ row.status = "running" /\ row.lease = l
                             /\ row.worker = w /\ row.length = chunk[c].length
    <2>1. chunk[c] \in Chunk
      BY <1>0, TypeFacts
    <2> QED
      BY <2>1, ClaimedFacts
  <1>5. chunk'[c] = row /\ \A e \in Ids \ {c} : chunk'[e] = chunk[e]
    BY <1>0, <1>1, <1>4, TypeFacts
  <1>6. /\ v \in Schedule /\ v.nextOffset = u.nextOffset /\ v.status = u.status
        /\ v.materialized = u.materialized /\ v.running = u.running + 1 /\ v.pending = u.pending - 1
        /\ v.succeeded = u.succeeded /\ v.failed = u.failed
    <2>1. u.running \in Nat /\ u.pending \in Nat
      BY DEF Schedule
    <2>2. PICK r \in Nat, p \in Nat : r = u.running + 1 /\ p = u.pending - 1
      BY <1>3, <2>1
    <2>3. v = [u EXCEPT !.pending = p, !.running = r]
      BY <1>0, <1>1, <2>2, TypeFacts
    <2> QED
      BY <2>2, <2>3 DEF Schedule
  <1>7. \A e \in Digests \ {d} : schedule'[e] = schedule[e]
    BY <1>0, <1>1, TypeFacts
  <1>8. handles' \subseteq Handle
    <2>1. [id |-> c, lease |-> l, worker |-> w, did |-> "none"] \in Handle
      BY DEF Handle
    <2> QED
      BY <1>0, <1>1, <2>1
  <1>9. TypeOK'
    <2>1. chunk' \in [Ids -> Chunk]
      BY <1>0, <1>1, <1>4 DEF TypeOK
    <2>2. schedule' \in [Digests -> Schedule]
      <3>1. schedule' = [schedule EXCEPT ![d] = v]
        BY <1>0, <1>1, TypeFacts
      <3> QED
        BY <1>0, <1>6, <3>1 DEF TypeOK
    <2>3. running' \in Nat
      BY <1>0, <1>3 DEF TypeOK
    <2> QED
      BY <1>0, <1>8, <2>1, <2>2, <2>3 DEF TypeOK
  <1>10. RowsExpanded'
    <2>1. ASSUME NEW e \in Ids, chunk'[e].status # "absent"
          PROVE  /\ schedule'[e.digest].status # "absent" /\ e.offset < schedule'[e.digest].nextOffset
                 /\ chunk'[e].length = Length(e.digest, e.offset)
      <3>1. chunk[e].status # "absent" /\ chunk'[e].length = chunk[e].length
        BY <1>2, <1>4, <1>5, <2>1
      <3>2. /\ schedule[e.digest].status # "absent" /\ e.offset < schedule[e.digest].nextOffset
            /\ chunk[e].length = Length(e.digest, e.offset)
        BY <3>1 DEF IInv, Table, RowsExpanded
      <3>3. e.digest \in Digests
        BY IdNumbers
      <3> QED
        BY <1>6, <1>7, <3>1, <3>2, <3>3
    <2> QED
      BY <2>1 DEF RowsExpanded, Length, TotalItems
  <1>11. RunningLeased'
    BY <1>4, <1>5 DEF IInv, Table, RunningLeased
  <1>12. OneLiveAttempt'
    BY <1>2, <1>5, OneLiveMove DEF IInv, Table
  <1>13. ActiveIsCurrent' /\ CurrentIsLive'
    <2>1. \A e \in Digests : schedule'[e].status = schedule[e].status
      BY <1>6, <1>7
    <2>2. ASSUME NEW e \in Digests, e \in collecting PROVE InStatus(e, "running")' = {}
      <3>1. e # d /\ InStatus(e, "running") = {}
        BY <1>3, <2>2 DEF IInv, ActiveIsCurrent, RootLive
      <3> QED
        BY <1>2, <1>5, <3>1 DEF InStatus, ChunksOf
    <2> QED
      BY <1>0, <2>1, <2>2 DEF IInv, ActiveIsCurrent, CurrentIsLive, IsCurrent, RootLive
  <1>14. Counters'
    <2>1. Counters
      BY DEF IInv
    <2>2. chunk'[c].status = "running" /\ \A e \in Ids \ {c} : chunk'[e].status = chunk[e].status
      BY <1>4, <1>5
    <2>3. PICK a : a = "pending"
      OBVIOUS
    <2>4. PICK b : b = "running"
      OBVIOUS
    <2> QED
      BY <1>2, <1>3, <1>6, <1>7, <2>1, <2>2, <2>3, <2>4, CountersMove
  <1>15. Evidence'
    <2>1. \A e \in Ids : OutcomeKept(e)
      BY <1>2, <1>4, <1>5 DEF OutcomeKept
    <2>2. PICK k : k = [id |-> c, lease |-> l, worker |-> w, did |-> "none"]
      OBVIOUS
    <2>3. k.id = c /\ k.worker = w /\ k.did = "none"
      BY <2>2
    <2>4. \A g \in handles' : g \in handles \/ g = k
      BY <1>1, <2>2
    <2>5. HandlesDistinct'
      BY <1>3, <2>3, <2>4 DEF IInv, Evidence, HandlesDistinct
    <2>6. ASSUME NEW g \in handles'
          PROVE  /\ g.did = "done" <=> chunk'[g.id].status = "done" /\ chunk'[g.id].worker = g.worker
                 /\ chunk'[g.id].status = "failed" /\ chunk'[g.id].worker = g.worker =>
                      g.did \in {"failed", "exhausted", "retried"}
                 /\ g.did = "retried" => ~Exhausted(g.id)
                 /\ g.did = "exhausted" =>
                      Exhausted(g.id) /\ chunk'[g.id].status = "failed" /\ chunk'[g.id].worker = g.worker
      <3>1. CASE g = k
        BY <1>4, <1>5, <2>3, <3>1
      <3>2. CASE g \in handles
        <4>1. g.id \in Ids
          BY <1>0, <3>2 DEF Handle
        <4>2. OutcomeKept(g.id)
          BY <2>1, <4>1
        <4> QED
          BY <3>2, <4>2 DEF IInv, Evidence, DoneByHolder, FailedByHolder, OutcomeKept
      <3> QED
        BY <2>4, <3>1, <3>2
    <2> QED
      BY <2>5, <2>6 DEF Evidence, DoneByHolder, FailedByHolder, Exhausted
  <1>16. Settling'
    <2>0. Progress /\ OffsetsCovered /\ PlanFollowed
      BY DEF IInv, Settling
    <2>1. u.pending \in Nat /\ u.running \in Nat
      BY DEF Schedule
    <2>2. v.pending \in Nat /\ v.running \in Nat /\ v.pending + v.running = u.pending + u.running
      BY <1>3, <1>6, <2>1
    <2>3. Progress'
      BY <1>0, <1>6, <1>7, <2>0, <2>2, ProgressMove
    <2>4. OffsetsCovered'
      <3>1. ASSUME NEW e \in Digests, schedule'[e].status \in {"active", "settled"},
                   schedule'[e].failed = 0, NEW j \in 0..(TotalItems(e) - 1),
                   j * Specs[e].chunkItems < schedule'[e].nextOffset
            PROVE  \E x \in ChunksOf(e) : x.offset = j * Specs[e].chunkItems
                                          /\ chunk'[x].status \in {"pending", "running", "done"}
        <4>1. /\ schedule[e].status \in {"active", "settled"} /\ schedule[e].failed = 0
              /\ j * Specs[e].chunkItems < schedule[e].nextOffset
          BY <1>6, <1>7, <3>1
        <4>2. PICK x \in ChunksOf(e) : /\ x.offset = j * Specs[e].chunkItems
                                       /\ chunk[x].status \in {"pending", "running", "done"}
          BY <2>0, <3>1, <4>1 DEF OffsetsCovered
        <4>3. chunk'[x].status \in {"pending", "running", "done"}
          BY <1>4, <1>5, <4>2 DEF ChunksOf
        <4> QED
          BY <4>2, <4>3
      <3> QED
        BY <3>1 DEF OffsetsCovered, TotalItems
    <2>5. PlanFollowed'
      BY <1>0, <1>4, <1>5, <2>0 DEF PlanFollowed, InStatus, ChunksOf
    <2> QED
      BY <2>3, <2>4, <2>5 DEF Settling
  <1> QED
    BY <1>9, <1>10, <1>11, <1>12, <1>13, <1>14, <1>15, <1>16 DEF IInv, Table

-----------------------------------------------------------------------------
(* Steps that change no status *)

\* Heartbeats, time, reapers that read and values that are given up.
LEMMA QuietIInv ==
    ASSUME IInv, TypeOK', UNCHANGED <<schedule, current, running, collecting, plan>>,
           handles' \subseteq handles,
           \A c \in Ids : chunk'[c].status = chunk[c].status /\ chunk'[c].length = chunk[c].length
                          /\ chunk'[c].lease = chunk[c].lease /\ chunk'[c].worker = chunk[c].worker
    PROVE  IInv'
  <1>1. RowsExpanded' /\ RunningLeased' /\ OneLiveAttempt'
    BY DEF IInv, Table, RowsExpanded, RunningLeased, OneLiveAttempt, Length, TotalItems
  <1>2. \A d, s : InStatus(d, s)' = InStatus(d, s)
    BY DEF InStatus, ChunksOf
  <1>3. RunningChunks' = RunningChunks
    BY DEF RunningChunks
  <1>4. ActiveIsCurrent' /\ CurrentIsLive'
    BY <1>2 DEF IInv, ActiveIsCurrent, CurrentIsLive, IsCurrent, RootLive
  <1>5. Counters'
    BY <1>2, <1>3 DEF IInv, Counters, CountersAgree, RunningChunks
  <1>6. Evidence'
    <2>1. \A e \in Ids : OutcomeKept(e)
      BY DEF OutcomeKept
    <2>2. Evidence /\ handles \subseteq Handle
      BY DEF IInv, Table, TypeOK
    <2> QED
      BY <2>1, <2>2, EvidenceKept
  <1>7. Progress' /\ PlanFollowed'
    BY <1>2 DEF IInv, Settling, Progress, PlanFollowed, Started
  <1>8. OffsetsCovered'
    BY DEF IInv, Settling, OffsetsCovered, ChunksOf
  <1> QED
    BY <1>1, <1>4, <1>5, <1>6, <1>7, <1>8 DEF IInv, Table, Settling

-----------------------------------------------------------------------------
(* Expansion *)

\* The next page of a schedule that is not fully expanded: its size, its
\* offsets and where it ends.
LEMMA PageFacts ==
    ASSUME TypeOK, Progress, NEW d \in Digests, schedule[d].status = "active",
           schedule[d].nextOffset < TotalItems(d)
    PROVE  LET m == Started(d)
               n == PageCount(d)
               size == Specs[d].chunkItems
           IN  /\ m \in Nat /\ n \in Nat \ {0} /\ m + n <= TotalChunks(d)
               /\ schedule[d].nextOffset = m * size
               /\ PageOffsets(d) = {j * size : j \in m..(m + n - 1)}
               /\ \A j \in m..(m + n - 1) : j * size \in m * size..(TotalItems(d) - 1)
               /\ NewOffset(d) = IF m + n < TotalChunks(d) THEN (m + n) * size ELSE TotalItems(d)
  <1> DEFINE m == Started(d)
             n == PageCount(d)
             size == Specs[d].chunkItems
             T == TotalItems(d)
             N == TotalChunks(d)
             q == (T - schedule[d].nextOffset + size - 1) \div size
  <1>1. /\ T \in Nat \ {0} /\ size \in Nat \ {0} /\ N \in Nat \ {0}
        /\ (N - 1) * size < T /\ T <= N * size
    BY SpecFacts, TotalFacts
  <1>2. m \in Nat /\ m < N /\ schedule[d].nextOffset = m * size
    <2>1. m \in Nat
      BY TypeFacts DEF Started
    <2>2. m <= N /\ schedule[d].nextOffset = IF m < N THEN m * size ELSE T
      BY DEF Progress
    <2> QED
      BY <1>1, <2>1, <2>2
  <1>3. T - m * size \in Nat \ {0}
    BY <1>1, <1>2
  <1>4. q \in Nat \ {0} /\ (q - 1) * size < T - m * size /\ T - m * size <= q * size
    <2>1. q = (T - m * size + size - 1) \div size
      BY <1>2
    <2> HIDE DEF q, m, T, size
    <2> QED
      BY <1>1, <1>3, <2>1, CeilFacts
  <1>5. n = IF q > MaxFanoutPage THEN MaxFanoutPage ELSE q
    BY DEF PageCount
  <1> HIDE DEF m, n, size, T, N, q
  <1>6. m + q = N
    <2>1. q - 1 \in Int /\ m + (q - 1) \in Int /\ m + q \in Int /\ N - 1 \in Int
      BY <1>1, <1>2, <1>4
    <2>2. (m + (q - 1)) * size = m * size + (q - 1) * size /\ (m + q) * size = m * size + q * size
      BY <1>1, <1>2, <1>4, <2>1, ProductGrows
    <2>3. m * size \in Int /\ q * size \in Int /\ (q - 1) * size \in Int /\ N * size \in Int
          /\ (N - 1) * size \in Int
      BY <1>1, <1>2, <1>4, <2>1, ProductGrows
    <2>4. (m + (q - 1)) * size < N * size
      BY <1>1, <1>4, <2>2, <2>3
    <2>5. (N - 1) * size < (m + q) * size
      BY <1>1, <1>4, <2>2, <2>3
    <2>6. m + (q - 1) < N
      BY <1>1, <2>1, <2>4, ProductGrows
    <2>7. N - 1 < m + q
      BY <1>1, <2>1, <2>5, ProductGrows
    <2> QED
      BY <1>1, <1>2, <1>4, <2>6, <2>7
  <1>7. n \in Nat \ {0} /\ m + n <= N
    BY <1>1, <1>2, <1>4, <1>5, <1>6, PageAssumption
  <1>8. ASSUME NEW j \in m..(m + n - 1) PROVE j * size \in m * size..(T - 1)
    <2>1. j \in Int /\ N - 1 \in Int /\ m <= j /\ j <= N - 1
      BY <1>1, <1>2, <1>7
    <2>2. m * size <= j * size /\ j * size <= (N - 1) * size
      BY <1>1, <1>2, <2>1, ProductGrows
    <2>3. j * size \in Int /\ m * size \in Int /\ (N - 1) * size \in Int
      BY <1>1, <1>2, <2>1, ProductGrows
    <2> QED
      BY <1>1, <2>2, <2>3
  <1>9. PageOffsets(d) = {j * size : j \in m..(m + n - 1)}
    <2>1. PageOffsets(d) = {m * size + k * size : k \in 0..(n - 1)}
      BY <1>2 DEF PageOffsets, n, size
    <2>2. ASSUME NEW k \in 0..(n - 1)
          PROVE  m + k \in m..(m + n - 1) /\ (m + k) * size = m * size + k * size
      BY <1>1, <1>2, <1>7, ProductGrows
    <2>3. ASSUME NEW j \in m..(m + n - 1)
          PROVE  j - m \in 0..(n - 1) /\ j * size = m * size + (j - m) * size
      <3>1. j - m \in 0..(n - 1) /\ m + (j - m) = j /\ j - m \in Int
        BY <1>1, <1>2, <1>7
      <3>2. (m + (j - m)) * size = m * size + (j - m) * size
        BY <1>1, <1>2, <3>1, ProductGrows
      <3> QED
        BY <3>1, <3>2
    <2> QED
      BY <2>1, <2>2, <2>3
  <1>10. NewOffset(d) = IF m + n < N THEN (m + n) * size ELSE T
    <2>1. PICK last : last = m * size + (n - 1) * size
      OBVIOUS
    <2>2. NewOffset(d) = last + Length(d, last)
      BY <1>2, <2>1 DEF NewOffset, n, size
    <2>3. Length(d, last) = IF T - last < size THEN T - last ELSE size
      BY DEF Length, T, size
    <2>4. n - 1 \in Int /\ m + n \in Int /\ N - 1 \in Int
      BY <1>1, <1>2, <1>7
    <2>5. last + size = (m + n) * size
      <3>1. (n - 1) * size = n * size - size /\ (m + n) * size = m * size + n * size
        BY <1>1, <1>2, <1>7, <2>4, ProductGrows
      <3>2. m * size \in Int /\ n * size \in Int
        BY <1>1, <1>2, <1>7, ProductGrows
      <3> QED
        BY <1>1, <2>1, <3>1, <3>2
    <2>6. (m + n) * size \in Int /\ N * size \in Int /\ (N - 1) * size \in Int
      BY <1>1, <2>4, ProductGrows
    <2>7. last \in Int
      <3>1. m * size \in Int /\ (n - 1) * size \in Int
        BY <1>1, <1>2, <2>4, ProductGrows
      <3> QED
        BY <2>1, <3>1
    <2>8. CASE m + n < N
      <3>1. (m + n) * size <= (N - 1) * size
        BY <1>1, <1>2, <1>7, <2>4, <2>8, ProductGrows
      <3> QED
        BY <1>1, <2>2, <2>3, <2>5, <2>6, <2>7, <2>8, <3>1
    <2>9. CASE m + n = N
      BY <1>1, <2>2, <2>3, <2>5, <2>6, <2>7, <2>9
    <2> QED
      BY <1>1, <1>2, <1>7, <2>8, <2>9
  <1> QED
    BY <1>2, <1>7, <1>8, <1>9, <1>10 DEF m, n, size, T, N

\* The first attempts of the page that starts after m chunks and has n.
PageIds(d, m, n) ==
    {[digest |-> d, offset |-> j * Specs[d].chunkItems, attempt |-> 0] : j \in m..(m + n - 1)}

\* They are as many as its offsets.
LEMMA PageCardinality ==
    ASSUME NEW d \in Digests, NEW m \in Nat, NEW n \in Nat \ {0},
           \A j \in m..(m + n - 1) : j * Specs[d].chunkItems \in 0..(TotalItems(d) - 1)
    PROVE  /\ PageIds(d, m, n) \subseteq ChunksOf(d) /\ IsFiniteSet(PageIds(d, m, n))
           /\ Cardinality(PageIds(d, m, n)) = n
  <1> DEFINE size == Specs[d].chunkItems
             J == m..(m + n - 1)
             id(j) == [digest |-> d, offset |-> j * size, attempt |-> 0]
             P == {id(j) : j \in J}
             f == [j \in J |-> id(j)]
  <1>1. size \in Nat \ {0} /\ 0 \in 0..(Specs[d].maxAttempts - 1)
    BY SpecFacts
  <1>2. P \subseteq ChunksOf(d)
    BY <1>1, IdFacts DEF ChunksOf
  <1>3. IsFiniteSet(J) /\ Cardinality(J) = n
    <2>1. m \in Int /\ m + n - 1 \in Int /\ ~(m > m + n - 1) /\ m + n - 1 - m + 1 = n
      OBVIOUS
    <2>2. IsFiniteSet(J) /\ Cardinality(J) = IF m > m + n - 1 THEN 0 ELSE m + n - 1 - m + 1
      BY <2>1, FS_Interval
    <2> QED
      BY <2>1, <2>2
  <1>4. ASSUME NEW i \in J, NEW j \in J, id(i) = id(j) PROVE i = j
    <2>1. i * size = j * size /\ i \in Int /\ j \in Int
      BY <1>4
    <2>2. i * size \in Int /\ j * size \in Int /\ (i < j <=> i * size < j * size)
          /\ (j < i <=> j * size < i * size)
      BY <1>1, <2>1, ProductGrows
    <2> QED
      BY <2>1, <2>2
  <1>5. f \in Bijection(J, P)
    <2>1. f \in [J -> P] /\ \A j \in J : f[j] = id(j)
      OBVIOUS
    <2>2. \A i, j \in J : f[i] = f[j] => i = j
      BY <1>4, <2>1
    <2>3. \A x \in P : \E j \in J : f[j] = x
      BY <2>1
    <2> HIDE DEF f, P, J, id
    <2>4. f \in Injection(J, P)
      BY <2>1, <2>2 DEF Injection, IsInjective
    <2>5. f \in Surjection(J, P)
      BY <2>1, <2>3 DEF Surjection
    <2> QED
      BY <2>4, <2>5 DEF Bijection
  <1>6. ExistsBijection(J, P)
    <2> HIDE DEF f, P, J
    <2> QED
      BY <1>5 DEF ExistsBijection
  <1>7. IsFiniteSet(P) /\ Cardinality(P) = n
    <2> HIDE DEF P, J
    <2> QED
      BY <1>3, <1>6, FS_Bijection
  <1> QED
    BY <1>2, <1>7 DEF PageIds

\* The counters stay right when a page of chunks is added and counted.
LEMMA CountersAdd ==
    ASSUME Counters, NEW d \in Digests, NEW P, P \subseteq ChunksOf(d), IsFiniteSet(P),
           \A c \in P : chunk[c].status = "absent" /\ chunk'[c].status = "pending",
           \A c \in Ids \ P : chunk'[c].status = chunk[c].status,
           \A e \in Digests \ {d} : schedule'[e] = schedule[e],
           schedule'[d].pending = schedule[d].pending + Cardinality(P),
           schedule'[d].materialized = schedule[d].materialized + Cardinality(P),
           schedule'[d].running = schedule[d].running,
           schedule'[d].succeeded = schedule[d].succeeded, running' = running
    PROVE  Counters'
  <1>1. \A e \in Digests : /\ schedule[e].pending = Cardinality(InStatus(e, "pending"))
                           /\ schedule[e].running = Cardinality(InStatus(e, "running"))
                           /\ schedule[e].succeeded = Cardinality(InStatus(e, "done"))
                           /\ schedule[e].materialized =
                                Cardinality(ChunksOf(e)) - Cardinality(InStatus(e, "absent"))
    BY DEF Counters, CountersAgree
  <1>2. RunningChunks' = RunningChunks
    BY DEF RunningChunks, ChunksOf
  <1>3. ASSUME NEW e \in Digests, NEW s, e # d \/ s \notin {"absent", "pending"}
        PROVE  InStatus(e, s)' = InStatus(e, s)
    BY <1>3 DEF InStatus, ChunksOf
  <1>4. Cardinality(InStatus(d, "pending")') = Cardinality(InStatus(d, "pending")) + Cardinality(P)
    <2>1. PICK A : A = InStatus(d, "pending")
      OBVIOUS
    <2>2. InStatus(d, "pending")' = A \cup P /\ A \cap P = {}
      BY <2>1 DEF InStatus, ChunksOf
    <2>3. IsFiniteSet(A) /\ Cardinality(A) \in Nat /\ Cardinality(P) \in Nat
      BY <2>1, StatusFinite, FS_CardinalityType
    <2>4. Cardinality(A \cup P) = Cardinality(A) + Cardinality(P) - Cardinality(A \cap P)
      BY <2>3, FS_Union
    <2>5. Cardinality(A \cap P) = 0
      BY <2>2, FS_EmptySet
    <2>6. Cardinality(A \cup P) = Cardinality(A) + Cardinality(P)
      BY <2>3, <2>4, <2>5
    <2> QED
      BY <2>1, <2>2, <2>6
  <1>5. Cardinality(InStatus(d, "absent")') = Cardinality(InStatus(d, "absent")) - Cardinality(P)
    <2>1. PICK A : A = InStatus(d, "absent")
      OBVIOUS
    <2>2. InStatus(d, "absent")' = A \ P /\ A \cap P = P
      BY <2>1 DEF InStatus, ChunksOf
    <2>3. IsFiniteSet(A)
      BY <2>1, StatusFinite
    <2>4. Cardinality(A \ P) = Cardinality(A) - Cardinality(A \cap P)
      BY <2>3, FS_Difference
    <2>5. Cardinality(A \ P) = Cardinality(A) - Cardinality(P)
      BY <2>2, <2>4
    <2> QED
      BY <2>1, <2>2, <2>5
  <1>6. ASSUME NEW e \in Digests
        PROVE  /\ schedule'[e].pending = Cardinality(InStatus(e, "pending")')
               /\ schedule'[e].running = Cardinality(InStatus(e, "running")')
               /\ schedule'[e].succeeded = Cardinality(InStatus(e, "done")')
               /\ schedule'[e].materialized =
                    Cardinality(ChunksOf(e)) - Cardinality(InStatus(e, "absent")')
    <2>1. CASE e # d
      BY <1>1, <1>3, <2>1
    <2>2. CASE e = d
      <3>1. /\ Cardinality(InStatus(d, "absent")) \in Nat /\ Cardinality(ChunksOf(d)) \in Nat
            /\ Cardinality(P) \in Nat
        BY StatusFinite, FS_CardinalityType
      <3> QED
        BY <1>1, <1>3, <1>4, <1>5, <2>2, <3>1
    <2> QED
      BY <2>1, <2>2
  <1>7. CountersAgree'
    <2>1. running = Cardinality(RunningChunks)
      BY DEF Counters, CountersAgree, RunningChunks
    <2>2. running' = Cardinality(RunningChunks')
      BY <1>2, <2>1
    <2>3. \A e \in Digests : ChunksOf(e)' = ChunksOf(e)
      BY DEF ChunksOf
    <2> QED
      BY <1>6, <2>2, <2>3 DEF CountersAgree, RunningChunks
  <1> QED
    BY <1>2, <1>7 DEF Counters

\* ExpandGenerationSchedule adds the first attempts of one page.
LEMMA ExpandIInv ==
    ASSUME IInv, NEW d \in Digests, ExpandGenerationSchedule(d)
    PROVE  IInv'
  <1>0. /\ TypeOK /\ UNCHANGED <<current, running, collecting, plan, handles, observed>>
        /\ RootLive(d) /\ schedule[d].status = "active" /\ schedule[d].nextOffset < TotalItems(d)
    BY DEF IInv, Table, ExpandGenerationSchedule, authority
  <1> PICK size \in Nat \ {0} : size = Specs[d].chunkItems
    BY SpecFacts
  <1>1. PICK m \in Nat, n \in Nat \ {0} :
          /\ m = Started(d) /\ n = PageCount(d) /\ m + n <= TotalChunks(d)
          /\ schedule[d].nextOffset = m * size
          /\ PageOffsets(d) = {j * size : j \in m..(m + n - 1)}
          /\ \A j \in m..(m + n - 1) : j * size \in m * size..(TotalItems(d) - 1)
          /\ NewOffset(d) = IF m + n < TotalChunks(d) THEN (m + n) * size ELSE TotalItems(d)
    BY <1>0, PageFacts DEF IInv, Settling
  <1>2. /\ m * size \in Nat /\ TotalItems(d) \in Nat \ {0} /\ TotalChunks(d) \in Nat \ {0}
        /\ (TotalChunks(d) - 1) * size < TotalItems(d)
    BY <1>0, <1>1, SpecFacts, TotalFacts, TypeFacts
  <1>3. \A j \in m..(m + n - 1) : j * size \in 0..(TotalItems(d) - 1)
    BY <1>1, <1>2
  <1>4. PICK P : /\ P = {[digest |-> d, offset |-> j * size, attempt |-> 0] : j \in m..(m + n - 1)}
                 /\ P \subseteq ChunksOf(d) /\ IsFiniteSet(P) /\ Cardinality(P) = n
    <2>1. PageIds(d, m, n) = {[digest |-> d, offset |-> j * size, attempt |-> 0] : j \in m..(m + n - 1)}
      BY DEF PageIds
    <2>2. /\ PageIds(d, m, n) \subseteq ChunksOf(d) /\ IsFiniteSet(PageIds(d, m, n))
          /\ Cardinality(PageIds(d, m, n)) = n
      BY <1>3, PageCardinality
    <2> QED
      BY <2>1, <2>2
  <1>5. \A c \in Ids : c \in P <=> c.digest = d /\ c.offset \in PageOffsets(d) /\ c.attempt = 0
    BY <1>1, <1>4, IdFacts
  <1>6. \A c \in Ids \ P : chunk'[c] = chunk[c]
    BY <1>5 DEF ExpandGenerationSchedule
  <1>7. ASSUME NEW c \in P
        PROVE  /\ c \in Ids /\ c.digest = d /\ c.attempt = 0 /\ c.offset \in m * size..(TotalItems(d) - 1)
               /\ chunk[c].status = "absent" /\ chunk'[c] \in Chunk /\ chunk'[c].status = "pending"
               /\ chunk'[c].length = Length(d, c.offset)
    <2>1. c \in Ids /\ c.digest = d /\ c.attempt = 0 /\ c.offset \in PageOffsets(d)
      BY <1>4, <1>5 DEF ChunksOf
    <2>2. c.offset \in m * size..(TotalItems(d) - 1)
      BY <1>1, <2>1
    <2>3. chunk[c].status = "absent"
      BY <1>1, <1>2, <2>1, <2>2 DEF IInv, Table, RowsExpanded
    <2>4. Length(d, c.offset) \in Nat
      BY <1>2, <2>2, SpecFacts DEF Length
    <2>5. chunk'[c] = NewChunk(Length(d, c.offset), 0, FALSE)
      BY <1>5, <2>1 DEF ExpandGenerationSchedule
    <2>6. 0 \in 0..2
      OBVIOUS
    <2>7. FALSE \in BOOLEAN
      OBVIOUS
    <2>8. /\ NewChunk(Length(d, c.offset), 0, FALSE) \in Chunk
          /\ NewChunk(Length(d, c.offset), 0, FALSE).status = "pending"
          /\ NewChunk(Length(d, c.offset), 0, FALSE).length = Length(d, c.offset)
      BY <2>4, <2>6, <2>7, NewChunkFacts, Zenon
    <2> QED
      BY <2>1, <2>2, <2>3, <2>5, <2>8
  <1> PICK u \in Schedule : u = schedule[d]
    BY <1>0, TypeFacts
  <1> PICK v : v = schedule'[d]
    OBVIOUS
  <1>8. PICK off \in Nat : off = NewOffset(d) /\ m * size < off /\ off <= TotalItems(d)
    <2>1. CASE m + n < TotalChunks(d)
      <3>1. m + n \in Int /\ m + n <= TotalChunks(d) - 1 /\ TotalChunks(d) - 1 \in Int /\ m < m + n
        BY <1>2, <2>1
      <3>2. (m + n) * size \in Int /\ m * size < (m + n) * size
            /\ (m + n) * size <= (TotalChunks(d) - 1) * size /\ (TotalChunks(d) - 1) * size \in Int
        BY <3>1, ProductGrows
      <3> QED
        BY <1>1, <1>2, <2>1, <3>2
    <2>2. CASE m + n = TotalChunks(d)
      BY <1>0, <1>1, <1>2, <2>2
    <2> QED
      BY <1>1, <1>2, <2>1, <2>2
  <1>9. /\ v \in Schedule /\ v.nextOffset = off /\ v.status = u.status
        /\ v.materialized = u.materialized + n /\ v.pending = u.pending + n
        /\ v.running = u.running /\ v.succeeded = u.succeeded /\ v.failed = u.failed
    <2>1. u.materialized \in Nat /\ u.pending \in Nat
      BY DEF Schedule
    <2>2. PICK r \in Nat, p \in Nat : r = u.materialized + n /\ p = u.pending + n
      BY <2>1
    <2>3. v = [u EXCEPT !.nextOffset = off, !.materialized = r, !.pending = p]
      BY <1>0, <1>1, <1>8, <2>2, TypeFacts DEF ExpandGenerationSchedule
    <2> QED
      BY <1>8, <2>2, <2>3 DEF Schedule
  <1>10. \A e \in Digests \ {d} : schedule'[e] = schedule[e]
    BY <1>0, TypeFacts DEF ExpandGenerationSchedule
  <1>11. TypeOK'
    <2>1. chunk' \in [Ids -> Chunk]
      <3>1. \A c \in Ids : chunk'[c] \in Chunk
        BY <1>0, <1>6, <1>7, TypeFacts
      <3>2. chunk' = [c \in Ids |-> chunk'[c]]
        BY DEF ExpandGenerationSchedule
      <3> QED
        BY <3>1, <3>2
    <2>2. schedule' \in [Digests -> Schedule]
      <3>1. schedule' = [schedule EXCEPT ![d] = v]
        BY <1>0, TypeFacts DEF ExpandGenerationSchedule
      <3> QED
        BY <1>0, <1>9, <3>1 DEF TypeOK
    <2> QED
      BY <1>0, <2>1, <2>2 DEF TypeOK
  <1>12. RowsExpanded'
    <2>1. ASSUME NEW e \in Ids, chunk'[e].status # "absent"
          PROVE  /\ schedule'[e.digest].status # "absent" /\ e.offset < schedule'[e.digest].nextOffset
                 /\ chunk'[e].length = Length(e.digest, e.offset)
      <3>0. e.digest \in Digests /\ e.offset \in Nat
        BY IdNumbers
      <3>1. CASE e \in P
        <4>1. e.offset < off
          <5>1. PICK j \in m..(m + n - 1) : e.offset = j * size
            BY <1>4, <3>1
          <5>2. CASE m + n < TotalChunks(d)
            <6>1. j \in Int /\ m + n \in Int /\ j < m + n
              OBVIOUS
            <6>2. j * size < (m + n) * size
              BY <6>1, ProductGrows
            <6> QED
              BY <1>1, <1>8, <5>1, <5>2, <6>2
          <5>3. CASE m + n = TotalChunks(d)
            BY <1>1, <1>2, <1>7, <1>8, <3>1, <5>3
          <5> QED
            BY <1>1, <1>2, <5>2, <5>3
        <4> QED
          BY <1>0, <1>7, <1>9, <3>1, <4>1
      <3>2. CASE e \notin P
        <4>1. /\ schedule[e.digest].status # "absent" /\ e.offset < schedule[e.digest].nextOffset
              /\ chunk'[e].length = Length(e.digest, e.offset)
          BY <1>6, <2>1, <3>2 DEF IInv, Table, RowsExpanded
        <4> QED
          BY <1>1, <1>2, <1>8, <1>9, <1>10, <3>0, <4>1
      <3> QED
        BY <3>1, <3>2
    <2> QED
      BY <2>1 DEF RowsExpanded, Length, TotalItems
  <1>13. RunningLeased'
    BY <1>6, <1>7 DEF IInv, Table, RunningLeased
  <1>14. OneLiveAttempt'
    <2> SUFFICES ASSUME NEW x \in Ids, chunk'[x].status # "absent", NEW b \in Ids,
                        b.digest = x.digest, b.offset = x.offset, b.attempt < x.attempt
                 PROVE  chunk'[b].status = "failed"
      BY DEF OneLiveAttempt
    <2>1. x \notin P
      BY <1>7, IdNumbers
    <2>2. chunk[b].status = "failed"
      BY <1>6, <2>1 DEF IInv, Table, OneLiveAttempt
    <2> QED
      BY <1>6, <1>7, <2>2
  <1>15. ActiveIsCurrent' /\ CurrentIsLive'
    <2>1. \A e \in Digests : schedule'[e].status = schedule[e].status
      BY <1>9, <1>10
    <2>2. \A e \in Digests : InStatus(e, "running")' = InStatus(e, "running")
      BY <1>6, <1>7 DEF InStatus, ChunksOf
    <2> QED
      BY <1>0, <2>1, <2>2 DEF IInv, ActiveIsCurrent, CurrentIsLive, IsCurrent, RootLive
  <1>16. Counters'
    <2>1. Counters /\ running' = running
      BY <1>0 DEF IInv
    <2> QED
      BY <1>4, <1>6, <1>7, <1>9, <1>10, <2>1, CountersAdd
  <1>17. Evidence'
    <2>1. \A e \in Ids : OutcomeKept(e)
      BY <1>6, <1>7 DEF OutcomeKept
    <2>2. Evidence /\ handles \subseteq Handle
      BY <1>0 DEF IInv, TypeOK
    <2> QED
      BY <1>0, <2>1, <2>2, EvidenceKept
  <1>18. Progress'
    <2>0. Progress
      BY DEF IInv, Settling
    <2>1. Started(d)' = m + n
      <3>1. u.pending \in Nat /\ u.running \in Nat /\ u.succeeded \in Nat /\ u.failed \in Nat
        BY DEF Schedule
      <3>2. m = u.pending + u.running + u.succeeded + u.failed
        BY <1>1 DEF Started
      <3> QED
        BY <1>9, <3>1, <3>2 DEF Started
    <2>2. ASSUME NEW e \in Digests, schedule'[e].status \in {"active", "settled"}
          PROVE  /\ Started(e)' <= TotalChunks(e)
                 /\ schedule'[e].nextOffset =
                      IF Started(e)' < TotalChunks(e) THEN Started(e)' * Specs[e].chunkItems ELSE TotalItems(e)
                 /\ schedule'[e].status = "settled" <=>
                      schedule'[e].succeeded + schedule'[e].failed = TotalChunks(e)
      <3>1. CASE e = d
        BY <1>0, <1>1, <1>8, <1>9, <2>0, <2>1, <3>1 DEF Progress
      <3>2. CASE e # d
        <4>1. schedule'[e] = schedule[e] /\ Started(e)' = Started(e)
          BY <1>10, <3>2 DEF Started
        <4> QED
          BY <2>0, <2>2, <4>1 DEF Progress
      <3> QED
        BY <3>1, <3>2
    <2> QED
      BY <2>2 DEF Progress, TotalChunks, TotalItems
  <1>19. OffsetsCovered'
    <2>1. ASSUME NEW e \in Digests, schedule'[e].status \in {"active", "settled"},
                 schedule'[e].failed = 0, NEW j \in 0..(TotalItems(e) - 1),
                 j * Specs[e].chunkItems < schedule'[e].nextOffset
          PROVE  \E x \in ChunksOf(e) : x.offset = j * Specs[e].chunkItems
                                        /\ chunk'[x].status \in {"pending", "running", "done"}
      <3>1. CASE j * Specs[e].chunkItems < schedule[e].nextOffset
        <4>1. schedule[e].status \in {"active", "settled"} /\ schedule[e].failed = 0
          BY <1>9, <1>10, <2>1
        <4>2. PICK x \in ChunksOf(e) : /\ x.offset = j * Specs[e].chunkItems
                                       /\ chunk[x].status \in {"pending", "running", "done"}
          BY <2>1, <3>1, <4>1 DEF IInv, Settling, OffsetsCovered
        <4>3. chunk'[x].status \in {"pending", "running", "done"}
          BY <1>6, <1>7, <4>2 DEF ChunksOf
        <4> QED
          BY <4>2, <4>3
      <3>2. CASE ~(j * Specs[e].chunkItems < schedule[e].nextOffset)
        <4>1. e = d
          BY <1>10, <2>1, <3>2
        <4>2. j \in Nat /\ j * size \in Int /\ ~(j * size < m * size) /\ j * size < off
          BY <1>1, <1>2, <1>9, <2>1, <3>2, <4>1, ProductGrows
        <4>3. m <= j
          BY <1>2, <4>2, ProductGrows
        <4>4. j < m + n
          <5>1. CASE m + n < TotalChunks(d)
            <6>1. m + n \in Int /\ off = (m + n) * size
              BY <1>1, <1>8, <5>1
            <6> QED
              BY <4>2, <6>1, ProductGrows
          <5>2. CASE m + n = TotalChunks(d)
            <6>1. j * size < (m + n) * size
              <7>1. TotalItems(d) <= TotalChunks(d) * size /\ (m + n) * size \in Int /\ m + n \in Int
                BY TotalFacts, ProductGrows
              <7> QED
                BY <1>2, <1>8, <4>2, <5>2, <7>1
            <6> QED
              BY <4>2, <6>1, ProductGrows
          <5> QED
            BY <1>1, <1>2, <5>1, <5>2
        <4>5. PICK x \in P : x = [digest |-> d, offset |-> j * size, attempt |-> 0]
          <5>1. j \in m..(m + n - 1)
            BY <4>2, <4>3, <4>4
          <5> QED
            BY <1>4, <5>1
        <4>6. x \in ChunksOf(e) /\ x.offset = j * size /\ chunk'[x].status = "pending"
          BY <1>4, <1>7, <4>1, <4>5
        <4> QED
          BY <4>1, <4>6
      <3> QED
        BY <3>1, <3>2
    <2> QED
      BY <2>1 DEF OffsetsCovered, TotalItems
  <1>20. PlanFollowed'
    BY <1>0, <1>6, <1>7 DEF IInv, Settling, PlanFollowed, InStatus, ChunksOf
  <1> QED
    BY <1>11, <1>12, <1>13, <1>14, <1>15, <1>16, <1>17, <1>18, <1>19, <1>20 DEF IInv, Table, Settling

-----------------------------------------------------------------------------
(* Producers that admit or fence a schedule *)

NewFacts == /\ NewSchedule \in Schedule /\ NewSchedule.status = "active" /\ NewSchedule.nextOffset = 0
            /\ NewSchedule.materialized = 0 /\ NewSchedule.pending = 0 /\ NewSchedule.running = 0
            /\ NewSchedule.succeeded = 0 /\ NewSchedule.failed = 0

\* The row EnqueueGenerationSchedule inserts.
LEMMA NewScheduleFacts == NewFacts
  BY DEF NewFacts, NewSchedule, Schedule, ScheduleStatus

\* A schedule that was never enqueued has no chunks, and its counters say so.
LEMMA AbsentCounters ==
    ASSUME IInv, NEW d \in Digests, schedule[d].status = "absent"
    PROVE  /\ \A c \in ChunksOf(d) : chunk[c].status = "absent"
           /\ schedule[d].pending = 0 /\ schedule[d].running = 0
           /\ schedule[d].succeeded = 0 /\ schedule[d].materialized = 0
  <1>1. \A c \in ChunksOf(d) : chunk[c].status = "absent"
    BY DEF IInv, Table, RowsExpanded, ChunksOf
  <1>2. /\ InStatus(d, "pending") = {} /\ InStatus(d, "running") = {} /\ InStatus(d, "done") = {}
        /\ InStatus(d, "absent") = ChunksOf(d)
    BY <1>1 DEF InStatus
  <1>3. /\ schedule[d].pending = Cardinality(InStatus(d, "pending"))
        /\ schedule[d].running = Cardinality(InStatus(d, "running"))
        /\ schedule[d].succeeded = Cardinality(InStatus(d, "done"))
        /\ schedule[d].materialized = Cardinality(ChunksOf(d)) - Cardinality(InStatus(d, "absent"))
    BY DEF IInv, Counters, CountersAgree
  <1> QED
    BY <1>1, <1>2, <1>3, FS_EmptySet, StatusFinite

\* Rows that appear empty, or are fenced, leave the rest of the invariant alone.
LEMMA AdmitIInv ==
    ASSUME IInv, UNCHANGED <<chunk, running, plan, handles, observed>>,
           TypeOK', ActiveIsCurrent', CurrentIsLive',
           \A e \in Digests :
              \/ schedule'[e] = schedule[e]
              \/ schedule[e].status = "absent" /\ schedule'[e] = NewSchedule
              \/ /\ schedule[e].status # "absent" /\ schedule'[e].status = "superseded"
                 /\ schedule'[e].nextOffset = schedule[e].nextOffset
                 /\ schedule'[e].pending = schedule[e].pending
                 /\ schedule'[e].running = schedule[e].running
                 /\ schedule'[e].succeeded = schedule[e].succeeded
                 /\ schedule'[e].materialized = schedule[e].materialized
    PROVE  IInv'
  <1>1. ASSUME NEW e \in Digests
        PROVE  /\ schedule'[e].pending = schedule[e].pending /\ schedule'[e].running = schedule[e].running
               /\ schedule'[e].succeeded = schedule[e].succeeded
               /\ schedule'[e].materialized = schedule[e].materialized
               /\ schedule[e].status # "absent" =>
                    schedule'[e].status # "absent" /\ schedule'[e].nextOffset = schedule[e].nextOffset
    BY AbsentCounters, NewScheduleFacts DEF NewFacts
  <1>2. RowsExpanded' /\ RunningLeased' /\ OneLiveAttempt'
    <2>1. ASSUME NEW c \in Ids, chunk'[c].status # "absent"
          PROVE  /\ schedule'[c.digest].status # "absent" /\ c.offset < schedule'[c.digest].nextOffset
                 /\ chunk'[c].length = Length(c.digest, c.offset)
      <3>1. c.digest \in Digests
        BY IdNumbers
      <3> QED
        BY <1>1, <2>1, <3>1 DEF IInv, Table, RowsExpanded
    <2>2. RowsExpanded'
      BY <2>1 DEF RowsExpanded, Length, TotalItems
    <2> QED
      BY <2>2 DEF IInv, Table, RunningLeased, OneLiveAttempt
  <1>3. Counters'
    <2>1. \A e, s : InStatus(e, s)' = InStatus(e, s) /\ ChunksOf(e)' = ChunksOf(e)
      BY DEF InStatus, ChunksOf
    <2>2. RunningChunks' = RunningChunks
      BY DEF RunningChunks
    <2>3. Counters
      BY DEF IInv
    <2> QED
      BY <1>1, <2>1, <2>2, <2>3 DEF Counters, CountersAgree, RunningChunks
  <1>4. Evidence'
    BY DEF IInv, Evidence, HandlesDistinct, DoneByHolder, FailedByHolder
  <1>5. ASSUME NEW e \in Digests, schedule'[e].status \in {"active", "settled"}
        PROVE  \/ schedule'[e] = schedule[e] /\ Started(e)' = Started(e)
               \/ /\ schedule'[e].status = "active" /\ Started(e)' = 0 /\ schedule'[e].nextOffset = 0
                  /\ schedule'[e].succeeded + schedule'[e].failed = 0
    BY <1>5, NewScheduleFacts DEF NewFacts, Started
  <1>6. Progress'
    <2>1. ASSUME NEW e \in Digests, schedule'[e].status \in {"active", "settled"}
          PROVE  /\ Started(e)' <= TotalChunks(e)
                 /\ schedule'[e].nextOffset =
                      IF Started(e)' < TotalChunks(e) THEN Started(e)' * Specs[e].chunkItems ELSE TotalItems(e)
                 /\ schedule'[e].status = "settled" <=>
                      schedule'[e].succeeded + schedule'[e].failed = TotalChunks(e)
      <3>1. CASE schedule'[e] = schedule[e] /\ Started(e)' = Started(e)
        BY <2>1, <3>1 DEF IInv, Settling, Progress
      <3>2. CASE /\ schedule'[e].status = "active" /\ Started(e)' = 0 /\ schedule'[e].nextOffset = 0
                 /\ schedule'[e].succeeded + schedule'[e].failed = 0
        <4>1. TotalChunks(e) \in Nat \ {0} /\ Specs[e].chunkItems \in Nat
          BY TotalFacts, SpecFacts
        <4> QED
          BY <3>2, <4>1
      <3> QED
        BY <1>5, <2>1, <3>1, <3>2
    <2> QED
      BY <2>1 DEF Progress, TotalChunks, TotalItems
  <1>7. OffsetsCovered'
    <2>1. ASSUME NEW e \in Digests, schedule'[e].status \in {"active", "settled"},
                 schedule'[e].failed = 0, NEW j \in 0..(TotalItems(e) - 1),
                 j * Specs[e].chunkItems < schedule'[e].nextOffset
          PROVE  \E x \in ChunksOf(e) : x.offset = j * Specs[e].chunkItems
                                        /\ chunk'[x].status \in {"pending", "running", "done"}
      <3>1. j * Specs[e].chunkItems \in Int /\ j * Specs[e].chunkItems >= 0
        <4>1. j \in Int /\ 0 <= j /\ Specs[e].chunkItems \in Nat \ {0} /\ 0 * Specs[e].chunkItems = 0
          BY SpecFacts
        <4> QED
          BY <4>1, ProductGrows
      <3>2. schedule'[e] = schedule[e]
        BY <1>5, <2>1, <3>1
      <3> QED
        BY <2>1, <3>2 DEF IInv, Settling, OffsetsCovered
    <2> QED
      BY <2>1 DEF OffsetsCovered, TotalItems
  <1>8. PlanFollowed'
    BY DEF IInv, Settling, PlanFollowed, InStatus
  <1> QED
    BY <1>2, <1>3, <1>4, <1>6, <1>7, <1>8 DEF IInv, Table, Settling

\* A fenced row is a row, with the counters it had.
LEMMA FencedFacts ==
    ASSUME NEW u \in Schedule
    PROVE  LET v == [u EXCEPT !.status = "superseded"]
           IN  /\ v \in Schedule /\ v.status = "superseded" /\ v.nextOffset = u.nextOffset
               /\ v.pending = u.pending /\ v.running = u.running /\ v.succeeded = u.succeeded
               /\ v.failed = u.failed /\ v.materialized = u.materialized
  BY DEF Schedule, ScheduleStatus

\* EnqueueGenerationSchedule
LEMMA EnqueueIInv ==
    ASSUME IInv, NEW d \in Digests, EnqueueGenerationSchedule(d)
    PROVE  IInv'
  <1>0. /\ TypeOK /\ UNCHANGED <<chunk, running, collecting, plan, handles, observed>>
        /\ RootLive(d) /\ schedule[d].status = "absent" /\ StageOf(d) \in Stages
    BY SpecFacts DEF IInv, Table, EnqueueGenerationSchedule, authority
  <1>1. /\ schedule'[d] = NewSchedule
        /\ \A e \in Digests \ {d} : schedule'[e] =
              IF e \in Superseded(d) THEN [schedule[e] EXCEPT !.status = "superseded"] ELSE schedule[e]
    BY DEF EnqueueGenerationSchedule
  <1>2. current'[StageOf(d)] = d /\ \A s \in Stages \ {StageOf(d)} : current'[s] = current[s]
    BY <1>0, TypeFacts DEF EnqueueGenerationSchedule
  <1>3. ASSUME NEW e \in Digests, e # d
        PROVE  /\ schedule'[e] \in Schedule
               /\ e \in Superseded(d) => schedule[e].status = "active" /\ schedule'[e].status = "superseded"
               /\ \/ schedule'[e] = schedule[e] /\ e \notin Superseded(d)
                  \/ /\ schedule[e].status # "absent" /\ schedule'[e].status = "superseded"
                     /\ schedule'[e].nextOffset = schedule[e].nextOffset
                     /\ schedule'[e].pending = schedule[e].pending
                     /\ schedule'[e].running = schedule[e].running
                     /\ schedule'[e].succeeded = schedule[e].succeeded
                     /\ schedule'[e].materialized = schedule[e].materialized
    <2>1. schedule[e] \in Schedule
      BY <1>0, TypeFacts
    <2>2. CASE e \in Superseded(d)
      <3>1. schedule'[e] = [schedule[e] EXCEPT !.status = "superseded"] /\ schedule[e].status = "active"
        BY <1>1, <1>3, <2>2 DEF Superseded
      <3> QED
        BY <2>1, <2>2, <3>1, FencedFacts
    <2>3. CASE e \notin Superseded(d)
      BY <1>1, <1>3, <2>1, <2>3
    <2> QED
      BY <2>2, <2>3
  <1>4. TypeOK'
    <2>1. \A e \in Digests : schedule'[e] \in Schedule
      BY <1>1, <1>3, NewScheduleFacts DEF NewFacts
    <2>2. schedule' \in [Digests -> Schedule]
      BY <2>1 DEF EnqueueGenerationSchedule
    <2>3. current' \in [Stages -> Digests \cup {NoDigest}]
      BY <1>0 DEF TypeOK, EnqueueGenerationSchedule
    <2> QED
      BY <1>0, <2>2, <2>3 DEF TypeOK
  <1>5. ASSUME NEW e \in Digests PROVE StageOf(e) \in Stages /\ StageOf(e)' = StageOf(e)
    BY SpecFacts DEF StageOf
  <1>6. ActiveIsCurrent'
    <2>1. ASSUME NEW e \in Digests, schedule'[e].status = "active"
          PROVE  current'[StageOf(e)] = e /\ e \notin collecting
      <3>1. CASE e = d
        BY <1>0, <1>2, <3>1 DEF RootLive
      <3>2. CASE e # d
        <4>1. e \notin Superseded(d) /\ schedule[e].status = "active"
          BY <1>3, <2>1, <3>2
        <4>2. current[StageOf(e)] = e /\ e \notin collecting
          BY <4>1 DEF IInv, ActiveIsCurrent, IsCurrent, RootLive
        <4>3. StageOf(e) # StageOf(d)
          BY <3>2, <4>1, <4>2 DEF Superseded
        <4> QED
          BY <1>2, <1>5, <4>2, <4>3
      <3> QED
        BY <3>1, <3>2
    <2>2. \A e \in Digests : e \in collecting => InStatus(e, "running")' = {}
      BY <1>0 DEF IInv, ActiveIsCurrent, InStatus
    <2> QED
      BY <1>0, <1>5, <2>1, <2>2 DEF ActiveIsCurrent, IsCurrent, RootLive
  <1>7. CurrentIsLive'
    <2>1. ASSUME NEW s \in Stages, current'[s] # NoDigest PROVE StageOf(current'[s]) = s
      <3>1. CASE s = StageOf(d)
        BY <1>2, <3>1
      <3>2. CASE s # StageOf(d)
        BY <1>2, <2>1, <3>2 DEF IInv, CurrentIsLive
      <3> QED
        BY <3>1, <3>2
    <2>2. ASSUME NEW e \in Digests, current'[StageOf(e)] = e
          PROVE  schedule'[e].status \in {"active", "settled"}
      <3>1. CASE e = d
        BY <1>1, <3>1, NewScheduleFacts DEF NewFacts
      <3>2. CASE e # d
        <4>1. StageOf(e) # StageOf(d)
          BY <1>2, <2>2, <3>2
        <4>2. current[StageOf(e)] = e
          BY <1>2, <1>5, <2>2, <4>1
        <4>3. schedule[e].status \in {"active", "settled"}
          BY <4>2 DEF IInv, CurrentIsLive, IsCurrent
        <4>4. e \notin Superseded(d)
          BY <1>0, <4>1, AbsentAssumption DEF Superseded, IInv, CurrentIsLive
        <4> QED
          BY <1>1, <3>2, <4>3, <4>4
      <3> QED
        BY <3>1, <3>2
    <2> QED
      BY <1>5, <2>1, <2>2 DEF CurrentIsLive, IsCurrent, StageOf
  <1> QED
    BY <1>0, <1>1, <1>3, <1>4, <1>6, <1>7, AdmitIInv

\* The current schedule of a stage is retired, alone or with its typed root.
LEMMA RetireIInv ==
    ASSUME IInv, NEW d \in Digests, IsCurrent(d),
           schedule' = [schedule EXCEPT ![d].status = IF @ = "active" THEN "superseded" ELSE @],
           current' = [current EXCEPT ![StageOf(d)] = NoDigest],
           UNCHANGED <<chunk, running, plan, handles, observed>>,
           collecting' \subseteq Typed, collecting' \subseteq collecting \cup {d},
           d \in collecting' => InStatus(d, "running") = {}
    PROVE  IInv'
  <1>0. TypeOK /\ StageOf(d) \in Stages
    BY SpecFacts DEF IInv, Table
  <1> PICK u \in Schedule : u = schedule[d]
    BY <1>0, TypeFacts
  <1>1. /\ schedule'[d] = [u EXCEPT !.status = IF u.status = "active" THEN "superseded" ELSE u.status]
        /\ \A e \in Digests \ {d} : schedule'[e] = schedule[e]
    BY <1>0, TypeFacts
  <1>2. current'[StageOf(d)] = NoDigest /\ \A s \in Stages \ {StageOf(d)} : current'[s] = current[s]
    BY <1>0, TypeFacts
  <1>3. u.status \in {"active", "settled"}
    BY DEF IInv, CurrentIsLive
  <1>4. /\ schedule'[d] \in Schedule
        /\ \/ schedule'[d] = schedule[d] /\ u.status = "settled"
           \/ /\ schedule[d].status # "absent" /\ schedule'[d].status = "superseded"
              /\ schedule'[d].nextOffset = schedule[d].nextOffset
              /\ schedule'[d].pending = schedule[d].pending
              /\ schedule'[d].running = schedule[d].running
              /\ schedule'[d].succeeded = schedule[d].succeeded
              /\ schedule'[d].materialized = schedule[d].materialized
    <2>1. CASE u.status = "active"
      <3>1. schedule'[d] = [u EXCEPT !.status = "superseded"]
        BY <1>1, <2>1
      <3> QED
        BY <2>1, <3>1, FencedFacts
    <2>2. CASE u.status = "settled"
      <3>1. schedule'[d] = u
        BY <1>1, <2>2 DEF Schedule
      <3> QED
        BY <2>2, <3>1
    <2> QED
      BY <1>3, <2>1, <2>2
  <1>5. TypeOK'
    <2>1. schedule' \in [Digests -> Schedule]
      <3>1. schedule' = [schedule EXCEPT ![d] = schedule'[d]]
        BY <1>0, TypeFacts
      <3> QED
        BY <1>0, <1>4, <3>1 DEF TypeOK
    <2>2. current' \in [Stages -> Digests \cup {NoDigest}]
      BY <1>0 DEF TypeOK
    <2> QED
      BY <1>0, <2>1, <2>2 DEF TypeOK
  <1>6. ASSUME NEW e \in Digests PROVE StageOf(e) \in Stages
    BY SpecFacts
  <1>7. ActiveIsCurrent'
    <2>1. ASSUME NEW e \in Digests, schedule'[e].status = "active"
          PROVE  current'[StageOf(e)] = e /\ e \notin collecting'
      <3>1. e # d /\ schedule[e].status = "active"
        BY <1>1, <1>4, <2>1
      <3>2. current[StageOf(e)] = e /\ e \notin collecting
        BY <3>1 DEF IInv, ActiveIsCurrent, IsCurrent, RootLive
      <3>3. StageOf(e) # StageOf(d)
        BY <3>1, <3>2 DEF IsCurrent
      <3> QED
        BY <1>2, <1>6, <3>1, <3>2, <3>3
    <2>2. \A e \in Digests : e \in collecting' => InStatus(e, "running")' = {}
      BY DEF IInv, ActiveIsCurrent, InStatus
    <2> QED
      BY <2>1, <2>2 DEF ActiveIsCurrent, IsCurrent, RootLive, StageOf
  <1>8. CurrentIsLive'
    <2>1. ASSUME NEW s \in Stages, current'[s] # NoDigest PROVE StageOf(current'[s]) = s
      BY <1>2, <2>1 DEF IInv, CurrentIsLive
    <2>2. ASSUME NEW e \in Digests, current'[StageOf(e)] = e
          PROVE  schedule'[e].status \in {"active", "settled"}
      <3>1. StageOf(e) # StageOf(d)
        BY <1>2, <2>2, AbsentAssumption
      <3>2. current[StageOf(e)] = e /\ e # d
        BY <1>2, <1>6, <2>2, <3>1
      <3> QED
        BY <1>1, <3>2 DEF IInv, CurrentIsLive, IsCurrent
    <2> QED
      BY <2>1, <2>2 DEF CurrentIsLive, IsCurrent, StageOf
  <1> QED
    BY <1>1, <1>4, <1>5, <1>7, <1>8, AdmitIInv

\* BeginTypedIndexRetirement, of a root whose schedule is current or not.
LEMMA BeginTypedIInv ==
    ASSUME IInv, NEW d \in Digests, BeginTypedIndexRetirement(d)
    PROVE  IInv'
  <1>0. /\ TypeOK /\ UNCHANGED <<chunk, running, plan, handles, observed>>
        /\ InStatus(d, "running") = {} /\ d \in Typed /\ collecting' = collecting \cup {d}
    BY DEF IInv, Table, BeginTypedIndexRetirement
  <1>1. collecting' \subseteq Typed
    BY <1>0 DEF TypeOK
  <1>2. CASE IsCurrent(d)
    BY <1>0, <1>1, <1>2, RetireIInv DEF BeginTypedIndexRetirement
  <1>3. CASE ~IsCurrent(d)
    <2>1. UNCHANGED <<schedule, current>>
      BY <1>3 DEF BeginTypedIndexRetirement
    <2>2. TypeOK'
      BY <1>0, <1>1, <2>1 DEF TypeOK
    <2>3. ActiveIsCurrent'
      <3>1. \A e \in Digests : schedule[e].status = "active" => IsCurrent(e) /\ e \notin collecting /\ e # d
        BY <1>3 DEF IInv, ActiveIsCurrent, RootLive
      <3>2. \A e \in Digests : e \in collecting' => InStatus(e, "running") = {}
        BY <1>0 DEF IInv, ActiveIsCurrent
      <3>3. \A e \in Digests : InStatus(e, "running")' = InStatus(e, "running") /\ (IsCurrent(e)' <=> IsCurrent(e))
        BY <1>0, <2>1 DEF InStatus, IsCurrent, StageOf
      <3> QED
        BY <1>0, <2>1, <3>1, <3>2, <3>3 DEF ActiveIsCurrent, RootLive
    <2>4. CurrentIsLive'
      BY <2>1 DEF IInv, CurrentIsLive, IsCurrent
    <2> QED
      BY <1>0, <2>1, <2>2, <2>3, <2>4, AdmitIInv
  <1> QED
    BY <1>2, <1>3

\* The serial plan is created, and one more chunk of it is applied.
LEMMA PlanIInv ==
    ASSUME IInv, NEW d \in Serial, NEW k \in Nat, k <= TotalItems(d), plan[d] <= k,
           plan' = [plan EXCEPT ![d] = k],
           UNCHANGED <<schedule, current, chunk, running, collecting, handles, observed>>
    PROVE  IInv'
  <1>0. TypeOK /\ plan \in [Serial -> Nat \cup {Unplanned}]
    BY DEF IInv, Table, TypeOK
  <1>1. plan'[d] = k /\ \A e \in Serial \ {d} : plan'[e] = plan[e]
    BY <1>0
  <1>2. Table'
    BY <1>0 DEF IInv, Table, TypeOK, RowsExpanded, RunningLeased, OneLiveAttempt
  <1>3. ActiveIsCurrent' /\ CurrentIsLive'
    BY DEF IInv, ActiveIsCurrent, CurrentIsLive, IsCurrent, RootLive, InStatus
  <1>4. Counters' /\ Evidence'
    <2>1. \A e, s : InStatus(e, s)' = InStatus(e, s)
      BY DEF InStatus
    <2>2. Counters'
      BY <2>1 DEF IInv, Counters, CountersAgree, RunningChunks
    <2>3. Evidence'
      BY DEF IInv, Evidence, HandlesDistinct, DoneByHolder, FailedByHolder
    <2> QED
      BY <2>2, <2>3
  <1>5. Progress' /\ OffsetsCovered'
    BY DEF IInv, Settling, Progress, OffsetsCovered, Started
  <1>6. PlanFollowed'
    <2>1. ASSUME NEW e \in Serial
          PROVE  plan'[e] <= TotalItems(e) /\ \A c \in InStatus(e, "done")' : c.offset < plan'[e]
      <3>1. InStatus(e, "done")' = InStatus(e, "done")
        BY DEF InStatus
      <3>2. plan[e] <= TotalItems(e) /\ \A c \in InStatus(e, "done") : c.offset < plan[e]
        BY DEF IInv, Settling, PlanFollowed
      <3>3. \A c \in InStatus(e, "done") : c.offset \in Nat
        BY IdNumbers DEF InStatus, ChunksOf
      <3>4. plan[e] \in Int
        BY <1>0 DEF Unplanned
      <3> QED
        BY <1>1, <3>1, <3>2, <3>3, <3>4
    <2> QED
      BY <2>1 DEF PlanFollowed, TotalItems
  <1> QED
    BY <1>2, <1>3, <1>4, <1>5, <1>6 DEF IInv, Settling

-----------------------------------------------------------------------------
(* The induction *)

\* The empty tables satisfy the invariant.
LEMMA InitIInv == Init => IInv
  <1> SUFFICES ASSUME Init PROVE IInv
    OBVIOUS
  <1>1. /\ NoSchedule \in Schedule /\ NoSchedule.status = "absent" /\ NoSchedule.pending = 0
        /\ NoSchedule.running = 0 /\ NoSchedule.succeeded = 0 /\ NoSchedule.materialized = 0
    BY DEF NoSchedule, NewSchedule, Schedule, ScheduleStatus
  <1>2. NoChunk \in Chunk /\ NoChunk.status = "absent"
    <2>1. PICK gate \in BOOLEAN : gate = FALSE
      OBVIOUS
    <2>2. NoChunk = [NewChunk(0, 0, gate) EXCEPT !.status = "absent"]
      BY <2>1, Zenon DEF NoChunk
    <2>3. NewChunk(0, 0, gate) \in Chunk
      BY NewChunkFacts
    <2> QED
      BY <2>2, <2>3 DEF Chunk, ChunkStatus
  <1>3. (\A d \in Digests : schedule[d] = NoSchedule) /\ (\A c \in Ids : chunk[c] = NoChunk)
    BY DEF Init
  <1>4. TypeOK
    <2>1. plan \in [Serial -> Nat \cup {Unplanned}]
      BY DEF Init
    <2>2. schedule \in [Digests -> Schedule] /\ chunk \in [Ids -> Chunk]
      BY <1>1, <1>2 DEF Init
    <2> QED
      BY <2>1, <2>2 DEF Init, TypeOK
  <1>5. Table
    BY <1>2, <1>3, <1>4 DEF Table, RowsExpanded, RunningLeased, OneLiveAttempt
  <1>6. ActiveIsCurrent
    BY <1>1, <1>3 DEF ActiveIsCurrent, Init
  <1>7. CurrentIsLive
    <2>1. \A s \in Stages : current[s] = NoDigest
      BY DEF Init
    <2> QED
      BY <2>1, SpecFacts, AbsentAssumption DEF CurrentIsLive, IsCurrent
  <1>8. Counters
    <2>1. ASSUME NEW d \in Digests
          PROVE  /\ InStatus(d, "pending") = {} /\ InStatus(d, "running") = {} /\ InStatus(d, "done") = {}
                 /\ InStatus(d, "absent") = ChunksOf(d)
      BY <1>2, <1>3 DEF InStatus, ChunksOf
    <2>2. RunningChunks = {}
      BY <1>2, <1>3 DEF RunningChunks
    <2>3. CountersAgree
      <3>1. ASSUME NEW d \in Digests
            PROVE  /\ schedule[d].pending = Cardinality(InStatus(d, "pending"))
                   /\ schedule[d].running = Cardinality(InStatus(d, "running"))
                   /\ schedule[d].succeeded = Cardinality(InStatus(d, "done"))
                   /\ schedule[d].materialized = Cardinality(ChunksOf(d)) - Cardinality(InStatus(d, "absent"))
        BY <1>1, <1>3, <2>1, FS_EmptySet, StatusFinite
      <3>2. running = Cardinality(RunningChunks)
        BY <2>2, FS_EmptySet DEF Init
      <3> QED
        BY <3>1, <3>2 DEF CountersAgree, RunningChunks
    <2> QED
      BY <2>2, <2>3, FS_EmptySet DEF Counters
  <1>9. Evidence
    BY DEF Init, Evidence, HandlesDistinct, DoneByHolder, FailedByHolder
  <1>10. Progress /\ OffsetsCovered
    BY <1>1, <1>3 DEF Progress, OffsetsCovered
  <1>11. PlanFollowed
    <2>1. ASSUME NEW d \in Serial
          PROVE  plan[d] <= TotalItems(d) /\ InStatus(d, "done") = {}
      <3>1. d \in Digests /\ plan[d] = -1
        BY KindsAssumption DEF Init, Unplanned
      <3>2. TotalItems(d) \in Nat
        BY <3>1, SpecFacts
      <3> QED
        BY <1>2, <1>3, <3>1, <3>2 DEF InStatus, ChunksOf
    <2> QED
      BY <2>1 DEF PlanFollowed
  <1> QED
    BY <1>5, <1>6, <1>7, <1>8, <1>9, <1>10, <1>11 DEF IInv, Settling

\* Rows that age or open differ in nothing a result depends on.
LEMMA AgedFacts ==
    ASSUME NEW row \in Chunk, NEW b \in BOOLEAN, NEW new \in {Aged(row, b), Opened(row)}
    PROVE  /\ new \in Chunk /\ new.status = row.status /\ new.length = row.length
           /\ new.lease = row.lease /\ new.worker = row.worker
  <1>1. CASE new = Aged(row, b)
    BY <1>1 DEF Aged, Chunk
  <1>2. CASE new = Opened(row)
    <2>1. PICK gate \in BOOLEAN : gate = FALSE
      OBVIOUS
    <2>2. new = [row EXCEPT !.gated = gate]
      BY <1>2, <2>1, Zenon DEF Opened
    <2> QED
      BY <2>2 DEF Chunk
  <1> QED
    BY <1>1, <1>2

\* One row ages or opens.
LEMMA TouchIInv ==
    ASSUME IInv, NEW c \in Ids, NEW b \in BOOLEAN, NEW new \in {Aged(chunk[c], b), Opened(chunk[c])},
           chunk' = [chunk EXCEPT ![c] = new], observed' \subseteq observed,
           UNCHANGED <<schedule, current, running, authority, handles>>
    PROVE  IInv'
  <1>0. TypeOK /\ UNCHANGED <<collecting, plan>> /\ chunk[c] \in Chunk
    BY TypeFacts DEF IInv, Table, authority
  <1>1. /\ new \in Chunk /\ new.status = chunk[c].status /\ new.length = chunk[c].length
        /\ new.lease = chunk[c].lease /\ new.worker = chunk[c].worker
    BY <1>0, AgedFacts
  <1>2. chunk'[c] = new /\ \A e \in Ids \ {c} : chunk'[e] = chunk[e]
    BY <1>0, TypeFacts
  <1>3. \A e \in Ids : chunk'[e].status = chunk[e].status /\ chunk'[e].length = chunk[e].length
                       /\ chunk'[e].lease = chunk[e].lease /\ chunk'[e].worker = chunk[e].worker
    BY <1>1, <1>2
  <1>4. TypeOK'
    BY <1>0, <1>1 DEF TypeOK
  <1> QED
    BY <1>0, <1>3, <1>4, QuietIInv

\* Enqueuing, retiring, planning and expanding keep the invariant.
LEMMA PlanStepIInv ==
    ASSUME IInv, NEW d \in Digests, Plan(d)
    PROVE  IInv'
  <1>0. TypeOK
    BY DEF IInv, Table
  <1>1. CASE EnqueueGenerationSchedule(d)
    BY <1>1, EnqueueIInv
  <1>2. CASE RetireCurrentGenerationSchedule(d)
    <2>1. collecting' = collecting /\ UNCHANGED <<chunk, running, plan, handles, observed>>
      BY <1>2 DEF RetireCurrentGenerationSchedule, authority
    <2>2. collecting' \subseteq Typed /\ (d \in collecting' => InStatus(d, "running") = {})
      BY <1>0, <2>1 DEF TypeOK, IInv, ActiveIsCurrent
    <2> QED
      BY <1>2, <2>1, <2>2, RetireIInv DEF RetireCurrentGenerationSchedule
  <1>3. CASE BeginTypedIndexRetirement(d)
    BY <1>3, BeginTypedIInv
  <1>4. CASE CreateServiceStateV3Plan(d)
    <2>1. d \in Serial /\ plan[d] <= 0 /\ 0 <= TotalItems(d)
      BY <1>4, SpecFacts DEF CreateServiceStateV3Plan, Unplanned
    <2> QED
      BY <1>4, <2>1, PlanIInv DEF CreateServiceStateV3Plan
  <1>5. CASE ExpandGenerationSchedule(d)
    BY <1>5, ExpandIInv
  <1> QED
    BY <1>1, <1>2, <1>3, <1>4, <1>5 DEF Plan

\* Whatever a worker does with its lease keeps the invariant.
LEMMA UseLeaseIInv ==
    ASSUME IInv, NEW h \in handles, UseLease(h)
    PROVE  IInv'
  <1>0. TypeOK /\ h.id \in Ids /\ h.id.digest \in Digests
    BY HandleFacts DEF IInv, Table
  <1> PICK d \in Digests : d = h.id.digest
    BY <1>0
  <1>1. CASE HeartbeatGenerationChunk(h)
    <2>1. FALSE \in BOOLEAN /\ Aged(chunk[h.id], FALSE) \in {Aged(chunk[h.id], FALSE), Opened(chunk[h.id])}
      OBVIOUS
    <2>2. /\ chunk' = [chunk EXCEPT ![h.id] = Aged(chunk[h.id], FALSE)] /\ observed' \subseteq observed
          /\ UNCHANGED <<schedule, current, running, authority, handles>>
      BY <1>0, <1>1 DEF HeartbeatGenerationChunk
    <2> QED
      BY <1>0, <2>1, <2>2, TouchIInv, Zenon
  <1>2. CASE ProcessServiceStateV3Chunk(h)
    <2>1. d \in Serial /\ h.id.offset = plan[d] /\ plan' = [plan EXCEPT ![d] = plan[d] + 1]
          /\ UNCHANGED <<schedule, current, chunk, running, collecting, handles, observed>>
      BY <1>2 DEF ProcessServiceStateV3Chunk
    <2>2. h.id.offset \in Nat /\ h.id.offset < TotalItems(d) /\ TotalItems(d) \in Nat
      BY <1>0, IdNumbers, SpecFacts
    <2>3. plan[d] + 1 \in Nat /\ plan[d] + 1 <= TotalItems(d) /\ plan[d] <= plan[d] + 1
      BY <2>1, <2>2
    <2> QED
      BY <2>1, <2>3, PlanIInv
  <1>3. CASE CompleteGenerationChunk(h)
    <2>1. PICK s : s = IF IsCurrent(d) THEN "done" ELSE "canceled"
      OBVIOUS
    <2>2. /\ Owned(h) /\ (d \in Serial => h.id.offset < plan[d])
          /\ EndLease(h.id, Finished(chunk[h.id], s), CountDone(d)) /\ Did(h, s) /\ UNCHANGED observed
      BY <1>3, <2>1 DEF CompleteGenerationChunk, Holds
    <2> QED
      BY <2>1, <2>2, ResultIInv
  <1>4. CASE FailGenerationChunk(h)
    <2>1. PICK s : s = IF IsCurrent(d) THEN "failed" ELSE "canceled"
      OBVIOUS
    <2>2. /\ Owned(h) /\ EndLease(h.id, Finished(chunk[h.id], s), CountFailed(d))
          /\ Did(h, s) /\ UNCHANGED observed
      BY <1>4, <2>1 DEF FailGenerationChunk, Holds
    <2> QED
      BY <2>1, <2>2, ResultIInv
  <1>5. CASE RetryGenerationChunk(h)
    <2>0. Owned(h) /\ UNCHANGED observed
      BY <1>5 DEF RetryGenerationChunk, Holds
    <2>1. CASE /\ ~IsCurrent(d)
               /\ EndLease(h.id, Finished(chunk[h.id], "canceled"), CountFailed(d)) /\ Did(h, "canceled")
      BY <2>0, <2>1, ResultIInv
    <2>2. CASE /\ IsCurrent(d) /\ Exhausted(h.id)
               /\ EndLease(h.id, Finished(chunk[h.id], "failed"), CountFailed(d)) /\ Did(h, "exhausted")
      BY <2>0, <2>2, ResultIInv
    <2>3. CASE /\ IsCurrent(d) /\ ~Exhausted(h.id)
               /\ chunk' = [chunk EXCEPT
                     ![h.id] = Finished(@, "failed"),
                     ![NextAttempt(h.id)] = NewChunk(chunk[h.id].length, 1, TRUE)]
               /\ schedule' = [schedule EXCEPT ![d] = CountRetried(d)]
               /\ running' = running - 1 /\ Did(h, "retried") /\ UNCHANGED <<current, authority>>
      BY <2>0, <2>3, RetryIInv
    <2> QED
      BY <1>5, <2>1, <2>2, <2>3 DEF RetryGenerationChunk
  <1>6. CASE ReleaseGenerationChunk(h)
    <2>1. HandBack(h, FALSE) /\ Did(h, "returned") /\ UNCHANGED observed /\ FALSE \in BOOLEAN
      BY <1>6 DEF ReleaseGenerationChunk
    <2> QED
      BY <2>1, HandBackIInv, Zenon
  <1>7. CASE DeferGenerationChunk(h)
    <2>1. HandBack(h, TRUE) /\ Did(h, "returned") /\ UNCHANGED observed /\ TRUE \in BOOLEAN
      BY <1>7 DEF DeferGenerationChunk
    <2> QED
      BY <2>1, HandBackIInv, Zenon
  <1>8. CASE Forget(h)
    <2>1. handles' \subseteq handles /\ UNCHANGED <<schedule, current, chunk, running, collecting, plan, observed>>
      BY <1>8 DEF Forget, authority
    <2>2. TypeOK'
      BY <1>0, <2>1 DEF TypeOK
    <2> QED
      BY <2>1, <2>2, QuietIInv
  <1> QED
    BY <1>1, <1>2, <1>3, <1>4, <1>5, <1>6, <1>7, <1>8 DEF UseLease

\* Every step keeps the inductive invariant.
LEMMA Inductive == IInv /\ [Next]_vars => IInv'
  <1> SUFFICES ASSUME IInv, [Next]_vars PROVE IInv'
    OBVIOUS
  <1>0. TypeOK
    BY DEF IInv, Table
  <1>1. CASE \E d \in Digests : Plan(d)
    BY <1>1, PlanStepIInv
  <1>2. CASE \E w \in Workers, l \in Leases : ClaimGenerationChunk(w, l)
    BY <1>2, ClaimIInv
  <1>3. CASE \E h \in handles : UseLease(h)
    BY <1>3, UseLeaseIInv
  <1>4. CASE \E S \in SUBSET StaleChunks : ReapSelect(S)
    <2>1. PICK S \in SUBSET StaleChunks : ReapSelect(S)
      BY <1>4
    <2>2. UNCHANGED <<schedule, current, chunk, running, collecting, plan, handles>>
          /\ observed' = observed \cup {HandleOf(c) : c \in S}
      BY <2>1 DEF ReapSelect, authority
    <2>3. ASSUME NEW c \in S PROVE HandleOf(c) \in Handle
      <3>1. c \in Ids /\ chunk[c].status = "running"
        BY DEF StaleChunks
      <3>2. chunk[c].lease \in Leases /\ chunk[c].worker \in Workers
        BY <3>1 DEF IInv, Table, RunningLeased
      <3> QED
        BY <3>1, <3>2 DEF HandleOf, Handle
    <2>4. TypeOK'
      BY <1>0, <2>2, <2>3 DEF TypeOK
    <2> QED
      BY <2>2, <2>4, QuietIInv
  <1>5. CASE \E o \in observed : ReleaseStaleGenerationChunk(o)
    <2>1. PICK o \in observed : ReleaseStaleGenerationChunk(o)
      BY <1>5
    <2>2. HandBack(o, FALSE) /\ observed' \subseteq observed /\ UNCHANGED handles /\ FALSE \in BOOLEAN
      BY <2>1 DEF ReleaseStaleGenerationChunk
    <2>3. o \in handles \cup observed
      OBVIOUS
    <2> QED
      BY <2>2, <2>3, HandBackIInv, Zenon
  <1>6. CASE \E S \in SUBSET observed : ReapForget(S)
    <2>1. observed' \subseteq observed /\ UNCHANGED <<schedule, current, chunk, running, collecting, plan, handles>>
      BY <1>6 DEF ReapForget, authority
    <2>2. TypeOK'
      BY <1>0, <2>1 DEF TypeOK
    <2> QED
      BY <2>1, <2>2, QuietIInv
  <1>7. CASE \E c \in Ids : LeaseAges(c) \/ GateOpens(c)
    <2>1. PICK c \in Ids : LeaseAges(c) \/ GateOpens(c)
      BY <1>7
    <2>2. TRUE \in BOOLEAN
      OBVIOUS
    <2>3. CASE LeaseAges(c)
      <3>1. /\ chunk' = [chunk EXCEPT ![c] = Aged(chunk[c], TRUE)] /\ observed' \subseteq observed
            /\ UNCHANGED <<schedule, current, running, authority, handles>>
        BY <1>0, <2>3 DEF LeaseAges
      <3>2. Aged(chunk[c], TRUE) \in {Aged(chunk[c], TRUE), Opened(chunk[c])}
        OBVIOUS
      <3> QED
        BY <2>2, <3>1, <3>2, TouchIInv, Zenon
    <2>4. CASE GateOpens(c)
      <3>1. /\ chunk' = [chunk EXCEPT ![c] = Opened(chunk[c])] /\ observed' \subseteq observed
            /\ UNCHANGED <<schedule, current, running, authority, handles>>
        BY <1>0, <2>4 DEF GateOpens
      <3>2. Opened(chunk[c]) \in {Aged(chunk[c], TRUE), Opened(chunk[c])}
        OBVIOUS
      <3> QED
        BY <2>2, <3>1, <3>2, TouchIInv, Zenon
    <2> QED
      BY <2>1, <2>3, <2>4
  <1>8. CASE UNCHANGED vars
    <2>1. UNCHANGED <<schedule, current, chunk, running, collecting, plan, handles, observed>>
      BY <1>8 DEF vars
    <2>2. TypeOK'
      BY <1>0, <2>1 DEF TypeOK
    <2> QED
      BY <2>1, <2>2, QuietIInv
  <1> QED
    BY <1>1, <1>2, <1>3, <1>4, <1>5, <1>6, <1>7, <1>8 DEF Next

\* The invariant holds in every reachable state.
LEMMA Invariance == Spec => []IInv
  BY InitIInv, Inductive, PTL DEF Spec

-----------------------------------------------------------------------------
(* What follows from it *)

\* No counter of a schedule or of the repository becomes negative, and every
\* row stays well formed, whatever the order of claims, results and reaps.
THEOREM TypesHold == Spec => []TypeOK
  <1>1. IInv => TypeOK
    BY DEF IInv, Table
  <1> QED
    BY <1>1, Invariance, PTL

\* No item range is worked on by two leases at once, or after it succeeded.
THEOREM AttemptsAreSerial == Spec => []OneLiveAttempt
  <1>1. IInv => OneLiveAttempt
    BY DEF IInv, Table
  <1> QED
    BY <1>1, Invariance, PTL

\* The counters on the schedule and repository rows agree with the chunk table.
THEOREM CountersAreExact == Spec => []CountersAgree
  <1>1. IInv => CountersAgree
    BY DEF IInv, Counters
  <1> QED
    BY <1>1, Invariance, PTL

\* An active schedule is the current one of its stage under a live root, and
\* nothing runs under a root that is collecting.
THEOREM PlannerIsNeverStuck == Spec => []ActiveIsCurrent
  <1>1. IInv => ActiveIsCurrent
    BY DEF IInv
  <1> QED
    BY <1>1, Invariance, PTL

\* A worker's reconciliation after a lost answer concludes what really happened.
THEOREM ReconciliationIsTruthful == Spec => []EvidenceIsTruthful
  <1>1. ASSUME IInv, NEW h \in handles
        PROVE  /\ ReconcileCompletion(h) = "applied" <=> h.did = "done" /\ IsCurrent(h.id.digest)
               /\ h.did # "failed" => (ReconcileExhaustion(h) <=> h.did = "exhausted")
    <2>1. /\ h.did = "done" <=> chunk[h.id].status = "done" /\ chunk[h.id].worker = h.worker
          /\ chunk[h.id].status = "failed" /\ chunk[h.id].worker = h.worker =>
               h.did \in {"failed", "exhausted", "retried"}
          /\ h.did = "retried" => ~Exhausted(h.id)
          /\ h.did = "exhausted" =>
               Exhausted(h.id) /\ chunk[h.id].status = "failed" /\ chunk[h.id].worker = h.worker
      BY <1>1 DEF IInv, Evidence, DoneByHolder, FailedByHolder
    <2>2. ReconcileCompletion(h) = "applied" <=>
            chunk[h.id].status = "done" /\ chunk[h.id].worker = h.worker /\ IsCurrent(h.id.digest)
      BY DEF ReconcileCompletion
    <2>3. ReconcileExhaustion(h) <=>
            Exhausted(h.id) /\ chunk[h.id].status = "failed" /\ chunk[h.id].worker = h.worker
      BY DEF ReconcileExhaustion
    <2> QED
      BY <2>1, <2>2, <2>3
  <1>2. IInv => EvidenceIsTruthful
    BY <1>1 DEF EvidenceIsTruthful
  <1> QED
    BY <1>2, Invariance, PTL

\* Without a failure, an offset of a schedule that is not superseded and has
\* nothing running has a chunk that is pending or done.
LEMMA CoveredOffset ==
    ASSUME IInv, NEW d \in Digests, schedule[d].status \in {"active", "settled"},
           schedule[d].failed = 0, schedule[d].nextOffset = TotalItems(d),
           InStatus(d, "running") = {}, NEW j \in 0..(TotalItems(d) - 1),
           j * Specs[d].chunkItems < TotalItems(d)
    PROVE  \E c \in ChunksOf(d) : /\ c \in Ids /\ c.offset = j * Specs[d].chunkItems
                                  /\ chunk[c].status \in {"pending", "done"}
  <1>1. PICK c \in ChunksOf(d) : /\ c.offset = j * Specs[d].chunkItems
                                 /\ chunk[c].status \in {"pending", "running", "done"}
    BY DEF IInv, Settling, OffsetsCovered
  <1> QED
    BY <1>1 DEF InStatus, ChunksOf

\* An active schedule that is fully expanded and has nothing running has a
\* pending chunk that may be claimed, or waits for its plan.
LEMMA ActiveHasWork ==
    ASSUME IInv, NEW d \in Digests, schedule[d].status = "active",
           ~(schedule[d].nextOffset < TotalItems(d)), InStatus(d, "running") = {}
    PROVE  \E c \in InStatus(d, "pending") : Admitted(c) \/ (d \in Serial /\ plan[d] = Unplanned)
  <1>0. TypeOK /\ Progress /\ PlanFollowed
    BY DEF IInv, Table, Settling
  <1> PICK size \in Nat \ {0} : size = Specs[d].chunkItems
    BY SpecFacts
  <1> PICK u \in Schedule : u = schedule[d]
    BY <1>0, TypeFacts
  <1>1. u.pending \in Nat /\ u.running \in Nat /\ u.succeeded \in Nat /\ u.failed \in Nat
    BY DEF Schedule
  <1>2. /\ TotalItems(d) \in Nat \ {0} /\ TotalChunks(d) \in Nat \ {0}
        /\ (TotalChunks(d) - 1) * size < TotalItems(d)
    BY SpecFacts, TotalFacts
  <1>3. /\ Started(d) <= TotalChunks(d)
        /\ u.nextOffset = (IF Started(d) < TotalChunks(d) THEN Started(d) * size ELSE TotalItems(d))
        /\ u.succeeded + u.failed # TotalChunks(d)
    BY <1>0 DEF Progress
  <1>4. PICK m \in Nat : m = Started(d) /\ m = u.pending + u.running + u.succeeded + u.failed
    BY <1>1 DEF Started
  <1>5. m = TotalChunks(d)
    <2>1. ASSUME m < TotalChunks(d) PROVE FALSE
      <3>1. m \in Int /\ TotalChunks(d) - 1 \in Int /\ m <= TotalChunks(d) - 1
        BY <1>2, <2>1
      <3>2. m * size \in Int /\ m * size <= (TotalChunks(d) - 1) * size /\ (TotalChunks(d) - 1) * size \in Int
        BY <3>1, ProductGrows
      <3> QED
        BY <1>2, <1>3, <1>4, <2>1, <3>2
    <2> QED
      BY <1>2, <1>3, <1>4, <2>1
  <1>6. u.nextOffset = TotalItems(d)
    BY <1>2, <1>3, <1>4, <1>5
  <1>7. u.running = 0
    BY FS_EmptySet DEF IInv, Counters, CountersAgree
  <1>8. InStatus(d, "pending") # {}
    <2>1. u.pending > 0
      BY <1>1, <1>2, <1>3, <1>4, <1>5, <1>7
    <2>2. u.pending = Cardinality(InStatus(d, "pending"))
      BY DEF IInv, Counters, CountersAgree
    <2> QED
      BY <2>1, <2>2, FS_EmptySet
  <1>9. PICK c \in InStatus(d, "pending") : c \in Ids /\ c.digest = d /\ c.offset \in Nat /\ c.offset < TotalItems(d)
    BY <1>8, IdNumbers DEF InStatus, ChunksOf
  <1>10. CASE d \notin Serial \/ plan[d] = Unplanned
    BY <1>9, <1>10 DEF Admitted
  <1>11. CASE d \in Serial /\ plan[d] # Unplanned
    <2>1. plan[d] \in Nat /\ plan[d] <= TotalItems(d)
      BY <1>0, <1>11 DEF TypeOK, PlanFollowed
    <2>2. CASE u.failed > 0
      BY <1>9, <1>11, <2>2 DEF Admitted
    <2>3. CASE plan[d] = TotalItems(d)
      BY <1>2, <1>9, <1>11, <2>3 DEF Admitted
    <2>4. CASE u.failed = 0 /\ plan[d] < TotalItems(d)
      <3>1. size = 1
        BY <1>11, KindsAssumption
      <3>2. /\ plan[d] \in 0..(TotalItems(d) - 1) /\ plan[d] * Specs[d].chunkItems < TotalItems(d)
            /\ plan[d] * Specs[d].chunkItems = plan[d]
        BY <1>2, <2>1, <2>4, <3>1
      <3>3. PICK b \in ChunksOf(d) : b \in Ids /\ b.offset = plan[d] /\ chunk[b].status \in {"pending", "done"}
        BY <1>6, <2>4, <3>2, CoveredOffset
      <3>4. chunk[b].status # "done"
        BY <1>0, <1>11, <2>1, <3>3 DEF PlanFollowed, InStatus
      <3>5. b \in InStatus(d, "pending") /\ b.digest = d
        BY <3>3, <3>4 DEF InStatus, ChunksOf
      <3>6. Admitted(b)
        BY <1>11, <2>1, <3>3, <3>5 DEF Admitted
      <3> QED
        BY <3>5, <3>6
    <2> QED
      BY <1>1, <1>2, <2>1, <2>2, <2>3, <2>4
  <1> QED
    BY <1>10, <1>11

\* A settled schedule is over, and one without failures covers every item.
LEMMA SettledCovers ==
    ASSUME IInv, NEW d \in Digests, schedule[d].status = "settled"
    PROVE  /\ InStatus(d, "pending") \cup InStatus(d, "running") = {}
           /\ schedule[d].succeeded + schedule[d].failed = TotalChunks(d)
           /\ schedule[d].failed = 0 =>
                /\ d \in Serial => plan[d] = TotalItems(d)
                /\ \A n \in 0..(TotalItems(d) - 1) : \E c \in InStatus(d, "done") :
                     n \in c.offset..(c.offset + chunk[c].length - 1)
  <1>0. TypeOK /\ Progress /\ PlanFollowed
    BY DEF IInv, Table, Settling
  <1>1. /\ schedule[d].pending = 0 /\ schedule[d].running = 0
        /\ schedule[d].nextOffset = TotalItems(d)
        /\ schedule[d].succeeded + schedule[d].failed = TotalChunks(d)
    BY <1>0, SettledIsOver
  <1>2. InStatus(d, "pending") = {} /\ InStatus(d, "running") = {}
    <2>1. Cardinality(InStatus(d, "pending")) = 0 /\ Cardinality(InStatus(d, "running")) = 0
      BY <1>1 DEF IInv, Counters, CountersAgree
    <2> QED
      BY <2>1, StatusFinite, FS_EmptySet
  <1>3. ASSUME schedule[d].failed = 0, NEW j \in 0..(TotalItems(d) - 1),
               j * Specs[d].chunkItems < TotalItems(d)
        PROVE  \E c \in InStatus(d, "done") : c \in Ids /\ c.digest = d /\ c.offset = j * Specs[d].chunkItems
    <2>1. PICK c \in ChunksOf(d) : /\ c \in Ids /\ c.offset = j * Specs[d].chunkItems
                                   /\ chunk[c].status \in {"pending", "done"}
      BY <1>1, <1>2, <1>3, CoveredOffset
    <2> QED
      BY <1>2, <2>1 DEF InStatus, ChunksOf
  <1>4. TotalItems(d) \in Nat \ {0} /\ Specs[d].chunkItems \in Nat \ {0}
    BY SpecFacts
  <1>5. ASSUME schedule[d].failed = 0, d \in Serial PROVE plan[d] = TotalItems(d)
    <2>1. Specs[d].chunkItems = 1 /\ plan[d] <= TotalItems(d) /\ plan[d] \in Int
      BY <1>0, <1>5, KindsAssumption DEF PlanFollowed, TypeOK, Unplanned
    <2>2. /\ TotalItems(d) - 1 \in 0..(TotalItems(d) - 1)
          /\ (TotalItems(d) - 1) * Specs[d].chunkItems = TotalItems(d) - 1
          /\ (TotalItems(d) - 1) * Specs[d].chunkItems < TotalItems(d)
      BY <1>4, <2>1
    <2>3. PICK c \in InStatus(d, "done") : c.offset = TotalItems(d) - 1
      BY <1>3, <1>5, <2>2
    <2>4. TotalItems(d) - 1 < plan[d]
      BY <1>0, <1>5, <2>3 DEF PlanFollowed
    <2> QED
      BY <1>4, <2>1, <2>4
  <1>6. ASSUME schedule[d].failed = 0, NEW n \in 0..(TotalItems(d) - 1)
        PROVE  \E c \in InStatus(d, "done") : n \in c.offset..(c.offset + chunk[c].length - 1)
    <2> PICK size \in Nat \ {0} : size = Specs[d].chunkItems
      BY <1>4
    <2>1. PICK j \in Nat : j * size \in Int /\ j * size <= n /\ n < j * size + size /\ j <= n
      <3>1. n \in Nat
        BY <1>4
      <3> QED
        BY <3>1, FloorFacts
    <2>2. j \in 0..(TotalItems(d) - 1) /\ j * Specs[d].chunkItems < TotalItems(d)
      BY <1>4, <2>1
    <2>3. PICK c \in InStatus(d, "done") : c \in Ids /\ c.digest = d /\ c.offset = j * size
      BY <1>3, <1>6, <2>2
    <2>4. chunk[c].length = Length(d, j * size)
      BY <2>3 DEF IInv, Table, RowsExpanded, InStatus
    <2>5. Length(d, j * size) = IF TotalItems(d) - j * size < size THEN TotalItems(d) - j * size ELSE size
      BY DEF Length
    <2>6. n \in c.offset..(c.offset + chunk[c].length - 1)
      BY <1>4, <2>1, <2>3, <2>4, <2>5
    <2> QED
      BY <2>6
  <1> QED
    BY <1>1, <1>2, <1>5, <1>6

\* A schedule settles exactly when it is over, and an active one always has
\* work that the planner, a worker or a reaper can go on with.
THEOREM SettlementIsExact == Spec => []SettlesExactly
  <1>1. ASSUME IInv PROVE SettlesExactly
    <2>1. ASSUME NEW d \in Digests, schedule[d].status = "active"
          PROVE  \/ schedule[d].nextOffset < TotalItems(d)
                 \/ InStatus(d, "running") # {}
                 \/ \E c \in InStatus(d, "pending") : Admitted(c) \/ (d \in Serial /\ plan[d] = Unplanned)
      BY <1>1, <2>1, ActiveHasWork
    <2> QED
      BY <1>1, <2>1, SettledCovers DEF SettlesExactly
  <1>2. IInv => SettlesExactly
    BY <1>1
  <1> QED
    BY <1>2, Invariance, PTL

-----------------------------------------------------------------------------
(* A fenced schedule stays fenced *)

\* What a step does to a schedule that is fenced before it.
StaysFenced(d) ==
    /\ ~IsCurrent(d)'
    /\ schedule'[d].pending <= schedule[d].pending
    /\ schedule'[d].succeeded = schedule[d].succeeded
    /\ schedule'[d].failed = schedule[d].failed
    /\ \A c \in ChunksOf(d) :
          chunk[c].status \notin {"running"} => chunk'[c].status = chunk[c].status

\* Counters and statuses that do not change, under a current row that does not.
LEMMA FencedUntouched ==
    ASSUME TypeOK, NEW d \in Digests, ~IsCurrent(d)', schedule'[d].pending = schedule[d].pending,
           schedule'[d].succeeded = schedule[d].succeeded, schedule'[d].failed = schedule[d].failed,
           \A c \in ChunksOf(d) : chunk[c].status # "running" => chunk'[c].status = chunk[c].status
    PROVE  StaysFenced(d)
  BY TypeFacts DEF StaysFenced

\* The end of a lease moves no result of a fenced schedule.
LEMMA FencedEnd ==
    ASSUME IInv, NEW d \in Digests, ~IsCurrent(d), NEW c \in Ids, chunk[c].status = "running",
           NEW row, NEW v, v \in {CountDone(c.digest), CountFailed(c.digest), CountReturned(c.digest)},
           EndLease(c, row, v)
    PROVE  StaysFenced(d)
  <1>0. TypeOK /\ ~IsCurrent(d)' /\ c.digest \in Digests
    BY IdNumbers DEF IInv, Table, EndLease, IsCurrent, StageOf
  <1>1. \A e \in Ids \ {c} : chunk'[e] = chunk[e]
    BY <1>0, TypeFacts DEF EndLease
  <1>2. \A e \in ChunksOf(d) : chunk[e].status # "running" => chunk'[e].status = chunk[e].status
    BY <1>1 DEF ChunksOf
  <1>3. /\ schedule'[d].pending = schedule[d].pending
        /\ schedule'[d].succeeded = schedule[d].succeeded /\ schedule'[d].failed = schedule[d].failed
    <2>1. CASE d # c.digest
      <3>1. schedule'[d] = schedule[d]
        BY <1>0, <2>1, TypeFacts DEF EndLease
      <3> QED
        BY <3>1
    <2>2. CASE d = c.digest
      <3>1. PICK u \in Schedule : u = schedule[d]
        BY <1>0, TypeFacts
      <3>2. u.running > 0
        BY <1>0, <2>2, <3>1, RunningPositive DEF IInv
      <3>3. schedule'[d] = v
        BY <1>0, <2>2, TypeFacts DEF EndLease
      <3>4. v.pending = u.pending /\ v.succeeded = u.succeeded /\ v.failed = u.failed
        BY <2>2, <3>1, <3>2, CountFacts
      <3> QED
        BY <3>1, <3>3, <3>4
    <2> QED
      BY <2>1, <2>2
  <1> QED
    BY <1>0, <1>2, <1>3, FencedUntouched

\* No producer or planner revives a fenced schedule.
LEMMA FencedPlan ==
    ASSUME IInv, NEW d \in Digests, schedule[d].status # "absent", ~IsCurrent(d), NEW e \in Digests, Plan(e)
    PROVE  StaysFenced(d)
  <1>0. TypeOK /\ StageOf(d) \in Stages /\ StageOf(e) \in Stages /\ StageOf(d)' = StageOf(d)
    BY SpecFacts DEF IInv, Table, StageOf
  <1>1. CASE EnqueueGenerationSchedule(e)
    <2>1. e # d /\ chunk' = chunk
      BY <1>1 DEF EnqueueGenerationSchedule
    <2>2. ~IsCurrent(d)'
      BY <1>0, <1>1, <2>1 DEF EnqueueGenerationSchedule, IsCurrent, TypeOK
    <2>3. schedule'[d] \in {schedule[d], [schedule[d] EXCEPT !.status = "superseded"]}
      BY <1>1, <2>1 DEF EnqueueGenerationSchedule
    <2>4. /\ schedule'[d].pending = schedule[d].pending
          /\ schedule'[d].succeeded = schedule[d].succeeded /\ schedule'[d].failed = schedule[d].failed
      BY <1>0, <2>3, TypeFacts, FencedFacts
    <2> QED
      BY <1>0, <2>1, <2>2, <2>4, FencedUntouched
  <1>2. CASE IsCurrent(e) /\ UNCHANGED chunk
             /\ schedule' = [schedule EXCEPT ![e].status = IF @ = "active" THEN "superseded" ELSE @]
             /\ current' = [current EXCEPT ![StageOf(e)] = NoDigest]
    <2>1. e # d /\ schedule'[d] = schedule[d]
      BY <1>0, <1>2, TypeFacts
    <2>2. ~IsCurrent(d)'
      BY <1>0, <1>2, AbsentAssumption DEF IsCurrent, TypeOK
    <2> QED
      BY <1>0, <1>2, <2>1, <2>2, FencedUntouched
  <1>3. CASE RetireCurrentGenerationSchedule(e)
    BY <1>2, <1>3 DEF RetireCurrentGenerationSchedule
  <1>4. CASE BeginTypedIndexRetirement(e)
    <2>1. CASE IsCurrent(e)
      BY <1>2, <1>4, <2>1 DEF BeginTypedIndexRetirement
    <2>2. CASE ~IsCurrent(e)
      <3>1. UNCHANGED <<schedule, current, chunk>>
        BY <1>4, <2>2 DEF BeginTypedIndexRetirement
      <3> QED
        BY <1>0, <3>1, FencedUntouched DEF IsCurrent
    <2> QED
      BY <2>1, <2>2
  <1>5. CASE CreateServiceStateV3Plan(e)
    <2>1. UNCHANGED <<schedule, current, chunk>>
      BY <1>5 DEF CreateServiceStateV3Plan
    <2> QED
      BY <1>0, <2>1, FencedUntouched DEF IsCurrent
  <1>6. CASE ExpandGenerationSchedule(e)
    <2>1. e # d /\ current' = current
      BY <1>6 DEF ExpandGenerationSchedule
    <2>2. schedule'[d] = schedule[d]
      BY <1>0, <1>6, <2>1, TypeFacts DEF ExpandGenerationSchedule
    <2>3. \A c \in ChunksOf(d) : chunk'[c] = chunk[c]
      BY <1>6, <2>1 DEF ExpandGenerationSchedule, ChunksOf
    <2> QED
      BY <1>0, <2>1, <2>2, <2>3, FencedUntouched DEF IsCurrent
  <1> QED
    BY <1>1, <1>3, <1>4, <1>5, <1>6 DEF Plan

\* No holder of a lease revives a fenced schedule.
LEMMA FencedUse ==
    ASSUME IInv, NEW d \in Digests, ~IsCurrent(d), NEW h \in handles, UseLease(h)
    PROVE  StaysFenced(d)
  <1>0. TypeOK /\ h.id \in Ids /\ h.id.digest \in Digests /\ chunk[h.id] \in Chunk
        /\ StageOf(d)' = StageOf(d)
    BY HandleFacts DEF IInv, Table, StageOf
  <1>1. Owned(h) => chunk[h.id].status = "running"
    BY DEF Owned
  <1>2. CASE HeartbeatGenerationChunk(h)
    <2>1. UNCHANGED <<schedule, current>> /\ chunk' = [chunk EXCEPT ![h.id] = Aged(@, FALSE)]
      BY <1>2 DEF HeartbeatGenerationChunk
    <2>2. \A c \in Ids \ {h.id} : chunk'[c] = chunk[c]
      BY <1>0, <2>1, TypeFacts
    <2>3. chunk[h.id].status = "running"
      BY <1>1, <1>2 DEF HeartbeatGenerationChunk, Holds
    <2>4. \A c \in ChunksOf(d) : chunk[c].status # "running" => chunk'[c].status = chunk[c].status
      BY <2>2, <2>3 DEF ChunksOf
    <2> QED
      BY <1>0, <2>1, <2>4, FencedUntouched DEF IsCurrent
  <1>3. CASE ProcessServiceStateV3Chunk(h) \/ Forget(h)
    <2>1. UNCHANGED <<schedule, current, chunk>>
      BY <1>3 DEF ProcessServiceStateV3Chunk, Forget
    <2> QED
      BY <1>0, <2>1, FencedUntouched DEF IsCurrent
  <1>4. CASE CompleteGenerationChunk(h)
    <2>1. PICK row : Owned(h) /\ EndLease(h.id, row, CountDone(h.id.digest))
      BY <1>4 DEF CompleteGenerationChunk, Holds
    <2> QED
      BY <1>0, <1>1, <2>1, FencedEnd
  <1>5. CASE FailGenerationChunk(h)
    <2>1. PICK row : Owned(h) /\ EndLease(h.id, row, CountFailed(h.id.digest))
      BY <1>5 DEF FailGenerationChunk, Holds
    <2> QED
      BY <1>0, <1>1, <2>1, FencedEnd
  <1>6. CASE RetryGenerationChunk(h)
    <2>0. Owned(h)
      BY <1>6 DEF RetryGenerationChunk, Holds
    <2>1. CASE \E row : EndLease(h.id, row, CountFailed(h.id.digest))
      BY <1>0, <1>1, <2>0, <2>1, FencedEnd
    <2>2. CASE /\ IsCurrent(h.id.digest) /\ ~Exhausted(h.id) /\ UNCHANGED current
               /\ chunk' = [chunk EXCEPT ![h.id] = Finished(@, "failed"),
                                         ![NextAttempt(h.id)] = NewChunk(chunk[h.id].length, 1, TRUE)]
               /\ schedule' = [schedule EXCEPT ![h.id.digest] = CountRetried(h.id.digest)]
      <3>1. d # h.id.digest /\ schedule'[d] = schedule[d]
        BY <1>0, <2>2, TypeFacts
      <3>2. NextAttempt(h.id) \in Ids /\ NextAttempt(h.id).digest = h.id.digest
        BY <1>0, <2>2, NextAttemptFacts
      <3>3. \A c \in ChunksOf(d) : chunk'[c] = chunk[c]
        BY <1>0, <2>2, <3>1, <3>2, TypeFacts DEF ChunksOf
      <3> QED
        BY <1>0, <2>2, <3>1, <3>3, FencedUntouched DEF IsCurrent
    <2> QED
      BY <1>6, <2>1, <2>2 DEF RetryGenerationChunk
  <1>7. CASE ReleaseGenerationChunk(h) \/ DeferGenerationChunk(h)
    <2>1. PICK row : Owned(h) /\ EndLease(h.id, row, CountReturned(h.id.digest))
      BY <1>7 DEF ReleaseGenerationChunk, DeferGenerationChunk, HandBack
    <2> QED
      BY <1>0, <1>1, <2>1, FencedEnd
  <1> QED
    BY <1>2, <1>3, <1>4, <1>5, <1>6, <1>7 DEF UseLease

\* No step at all revives a fenced schedule.
LEMMA FencedStep ==
    ASSUME IInv, [Next]_vars, NEW d \in Digests, schedule[d].status # "absent", ~IsCurrent(d)
    PROVE  StaysFenced(d)
  <1>0. TypeOK /\ StageOf(d)' = StageOf(d)
    BY DEF IInv, Table, StageOf
  <1>1. CASE \E e \in Digests : Plan(e)
    BY <1>1, FencedPlan
  <1>2. CASE \E w \in Workers, l \in Leases : ClaimGenerationChunk(w, l)
    <2>1. PICK w \in Workers, l \in Leases, e \in Digests, c \in Ids :
            /\ Eligible(e) /\ c \in Candidate(e) /\ current' = current
            /\ chunk' = [chunk EXCEPT ![c] = Claimed(@, w, l)]
            /\ schedule' = [schedule EXCEPT ![e].pending = @ - 1, ![e].running = @ + 1]
      BY <1>2 DEF ClaimGenerationChunk
    <2>2. e # d /\ c.digest = e
      BY <2>1 DEF Eligible, Candidate, Pending, InStatus, ChunksOf
    <2>3. schedule'[d] = schedule[d] /\ \A b \in ChunksOf(d) : chunk'[b] = chunk[b]
      BY <1>0, <2>1, <2>2, TypeFacts DEF ChunksOf
    <2> QED
      BY <1>0, <2>1, <2>3, FencedUntouched DEF IsCurrent
  <1>3. CASE \E h \in handles : UseLease(h)
    BY <1>3, FencedUse
  <1>4. CASE \E o \in observed : ReleaseStaleGenerationChunk(o)
    <2>0. PICK o \in observed : HandBack(o, FALSE)
      BY <1>4 DEF ReleaseStaleGenerationChunk
    <2>1. PICK row : Owned(o) /\ EndLease(o.id, row, CountReturned(o.id.digest))
      BY <2>0 DEF HandBack
    <2>2. o.id \in Ids /\ chunk[o.id].status = "running"
      BY <2>1, HandleFacts DEF Owned
    <2> QED
      BY <2>1, <2>2, FencedEnd
  <1>5. CASE UNCHANGED <<schedule, current, chunk>>
    BY <1>0, <1>5, FencedUntouched DEF IsCurrent
  <1>6. CASE \E c \in Ids : LeaseAges(c) \/ GateOpens(c)
    <2>1. PICK c \in Ids : LeaseAges(c) \/ GateOpens(c)
      BY <1>6
    <2>2. UNCHANGED <<schedule, current>> /\ \A b \in Ids \ {c} : chunk'[b] = chunk[b]
      BY <1>0, <2>1, TypeFacts DEF LeaseAges, GateOpens
    <2>3. chunk[c].status # "running" => chunk'[c].status = chunk[c].status
      <3>1. CASE LeaseAges(c)
        BY <3>1 DEF LeaseAges
      <3>2. CASE GateOpens(c)
        <4>1. chunk'[c] = Opened(chunk[c]) /\ chunk[c] \in Chunk
          BY <1>0, <3>2, TypeFacts DEF GateOpens
        <4>2. PICK b \in BOOLEAN : b = TRUE
          OBVIOUS
        <4> QED
          BY <4>1, <4>2, AgedFacts
      <3> QED
        BY <2>1, <3>1, <3>2
    <2> QED
      BY <1>0, <2>2, <2>3, FencedUntouched DEF IsCurrent, ChunksOf
  <1> QED
    BY <1>1, <1>2, <1>3, <1>4, <1>5, <1>6 DEF Next, ReapSelect, ReapForget, vars

\* Once fenced, a schedule is never current again and nothing of it is claimed,
\* retried or counted as a result, in any order of the holders' calls.
THEOREM FencesHold == Spec => FencedStaysFenced
  <1>1. IInv /\ [Next]_vars =>
          [\A d \in Digests : schedule[d].status # "absent" /\ ~IsCurrent(d) =>
            /\ ~IsCurrent(d)'
            /\ schedule'[d].pending <= schedule[d].pending
            /\ schedule'[d].succeeded = schedule[d].succeeded
            /\ schedule'[d].failed = schedule[d].failed
            /\ \A c \in ChunksOf(d) :
                  chunk[c].status \notin {"running"} => chunk'[c].status = chunk[c].status]_vars
    BY FencedStep DEF StaysFenced
  <1> QED
    BY <1>1, Invariance, PTL DEF Spec, FencedStaysFenced

=============================================================================
