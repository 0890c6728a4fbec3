------------------------- MODULE OwnerBarrierProofs -------------------------
(* The safety of the owner barrier, proved for any number of loops,         *)
(* requests and slots and any end of the generation counters.               *)
EXTENDS OwnerBarrier, FiniteSetTheorems, WellFoundedInduction, TLAPS

-----------------------------------------------------------------------------
(* The inductive invariant *)

Fencing == {"fencing terminal", "fencing measurement"}

\* Only loops park, and only loops retain their turn.
LoopsOnly == \A p \in Callers : pc[p] \in {"parked"} \cup Fencing \cup Held => p \in Loops

\* A turn is as old as its slot's counter, and nobody else's.
TurnsPast == \A p \in Callers : turn[p].generation <= generation[KindOf(p)][turn[p].slot]
TurnsDistinct ==
    \A p, q \in Callers :
        KindOf(p) = KindOf(q) /\ turn[p] = turn[q] /\ turn[p].generation > 0 => p = q

\* The last turn of a caller that is outside has ended.
OutsideEnded == \A p \in Callers : pc[p] \in {"out", "parked"} => ~Valid(p) \/ err

\* A caller that retains its turn is the one the barrier remembers.
RetainerKnown ==
    \A p \in Callers :
        /\ pc[p] \in {"fencing terminal", "terminal"} => terminal = turn[p].slot \/ err
        /\ pc[p] \in {"fencing measurement", "measuring"} => measurement = turn[p].slot \/ err

\* A retained turn and a waiting fence keep everything they close closed.
RetainedCloses == Retained => fencing = {} /\ \A k \in Kinds : closed[k] /\ ~ready[k]
FencingCloses == \A k \in fencing : closed[k] /\ ~ready[k]

\* Whoever sleeps waits for something.
SleepersWait ==
    /\ \A p \in asleep \cap Callers : pc[p] \in {"parked"} \cup Fencing
    /\ asleep \cap Kinds \subseteq fencing

Turns == TypeOK /\ LoopsOnly /\ TurnsPast /\ TurnsDistinct /\ OutsideEnded /\ TurnOwnsSlot
Fences == RetainerKnown /\ RetainedCloses /\ FencingCloses /\ QuiescenceIsReal
Sleep == SleepersWait /\ NoLostWakeup

IInv == Turns /\ Fences /\ Sleep

-----------------------------------------------------------------------------
(* Slots *)

\* The two kinds and their limits.
LEMMA KindFacts ==
    /\ Kinds = {"owner", "request"}
    /\ \A p : KindOf(p) \in Kinds
    /\ \A k \in Kinds : Limit[k] \in Nat /\ Slots(k) \subseteq Nat \ {0} /\ NoSlot \notin Slots(k)
    /\ \A p \in Loops : KindOf(p) = "owner"
    /\ \A p \in Requests : KindOf(p) = "request"
    /\ Callers \cap Kinds = {}
  <1>1. \A k \in Kinds : Limit[k] \in Nat /\ Slots(k) \subseteq Nat \ {0}
    BY LimitAssumption DEF Slots
  <1> QED
    BY <1>1, SlotAssumption, CallersAssumption DEF Kinds, KindOf, Callers

\* A nonempty set of slots has a lowest one.
LEMMA LowestIn ==
    ASSUME NEW k \in Kinds, NEW S \in SUBSET Slots(k), S # {}
    PROVE  Lowest(S) \in S /\ \A t \in S : Lowest(S) <= t
  <1> DEFINE Upto(x) == {t \in S : t <= x}
             Cuts == {Upto(x) : x \in S}
             R == StrictSubsetOrdering(Slots(k))
  <1>1. S \subseteq Nat /\ IsFiniteSet(Slots(k))
    <2>1. Limit[k] \in Nat /\ Slots(k) = 1 .. Limit[k] /\ Slots(k) \subseteq Nat
      BY KindFacts DEF Slots
    <2> QED
      BY <2>1, FS_Interval
  <1>2. Cuts \subseteq FiniteSubsetsOf(Slots(k)) /\ Cuts # {}
    <2>1. \A x \in S : Upto(x) \in SUBSET Slots(k)
      OBVIOUS
    <2>2. \A T \in SUBSET Slots(k) : IsFiniteSet(T)
      BY <1>1, FS_Subset
    <2> QED
      BY <2>1, <2>2 DEF FiniteSubsetsOf
  <1>3. PICK D \in Cuts : \A E \in Cuts : ~(<<E, D>> \in R)
    <2> HIDE DEF Cuts, R
    <2> QED
      BY <1>2, FS_StrictSubsetOrderingWellFounded, WFMin DEF R
  <1>4. PICK x \in S : D = Upto(x)
    OBVIOUS
  <1>5. ASSUME NEW y \in S, ~(x <= y) PROVE FALSE
    <2>1. x \in Nat /\ y \in Nat /\ \A t \in S : t \in Nat
      BY <1>1
    <2>2. x \in Upto(x) /\ x \notin Upto(y) /\ \A t \in S : t <= y => t <= x
      BY <1>5, <2>1
    <2>3. Upto(y) \subseteq Upto(x) /\ Upto(y) # Upto(x) /\ Upto(y) \in SUBSET Slots(k)
          /\ Upto(x) \in SUBSET Slots(k) /\ Upto(y) \in Cuts
      BY <2>2
    <2> HIDE DEF Upto, Cuts
    <2>4. <<Upto(y), D>> \in R
      BY <1>4, <2>3 DEF StrictSubsetOrdering
    <2> QED
      BY <1>3, <2>3, <2>4
  <1> QED
    BY <1>5 DEF Lowest

-----------------------------------------------------------------------------
(* Steps that fail the barrier *)

\* The barrier starts open, empty and awake.
LEMMA InitIInv == Init => IInv
  <1> SUFFICES ASSUME Init PROVE IInv
    OBVIOUS
  <1> USE KindFacts
  <1>1. TypeOK
    <2>1. 1 \in Slots("owner") /\ 1 \in Slots("request") /\ 0 \in 0 .. MaxGeneration
      BY LimitAssumption, GenerationAssumption DEF Slots, Kinds
    <2>2. generation \in [Kinds -> UNION {[Slots(k) -> 0 .. MaxGeneration] : k \in Kinds}]
          /\ \A k \in Kinds : generation[k] \in [Slots(k) -> 0 .. MaxGeneration]
      BY <2>1 DEF Init
    <2>3. turn \in [Callers -> [slot: UNION {Slots(k) : k \in Kinds}, generation: 0 .. MaxGeneration]]
          /\ \A p \in Callers : turn[p].slot \in Slots(KindOf(p))
      BY <2>1 DEF Init, NoTurn, KindOf
    <2>4. active \in [Kinds -> SUBSET (Slots("owner") \cup Slots("request"))]
          /\ \A k \in Kinds : active[k] \subseteq Slots(k)
      BY DEF Init
    <2> QED
      BY <2>2, <2>3, <2>4 DEF Init, TypeOK
  <1>2. Turns
    BY <1>1 DEF Init, Turns, TypeOK, LoopsOnly, TurnsPast, TurnsDistinct, OutsideEnded, TurnOwnsSlot,
                Valid, NoTurn, Fencing, Held
  <1>3. RetainerKnown /\ QuiescenceIsReal
    BY DEF Init, RetainerKnown, QuiescenceIsReal, Held, Callers
  <1>4. RetainedCloses /\ FencingCloses /\ Sleep
    BY DEF Init, Sleep, RetainedCloses, FencingCloses, SleepersWait, NoLostWakeup, Retained
  <1> QED
    BY <1>2, <1>3, <1>4 DEF IInv, Fences

\* failLocked wakes everybody and changes nothing a turn or a fence relies on.
LEMMA FailIInv ==
    ASSUME IInv, Fail, UNCHANGED <<active, generation, ready, terminal, measurement, used, turn>>,
           pc' \in [Callers -> {"out", "parked", "in", "fencing terminal", "terminal",
                               "fencing measurement", "measuring"}],
           \A p \in Callers : pc'[p] = pc[p] \/ pc'[p] \in {"out", "in"},
           fencing' \subseteq fencing,
           closed' \in [Kinds -> BOOLEAN], \A k \in Kinds : closed[k] => closed'[k]
    PROVE  IInv'
  <1>1. TypeOK'
    BY DEF IInv, Turns, TypeOK, Fail
  <1>2. LoopsOnly'
    BY DEF IInv, Turns, LoopsOnly, Fencing, Held
  <1>3. TurnsPast' /\ TurnsDistinct'
    BY DEF IInv, Turns, TurnsPast, TurnsDistinct
  <1>4. OutsideEnded' /\ TurnOwnsSlot' /\ RetainerKnown'
    BY DEF Fail, OutsideEnded, TurnOwnsSlot, RetainerKnown
  <1>5. RetainedCloses' /\ FencingCloses'
    BY DEF IInv, Turns, TypeOK, Fences, RetainedCloses, FencingCloses, Retained
  <1>6. QuiescenceIsReal'
    BY DEF IInv, Fences, QuiescenceIsReal, Fail
  <1>7. Sleep'
    BY DEF Fail, Sleep, SleepersWait, NoLostWakeup
  <1> QED
    BY <1>1, <1>2, <1>3, <1>4, <1>5, <1>6, <1>7 DEF IInv, Turns, Fences

-----------------------------------------------------------------------------
(* Turns *)

\* The slot that enterLocked hands out, in simple terms.
LEMMA AdmitEffect ==
    ASSUME TypeOK, NEW p \in Callers, EnterLocked(p), Admits(KindOf(p))
    PROVE  \E s \in Slots(KindOf(p)) :
             LET k == KindOf(p) g == generation[k][s] + 1 IN
             /\ s \notin active[k] /\ g \in 1 .. MaxGeneration /\ generation[k][s] < g
             /\ generation' = [generation EXCEPT ![k] = [@ EXCEPT ![s] = g]]
             /\ active' = [active EXCEPT ![k] = @ \cup {s}]
             /\ pc' = [pc EXCEPT ![p] = "in"]
             /\ turn' = [turn EXCEPT ![p] = [slot |-> s, generation |-> g]]
             /\ UNCHANGED <<closed, ready, terminal, measurement, used, err, stopped, fencing, asleep>>
  <1> DEFINE k == KindOf(p)
             s == Lowest(Free(k))
  <1>1. k \in Kinds /\ Free(k) \in SUBSET Slots(k)
    BY KindFacts DEF Free
  <1>2. Free(k) # {} /\ generation[k][s] < MaxGeneration
    BY DEF Admits
  <1>3. s \in Free(k)
    BY <1>1, <1>2, LowestIn
  <1>4. s \in Slots(k) /\ s \notin active[k] /\ generation[k][s] \in 0 .. MaxGeneration
    BY <1>1, <1>3 DEF Free, TypeOK
  <1>5. generation[k][s] + 1 \in 1 .. MaxGeneration /\ generation[k][s] < generation[k][s] + 1
    BY <1>2, <1>4, GenerationAssumption
  <1>6. /\ generation' = [generation EXCEPT ![k][s] = @ + 1]
        /\ active' = [active EXCEPT ![k] = @ \cup {s}]
        /\ pc' = [pc EXCEPT ![p] = "in"]
        /\ turn' = [turn EXCEPT ![p] = [slot |-> s, generation |-> generation'[k][s]]]
        /\ UNCHANGED <<closed, ready, terminal, measurement, used, err, stopped, fencing, asleep>>
    BY DEF EnterLocked
  <1> HIDE DEF s
  <1>7. generation'[k][s] = generation[k][s] + 1
    BY <1>1, <1>4, <1>6 DEF TypeOK
  <1>8. generation' = [generation EXCEPT ![k] = [@ EXCEPT ![s] = generation[k][s] + 1]]
    BY <1>1, <1>4, <1>6 DEF TypeOK
  <1> QED
    BY <1>4, <1>5, <1>6, <1>7, <1>8

\* What the type invariant says, point by point.
LEMMA TypeFacts ==
    ASSUME TypeOK
    PROVE  /\ \A k \in Kinds : active[k] \subseteq Slots(k)
           /\ DOMAIN active = Kinds /\ DOMAIN closed = Kinds /\ DOMAIN ready = Kinds
           /\ \A k \in Kinds : \A s \in Slots(k) : generation[k][s] \in Nat
           /\ DOMAIN pc = Callers /\ DOMAIN turn = Callers
           /\ \A p \in Callers : turn[p].slot \in Slots(KindOf(p)) /\ turn[p].generation \in Nat
           /\ \A p \in Callers : turn[p].slot # NoSlot
  <1>1. 0 .. MaxGeneration \subseteq Nat
    BY GenerationAssumption
  <1>2. \A p \in Callers : turn[p].slot \in Slots(KindOf(p)) /\ turn[p].generation \in 0 .. MaxGeneration
    BY DEF TypeOK
  <1>3. \A k \in Kinds : \A s \in Slots(k) : generation[k][s] \in 0 .. MaxGeneration
    BY DEF TypeOK
  <1>4. \A p \in Callers : turn[p].slot # NoSlot
    BY <1>2, KindFacts
  <1> QED
    BY <1>1, <1>2, <1>3, <1>4 DEF TypeOK

\* A free slot is handed out with a generation it never had.
LEMMA AdmitIInv ==
    ASSUME IInv, NEW p \in Callers, pc[p] \in {"out", "parked"}, p \notin asleep,
           ~err, ~stopped, NEW k \in Kinds, k = KindOf(p), ~closed[k],
           NEW s \in Slots(k), NEW g \in 1 .. MaxGeneration,
           s \notin active[k], generation[k][s] < g,
           generation' = [generation EXCEPT ![k] = [@ EXCEPT ![s] = g]],
           active' = [active EXCEPT ![k] = @ \cup {s}],
           pc' = [pc EXCEPT ![p] = "in"],
           turn' = [turn EXCEPT ![p] = [slot |-> s, generation |-> g]],
           UNCHANGED <<closed, ready, terminal, measurement, used, err, stopped, fencing, asleep>>
    PROVE  IInv'
  <1>0. TypeOK
    BY DEF IInv, Turns
  <1>1. /\ generation \in [Kinds -> UNION {[Slots(j) -> 0 .. MaxGeneration] : j \in Kinds}]
        /\ \A j \in Kinds : generation[j] \in [Slots(j) -> 0 .. MaxGeneration]
    BY <1>0 DEF TypeOK
  <1>2. \A j \in Kinds : \A t \in Slots(j) :
           generation'[j][t] = IF j = k /\ t = s THEN g ELSE generation[j][t]
    BY <1>1
  <1>3. \A j \in Kinds : active'[j] = IF j = k THEN active[j] \cup {s} ELSE active[j]
    BY <1>0, TypeFacts
  <1>4. pc'[p] = "in" /\ \A q \in Callers \ {p} : pc'[q] = pc[q]
    BY <1>0, TypeFacts
  <1>5. turn'[p] = [slot |-> s, generation |-> g] /\ \A q \in Callers \ {p} : turn'[q] = turn[q]
    BY <1>0, TypeFacts
  <1>6. g \in Nat /\ g > 0 /\ g \in 0 .. MaxGeneration
    BY GenerationAssumption
  <1>7. TypeOK'
    <2>1. /\ generation' \in [Kinds -> UNION {[Slots(j) -> 0 .. MaxGeneration] : j \in Kinds}]
          /\ \A j \in Kinds : generation'[j] \in [Slots(j) -> 0 .. MaxGeneration]
      BY <1>1, <1>6
    <2>2. \A j \in Kinds : active'[j] \subseteq Slots(j)
      BY <1>0, <1>3, TypeFacts
    <2>3. active' \in [Kinds -> SUBSET (Slots("owner") \cup Slots("request"))]
      <3>1. \A j \in Kinds : Slots(j) \subseteq Slots("owner") \cup Slots("request")
        BY KindFacts
      <3>2. DOMAIN active' = Kinds /\ active' = [j \in Kinds |-> active'[j]]
        BY <1>0 DEF TypeOK
      <3> QED
        BY <2>2, <3>1, <3>2
    <2>4. turn' \in [Callers -> [slot: UNION {Slots(j) : j \in Kinds}, generation: 0 .. MaxGeneration]]
      <3>1. [slot |-> s, generation |-> g] \in
               [slot: UNION {Slots(j) : j \in Kinds}, generation: 0 .. MaxGeneration]
        BY <1>6
      <3> QED
        BY <1>0, <3>1 DEF TypeOK
    <2>5. \A q \in Callers : turn'[q].slot \in Slots(KindOf(q))
      BY <1>0, <1>5, TypeFacts
    <2>6. pc' \in [Callers -> {"out", "parked", "in", "fencing terminal", "terminal",
                               "fencing measurement", "measuring"}]
      BY <1>0 DEF TypeOK
    <2> QED
      BY <1>0, <2>1, <2>2, <2>3, <2>4, <2>5, <2>6 DEF TypeOK
  <1>8. LoopsOnly'
    BY <1>4 DEF IInv, Turns, LoopsOnly, Fencing, Held
  <1>9. /\ \A q \in Callers : turn[q].slot \in Slots(KindOf(q)) /\ turn[q].generation \in Nat /\ KindOf(q) \in Kinds
        /\ \A j \in Kinds : \A t \in Slots(j) : generation[j][t] \in Nat
    BY <1>0, TypeFacts, KindFacts
  <1>10. \A q \in Callers : turn[q].generation <= generation[KindOf(q)][turn[q].slot]
    BY DEF IInv, Turns, TurnsPast
  <1>11. ASSUME NEW q \in Callers \ {p} PROVE KindOf(q) = k /\ turn[q].slot = s => turn[q].generation < g
    BY <1>6, <1>9, <1>10
  <1>12. TurnsPast'
    <2>1. ASSUME NEW q \in Callers \ {p} PROVE turn'[q].generation <= generation'[KindOf(q)][turn'[q].slot]
      BY <1>2, <1>5, <1>6, <1>9, <1>10
    <2>2. turn'[p].generation <= generation'[KindOf(p)][turn'[p].slot]
      BY <1>2, <1>5, <1>6
    <2> QED
      BY <2>1, <2>2 DEF TurnsPast
  <1>13. TurnsDistinct'
    <2>1. ASSUME NEW q \in Callers \ {p}, KindOf(q) = k PROVE turn'[q] # turn'[p]
      BY <1>5, <1>6, <1>9, <1>11, <2>1
    <2> QED
      BY <1>5, <2>1 DEF IInv, Turns, TurnsDistinct
  <1>14. Valid(p)'
    BY <1>2, <1>3, <1>5, <1>6 DEF Valid
  <1>15. ASSUME NEW q \in Callers \ {p} PROVE Valid(q)' <=> Valid(q)
    <2>1. turn[q].slot \in active'[KindOf(q)] /\ ~(KindOf(q) = k /\ turn[q].slot = s)
            <=> turn[q].slot \in active[KindOf(q)]
      BY <1>3, <1>9
    <2>2. generation'[KindOf(q)][turn[q].slot] =
             IF KindOf(q) = k /\ turn[q].slot = s THEN g ELSE generation[KindOf(q)][turn[q].slot]
      BY <1>2, <1>9
    <2>3. KindOf(q) = k /\ turn[q].slot = s => turn[q].generation # g
      BY <1>6, <1>9, <1>11
    <2>4. turn'[q] = turn[q]
      BY <1>5
    <2> QED
      BY <2>1, <2>2, <2>3, <2>4 DEF Valid
  <1>16. OutsideEnded' /\ TurnOwnsSlot'
    <2>1. ASSUME NEW q \in Callers
          PROVE  /\ pc'[q] \in {"out", "parked"} => ~Valid(q)' \/ err'
                 /\ pc'[q] \notin {"out", "parked"} => Valid(q)' \/ err'
      BY <1>4, <1>14, <1>15 DEF IInv, Turns, OutsideEnded, TurnOwnsSlot
    <2> QED
      BY <2>1 DEF OutsideEnded, TurnOwnsSlot
  <1>17. RetainedCloses' /\ FencingCloses' /\ ~Retained
    BY DEF IInv, Fences, RetainedCloses, FencingCloses, Retained
  <1>18. \A q \in Callers : pc[q] \notin Fencing \cup Held
    BY <1>0, <1>17, TypeFacts DEF IInv, Fences, RetainerKnown, Retained, Fencing, Held
  <1>19. \A q \in Callers : pc'[q] \notin Fencing \cup Held
    BY <1>4, <1>18 DEF Fencing, Held
  <1>20. RetainerKnown'
    BY <1>19 DEF RetainerKnown, Fencing, Held
  <1>21. QuiescenceIsReal'
    BY <1>3, <1>19 DEF IInv, Fences, QuiescenceIsReal, Callers
  <1>22. SleepersWait'
    BY <1>4 DEF IInv, Sleep, SleepersWait
  <1>23. NoLostWakeup'
    <2>1. \A q \in asleep \cap Callers : pc[q] = "parked" /\ pc'[q] = "parked"
      BY <1>4, <1>18 DEF IInv, Sleep, SleepersWait
    <2>2. \A j \in asleep \cap Kinds : active'[j] # {}
      BY <1>3 DEF IInv, Sleep, NoLostWakeup
    <2> QED
      BY <2>1, <2>2 DEF IInv, Sleep, NoLostWakeup
  <1> QED
    BY <1>7, <1>8, <1>12, <1>13, <1>16, <1>17, <1>20, <1>21, <1>22, <1>23
       DEF IInv, Turns, Fences, Sleep

\* A caller enters an open barrier.
LEMMA EnterIInv ==
    ASSUME IInv, NEW p \in Callers, pc[p] \in {"out", "parked"}, p \notin asleep,
           ~err, ~stopped, ~closed[KindOf(p)], EnterLocked(p)
    PROVE  IInv'
  <1>1. CASE ~Admits(KindOf(p))
    <2>1. /\ Fail /\ pc' = [pc EXCEPT ![p] = "out"] /\ UNCHANGED <<Barrier, turn, fencing>>
      BY <1>1 DEF EnterLocked
    <2> QED
      BY <2>1, FailIInv DEF Barrier, IInv, Turns, TypeOK
  <1>2. CASE Admits(KindOf(p))
    <2>1. PICK k \in Kinds : k = KindOf(p)
      BY KindFacts
    <2>2. PICK s \in Slots(k) :
            LET g == generation[k][s] + 1 IN
            /\ s \notin active[k] /\ g \in 1 .. MaxGeneration /\ generation[k][s] < g
            /\ generation' = [generation EXCEPT ![k] = [@ EXCEPT ![s] = g]]
            /\ active' = [active EXCEPT ![k] = @ \cup {s}]
            /\ pc' = [pc EXCEPT ![p] = "in"]
            /\ turn' = [turn EXCEPT ![p] = [slot |-> s, generation |-> g]]
            /\ UNCHANGED <<closed, ready, terminal, measurement, used, err, stopped, fencing, asleep>>
      BY <1>2, <2>1, AdmitEffect DEF IInv, Turns
    <2>3. PICK g \in 1 .. MaxGeneration : g = generation[k][s] + 1
      BY <2>2
    <2> QED
      BY <2>1, <2>2, <2>3, AdmitIInv
  <1> QED
    BY <1>1, <1>2

\* A step that leaves the slots and the turns alone keeps what is known of them.
LEMMA TurnsKept ==
    ASSUME IInv, UNCHANGED <<active, generation, turn, err>>, TypeOK', LoopsOnly',
           \A q \in Callers : pc'[q] \in {"out", "parked"} <=> pc[q] \in {"out", "parked"}
    PROVE  Turns'
  <1>1. TurnsPast' /\ TurnsDistinct'
    BY DEF IInv, Turns, TurnsPast, TurnsDistinct
  <1>2. \A q \in Callers : Valid(q)' <=> Valid(q)
    BY DEF Valid
  <1>3. OutsideEnded' /\ TurnOwnsSlot'
    <2>1. ASSUME NEW q \in Callers
          PROVE  /\ pc'[q] \in {"out", "parked"} => ~Valid(q)' \/ err'
                 /\ pc'[q] \notin {"out", "parked"} => Valid(q)' \/ err'
      BY <1>2 DEF IInv, Turns, OutsideEnded, TurnOwnsSlot
    <2> QED
      BY <2>1 DEF OutsideEnded, TurnOwnsSlot
  <1> QED
    BY <1>1, <1>3 DEF Turns

\* A loop parks, looks again or gives up behind a closed barrier.
LEMMA WaitIInv ==
    ASSUME IInv, NEW p \in Loops, NEW a \in {"out", "parked"}, pc[p] \in {"out", "parked"},
           pc' = [pc EXCEPT ![p] = a], asleep' \subseteq asleep \cup {p},
           p \in asleep' => a = "parked" /\ closed["owner"] /\ ~err /\ ~stopped,
           UNCHANGED <<Barrier, err, stopped, turn, fencing>>
    PROVE  IInv'
  <1>0. TypeOK /\ p \in Callers /\ p \notin Kinds
    BY KindFacts DEF IInv, Turns, Callers
  <1>1. pc'[p] = a /\ \A q \in Callers \ {p} : pc'[q] = pc[q]
    BY <1>0, TypeFacts
  <1>2. TypeOK'
    BY <1>0 DEF TypeOK, Barrier
  <1>3. LoopsOnly'
    BY <1>1 DEF IInv, Turns, LoopsOnly, Fencing, Held
  <1>4. Turns'
    BY <1>1, <1>2, <1>3, TurnsKept DEF Barrier
  <1>5. Fences'
    BY <1>1 DEF IInv, Fences, RetainerKnown, RetainedCloses, FencingCloses, QuiescenceIsReal,
                Retained, Barrier, Held, Callers
  <1>6. SleepersWait'
    BY <1>0, <1>1 DEF IInv, Sleep, SleepersWait
  <1>7. NoLostWakeup'
    <2>1. \A q \in (asleep \cap Callers) \ {p} : Alone(q)' <=> Alone(q)
      BY DEF Alone, Barrier
    <2> QED
      BY <1>0, <1>1, <2>1 DEF IInv, Sleep, NoLostWakeup, Barrier
  <1> QED
    BY <1>4, <1>5, <1>6, <1>7 DEF IInv, Sleep

\* Nobody retains a turn of a barrier that has not failed and remembers none.
LEMMA NoRetainer ==
    ASSUME IInv, ~err, ~Retained
    PROVE  \A q \in Callers : pc[q] \notin Fencing \cup Held
  BY TypeFacts DEF IInv, Turns, Fences, RetainerKnown, Retained, Fencing, Held

\* A turn ends that is live and not retained.
LEMMA EndsIInv ==
    ASSUME IInv, NEW p \in Callers, Ends(p), NEW k \in Kinds, k = KindOf(p),
           NEW S, S = active[k] \ {turn[p].slot},
           active' = [active EXCEPT ![k] = S],
           asleep' = IF Drained(k, S) THEN {} ELSE asleep,
           pc[p] = "in" \/ err,
           pc' = [pc EXCEPT ![p] = "out"] \/ (err /\ pc' = pc),
           UNCHANGED <<generation, closed, ready, terminal, measurement, used, err, stopped,
                       turn, fencing>>
    PROVE  IInv'
  <1>0. TypeOK /\ Valid(p)
    BY DEF IInv, Turns, Ends
  <1>1. \A j \in Kinds : active'[j] = IF j = k THEN S ELSE active[j]
    BY <1>0, TypeFacts
  <1>2. \A q \in Callers \ {p} : pc'[q] = pc[q]
    BY <1>0, TypeFacts
  <1>3. pc'[p] = "out" \/ (err /\ pc'[p] = pc[p])
    BY <1>0, TypeFacts
  <1>4. TypeOK'
    <2>1. S \subseteq Slots(k)
      BY <1>0, TypeFacts
    <2>2. active' \in [Kinds -> SUBSET (Slots("owner") \cup Slots("request"))]
      BY <1>0 DEF TypeOK
    <2>3. \A j \in Kinds : active'[j] \subseteq Slots(j)
      BY <1>0, <1>1, <2>1, TypeFacts
    <2>4. pc' \in [Callers -> {"out", "parked", "in", "fencing terminal", "terminal",
                               "fencing measurement", "measuring"}]
      BY <1>0 DEF TypeOK
    <2> QED
      BY <1>0, <2>2, <2>3, <2>4 DEF TypeOK
  <1>5. LoopsOnly' /\ TurnsPast' /\ TurnsDistinct'
    BY <1>2, <1>3 DEF IInv, Turns, LoopsOnly, TurnsPast, TurnsDistinct, Fencing, Held
  <1>6. ~Valid(p)'
    BY <1>1 DEF Valid
  <1>7. ASSUME NEW q \in Callers \ {p} PROVE Valid(q)' <=> Valid(q)
    <2>1. KindOf(q) \in Kinds
      BY KindFacts
    <2>2. turn[q] \in [slot: UNION {Slots(j) : j \in Kinds}, generation: 0 .. MaxGeneration]
          /\ turn[p] \in [slot: UNION {Slots(j) : j \in Kinds}, generation: 0 .. MaxGeneration]
      BY <1>0 DEF TypeOK
    <2>3. Valid(q) /\ KindOf(q) = k => turn[q].slot # turn[p].slot
      <3>1. ASSUME Valid(q), KindOf(q) = k, turn[q].slot = turn[p].slot PROVE FALSE
        <4>1. turn[q].generation = turn[p].generation /\ turn[p].generation > 0
          BY <1>0, <3>1 DEF Valid
        <4>2. turn[q] = turn[p]
          BY <2>2, <3>1, <4>1
        <4> QED
          BY <3>1, <4>1, <4>2 DEF IInv, Turns, TurnsDistinct
      <3> QED
        BY <3>1
    <2> QED
      BY <1>1, <2>1, <2>3 DEF Valid
  <1>8. OutsideEnded' /\ TurnOwnsSlot'
    <2>1. ASSUME NEW q \in Callers
          PROVE  /\ pc'[q] \in {"out", "parked"} => ~Valid(q)' \/ err'
                 /\ pc'[q] \notin {"out", "parked"} => Valid(q)' \/ err'
      BY <1>2, <1>3, <1>6, <1>7 DEF IInv, Turns, OutsideEnded, TurnOwnsSlot
    <2> QED
      BY <2>1 DEF OutsideEnded, TurnOwnsSlot
  <1>9. RetainerKnown' /\ RetainedCloses' /\ FencingCloses'
    BY <1>2, <1>3 DEF IInv, Fences, RetainerKnown, RetainedCloses, FencingCloses, Retained
  <1>10. QuiescenceIsReal'
    <2>1. \A j \in Kinds : ready[j] => closed[j] /\ active'[j] = {}
      BY <1>1 DEF IInv, Fences, QuiescenceIsReal
    <2>2. ASSUME NEW q \in Loops, pc'[q] \in Held PROVE err
      <3>1. SUFFICES ASSUME ~err PROVE FALSE
        OBVIOUS
      <3>2. q # p /\ pc[q] \in Held /\ q \in Callers
        BY <1>2, <1>3, <2>2, <3>1 DEF Held, Callers
      <3>3. active["owner"] = {turn[q].slot} /\ active["request"] = {}
        BY <2>2, <3>1, <3>2 DEF IInv, Fences, QuiescenceIsReal
      <3>4. turn[q].slot \in {terminal, measurement}
        BY <3>1, <3>2 DEF IInv, Fences, RetainerKnown, Held
      <3>5. k = "owner"
        BY <1>0, <3>3, KindFacts DEF Valid
      <3> QED
        BY <1>0, <3>3, <3>4, <3>5 DEF Valid, Ends
    <2> QED
      BY <2>1, <2>2 DEF QuiescenceIsReal
  <1>11. SleepersWait'
    <2>1. CASE err
      BY <2>1 DEF IInv, Sleep, SleepersWait, NoLostWakeup
    <2>2. CASE ~err
      BY <1>2, <2>2 DEF IInv, Sleep, SleepersWait, Fencing
    <2> QED
      BY <2>1, <2>2
  <1>12. NoLostWakeup'
    <2>1. CASE asleep' = {}
      BY <2>1 DEF NoLostWakeup
    <2>2. CASE asleep' # {}
      <3>1. asleep' = asleep /\ ~Drained(k, S) /\ ~err /\ ~stopped /\ asleep # {}
        BY <2>2 DEF IInv, Sleep, NoLostWakeup
      <3>2. ASSUME NEW j \in asleep \cap Kinds PROVE active'[j] # {}
        <4>1. closed[j] /\ active[j] # {}
          BY DEF IInv, Fences, Sleep, SleepersWait, NoLostWakeup, FencingCloses
        <4> QED
          BY <1>1, <3>1, <4>1 DEF Drained
      <3>3. ASSUME NEW q \in asleep \cap Callers
            PROVE  IF pc'[q] = "parked" THEN closed["owner"] ELSE ~Alone(q)'
        <4>1. pc'[q] = pc[q] /\ pc[q] \in {"parked"} \cup Fencing
          BY <1>2, <3>1 DEF IInv, Sleep, SleepersWait, Fencing
        <4>2. CASE pc[q] = "parked"
          BY <4>1, <4>2 DEF IInv, Sleep, NoLostWakeup
        <4>3. CASE pc[q] \in Fencing
          <5>1. ~Alone(q) /\ q \in Loops
            BY <4>3 DEF IInv, Turns, LoopsOnly, Sleep, NoLostWakeup, Fencing
          <5>2. turn[q].slot \in {terminal, measurement} /\ turn[q].slot # NoSlot
            BY <1>0, <3>1, <4>3, TypeFacts DEF IInv, Fences, RetainerKnown, Fencing
          <5>3. closed["request"]
            BY <5>2, KindFacts DEF IInv, Fences, RetainedCloses, Retained
          <5>4. SUFFICES ASSUME Alone(q)' PROVE FALSE
            BY <4>1, <4>3 DEF Fencing
          <5>5. active'["owner"] = {turn[q].slot} /\ active'["request"] = {}
            BY <5>4 DEF Alone
          <5>6. CASE k = "owner"
            <6>1. S = {turn[q].slot}
              BY <1>1, <5>5, <5>6
            <6> QED
              BY <3>1, <5>2, <5>6, <6>1 DEF Drained
          <5>7. CASE k = "request"
            BY <1>1, <3>1, <5>3, <5>5, <5>7 DEF Drained
          <5> QED
            BY <5>6, <5>7, KindFacts
        <4> QED
          BY <4>1, <4>2, <4>3
      <3> QED
        BY <3>1, <3>2, <3>3 DEF NoLostWakeup
    <2> QED
      BY <2>1, <2>2
  <1> QED
    BY <1>4, <1>5, <1>8, <1>9, <1>10, <1>11, <1>12 DEF IInv, Turns, Fences, Sleep

\* A second End, or End of a retained turn, fails unless the barrier already has.
LEMMA StrayFails ==
    ASSUME IInv, NEW p \in Callers, pc[p] \in {"out"} \cup Held, Ends(p)
    PROVE  err
  <1>1. SUFFICES ASSUME ~err PROVE FALSE
    OBVIOUS
  <1>2. pc[p] \in Held
    BY <1>1 DEF IInv, Turns, OutsideEnded, Ends
  <1>3. KindOf(p) = "owner"
    BY <1>2, KindFacts DEF IInv, Turns, LoopsOnly
  <1> QED
    BY <1>1, <1>2, <1>3 DEF IInv, Fences, RetainerKnown, Held, Ends

\* End, by the owner of the turn or with a copy of it.
LEMMA EndIInv ==
    ASSUME IInv, NEW p \in Callers, End(p) \/ StrayEnd(p)
    PROVE  IInv'
  <1>1. /\ EndTurn(p) /\ UNCHANGED <<turn, fencing>>
        /\ \/ pc[p] = "in" /\ pc' = [pc EXCEPT ![p] = "out"]
           \/ pc[p] \in {"out"} \cup Held /\ pc' = pc
    BY DEF End, StrayEnd
  <1>2. CASE Ends(p)
    <2>1. PICK k \in Kinds : k = KindOf(p)
      BY KindFacts
    <2>2. PICK S : S = active[k] \ {turn[p].slot}
      OBVIOUS
    <2>3. /\ active' = [active EXCEPT ![k] = S]
          /\ asleep' = IF Drained(k, S) THEN {} ELSE asleep
          /\ UNCHANGED <<generation, closed, ready, terminal, measurement, used, err, stopped>>
      BY <1>1, <1>2, <2>1, <2>2 DEF EndTurn
    <2>4. pc[p] = "in" \/ err
      BY <1>1, <1>2, StrayFails
    <2>5. pc' = [pc EXCEPT ![p] = "out"] \/ (err /\ pc' = pc)
      BY <1>1, <1>2, StrayFails
    <2> QED
      BY <1>1, <1>2, <2>1, <2>2, <2>3, <2>4, <2>5, EndsIInv
  <1>3. CASE ~Ends(p)
    <2>1. Fail /\ UNCHANGED Barrier
      BY <1>1, <1>3 DEF EndTurn
    <2>2. /\ pc' \in [Callers -> {"out", "parked", "in", "fencing terminal", "terminal",
                                  "fencing measurement", "measuring"}]
          /\ \A q \in Callers : pc'[q] = pc[q] \/ pc'[q] \in {"out", "in"}
          /\ closed \in [Kinds -> BOOLEAN]
      BY <1>1 DEF IInv, Turns, TypeOK
    <2> QED
      BY <1>1, <2>1, <2>2, FailIInv DEF Barrier
  <1> QED
    BY <1>2, <1>3

-----------------------------------------------------------------------------
(* Fences of the controller *)

\* A refused call leaves only the failure behind.
LEMMA RefuseIInv == ASSUME IInv, Refuse PROVE IInv'
  <1>1. /\ pc \in [Callers -> {"out", "parked", "in", "fencing terminal", "terminal",
                              "fencing measurement", "measuring"}]
        /\ closed \in [Kinds -> BOOLEAN]
    BY DEF IInv, Turns, TypeOK
  <1> QED
    BY <1>1, FailIInv DEF Refuse, Barrier

\* Pause and FenceRequests close one kind and wait for its last turn.
LEMMA FenceIInv ==
    ASSUME IInv, NEW k \in Kinds, Fence(k)
    PROVE  IInv'
  <1>1. CASE Retained \/ closed[k]
    BY <1>1, RefuseIInv DEF Fence
  <1>2. CASE ~Retained /\ ~closed[k]
    <2>0. TypeOK /\ ~err /\ Close(k)
      BY <1>2 DEF IInv, Turns, Fence
    <2>1. closed' = [closed EXCEPT ![k] = TRUE] /\ pc' = pc
          /\ UNCHANGED <<active, generation, terminal, measurement, used, turn>>
      BY <2>0 DEF Close
    <2>2. closed' \in [Kinds -> BOOLEAN] /\ \A j \in Kinds : closed'[j] = (closed[j] \/ j = k)
      BY <2>0, <2>1 DEF TypeOK
    <2>3. k \notin fencing /\ ~ready[k]
      BY <1>2 DEF IInv, Fences, FencingCloses, QuiescenceIsReal
    <2>4. CASE stopped
      <3>1. Fail /\ UNCHANGED <<ready, fencing>>
        BY <2>0, <2>4 DEF Close
      <3>2. pc \in [Callers -> {"out", "parked", "in", "fencing terminal", "terminal",
                                "fencing measurement", "measuring"}]
        BY <2>0 DEF TypeOK
      <3> QED
        BY <2>1, <2>2, <3>1, <3>2, FailIInv
    <2>5. CASE ~stopped
      <3>1. /\ UNCHANGED <<err, stopped>>
            /\ \/ active[k] = {} /\ asleep' = {} /\ ready' = [ready EXCEPT ![k] = TRUE] /\ fencing' = fencing
               \/ active[k] # {} /\ asleep' = {k} /\ ready' = ready /\ fencing' = fencing \cup {k}
        BY <2>0, <2>5 DEF Close
      <3>2. ready' \in [Kinds -> BOOLEAN] /\ \A j \in Kinds \ {k} : ready'[j] = ready[j]
        BY <2>0, <3>1 DEF TypeOK
      <3>3. /\ ready'[k] => active[k] = {} /\ fencing' = fencing
            /\ fencing' \subseteq fencing \cup {k} /\ (k \in fencing' => ~ready'[k])
        BY <2>0, <2>3, <3>1 DEF TypeOK
      <3>4. TypeOK' /\ LoopsOnly'
        BY <2>0, <2>1, <2>2, <3>1, <3>2, <3>3 DEF TypeOK, IInv, Turns, LoopsOnly
      <3>5. Turns'
        BY <2>1, <3>1, <3>4, TurnsKept
      <3>6. \A q \in Callers : pc[q] \notin Fencing \cup Held
        BY <1>2, <2>0, NoRetainer
      <3>7. RetainerKnown' /\ RetainedCloses'
        BY <1>2, <2>1, <3>6 DEF RetainerKnown, RetainedCloses, Retained, Fencing, Held
      <3>8. FencingCloses'
        <4>1. \A j \in fencing : closed[j] /\ ~ready[j] /\ j \in Kinds
          BY <2>0 DEF IInv, Fences, FencingCloses, TypeOK
        <4>2. \A j \in fencing' : closed'[j] /\ ~ready'[j]
          BY <2>2, <2>3, <3>2, <3>3, <4>1
        <4> QED
          BY <4>2 DEF FencingCloses
      <3>9. QuiescenceIsReal'
        BY <2>1, <2>2, <3>2, <3>3, <3>6 DEF IInv, Fences, QuiescenceIsReal, Callers
      <3>10. Sleep'
        <4>1. asleep' \cap Callers = {}
          BY <3>1, KindFacts
        <4> QED
          BY <2>0, <2>1, <2>5, <3>1, <4>1 DEF Sleep, SleepersWait, NoLostWakeup
      <3> QED
        BY <3>5, <3>7, <3>8, <3>9, <3>10 DEF IInv, Fences
    <2> QED
      BY <2>4, <2>5
  <1> QED
    BY <1>1, <1>2

\* A waiting fence is woken, or its deadline passes.
LEMMA FenceWakesIInv ==
    ASSUME IInv, NEW k \in Kinds, FenceWakes(k) \/ FenceTimesOut(k)
    PROVE  IInv'
  <1>0. TypeOK /\ k \in fencing /\ UNCHANGED <<active, generation, closed, terminal, measurement, used, pc, turn>>
    BY DEF IInv, Turns, FenceWakes, FenceTimesOut, Barrier
  <1>1. CASE Fail /\ fencing' = fencing \ {k} /\ UNCHANGED ready
    <2>1. /\ pc \in [Callers -> {"out", "parked", "in", "fencing terminal", "terminal",
                                "fencing measurement", "measuring"}]
          /\ closed \in [Kinds -> BOOLEAN]
      BY <1>0 DEF TypeOK
    <2> QED
      BY <1>0, <1>1, <2>1, FailIInv
  <1>2. CASE ~(Fail /\ fencing' = fencing \ {k} /\ UNCHANGED ready)
    <2>1. /\ ~err /\ ~stopped /\ k \notin asleep /\ UNCHANGED <<err, stopped>>
          /\ \/ /\ active[k] = {} /\ ready' = [ready EXCEPT ![k] = TRUE]
                /\ fencing' = fencing \ {k} /\ asleep' = asleep
             \/ /\ active[k] # {} /\ asleep' = asleep \cup {k} /\ UNCHANGED <<ready, fencing>>
      BY <1>2 DEF FenceWakes, FenceTimesOut, Barrier
    <2>2. closed[k] /\ ~Retained
      BY <1>0 DEF IInv, Fences, FencingCloses, RetainedCloses
    <2>3. ready' \in [Kinds -> BOOLEAN] /\ \A j \in Kinds \ {k} : ready'[j] = ready[j]
      BY <1>0, <2>1 DEF TypeOK
    <2>4. (ready'[k] => active[k] = {}) /\ (k \in fencing' => ~ready'[k]) /\ fencing' \subseteq fencing
      BY <1>0, <2>1 DEF IInv, Fences, FencingCloses
    <2>5. TypeOK' /\ LoopsOnly'
      BY <1>0, <2>1, <2>3, <2>4 DEF TypeOK, IInv, Turns, LoopsOnly
    <2>6. Turns'
      BY <1>0, <2>1, <2>5, TurnsKept
    <2>7. \A q \in Callers : pc[q] \notin Fencing \cup Held
      BY <2>1, <2>2, NoRetainer
    <2>8. RetainerKnown' /\ RetainedCloses'
      BY <1>0, <2>2, <2>7 DEF RetainerKnown, RetainedCloses, Retained, Fencing, Held
    <2>9. FencingCloses'
      <3>1. \A j \in fencing : closed[j] /\ ~ready[j] /\ j \in Kinds
        BY <1>0 DEF IInv, Fences, FencingCloses, TypeOK
      <3>2. \A j \in fencing' : closed[j] /\ ~ready'[j]
        BY <2>3, <2>4, <3>1
      <3> QED
        BY <1>0, <3>2 DEF FencingCloses
    <2>10. QuiescenceIsReal'
      BY <1>0, <2>2, <2>3, <2>4, <2>7 DEF IInv, Fences, QuiescenceIsReal, Callers
    <2>11. SleepersWait'
      BY <1>0, <2>1, KindFacts DEF IInv, Sleep, SleepersWait
    <2>12. NoLostWakeup'
      <3>1. \A q \in asleep' \cap Callers : q \in asleep
        BY <2>1, KindFacts
      <3>2. \A q \in Callers : Alone(q)' <=> Alone(q)
        BY <1>0 DEF Alone
      <3>3. \A j \in asleep' \cap Kinds : active[j] # {}
        BY <2>1 DEF IInv, Sleep, NoLostWakeup
      <3> QED
        BY <1>0, <2>1, <3>1, <3>2, <3>3 DEF IInv, Sleep, NoLostWakeup
    <2> QED
      BY <2>6, <2>8, <2>9, <2>10, <2>11, <2>12 DEF IInv, Fences, Sleep
  <1> QED
    BY <1>1, <1>2

\* Resume and OpenRequests open what was drained and tell everybody.
LEMMA ReopenIInv ==
    ASSUME IInv, NEW k \in Kinds, Reopen(k)
    PROVE  IInv'
  <1>1. CASE Refuse
    BY <1>1, RefuseIInv
  <1>2. CASE ~Refuse
    <2>1. TypeOK /\ ~err /\ ~Retained /\ ~stopped /\ closed[k] /\ ready[k] /\ Open(k)
      BY <1>2 DEF IInv, Turns, Reopen, Reopens
    <2>2. /\ closed' = [closed EXCEPT ![k] = FALSE] /\ ready' = [ready EXCEPT ![k] = FALSE]
          /\ asleep' = {}
          /\ UNCHANGED <<active, generation, terminal, measurement, used, err, stopped, pc, turn, fencing>>
      BY <2>1 DEF Open
    <2>3. /\ closed' \in [Kinds -> BOOLEAN] /\ ready' \in [Kinds -> BOOLEAN] /\ ~ready'[k]
          /\ \A j \in Kinds \ {k} : ready'[j] = ready[j] /\ closed'[j] = closed[j]
      BY <2>1, <2>2 DEF TypeOK
    <2>4. k \notin fencing
      BY <2>1 DEF IInv, Fences, FencingCloses
    <2>5. TypeOK' /\ LoopsOnly'
      BY <2>1, <2>2, <2>3 DEF TypeOK, IInv, Turns, LoopsOnly
    <2>6. Turns'
      BY <2>2, <2>5, TurnsKept
    <2>7. \A q \in Callers : pc[q] \notin Fencing \cup Held
      BY <2>1, NoRetainer
    <2>8. RetainerKnown' /\ RetainedCloses'
      BY <2>1, <2>2, <2>7 DEF RetainerKnown, RetainedCloses, Retained, Fencing, Held
    <2>9. FencingCloses' /\ QuiescenceIsReal'
      BY <2>1, <2>2, <2>3, <2>4, <2>7 DEF IInv, Fences, FencingCloses, QuiescenceIsReal, Callers, TypeOK
    <2>10. Sleep'
      BY <2>2 DEF Sleep, SleepersWait, NoLostWakeup
    <2> QED
      BY <2>6, <2>8, <2>9, <2>10 DEF IInv, Fences
  <1> QED
    BY <1>1, <1>2

-----------------------------------------------------------------------------
(* Fences of one live owner *)

\* FenceTerminal and FenceMeasurement close both kinds behind the caller.
LEMMA RetainIInv ==
    ASSUME IInv, NEW p \in Loops, pc[p] = "in", ~err, ~stopped, Unfenced,
           NEW waits \in Fencing, NEW holds \in Held, Retain(p, waits, holds), used' \in BOOLEAN,
           \/ /\ waits = "fencing terminal" /\ holds = "terminal"
              /\ terminal' = turn[p].slot /\ measurement' = measurement
           \/ /\ waits = "fencing measurement" /\ holds = "measuring"
              /\ measurement' = turn[p].slot /\ terminal' = terminal
    PROVE  IInv'
  <1>0. TypeOK /\ p \in Callers /\ p \notin Kinds /\ KindOf(p) = "owner"
    BY KindFacts DEF IInv, Turns, Callers
  <1>1. /\ closed' = [k \in Kinds |-> TRUE]
        /\ pc' = [pc EXCEPT ![p] = IF Alone(p) THEN holds ELSE waits]
        /\ asleep' = IF Alone(p) THEN {} ELSE {p}
        /\ UNCHANGED <<active, generation, ready, err, stopped, turn, fencing>>
    BY DEF Retain
  <1>2. /\ pc'[p] = (IF Alone(p) THEN holds ELSE waits)
        /\ \A q \in Callers \ {p} : pc'[q] = pc[q]
    BY <1>0, <1>1, TypeFacts
  <1>3. ~Retained /\ fencing = {} /\ \A k \in Kinds : ~ready[k]
    BY <1>0 DEF IInv, Fences, FencingCloses, Unfenced, TypeOK
  <1>4. TypeOK'
    <2>1. pc' \in [Callers -> {"out", "parked", "in", "fencing terminal", "terminal",
                               "fencing measurement", "measuring"}]
      BY <1>0, <1>1 DEF TypeOK, Fencing, Held
    <2>2. turn[p].slot \in Slots("owner")
      BY <1>0, TypeFacts
    <2> QED
      BY <1>0, <1>1, <2>1, <2>2 DEF TypeOK
  <1>5. LoopsOnly'
    BY <1>2 DEF IInv, Turns, LoopsOnly
  <1>6. Turns'
    BY <1>1, <1>2, <1>4, <1>5, TurnsKept DEF Fencing, Held
  <1>7. \A q \in Callers : pc[q] \notin Fencing \cup Held
    BY <1>3, NoRetainer
  <1>8. RetainerKnown'
    BY <1>1, <1>2, <1>7 DEF RetainerKnown, Fencing, Held
  <1>9. RetainedCloses' /\ FencingCloses'
    BY <1>1, <1>3 DEF RetainedCloses, FencingCloses
  <1>10. QuiescenceIsReal'
    <2>1. ASSUME NEW q \in Loops, pc'[q] \in Held PROVE q = p /\ Alone(p)
      BY <1>2, <1>7, <2>1 DEF Callers, Fencing, Held
    <2> QED
      BY <1>1, <1>3, <2>1 DEF QuiescenceIsReal, Alone
  <1>11. Sleep'
    <2>1. Alone(p)' <=> Alone(p)
      BY <1>1 DEF Alone
    <2>2. asleep' \cap Kinds = {} /\ \A q \in asleep' \cap Callers : q = p /\ ~Alone(p)
      BY <1>0, <1>1
    <2>3. ~Alone(p) => pc'[p] \in Fencing /\ pc'[p] # "parked"
      BY <1>2 DEF Fencing
    <2> QED
      BY <1>1, <2>1, <2>2, <2>3 DEF Sleep, SleepersWait, NoLostWakeup
  <1> QED
    BY <1>6, <1>8, <1>9, <1>10, <1>11 DEF IInv, Fences

\* The two calls of one live owner, refused or not.
LEMMA FenceOwnIInv ==
    ASSUME IInv, NEW p \in Callers, FenceTerminal(p) \/ FenceMeasurement(p)
    PROVE  IInv'
  <1>1. CASE Refuse
    BY <1>1, RefuseIInv
  <1>2. CASE FenceTerminal(p) /\ ~Refuse
    <2>1. used' \in BOOLEAN /\ "fencing terminal" \in Fencing /\ "terminal" \in Held
      BY <1>2 DEF FenceTerminal, IInv, Turns, TypeOK, Fencing, Held
    <2> QED
      BY <1>2, <2>1, RetainIInv DEF FenceTerminal
  <1>3. CASE FenceMeasurement(p) /\ ~Refuse
    <2>1. used' \in BOOLEAN /\ "fencing measurement" \in Fencing /\ "measuring" \in Held
      BY <1>3 DEF FenceMeasurement, Fencing, Held
    <2> QED
      BY <1>3, <2>1, RetainIInv DEF FenceMeasurement
  <1> QED
    BY <1>1, <1>2, <1>3

\* A retaining owner is woken and holds, or sleeps on.
LEMMA RetainWakesIInv ==
    ASSUME IInv, NEW p \in Callers, RetainWakes(p) \/ RetainTimesOut(p)
    PROVE  IInv'
  <1>0. TypeOK /\ pc[p] \in Fencing /\ p \in Loops /\ p \notin Kinds /\ UNCHANGED <<Barrier, turn, fencing>>
    BY KindFacts DEF IInv, Turns, LoopsOnly, RetainWakes, RetainTimesOut, Fencing
  <1>1. CASE Fail /\ pc' = [pc EXCEPT ![p] = "in"]
    BY <1>0, <1>1, FailIInv DEF TypeOK, Barrier
  <1>2. CASE ~(Fail /\ pc' = [pc EXCEPT ![p] = "in"])
    <2>1. /\ ~err /\ ~stopped /\ p \notin asleep /\ UNCHANGED <<err, stopped>>
          /\ \/ /\ Alone(p) /\ asleep' = asleep
                /\ pc' = [pc EXCEPT ![p] = IF @ = "fencing terminal" THEN "terminal" ELSE "measuring"]
             \/ ~Alone(p) /\ asleep' = asleep \cup {p} /\ pc' = pc
      BY <1>2 DEF RetainWakes, RetainTimesOut
    <2>2. /\ \A q \in Callers \ {p} : pc'[q] = pc[q]
          /\ \/ pc'[p] = pc[p]
             \/ Alone(p) /\ pc[p] = "fencing terminal" /\ pc'[p] = "terminal"
             \/ Alone(p) /\ pc[p] = "fencing measurement" /\ pc'[p] = "measuring"
      BY <1>0, <2>1, TypeFacts DEF Fencing
    <2>3. pc' \in [Callers -> {"out", "parked", "in", "fencing terminal", "terminal",
                               "fencing measurement", "measuring"}]
      BY <1>0, <2>1 DEF TypeOK
    <2>4. TypeOK'
      BY <1>0, <2>1, <2>3 DEF TypeOK, Barrier
    <2>5. LoopsOnly'
      BY <1>0, <2>2 DEF IInv, Turns, LoopsOnly
    <2>6. Turns'
      BY <1>0, <2>1, <2>2, <2>4, <2>5, TurnsKept DEF Barrier, Fencing
    <2>7. RetainerKnown' /\ RetainedCloses' /\ FencingCloses'
      BY <1>0, <2>1, <2>2 DEF IInv, Fences, RetainerKnown, RetainedCloses, FencingCloses, Retained, Barrier
    <2>8. \A k \in Kinds : closed[k]
      <3>1. Retained
        BY <1>0, <2>1, TypeFacts DEF IInv, Fences, RetainerKnown, Retained, Fencing
      <3> QED
        BY <3>1 DEF IInv, Fences, RetainedCloses
    <2>9. QuiescenceIsReal'
      <3>1. ASSUME NEW q \in Loops, pc'[q] \in Held
            PROVE  active["owner"] = {turn[q].slot} /\ active["request"] = {}
        <4>1. CASE q = p
          BY <1>0, <2>2, <3>1, <4>1 DEF Alone, Fencing, Held
        <4>2. CASE q # p
          BY <2>1, <2>2, <3>1, <4>2 DEF IInv, Fences, QuiescenceIsReal, Callers
        <4> QED
          BY <4>1, <4>2
      <3> QED
        BY <1>0, <2>8, <3>1 DEF IInv, Fences, QuiescenceIsReal, Barrier
    <2>10. ASSUME NEW q \in asleep' \cap Callers PROVE pc'[q] = pc[q]
      <3>1. CASE pc' = pc
        BY <3>1
      <3>2. CASE asleep' = asleep
        BY <2>1, <2>2, <3>2
      <3> QED
        BY <2>1, <3>1, <3>2
    <2>11. SleepersWait'
      BY <1>0, <2>1, <2>10 DEF IInv, Sleep, SleepersWait
    <2>12. NoLostWakeup'
      <3>1. \A q \in Callers : Alone(q)' <=> Alone(q)
        BY <1>0 DEF Alone, Barrier
      <3>2. \A q \in asleep' \cap Callers :
               IF pc'[q] = "parked" THEN closed["owner"] ELSE ~Alone(q)
        BY <1>0, <2>1, <2>10 DEF IInv, Sleep, NoLostWakeup, Fencing
      <3>3. \A k \in asleep' \cap Kinds : active[k] # {}
        BY <1>0, <2>1 DEF IInv, Sleep, NoLostWakeup
      <3> QED
        BY <1>0, <2>1, <3>1, <3>2, <3>3 DEF NoLostWakeup, Barrier
    <2> QED
      BY <2>6, <2>7, <2>9, <2>11, <2>12 DEF IInv, Fences, Sleep
  <1> QED
    BY <1>1, <1>2

\* A measurement ends: the turn goes on and everybody may enter again.
LEMMA ResumeIInv ==
    ASSUME IInv, NEW p \in Callers, ResumeMeasurement(p)
    PROVE  IInv'
  <1>0. /\ TypeOK /\ pc[p] = "measuring" /\ p \in Loops /\ KindOf(p) = "owner"
        /\ pc' = [pc EXCEPT ![p] = "in"] /\ UNCHANGED <<turn, fencing>>
    BY KindFacts DEF IInv, Turns, LoopsOnly, Held, ResumeMeasurement
  <1>1. CASE ~StillAlone(p)
    BY <1>0, <1>1, FailIInv DEF ResumeMeasurement, Barrier, TypeOK
  <1>2. CASE StillAlone(p)
    <2>1. /\ measurement' = NoSlot /\ closed' = [k \in Kinds |-> FALSE] /\ asleep' = {}
          /\ UNCHANGED <<active, generation, ready, terminal, used, err, stopped>>
      BY <1>2 DEF ResumeMeasurement
    <2>2. /\ ~err /\ measurement = turn[p].slot /\ Valid(p) /\ terminal = NoSlot
          /\ \A k \in Kinds : ~ready[k]
      BY <1>2 DEF StillAlone
    <2>3. pc'[p] = "in" /\ \A q \in Callers \ {p} : pc'[q] = pc[q]
      BY <1>0, TypeFacts
    <2>4. TypeOK'
      BY <1>0, <2>1 DEF TypeOK
    <2>5. LoopsOnly'
      BY <2>3 DEF IInv, Turns, LoopsOnly, Fencing, Held
    <2>6. Turns'
      BY <1>0, <2>1, <2>3, <2>4, <2>5, TurnsKept
    <2>7. ASSUME NEW q \in Callers \ {p} PROVE pc[q] \notin Fencing \cup Held
      <3>1. SUFFICES ASSUME pc[q] \in Fencing \cup Held PROVE FALSE
        OBVIOUS
      <3>2. q \in Loops /\ KindOf(q) = "owner" /\ Valid(q)
        BY <2>2, <3>1, KindFacts DEF IInv, Turns, LoopsOnly, TurnOwnsSlot, Fencing, Held
      <3>3. turn[q].slot = turn[p].slot
        BY <1>0, <2>2, <3>1, TypeFacts DEF IInv, Fences, RetainerKnown, Fencing, Held
      <3>4. turn[q].generation = turn[p].generation /\ turn[p].generation > 0
        BY <1>0, <2>2, <3>2, <3>3 DEF Valid
      <3>5. turn[q] = turn[p]
        <4>1. turn[q] \in [slot: UNION {Slots(j) : j \in Kinds}, generation: 0 .. MaxGeneration]
              /\ turn[p] \in [slot: UNION {Slots(j) : j \in Kinds}, generation: 0 .. MaxGeneration]
          BY <1>0 DEF TypeOK
        <4> QED
          BY <3>3, <3>4, <4>1
      <3> QED
        BY <1>0, <3>2, <3>4, <3>5 DEF IInv, Turns, TurnsDistinct
    <2>8. \A q \in Callers : pc'[q] \notin Fencing \cup Held
      BY <2>3, <2>7 DEF Fencing, Held
    <2>9. fencing = {}
      <3>1. Retained
        BY <1>0, <2>2, TypeFacts DEF Retained
      <3> QED
        BY <3>1 DEF IInv, Fences, RetainedCloses
    <2>10. Fences'
      BY <1>0, <2>1, <2>2, <2>8, <2>9 DEF Fences, RetainerKnown, RetainedCloses, FencingCloses,
         QuiescenceIsReal, Retained, Fencing, Held, Callers
    <2>11. Sleep'
      BY <2>1 DEF Sleep, SleepersWait, NoLostWakeup
    <2> QED
      BY <2>6, <2>10, <2>11 DEF IInv
  <1> QED
    BY <1>1, <1>2

-----------------------------------------------------------------------------
(* Every step *)

\* A loop waits, or enters once the barrier is open.
LEMMA LoopIInv ==
    ASSUME IInv, NEW p \in Callers, Enter(p) \/ Recheck(p) \/ GiveUp(p)
    PROVE  IInv'
  <1>0. TypeOK /\ p \in Loops /\ KindOf(p) = "owner" /\ pc[p] \in {"out", "parked"}
        /\ (pc[p] = "parked" \/ p \notin asleep)
    BY KindFacts DEF IInv, Turns, LoopsOnly, Sleep, SleepersWait, Enter, Recheck, GiveUp, Fencing
  <1>1. CASE EnterLocked(p) /\ ~err /\ ~stopped /\ ~closed["owner"] /\ p \notin asleep
    BY <1>0, <1>1, EnterIInv
  <1>2. CASE Refuse
    BY <1>2, RefuseIInv
  <1>3. ASSUME NEW a \in {"out", "parked"}, pc' = [pc EXCEPT ![p] = a], asleep' \subseteq asleep \cup {p},
               p \in asleep' => a = "parked" /\ closed["owner"] /\ ~err /\ ~stopped,
               UNCHANGED <<Barrier, err, stopped, turn, fencing>>
        PROVE  IInv'
    BY <1>0, <1>3, WaitIInv
  <1>4. pc = [pc EXCEPT ![p] = pc[p]]
    BY <1>0 DEF TypeOK
  <1>5. CASE Enter(p)
    BY <1>0, <1>1, <1>2, <1>3, <1>5 DEF Enter, Refuse
  <1>6. CASE Recheck(p)
    BY <1>0, <1>1, <1>3, <1>4, <1>6 DEF Recheck
  <1>7. CASE GiveUp(p)
    BY <1>3, <1>7 DEF GiveUp
  <1> QED
    BY <1>5, <1>6, <1>7

\* A request enters while its fence is open.
LEMMA RequestIInv ==
    ASSUME IInv, NEW p \in Callers, EnterRequest(p)
    PROVE  IInv'
  <1>1. /\ pc[p] = "out" /\ ~err /\ ~stopped /\ KindOf(p) = "request"
        /\ ~closed["request"] /\ EnterLocked(p)
    BY KindFacts DEF EnterRequest
  <1>2. p \notin asleep
    BY <1>1 DEF IInv, Sleep, SleepersWait, Fencing
  <1> QED
    BY <1>1, <1>2, EnterIInv

\* Every step of every goroutine keeps the invariant.
LEMMA Inductive == IInv /\ [Next]_vars => IInv'
  <1> SUFFICES ASSUME IInv, [Next]_vars PROVE IInv'
    OBVIOUS
  <1>1. ASSUME NEW p \in Callers, Caller(p) PROVE IInv'
    BY <1>1, LoopIInv, RequestIInv, EndIInv, FenceOwnIInv, RetainWakesIInv, ResumeIInv DEF Caller
  <1>2. ASSUME NEW k \in Kinds, Control(k) PROVE IInv'
    BY <1>2, FenceIInv, FenceWakesIInv, ReopenIInv DEF Control
  <1>3. CASE Shutdown
    <2>1. UNCHANGED <<active, generation, closed, ready, terminal, measurement, used, err, pc, turn, fencing>>
          /\ stopped' = TRUE /\ asleep' = {}
      BY <1>3 DEF Shutdown, Barrier
    <2>2. TypeOK' /\ LoopsOnly'
      BY <2>1 DEF IInv, Turns, TypeOK, LoopsOnly
    <2>3. Turns'
      BY <2>1, <2>2, TurnsKept
    <2>4. Fences'
      BY <2>1 DEF IInv, Fences, RetainerKnown, RetainedCloses, FencingCloses, QuiescenceIsReal, Retained
    <2>5. Sleep'
      BY <2>1 DEF Sleep, SleepersWait, NoLostWakeup
    <2> QED
      BY <2>3, <2>4, <2>5 DEF IInv
  <1>4. CASE UNCHANGED vars
    <2>1. UNCHANGED <<active, generation, closed, ready, terminal, measurement, used, err, stopped,
                      pc, turn, fencing, asleep>>
      BY <1>4 DEF vars
    <2>2. TypeOK' /\ LoopsOnly'
      BY <2>1 DEF IInv, Turns, TypeOK, LoopsOnly
    <2>3. Turns'
      BY <2>1, <2>2, TurnsKept
    <2>4. Fences'
      BY <2>1 DEF IInv, Fences, RetainerKnown, RetainedCloses, FencingCloses, QuiescenceIsReal, Retained
    <2>5. Sleep'
      BY <2>1 DEF IInv, Sleep, SleepersWait, NoLostWakeup, Alone
    <2> QED
      BY <2>3, <2>4, <2>5 DEF IInv
  <1> QED
    BY <1>1, <1>2, <1>3, <1>4 DEF Next

\* Quiescence is real for any number of loops, requests and slots: inside a fence
\* that reported itself drained there is nobody, and a terminal or measuring
\* owner is alone behind two closed fences (fence, reopen, FenceTerminal and
\* FenceMeasurement of owners.go and owner_measurement.go).
THEOREM DrainIsReal == Spec => []QuiescenceIsReal
  <1>1. IInv => QuiescenceIsReal
    BY DEF IInv, Fences
  <1> QED
    BY <1>1, InitIInv, Inductive, PTL DEF Spec

\* A caller inside a turn owns a live slot with its own generation, whatever
\* copies of ended turns are passed to End (enterLocked, validLocked, End).
THEOREM TurnsAreOwned == Spec => []TurnOwnsSlot
  <1>1. IInv => TurnOwnsSlot
    BY DEF IInv, Turns
  <1> QED
    BY <1>1, InitIInv, Inductive, PTL DEF Spec

\* Nobody sleeps on the changed channel through what it waits for
\* (notifyLocked, failLocked, End and reopen).
THEOREM WakeupsArrive == Spec => []NoLostWakeup
  <1>1. IInv => NoLostWakeup
    BY DEF IInv, Sleep
  <1> QED
    BY <1>1, InitIInv, Inductive, PTL DEF Spec

=============================================================================
