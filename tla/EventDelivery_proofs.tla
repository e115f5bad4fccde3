------------------------ MODULE EventDelivery_proofs ------------------------
(* Proofs about EventDelivery: type correctness, the bound on effects, what   *)
(* becomes of a row of ProcessedEvents, and what has become of a handler when  *)
(* its turn is over.                                                          *)
EXTENDS EventDelivery, FiniteSetTheorems, TLAPS

\* A delivery that runs keeps the event it was published with.
LEMMA KeyInKeys ==
  ASSUME TypeOK, NEW d \in Deliveries, pc[d] # "idle"
  PROVE  Key(d) \in Keys
BY DEF TypeOK, Key, Keys

\* Counting one more run of onEvent.
LEMMA BumpType ==
  ASSUME NEW f \in [Keys -> Nat], NEW k \in Keys
  PROVE  [f EXCEPT ![k] = @ + 1] \in [Keys -> Nat]
OBVIOUS

LEMMA EndHandlerType ==
  ASSUME TypeOK, NEW d \in Deliveries, pc[d] # "idle",
         NEW result \in Outcome, EndHandler(d, result)
  PROVE  /\ event' \in [Deliveries -> Events \cup {NoEvent}]
         /\ mode' \in [Deliveries -> {"SYNC", "ASYNC"}]
         /\ pc' \in [Deliveries -> DeliveryState]
         /\ \A x \in Deliveries : pc'[x] # "idle" => event'[x] \in Events
         /\ turn' \in [Deliveries -> Handlers]
         /\ attempt' \in [Deliveries -> 0..(MaxAttempts - 1)]
         /\ outcome' \in [Deliveries -> [Handlers -> Outcome]]
         /\ dlq' \subseteq Deliveries
         /\ epoch' \in Epochs
<1> USE DeliveryAssumption DEF TypeOK
<1>1. 0 \in 0..(MaxAttempts - 1)
  OBVIOUS
<1>2. turn' \in [Deliveries -> Handlers]
  BY DEF EndHandler, Handlers
<1>3. outcome' \in [Deliveries -> [Handlers -> Outcome]]
  BY DEF EndHandler
<1>4. attempt' \in [Deliveries -> 0..(MaxAttempts - 1)]
  BY <1>1 DEF EndHandler
<1>5. /\ pc' \in [Deliveries -> DeliveryState]
      /\ \A x \in Deliveries : pc'[x] # "idle" => event'[x] \in Events
  BY DEF EndHandler, Goto, DeliveryState
<1>6. dlq' \subseteq Deliveries
  BY DEF EndHandler
<1> QED
  BY <1>2, <1>3, <1>4, <1>5, <1>6 DEF EndHandler

LEMMA InitType == Init => TypeOK
BY DeliveryAssumption
   DEF Init, TypeOK, Handlers, Keys, Epochs, DeliveryState, Outcome

LEMMA StepType == TypeOK /\ [Next]_vars => TypeOK'
<1> SUFFICES ASSUME TypeOK, [Next]_vars
             PROVE  TypeOK'
  OBVIOUS
<1> USE DeliveryAssumption
<1>1. ASSUME NEW d \in Deliveries, NEW e \in Events, NEW m \in {"SYNC", "ASYNC"},
             Publish(d, e, m)
      PROVE  TypeOK'
  BY <1>1 DEF TypeOK, Publish, DeliveryState, dbVars, handlerVars
<1>2. ASSUME NEW d \in Deliveries, CheckSeen(d)
      PROVE  TypeOK'
  BY <1>2, EndHandlerType DEF TypeOK, CheckSeen, Outcome, dbVars, handlerVars
<1>3. ASSUME NEW d \in Deliveries, CheckProceeds(d)
      PROVE  TypeOK'
  BY <1>3 DEF TypeOK, CheckProceeds, Answers, Fails, Goto, Stay, DeliveryState, handlerVars
<1>4. ASSUME NEW d \in Deliveries, MarkCreates(d)
      PROVE  TypeOK'
  BY <1>4, KeyInKeys
     DEF TypeOK, MarkCreates, Answers, Goto, Stay, DeliveryState, handlerVars
<1>5. ASSUME NEW d \in Deliveries, MarkConflicts(d) \/ Commits(d)
      PROVE  TypeOK'
  BY <1>5 DEF TypeOK, MarkConflicts, Commits, Goto, Stay, DeliveryState, dbVars, handlerVars
<1>6. ASSUME NEW d \in Deliveries, MarkFails(d) \/ CommitFails(d)
      PROVE  TypeOK'
  <2>1. pc[d] # "idle" /\ Key(d) \in Keys
    BY <1>6, KeyInKeys DEF MarkFails, CommitFails
  <2>2. degraded' = [degraded EXCEPT ![Key(d)] = @ + 1]
    BY <1>6 DEF MarkFails, CommitFails
  <2>3. degraded' \in [Keys -> Nat]
    BY <2>1, <2>2, BumpType DEF TypeOK
  <2>4. faults' \in 0..MaxFaults
    BY <1>6 DEF MarkFails, CommitFails, Fails, TypeOK
  <2>5. UNCHANGED <<processed, effects, thrown>> /\ Stay /\ Goto(d, "again")
    BY <1>6 DEF MarkFails, CommitFails
  <2> QED
    BY <2>1, <2>3, <2>4, <2>5 DEF TypeOK, Goto, Stay, DeliveryState
<1>7. ASSUME NEW d \in Deliveries, OnEventReturns(d) \/ AgainReturns(d)
      PROVE  TypeOK'
  <2>1. pc[d] # "idle" /\ Key(d) \in Keys
    BY <1>7, KeyInKeys DEF OnEventReturns, AgainReturns
  <2>2. effects' \in [Keys -> Nat]
    BY <1>7, <2>1, BumpType DEF OnEventReturns, AgainReturns, Affect, TypeOK
  <2>3. \E p \in DeliveryState : Goto(d, p)
    BY <1>7 DEF OnEventReturns, AgainReturns, DeliveryState
  <2>4. UNCHANGED <<dbVars, degraded, thrown>> /\ Stay
    BY <1>7 DEF OnEventReturns, AgainReturns
  <2> QED
    BY <2>1, <2>2, <2>3, <2>4 DEF TypeOK, Goto, Stay, dbVars
<1>8. ASSUME NEW d \in Deliveries, OnEventThrows(d)
      PROVE  TypeOK'
  BY <1>8, KeyInKeys DEF TypeOK, OnEventThrows, Goto, Stay, DeliveryState, dbVars
<1>9. ASSUME NEW d \in Deliveries, AgainThrows(d)
      PROVE  TypeOK'
  <2>1. pc[d] = "again" /\ thrown' \subseteq Keys
    BY <1>9, KeyInKeys DEF AgainThrows, TypeOK
  <2>2. CASE attempt[d] + 1 < MaxAttempts
    <3>1. attempt[d] + 1 \in 0..(MaxAttempts - 1)
      BY <2>2 DEF TypeOK
    <3>2. attempt' = [attempt EXCEPT ![d] = attempt[d] + 1]
      BY <1>9, <2>2 DEF AgainThrows
    <3>3. attempt' \in [Deliveries -> 0..(MaxAttempts - 1)]
      BY <3>1, <3>2 DEF TypeOK
    <3>4. /\ Goto(d, "check")
          /\ UNCHANGED <<event, mode, turn, outcome, dlq, epoch>>
      BY <1>9, <2>2 DEF AgainThrows
    <3>5. UNCHANGED <<dbVars, effects, degraded>>
      BY <1>9 DEF AgainThrows
    <3> QED
      BY <2>1, <3>3, <3>4, <3>5 DEF TypeOK, Goto, DeliveryState, dbVars
  <2>3. CASE ~(attempt[d] + 1 < MaxAttempts)
    <3>1. EndHandler(d, "failed")
      BY <1>9, <2>3 DEF AgainThrows
    <3> QED
      BY <1>9, <2>1, <3>1, EndHandlerType DEF TypeOK, AgainThrows, Outcome, dbVars
  <2> QED
    BY <2>2, <2>3
<1>10. ASSUME NEW d \in Deliveries, Record(d)
       PROVE  TypeOK'
  BY <1>10, EndHandlerType, KeyInKeys
     DEF TypeOK, Record, Answers, Fails, Outcome, handlerVars
<1>11. ASSUME Crash
       PROVE  TypeOK'
  BY <1>11 DEF TypeOK, Crash, Epochs, DeliveryState, dbVars, handlerVars
<1>12. CASE UNCHANGED vars
  BY <1>12 DEF TypeOK, vars, deliveryVars, dbVars, handlerVars
<1> QED
  BY <1>1, <1>2, <1>3, <1>4, <1>5, <1>6, <1>7, <1>8, <1>9, <1>10, <1>11, <1>12
     DEF Next, DeliveryStep

\* Every reachable state of the event bus is well typed.
THEOREM TypeCorrect == Spec => []TypeOK
BY InitType, StepType, PTL DEF Spec

-----------------------------------------------------------------------------
\* The bound on effects.  A run of onEvent that is under way has been paid for:
\* by the row of ProcessedEvents the delivery created, or by the fault that sent
\* it past the row.  A throwing run leaves its claim to the run that follows it.

Running == {"onEvent", "again"}

Runners(k) == {d \in Deliveries : pc[d] \in Running /\ Key(d) = k}

RowOf(k) == IF k \in processed THEN 1 ELSE 0

Paid == \A k \in Keys : effects[k] + Cardinality(Runners(k)) <= RowOf(k) + degraded[k]

EffectsInv == TypeOK /\ Paid

LEMMA RunnersCount ==
  ASSUME NEW k
  PROVE  IsFiniteSet(Runners(k)) /\ Cardinality(Runners(k)) \in Nat
<1>1. Runners(k) \subseteq Deliveries
  BY DEF Runners
<1> QED
  BY <1>1, DeliveryAssumption, FS_Subset, FS_CardinalityType

\* A set of runners that gained nothing is not larger.
LEMMA RunnersKept ==
  ASSUME NEW k, Runners(k)' \subseteq Runners(k)
  PROVE  /\ Cardinality(Runners(k)') \in Nat
         /\ Cardinality(Runners(k)') <= Cardinality(Runners(k))
BY RunnersCount, FS_Subset, FS_CardinalityType

LEMMA RunnersGain ==
  ASSUME NEW k, NEW d, Runners(k)' \subseteq Runners(k) \cup {d}
  PROVE  /\ Cardinality(Runners(k)') \in Nat
         /\ Cardinality(Runners(k)') <= Cardinality(Runners(k)) + 1
<1>1. /\ IsFiniteSet(Runners(k) \cup {d})
      /\ Cardinality(Runners(k) \cup {d}) \in Nat
      /\ Cardinality(Runners(k) \cup {d}) <= Cardinality(Runners(k)) + 1
  BY RunnersCount, FS_AddElement, FS_CardinalityType
<1>2. /\ Cardinality(Runners(k)') \in Nat
      /\ Cardinality(Runners(k)') <= Cardinality(Runners(k) \cup {d})
  BY <1>1, FS_Subset, FS_CardinalityType
<1> QED
  BY <1>1, <1>2, RunnersCount

LEMMA RunnersLoss ==
  ASSUME NEW k, NEW d \in Runners(k), Runners(k)' \subseteq Runners(k) \ {d}
  PROVE  /\ Cardinality(Runners(k)') \in Nat
         /\ Cardinality(Runners(k)') + 1 <= Cardinality(Runners(k))
<1>1. /\ IsFiniteSet(Runners(k) \ {d})
      /\ Cardinality(Runners(k) \ {d}) = Cardinality(Runners(k)) - 1
  BY RunnersCount, FS_RemoveElement
<1>2. /\ Cardinality(Runners(k)') \in Nat
      /\ Cardinality(Runners(k)') <= Cardinality(Runners(k) \ {d})
  BY <1>1, FS_Subset, FS_CardinalityType
<1> QED
  BY <1>1, <1>2, RunnersCount

\* A step after which nobody new runs a handler, and which neither removes a row
\* nor counts an effect, keeps the balance.
LEMMA PaidWhenQuiet ==
  ASSUME EffectsInv,
         \A k \in Keys : Runners(k)' \subseteq Runners(k),
         processed \subseteq processed', UNCHANGED <<effects, degraded>>
  PROVE  Paid'
<1> SUFFICES ASSUME NEW k \in Keys
             PROVE  (effects[k] + Cardinality(Runners(k)) <= RowOf(k) + degraded[k])'
  BY DEF Paid
<1>1. /\ Cardinality(Runners(k)') \in Nat
      /\ Cardinality(Runners(k)') <= Cardinality(Runners(k))
  BY RunnersKept
<1>2. RowOf(k) <= RowOf(k)' /\ RowOf(k) \in Nat /\ RowOf(k)' \in Nat
  BY DEF RowOf
<1>3. effects[k] \in Nat /\ degraded[k] \in Nat
  BY DEF EffectsInv, TypeOK
<1>4. effects[k] + Cardinality(Runners(k)) <= RowOf(k) + degraded[k]
  BY DEF EffectsInv, Paid
<1>5. effects'[k] = effects[k] /\ degraded'[k] = degraded[k]
  OBVIOUS
<1> QED
  BY <1>1, <1>2, <1>3, <1>4, <1>5, RunnersCount

LEMMA InitPaid == Init => Paid
<1> SUFFICES ASSUME Init, NEW k \in Keys
             PROVE  effects[k] + Cardinality(Runners(k)) <= RowOf(k) + degraded[k]
  BY DEF Paid
<1>1. Runners(k) = {}
  BY DEF Runners, Running, Init
<1> QED
  BY <1>1, FS_EmptySet DEF Init, RowOf

\* A delivery that goes to onEvent is paid for by the row it creates or the fault
\* that sent it there.
LEMMA StartsPaid ==
  ASSUME EffectsInv, NEW d \in Deliveries,
         MarkCreates(d) \/ MarkFails(d) \/ CommitFails(d)
  PROVE  Paid'
<1> SUFFICES ASSUME NEW k \in Keys
             PROVE  (effects[k] + Cardinality(Runners(k)) <= RowOf(k) + degraded[k])'
  BY DEF Paid
<1>1. /\ \E p \in Running : Goto(d, p)
      /\ Stay /\ effects' = effects
      /\ pc[d] \notin Running
      /\ Key(d) \in Keys
  BY KeyInKeys DEF MarkCreates, MarkFails, CommitFails, Running, handlerVars, EffectsInv
<1>2. /\ effects[k] \in Nat /\ degraded[k] \in Nat
      /\ effects[k] + Cardinality(Runners(k)) <= RowOf(k) + degraded[k]
      /\ effects'[k] = effects[k]
      /\ RowOf(k) \in {0, 1}
  BY <1>1 DEF EffectsInv, TypeOK, Paid, RowOf
<1>3. CASE k = Key(d)
  <2>1. Runners(k)' \subseteq Runners(k) \cup {d}
    BY <1>1 DEF Runners, Goto, Stay, Key, EffectsInv, TypeOK
  <2>2. RowOf(k)' + degraded'[k] = RowOf(k) + degraded[k] + 1
    <3>1. CASE MarkCreates(d)
      <4>1. RowOf(k) = 0 /\ RowOf(k)' = 1 /\ degraded' = degraded
        BY <1>3, <3>1 DEF MarkCreates, RowOf, handlerVars
      <4> QED
        BY <1>2, <4>1
    <3>2. CASE MarkFails(d) \/ CommitFails(d)
      <4>1. processed' = processed /\ degraded' = [degraded EXCEPT ![Key(d)] = @ + 1]
        BY <3>2 DEF MarkFails, CommitFails
      <4>2. degraded'[k] = degraded[k] + 1
        BY <1>3, <4>1 DEF EffectsInv, TypeOK
      <4>3. RowOf(k)' = RowOf(k)
        BY <4>1 DEF RowOf
      <4> QED
        BY <1>2, <4>2, <4>3
    <3> QED
      BY <3>1, <3>2
  <2>3. /\ Cardinality(Runners(k)') \in Nat
        /\ Cardinality(Runners(k)') <= Cardinality(Runners(k)) + 1
    BY <2>1, RunnersGain
  <2>4. RowOf(k)' \in {0, 1} /\ degraded'[k] \in Nat
    BY StepType, BumpType, <1>1, <1>2 DEF RowOf, MarkCreates, MarkFails, CommitFails,
       handlerVars, EffectsInv, TypeOK
  <2> QED
    BY <1>2, <2>2, <2>3, <2>4, RunnersCount
<1>4. CASE k # Key(d)
  <2>1. Runners(k)' \subseteq Runners(k)
    BY <1>1, <1>4 DEF Runners, Goto, Stay, Key, EffectsInv, TypeOK
  <2>2. RowOf(k)' = RowOf(k) /\ degraded'[k] = degraded[k]
    BY <1>1, <1>4
       DEF MarkCreates, MarkFails, CommitFails, RowOf, handlerVars, EffectsInv, TypeOK
  <2>3. /\ Cardinality(Runners(k)') \in Nat
        /\ Cardinality(Runners(k)') <= Cardinality(Runners(k))
    BY <2>1, RunnersKept
  <2> QED
    BY <1>2, <2>2, <2>3, RunnersCount
<1> QED
  BY <1>3, <1>4

\* A run that completes turns its claim into an effect.
LEMMA ReturnsPaid ==
  ASSUME EffectsInv, NEW d \in Deliveries, OnEventReturns(d) \/ AgainReturns(d)
  PROVE  Paid'
<1> SUFFICES ASSUME NEW k \in Keys
             PROVE  (effects[k] + Cardinality(Runners(k)) <= RowOf(k) + degraded[k])'
  BY DEF Paid
<1>1. /\ \E p \in {"commit", "record"} : Goto(d, p)
      /\ Stay /\ UNCHANGED <<processed, degraded>>
      /\ effects' = [effects EXCEPT ![Key(d)] = @ + 1]
      /\ pc[d] \in Running
      /\ Key(d) \in Keys
  BY KeyInKeys DEF OnEventReturns, AgainReturns, Affect, Running, dbVars, EffectsInv
<1>2. /\ effects[k] \in Nat /\ degraded[k] \in Nat /\ degraded'[k] = degraded[k]
      /\ effects[k] + Cardinality(Runners(k)) <= RowOf(k) + degraded[k]
      /\ RowOf(k) \in {0, 1} /\ RowOf(k)' = RowOf(k)
  BY <1>1 DEF EffectsInv, TypeOK, Paid, RowOf
<1>3. CASE k = Key(d)
  <2>1. d \in Runners(k) /\ Runners(k)' \subseteq Runners(k) \ {d}
    BY <1>1, <1>3 DEF Runners, Running, Goto, Stay, Key, EffectsInv, TypeOK
  <2>2. effects'[k] = effects[k] + 1
    BY <1>1, <1>3 DEF EffectsInv, TypeOK
  <2>3. /\ Cardinality(Runners(k)') \in Nat
        /\ Cardinality(Runners(k)') + 1 <= Cardinality(Runners(k))
    BY <2>1, RunnersLoss
  <2> QED
    BY <1>2, <2>2, <2>3, RunnersCount
<1>4. CASE k # Key(d)
  <2>1. Runners(k)' \subseteq Runners(k)
    BY <1>1, <1>4 DEF Runners, Running, Goto, Stay, Key, EffectsInv, TypeOK
  <2>2. effects'[k] = effects[k]
    BY <1>1, <1>4 DEF EffectsInv, TypeOK
  <2>3. /\ Cardinality(Runners(k)') \in Nat
        /\ Cardinality(Runners(k)') <= Cardinality(Runners(k))
    BY <2>1, RunnersKept
  <2> QED
    BY <1>2, <2>2, <2>3, RunnersCount
<1> QED
  BY <1>3, <1>4

LEMMA StepPaid == EffectsInv /\ [Next]_vars => Paid'
<1> SUFFICES ASSUME EffectsInv, [Next]_vars
             PROVE  Paid'
  OBVIOUS
<1> USE DEF Runners, Running
<1>1. ASSUME NEW d \in Deliveries, NEW e \in Events, NEW m \in {"SYNC", "ASYNC"},
             Publish(d, e, m)
      PROVE  Paid'
  <2>1. \A k \in Keys : Runners(k)' \subseteq Runners(k)
    BY <1>1 DEF Publish, Key, EffectsInv, TypeOK
  <2> QED
    BY <1>1, <2>1, PaidWhenQuiet DEF Publish, dbVars, handlerVars
<1>2. ASSUME NEW d \in Deliveries, NEW r \in Outcome, pc[d] # "idle", EndHandler(d, r)
      PROVE  \A k \in Keys : Runners(k)' \subseteq Runners(k)
  BY <1>2 DEF EndHandler, Goto, Key, EffectsInv, TypeOK
<1>3. ASSUME NEW d \in Deliveries, CheckSeen(d) \/ Record(d)
      PROVE  Paid'
  <2>1. EndHandler(d, "ok") /\ pc[d] # "idle"
    BY <1>3 DEF CheckSeen, Record
  <2>2. processed \subseteq processed' /\ UNCHANGED <<effects, degraded>>
    BY <1>3 DEF CheckSeen, Record, dbVars, handlerVars
  <2> QED
    BY <1>2, <2>1, <2>2, PaidWhenQuiet DEF Outcome
<1>4. ASSUME NEW d \in Deliveries, CheckProceeds(d) \/ MarkConflicts(d) \/ Commits(d)
      PROVE  Paid'
  <2>1. \E p \in {"mark", "commit", "record"} : Goto(d, p)
    BY <1>4 DEF CheckProceeds, MarkConflicts, Commits
  <2>2. Stay /\ processed' = processed /\ UNCHANGED <<effects, degraded>>
    BY <1>4 DEF CheckProceeds, MarkConflicts, Commits, dbVars, handlerVars
  <2>3. \A k \in Keys : Runners(k)' \subseteq Runners(k)
    BY <2>1, <2>2 DEF Goto, Stay, Key, EffectsInv, TypeOK
  <2> QED
    BY <2>2, <2>3, PaidWhenQuiet
<1>5. ASSUME NEW d \in Deliveries, OnEventThrows(d)
      PROVE  Paid'
  <2>1. \A k \in Keys : Runners(k)' \subseteq Runners(k)
    BY <1>5 DEF OnEventThrows, Goto, Stay, Key, EffectsInv, TypeOK
  <2> QED
    BY <1>5, <2>1, PaidWhenQuiet DEF OnEventThrows, dbVars
<1>6. ASSUME NEW d \in Deliveries, AgainThrows(d)
      PROVE  Paid'
  <2>1. UNCHANGED <<processed, effects, degraded>> /\ pc[d] # "idle"
    BY <1>6 DEF AgainThrows, dbVars
  <2>2. CASE attempt[d] + 1 < MaxAttempts
    <3>1. Goto(d, "check") /\ UNCHANGED <<event, turn, epoch>>
      BY <1>6, <2>2 DEF AgainThrows
    <3>2. \A k \in Keys : Runners(k)' \subseteq Runners(k)
      BY <3>1 DEF Goto, Key, EffectsInv, TypeOK
    <3> QED
      BY <2>1, <3>2, PaidWhenQuiet
  <2>3. CASE ~(attempt[d] + 1 < MaxAttempts)
    <3>1. EndHandler(d, "failed")
      BY <1>6, <2>3 DEF AgainThrows
    <3> QED
      BY <1>2, <2>1, <3>1, PaidWhenQuiet DEF Outcome
  <2> QED
    BY <2>2, <2>3
<1>7. ASSUME Crash
      PROVE  Paid'
  <2>1. \A k \in Keys : Runners(k)' \subseteq Runners(k)
    BY <1>7 DEF Crash
  <2> QED
    BY <1>7, <2>1, PaidWhenQuiet DEF Crash, dbVars, handlerVars
<1>8. CASE UNCHANGED vars
  <2>1. \A k \in Keys : Runners(k)' \subseteq Runners(k)
    BY <1>8 DEF vars, deliveryVars, Key
  <2> QED
    BY <1>8, <2>1, PaidWhenQuiet DEF vars, dbVars, handlerVars
<1>9. ASSUME NEW d \in Deliveries, MarkCreates(d) \/ MarkFails(d) \/ CommitFails(d)
      PROVE  Paid'
  BY <1>9, StartsPaid
<1>10. ASSUME NEW d \in Deliveries, OnEventReturns(d) \/ AgainReturns(d)
       PROVE  Paid'
  BY <1>10, ReturnsPaid
<1> QED
  BY <1>1, <1>3, <1>4, <1>5, <1>6, <1>7, <1>8, <1>9, <1>10 DEF Next, DeliveryStep

\* The strengthening EffectsInv is inductive, and it bounds the effects because a
\* cardinality is never negative and a row counts once.
THEOREM EffectsCorrect == Spec => []EffectsBounded
<1>1. Init => EffectsInv
  BY InitType, InitPaid DEF EffectsInv
<1>2. EffectsInv /\ [Next]_vars => EffectsInv'
  BY StepType, StepPaid DEF EffectsInv
<1>3. EffectsInv => EffectsBounded
  <2> SUFFICES ASSUME EffectsInv, NEW k \in Keys
               PROVE  effects[k] <= 1 + degraded[k]
    BY DEF EffectsBounded
  <2>1. effects[k] + Cardinality(Runners(k)) <= RowOf(k) + degraded[k]
    BY DEF EffectsInv, Paid
  <2>2. effects[k] \in Nat /\ degraded[k] \in Nat
    BY DEF EffectsInv, TypeOK
  <2>3. RowOf(k) \in {0, 1}
    BY DEF RowOf
  <2> QED
    BY <2>1, <2>2, <2>3, RunnersCount
<1> QED
  BY <1>1, <1>2, <1>3, PTL DEF Spec

-----------------------------------------------------------------------------
\* Rows.  A row that is neither explained by an effect nor by an error has a delivery at
\* onEvent; that is stronger than a delivery at work on the key, and unlike it, it is kept
\* when another delivery of the same event finds the row and goes on.

Explained(k) ==
  \/ effects[k] > 0
  \/ k \in thrown
  \/ k[3] < epoch
  \/ \E d \in Deliveries : pc[d] = "onEvent" /\ Key(d) = k

\* Who has left onEvent has completed it, or had found the row of somebody else.
Finishing(d) ==
  pc[d] \in {"commit", "record"} => effects[Key(d)] > 0 \/ Key(d) \in processed

RowsInv == /\ TypeOK
           /\ \A k \in processed : k[3] <= epoch /\ Explained(k)
           /\ \A d \in Deliveries : Finishing(d)

\* A step that creates no row and takes nobody from onEvent.
LEMMA RowsWhenQuiet ==
  ASSUME RowsInv, TypeOK', processed' = processed, UNCHANGED <<effects, epoch>>,
         thrown \subseteq thrown',
         NEW d \in Deliveries, \A x \in Deliveries \ {d} : pc'[x] = pc[x] /\ Key(x)' = Key(x),
         pc[d] # "onEvent" \/ Key(d) \in thrown',
         Finishing(d)'
  PROVE  RowsInv'
<1>1. ASSUME NEW k \in processed
      PROVE  Explained(k)'
  <2>1. Explained(k)
    BY <1>1 DEF RowsInv
  <2>2. CASE \E x \in Deliveries : pc[x] = "onEvent" /\ Key(x) = k
    <3>1. PICK x \in Deliveries : pc[x] = "onEvent" /\ Key(x) = k
      BY <2>2
    <3>2. CASE x = d
      BY <3>1, <3>2 DEF Explained
    <3>3. CASE x # d
      <4>1. pc'[x] = "onEvent" /\ Key(x)' = k
        BY <3>1, <3>3
      <4> QED
        BY <4>1 DEF Explained
    <3> QED
      BY <3>2, <3>3
  <2> QED
    BY <2>1, <2>2 DEF Explained
<1>2. ASSUME NEW x \in Deliveries \ {d}
      PROVE  Finishing(x)'
  <2>1. pc'[x] = pc[x] /\ Key(x)' = Key(x) /\ Finishing(x)
    BY <1>2 DEF RowsInv
  <2> QED
    BY <2>1 DEF Finishing
<1> QED
  BY <1>1, <1>2 DEF RowsInv

LEMMA StepRows == RowsInv /\ [Next]_vars => RowsInv'
<1> SUFFICES ASSUME RowsInv, [Next]_vars
             PROVE  RowsInv'
  OBVIOUS
<1>0. TypeOK /\ TypeOK'
  BY StepType DEF RowsInv
<1>1. ASSUME NEW d \in Deliveries, NEW e \in Events, NEW m \in {"SYNC", "ASYNC"},
             Publish(d, e, m)
      PROVE  RowsInv'
  <2>1. pc[d] # "onEvent" /\ Finishing(d)'
    BY <1>0, <1>1 DEF Publish, Finishing, TypeOK
  <2>2. \A x \in Deliveries \ {d} : pc'[x] = pc[x] /\ Key(x)' = Key(x)
    BY <1>0, <1>1 DEF Publish, TypeOK, Key
  <2> QED
    BY <1>0, <1>1, <2>1, <2>2, RowsWhenQuiet DEF Publish, dbVars, handlerVars
<1>2. ASSUME NEW d \in Deliveries, NEW r \in Outcome, EndHandler(d, r)
      PROVE  /\ \A x \in Deliveries \ {d} : pc'[x] = pc[x] /\ Key(x)' = Key(x)
             /\ Finishing(d)' /\ epoch' = epoch
  BY <1>0, <1>2 DEF EndHandler, Goto, Key, TypeOK, Finishing
<1>3. ASSUME NEW d \in Deliveries, NEW p, Goto(d, p), UNCHANGED <<event, turn, epoch>>
      PROVE  /\ \A x \in Deliveries : Key(x)' = Key(x)
             /\ \A x \in Deliveries \ {d} : pc'[x] = pc[x]
             /\ pc'[d] = p
  BY <1>0, <1>3 DEF Goto, Key, TypeOK
<1>4. ASSUME NEW d \in Deliveries, CheckSeen(d)
      PROVE  RowsInv'
  BY <1>0, <1>2, <1>4, RowsWhenQuiet DEF CheckSeen, Outcome, dbVars, handlerVars
<1>5. ASSUME NEW d \in Deliveries, CheckProceeds(d) \/ MarkFails(d) \/ CommitFails(d)
      PROVE  RowsInv'
  <2>1. PICK p \in {"mark", "again"} : Goto(d, p)
    BY <1>5 DEF CheckProceeds, MarkFails, CommitFails
  <2>2. UNCHANGED <<event, turn, epoch, processed, effects, thrown>> /\ pc[d] # "onEvent"
    BY <1>5 DEF CheckProceeds, MarkFails, CommitFails, Stay, handlerVars
  <2>3. Finishing(d)'
    BY <1>3, <2>1, <2>2 DEF Finishing
  <2> QED
    BY <1>0, <1>3, <2>1, <2>2, <2>3, RowsWhenQuiet
<1>6. ASSUME NEW d \in Deliveries, MarkConflicts(d) \/ Commits(d)
      PROVE  RowsInv'
  <2>1. PICK p \in {"commit", "record"} : Goto(d, p)
    BY <1>6 DEF MarkConflicts, Commits
  <2>2. UNCHANGED <<event, turn, epoch, processed, effects, thrown>> /\ pc[d] # "onEvent"
    BY <1>6 DEF MarkConflicts, Commits, Stay, handlerVars, dbVars
  <2>3. effects[Key(d)] > 0 \/ Key(d) \in processed
    BY <1>6 DEF MarkConflicts, Commits, RowsInv, Finishing
  <2>4. Finishing(d)'
    BY <1>3, <2>1, <2>2, <2>3 DEF Finishing
  <2> QED
    BY <1>0, <1>3, <2>1, <2>2, <2>4, RowsWhenQuiet
<1>7. ASSUME NEW d \in Deliveries, MarkCreates(d)
      PROVE  RowsInv'
  <2>1. Goto(d, "onEvent") /\ UNCHANGED <<event, turn, epoch, effects, thrown>>
    BY <1>7 DEF MarkCreates, Stay, handlerVars
  <2>2. pc[d] = "mark" /\ processed' = processed \cup {Key(d)}
    BY <1>7 DEF MarkCreates
  <2>3. /\ \A x \in Deliveries : Key(x)' = Key(x)
        /\ \A x \in Deliveries : pc[x] = "onEvent" => pc'[x] = "onEvent"
        /\ pc'[d] = "onEvent"
        /\ \A x \in Deliveries \ {d} : pc'[x] = pc[x]
    BY <1>3, <2>1, <2>2
  <2>4. ASSUME NEW k \in processed'
        PROVE  k[3] <= epoch' /\ Explained(k)'
    <3>1. CASE k = Key(d)
      <4>1. Key(d)[3] = epoch /\ epoch \in Nat
        BY <1>0, DeliveryAssumption DEF Key, TypeOK, Epochs
      <4>2. pc'[d] = "onEvent" /\ Key(d)' = k
        BY <2>3, <3>1
      <4> QED
        BY <2>1, <3>1, <4>1, <4>2 DEF Explained
    <3>2. CASE k \in processed
      <4>1. k[3] <= epoch /\ Explained(k)
        BY <3>2 DEF RowsInv
      <4>2. CASE \E x \in Deliveries : pc[x] = "onEvent" /\ Key(x) = k
        BY <2>1, <2>3, <4>1, <4>2 DEF Explained
      <4> QED
        BY <2>1, <4>1, <4>2 DEF Explained
    <3> QED
      BY <2>2, <3>1, <3>2
  <2>5. ASSUME NEW x \in Deliveries
        PROVE  Finishing(x)'
    <3>1. Finishing(x) /\ Key(x)' = Key(x) /\ (pc'[x] = pc[x] \/ pc'[x] = "onEvent")
      BY <2>3 DEF RowsInv
    <3> QED
      BY <2>1, <2>2, <3>1 DEF Finishing
  <2> QED
    BY <1>0, <2>4, <2>5 DEF RowsInv
<1>8. ASSUME NEW d \in Deliveries, OnEventReturns(d) \/ AgainReturns(d)
      PROVE  RowsInv'
  <2>1. PICK p \in {"commit", "record"} : Goto(d, p)
    BY <1>8 DEF OnEventReturns, AgainReturns
  <2>2. /\ UNCHANGED <<event, turn, epoch, processed, thrown>>
        /\ effects' = [effects EXCEPT ![Key(d)] = @ + 1]
        /\ pc[d] # "idle"
    BY <1>8 DEF OnEventReturns, AgainReturns, Stay, Affect, dbVars
  <2>3. /\ \A k \in Keys : effects'[k] >= effects[k]
        /\ effects'[Key(d)] > 0
    BY <1>0, <2>2, KeyInKeys DEF TypeOK
  <2>4. /\ \A x \in Deliveries : Key(x)' = Key(x)
        /\ \A x \in Deliveries \ {d} : pc'[x] = pc[x]
    BY <1>3, <2>1, <2>2
  <2>5. ASSUME NEW k \in processed
        PROVE  k[3] <= epoch' /\ Explained(k)'
    <3>1. k[3] <= epoch /\ Explained(k) /\ k \in Keys
      BY <1>0 DEF RowsInv, TypeOK
    <3>2. effects[k] > 0 => effects'[k] > 0
      BY <1>0, <2>3, <3>1 DEF TypeOK
    <3>3. CASE \E x \in Deliveries : pc[x] = "onEvent" /\ Key(x) = k
      <4>1. PICK x \in Deliveries : pc[x] = "onEvent" /\ Key(x) = k
        BY <3>3
      <4>2. x # d \/ effects'[k] > 0
        BY <2>3, <4>1
      <4> QED
        BY <2>2, <2>4, <3>1, <4>1, <4>2 DEF Explained
    <3> QED
      BY <2>2, <3>1, <3>2, <3>3 DEF Explained
  <2>6. ASSUME NEW x \in Deliveries
        PROVE  Finishing(x)'
    <3>1. CASE x = d
      BY <2>3, <2>4, <3>1 DEF Finishing
    <3>2. CASE x # d
      <4>1. Finishing(x) /\ Key(x)' = Key(x) /\ pc'[x] = pc[x]
        BY <2>4, <3>2 DEF RowsInv
      <4>2. pc[x] # "idle" => effects'[Key(x)] >= effects[Key(x)] /\ effects[Key(x)] \in Nat
                              /\ effects'[Key(x)] \in Nat
        BY <1>0, <2>3, KeyInKeys DEF TypeOK
      <4> QED
        BY <2>2, <4>1, <4>2 DEF Finishing
    <3> QED
      BY <3>1, <3>2
  <2> QED
    BY <1>0, <2>2, <2>5, <2>6 DEF RowsInv
<1>9. ASSUME NEW d \in Deliveries, OnEventThrows(d)
      PROVE  RowsInv'
  <2>1. /\ Goto(d, "again") /\ UNCHANGED <<event, turn, epoch, processed, effects>>
        /\ thrown' = thrown \cup {Key(d)}
    BY <1>9 DEF OnEventThrows, Stay, dbVars
  <2>2. Finishing(d)'
    BY <1>3, <2>1 DEF Finishing
  <2> QED
    BY <1>0, <1>3, <2>1, <2>2, RowsWhenQuiet
<1>10. ASSUME NEW d \in Deliveries, AgainThrows(d)
       PROVE  RowsInv'
  <2>1. UNCHANGED <<processed, effects>> /\ thrown \subseteq thrown' /\ pc[d] # "onEvent"
    BY <1>10 DEF AgainThrows, dbVars
  <2>2. CASE attempt[d] + 1 < MaxAttempts
    <3>1. Goto(d, "check") /\ UNCHANGED <<event, turn, epoch>>
      BY <1>10, <2>2 DEF AgainThrows
    <3>2. Finishing(d)'
      BY <1>3, <3>1 DEF Finishing
    <3> QED
      BY <1>0, <1>3, <2>1, <3>1, <3>2, RowsWhenQuiet
  <2>3. CASE ~ (attempt[d] + 1 < MaxAttempts)
    <3>1. EndHandler(d, "failed")
      BY <1>10, <2>3 DEF AgainThrows
    <3> QED
      BY <1>0, <1>2, <2>1, <3>1, RowsWhenQuiet DEF Outcome
  <2> QED
    BY <2>2, <2>3
<1>11. ASSUME NEW d \in Deliveries, Record(d)
       PROVE  RowsInv'
  <2>1. /\ EndHandler(d, "ok") /\ UNCHANGED <<effects, thrown>> /\ pc[d] = "record"
        /\ processed' \in {processed, processed \cup {Key(d)}}
    BY <1>11 DEF Record, handlerVars
  <2>2. /\ \A x \in Deliveries \ {d} : pc'[x] = pc[x] /\ Key(x)' = Key(x)
        /\ Finishing(d)' /\ epoch' = epoch
    BY <1>2, <2>1 DEF Outcome
  <2>3. CASE processed' = processed
    BY <1>0, <2>1, <2>2, <2>3, RowsWhenQuiet
  <2>4. CASE processed' = processed \cup {Key(d)}
    <3>1. Key(d)[3] = epoch /\ epoch \in Nat
      BY <1>0, DeliveryAssumption DEF Key, TypeOK, Epochs
    <3>2. Key(d) \in processed \/ effects[Key(d)] > 0
      BY <2>1 DEF RowsInv, Finishing
    <3>3. \A k \in processed' : k[3] <= epoch /\ Explained(k)
      BY <2>4, <3>1, <3>2 DEF RowsInv, Explained
    <3>4. ASSUME NEW k \in processed'
          PROVE  Explained(k)'
      <4>1. CASE \E x \in Deliveries : pc[x] = "onEvent" /\ Key(x) = k
        BY <2>1, <2>2, <4>1 DEF Explained
      <4> QED
        BY <2>1, <2>2, <3>3, <4>1 DEF Explained
    <3>5. ASSUME NEW x \in Deliveries \ {d}
          PROVE  Finishing(x)'
      <4>1. pc'[x] = pc[x] /\ Key(x)' = Key(x) /\ Finishing(x)
        BY <2>2 DEF RowsInv
      <4> QED
        BY <2>1, <2>4, <4>1 DEF Finishing
    <3> QED
      BY <1>0, <2>2, <3>3, <3>4, <3>5 DEF RowsInv
  <2> QED
    BY <2>1, <2>3, <2>4
<1>12. ASSUME Crash
       PROVE  RowsInv'
  <2>1. /\ epoch' = epoch + 1 /\ processed' = processed
        /\ \A x \in Deliveries : pc'[x] \in {"idle", "done", "lost"}
    BY <1>12 DEF Crash, dbVars
  <2>2. ASSUME NEW k \in processed
        PROVE  k[3] <= epoch' /\ Explained(k)'
    <3>1. k[3] <= epoch /\ k[3] \in Int /\ epoch \in Int
      BY <1>0, DeliveryAssumption DEF RowsInv, TypeOK, Keys, Epochs
    <3>2. k[3] < epoch'
      BY <2>1, <3>1
    <3> QED
      BY <2>1, <3>1, <3>2 DEF Explained
  <2> QED
    BY <1>0, <2>1, <2>2 DEF RowsInv, Finishing
<1>13. CASE UNCHANGED vars
  BY <1>0, <1>13 DEF vars, deliveryVars, dbVars, handlerVars, RowsInv, Explained, Finishing, Key
<1> QED
  BY <1>1, <1>4, <1>5, <1>6, <1>7, <1>8, <1>9, <1>10, <1>11, <1>12, <1>13
     DEF Next, DeliveryStep

\* Whatever deliveries overlap, fail and crash: a row of ProcessedEvents, which hides its
\* event from the handler for ever, belongs to an event that was handled, is being handled,
\* or was lost to an error of onEvent or to the end of the process
\* (BaseEventHandler.handle, base-event-handler.ts:53-103).
THEOREM RowsCorrect == Spec => []RowsAccountedFor
<1>1. Init => RowsInv
  BY InitType DEF RowsInv, Init, Finishing
<1>2. RowsInv => RowsAccountedFor
  BY DEF RowsInv, Explained, RowsAccountedFor, Working
<1> QED
  BY <1>1, <1>2, StepRows, PTL DEF Spec

-----------------------------------------------------------------------------
\* Turns.  What becomes of a handler once a delivery has gone past it.

Settled(e, h) ==
  \/ \E ep \in Epochs : effects[<<e, h, ep>>] > 0
  \/ \E k \in thrown : k[1] = e /\ k[2] = h
  \/ \E d \in Deliveries : event[d] = e /\ pc[d] = "lost"
  \/ \E d \in Deliveries : event[d] = e /\ turn[d] = h /\ pc[d] = "onEvent"

TurnOver(d, h) == pc[d] # "idle" /\ (h < turn[d] \/ pc[d] = "done")

TurnsInv ==
  /\ RowsInv
  /\ \A d \in Deliveries : pc[d] = "idle" => turn[d] = 1
  /\ \A d \in Deliveries, h \in Handlers : TurnOver(d, h) => Settled(event[d], h)

\* What no step takes back: an effect, an error, a loss; and onEvent ends in one of them.
Moves(d) ==
  /\ pc[d] # "idle" => pc'[d] # "idle" /\ event'[d] = event[d]
  /\ pc[d] = "lost" => pc'[d] = "lost"
  /\ pc[d] = "onEvent" => \/ pc'[d] = "onEvent" /\ turn'[d] = turn[d]
                          \/ pc'[d] = "lost"
                          \/ effects'[Key(d)] > 0
                          \/ Key(d) \in thrown'

LEMMA StepMoves ==
  ASSUME TypeOK, [Next]_vars
  PROVE  /\ \A k \in Keys : effects[k] > 0 => effects'[k] > 0
         /\ thrown \subseteq thrown'
         /\ \A d \in Deliveries : Moves(d)
<1>1. ASSUME NEW x \in Deliveries, NEW e \in Events, NEW m \in {"SYNC", "ASYNC"},
             Publish(x, e, m)
      PROVE  /\ UNCHANGED handlerVars
             /\ \A d \in Deliveries : Moves(d)
  BY <1>1 DEF Publish, TypeOK, Moves
<1>2. ASSUME NEW x \in Deliveries, NEW r \in Outcome, EndHandler(x, r),
             pc[x] \in {"check", "again", "record"}
      PROVE  \A d \in Deliveries : Moves(d)
  BY <1>2 DEF EndHandler, Goto, TypeOK, Moves
<1>3. ASSUME NEW x \in Deliveries, NEW p, Goto(x, p), p # "idle", UNCHANGED <<event, turn>>,
             pc[x] \notin {"onEvent", "lost"} \/ effects'[Key(x)] > 0 \/ Key(x) \in thrown',
             pc[x] # "lost"
      PROVE  \A d \in Deliveries : Moves(d)
  BY <1>3 DEF Goto, TypeOK, Moves
<1>4. ASSUME NEW x \in Deliveries, CheckSeen(x) \/ Record(x)
      PROVE  /\ UNCHANGED handlerVars
             /\ \A d \in Deliveries : Moves(d)
  BY <1>2, <1>4 DEF CheckSeen, Record, Outcome
<1>5. ASSUME NEW x \in Deliveries,
             \/ CheckProceeds(x) \/ MarkCreates(x) \/ MarkConflicts(x) \/ MarkFails(x)
             \/ Commits(x) \/ CommitFails(x)
      PROVE  /\ UNCHANGED <<effects, thrown>>
             /\ \A d \in Deliveries : Moves(d)
  <2>1. UNCHANGED <<effects, thrown, event, turn>> /\ pc[x] \notin {"onEvent", "lost"}
    BY <1>5 DEF CheckProceeds, MarkCreates, MarkConflicts, MarkFails, Commits, CommitFails,
                Stay, handlerVars
  <2>2. \E p \in {"mark", "onEvent", "commit", "again", "record"} : Goto(x, p)
    BY <1>5 DEF CheckProceeds, MarkCreates, MarkConflicts, MarkFails, Commits, CommitFails
  <2> QED
    BY <1>3, <2>1, <2>2
<1>6. ASSUME NEW x \in Deliveries, OnEventReturns(x) \/ AgainReturns(x)
      PROVE  /\ \A k \in Keys : effects[k] > 0 => effects'[k] > 0
             /\ thrown' = thrown
             /\ \A d \in Deliveries : Moves(d)
  <2>1. /\ UNCHANGED <<event, turn, thrown>>
        /\ effects' = [effects EXCEPT ![Key(x)] = @ + 1]
        /\ pc[x] \notin {"idle", "lost"}
        /\ \E p \in {"commit", "record"} : Goto(x, p)
    BY <1>6 DEF OnEventReturns, AgainReturns, Stay, Affect
  <2>2. effects'[Key(x)] > 0 /\ \A k \in Keys : effects[k] > 0 => effects'[k] > 0
    BY <2>1, KeyInKeys DEF TypeOK
  <2> QED
    BY <1>3, <2>1, <2>2
<1>7. ASSUME NEW x \in Deliveries, OnEventThrows(x)
      PROVE  /\ effects' = effects /\ thrown \subseteq thrown'
             /\ \A d \in Deliveries : Moves(d)
  <2>1. /\ UNCHANGED <<event, turn, effects>> /\ thrown' = thrown \cup {Key(x)}
        /\ pc[x] # "lost" /\ Goto(x, "again")
    BY <1>7 DEF OnEventThrows, Stay
  <2> QED
    BY <1>3, <2>1
<1>8. ASSUME NEW x \in Deliveries, AgainThrows(x)
      PROVE  /\ effects' = effects /\ thrown \subseteq thrown'
             /\ \A d \in Deliveries : Moves(d)
  <2>1. UNCHANGED effects /\ thrown' = thrown \cup {Key(x)} /\ pc[x] = "again"
    BY <1>8 DEF AgainThrows
  <2>2. CASE attempt[x] + 1 < MaxAttempts
    BY <1>3, <1>8, <2>1, <2>2 DEF AgainThrows
  <2>3. CASE ~ (attempt[x] + 1 < MaxAttempts)
    BY <1>2, <1>8, <2>1, <2>3 DEF AgainThrows, Outcome
  <2> QED
    BY <2>1, <2>2, <2>3
<1>9. CASE Crash
  BY <1>9 DEF Crash, TypeOK, Moves, handlerVars
<1>10. CASE UNCHANGED vars
  BY <1>10 DEF vars, deliveryVars, handlerVars, Moves
<1> QED
  BY <1>1, <1>4, <1>5, <1>6, <1>7, <1>8, <1>9, <1>10
     DEF Next, DeliveryStep, handlerVars

\* A step of a delivery is a step of a running one, counts no other runs than its own, and
\* moves nobody else.
LEMMA StepIsLocal ==
  ASSUME TypeOK, NEW d \in Deliveries, DeliveryStep(d)
  PROVE  /\ UNCHANGED <<event, epoch>>
         /\ pc[d] \notin {"idle", "done", "lost"} /\ pc'[d] # "idle"
         /\ \A x \in Deliveries \ {d} : pc'[x] = pc[x]
         /\ \A k \in Keys \ {Key(d)} : effects'[k] = effects[k]
<1>1. UNCHANGED <<event, epoch>>
  BY DEF DeliveryStep, CheckSeen, CheckProceeds, MarkCreates, MarkConflicts, MarkFails,
         OnEventReturns, OnEventThrows, Commits, CommitFails, AgainReturns, AgainThrows,
         Record, Stay, EndHandler
<1>2. pc[d] \in {"check", "mark", "onEvent", "commit", "again", "record"}
  BY DEF DeliveryStep, CheckSeen, CheckProceeds, MarkCreates, MarkConflicts, MarkFails,
         OnEventReturns, OnEventThrows, Commits, CommitFails, AgainReturns, AgainThrows,
         Record
<1>3. PICK p \in DeliveryState \ {"idle"} : pc' = [pc EXCEPT ![d] = p]
  BY DEF DeliveryStep, CheckSeen, CheckProceeds, MarkCreates, MarkConflicts, MarkFails,
         OnEventReturns, OnEventThrows, Commits, CommitFails, AgainReturns, AgainThrows,
         Record, EndHandler, Goto, DeliveryState
<1>4. effects' = effects \/ effects' = [effects EXCEPT ![Key(d)] = @ + 1]
  BY DEF DeliveryStep, CheckSeen, CheckProceeds, MarkCreates, MarkConflicts, MarkFails,
         OnEventReturns, OnEventThrows, Commits, CommitFails, AgainReturns, AgainThrows,
         Record, Affect, handlerVars
<1> QED
  BY <1>1, <1>2, <1>3, <1>4 DEF TypeOK

LEMMA SettledKept ==
  ASSUME TypeOK, [Next]_vars, NEW e \in Events, NEW h \in Handlers, Settled(e, h)
  PROVE  Settled(e, h)'
<1>0. /\ \A k \in Keys : effects[k] > 0 => effects'[k] > 0
      /\ thrown \subseteq thrown'
      /\ \A d \in Deliveries : Moves(d)
  BY StepMoves
<1>1. CASE \E ep \in Epochs : effects[<<e, h, ep>>] > 0
  BY <1>0, <1>1 DEF Settled, Keys
<1>2. CASE \E k \in thrown : k[1] = e /\ k[2] = h
  BY <1>0, <1>2 DEF Settled
<1>3. CASE \E d \in Deliveries : event[d] = e /\ pc[d] = "lost"
  BY <1>0, <1>3 DEF Settled, Moves
<1>4. CASE \E d \in Deliveries : event[d] = e /\ turn[d] = h /\ pc[d] = "onEvent"
  <2>1. PICK d \in Deliveries : event[d] = e /\ turn[d] = h /\ pc[d] = "onEvent"
    BY <1>4
  <2>2. Key(d) = <<e, h, epoch>> /\ epoch \in Epochs /\ event'[d] = e
    BY <1>0, <2>1 DEF Key, TypeOK, Moves
  <2>3. \/ pc'[d] = "onEvent" /\ turn'[d] = h
        \/ pc'[d] = "lost"
        \/ effects'[<<e, h, epoch>>] > 0
        \/ <<e, h, epoch>> \in thrown'
    BY <1>0, <2>1, <2>2 DEF Moves
  <2> QED
    BY <2>2, <2>3 DEF Settled
<1> QED
  BY <1>1, <1>2, <1>3, <1>4 DEF Settled

\* The turn of a handler ends when its delivery has found the row, has written it, or has
\* used up its attempts.
Ends(d, h) ==
  /\ turn[d] = h /\ pc[d] # "idle"
  /\ Key(d) \in processed \/ pc[d] = "record" \/ Key(d) \in thrown'

LEMMA HandlerEnds ==
  ASSUME TypeOK, NEW x \in Deliveries, NEW r \in Outcome, EndHandler(x, r), pc[x] # "idle",
         Key(x) \in processed \/ pc[x] = "record" \/ Key(x) \in thrown',
         NEW d \in Deliveries, NEW h \in Handlers, TurnOver(d, h)'
  PROVE  TurnOver(d, h) \/ Ends(d, h)
<1>1. CASE x # d
  <2>1. turn'[d] = turn[d] /\ pc'[d] = pc[d]
    BY <1>1 DEF EndHandler, Goto, TypeOK
  <2> QED
    BY <2>1 DEF TurnOver
<1>2. CASE x = d
  <2>1. h \in Nat /\ h <= NumHandlers /\ turn[d] \in Nat /\ NumHandlers \in Nat
    BY DeliveryAssumption DEF Handlers, TypeOK
  <2>2. CASE turn[d] = NumHandlers
    <3>1. h < turn[d] \/ h = turn[d]
      BY <2>1, <2>2
    <3> QED
      BY <1>2, <3>1 DEF TurnOver, Ends
  <2>3. CASE turn[d] # NumHandlers
    <3>1. turn'[d] = turn[d] + 1 /\ pc'[d] = "check"
      BY <1>2, <2>3 DEF EndHandler, Goto, TypeOK
    <3>2. h < turn[d] + 1
      BY <3>1 DEF TurnOver
    <3>3. h < turn[d] \/ h = turn[d]
      BY <2>1, <3>2
    <3> QED
      BY <1>2, <3>3 DEF TurnOver, Ends
  <2> QED
    BY <2>2, <2>3
<1> QED
  BY <1>1, <1>2

LEMMA TurnEnds ==
  ASSUME TurnsInv, [Next]_vars, NEW d \in Deliveries, NEW h \in Handlers, TurnOver(d, h)'
  PROVE  TurnOver(d, h) \/ Ends(d, h)
<1>0. TypeOK /\ (pc[d] = "idle" => turn[d] = 1) /\ ~ (h < 1)
  BY DeliveryAssumption DEF TurnsInv, RowsInv, Handlers
<1>1. ASSUME NEW x \in Deliveries, NEW p, p # "done", pc' = [pc EXCEPT ![x] = p],
             turn' = turn
      PROVE  TurnOver(d, h)
  BY <1>0, <1>1 DEF TurnOver, TypeOK
<1>2. ASSUME NEW x \in Deliveries, NEW e \in Events, NEW m \in {"SYNC", "ASYNC"},
             Publish(x, e, m)
      PROVE  TurnOver(d, h)
  BY <1>1, <1>2 DEF Publish
<1>3. ASSUME NEW x \in Deliveries, DeliveryStep(x)
      PROVE  TurnOver(d, h) \/ Ends(d, h)
  <2>1. CASE CheckSeen(x) \/ Record(x)
    BY <1>0, <2>1, HandlerEnds DEF CheckSeen, Record, Outcome
  <2>2. CASE AgainThrows(x)
    <3>1. pc[x] = "again" /\ Key(x) \in thrown'
      BY <2>2 DEF AgainThrows
    <3>2. CASE attempt[x] + 1 < MaxAttempts
      BY <1>1, <2>2, <3>2 DEF AgainThrows, Goto
    <3>3. CASE ~ (attempt[x] + 1 < MaxAttempts)
      BY <1>0, <2>2, <3>1, <3>3, HandlerEnds DEF AgainThrows, Outcome
    <3> QED
      BY <3>2, <3>3
  <2>3. CASE \/ CheckProceeds(x) \/ MarkCreates(x) \/ MarkConflicts(x) \/ MarkFails(x)
             \/ OnEventReturns(x) \/ OnEventThrows(x) \/ Commits(x) \/ CommitFails(x)
             \/ AgainReturns(x)
    <3>1. Stay
      BY <2>3 DEF CheckProceeds, MarkCreates, MarkConflicts, MarkFails, OnEventReturns,
                  OnEventThrows, Commits, CommitFails, AgainReturns
    <3>2. \E p \in {"mark", "onEvent", "commit", "again", "record"} : Goto(x, p)
      BY <2>3 DEF CheckProceeds, MarkCreates, MarkConflicts, MarkFails, OnEventReturns,
                  OnEventThrows, Commits, CommitFails, AgainReturns
    <3> QED
      BY <1>1, <3>1, <3>2 DEF Stay, Goto
  <2> QED
    BY <1>3, <2>1, <2>2, <2>3 DEF DeliveryStep
<1>4. CASE Crash
  BY <1>0, <1>4 DEF Crash, TurnOver, TypeOK
<1>5. CASE UNCHANGED vars
  BY <1>5 DEF vars, deliveryVars, TurnOver
<1> QED
  BY <1>2, <1>3, <1>4, <1>5 DEF Next

LEMMA InitTurns == Init => TurnsInv
BY InitType DEF TurnsInv, RowsInv, Init, Finishing, TurnOver

LEMMA StepTurns == TurnsInv /\ [Next]_vars => TurnsInv'
<1> SUFFICES ASSUME TurnsInv, [Next]_vars
             PROVE  TurnsInv'
  OBVIOUS
<1>0. TypeOK /\ TypeOK' /\ RowsInv /\ RowsInv'
  BY StepType, StepRows DEF TurnsInv, RowsInv
<1>1. ASSUME NEW d \in Deliveries, NEW h \in Handlers, TurnOver(d, h)'
      PROVE  Settled(event[d], h)'
  <2>0. pc[d] # "idle"
    BY <1>1, TurnEnds DEF TurnOver, Ends
  <2> PICK e \in Events : e = event[d] /\ e = event'[d]
    BY <1>0, <2>0, StepMoves DEF TypeOK, Moves
  <2>1. CASE TurnOver(d, h)
    <3>1. Settled(e, h)
      BY <2>1 DEF TurnsInv
    <3>2. Settled(e, h)'
      BY <1>0, <3>1, SettledKept
    <3> QED
      BY <3>2 DEF Settled
  <2>2. CASE Ends(d, h)
    <3>2. Key(d) = <<e, h, epoch>> /\ epoch \in Epochs
      BY <1>0, <2>2 DEF Ends, Key, TypeOK
    <3>3. CASE Key(d) \in thrown'
      BY <3>2, <3>3 DEF Settled
    <3>4. CASE Key(d) \notin thrown'
      <4>1. Key(d) \in processed \/ effects[Key(d)] > 0
        BY <1>0, <2>2, <3>4 DEF Ends, RowsInv, Finishing
      <4>2. Explained(Key(d))
        BY <1>0, <4>1 DEF RowsInv, Explained
      <4>3. ~ (Key(d)[3] < epoch)
        BY <3>2, DeliveryAssumption DEF Epochs
      <4>4. \A x \in Deliveries : Key(x) = Key(d) => event[x] = e /\ turn[x] = h
        BY <3>2 DEF Key
      <4>5. Settled(e, h)
        BY <3>2, <4>2, <4>3, <4>4 DEF Explained, Settled
      <4>6. Settled(e, h)'
        BY <1>0, <4>5, SettledKept
      <4> QED
        BY <4>6 DEF Settled
    <3> QED
      BY <3>3, <3>4
  <2> QED
    BY <1>1, <2>1, <2>2, TurnEnds
<1>2. ASSUME NEW d \in Deliveries, pc'[d] = "idle"
      PROVE  turn'[d] = 1
  <2>1. pc[d] = "idle" /\ turn[d] = 1
    BY <1>0, <1>2, StepMoves DEF TurnsInv, Moves
  <2>2. turn'[d] = turn[d]
    <3>1. ASSUME NEW x \in Deliveries, NEW r, EndHandler(x, r), pc[x] # "idle"
          PROVE  turn'[d] = turn[d]
      BY <1>0, <2>1, <3>1 DEF EndHandler, TypeOK
    <3>2. ASSUME NEW x \in Deliveries, DeliveryStep(x)
          PROVE  turn'[d] = turn[d]
      BY <3>1, <3>2
         DEF DeliveryStep, CheckSeen, CheckProceeds, MarkCreates, MarkConflicts, MarkFails,
             OnEventReturns, OnEventThrows, Commits, CommitFails, AgainReturns, AgainThrows,
             Record, Stay
    <3> QED
      BY <3>2 DEF Next, Publish, Crash, vars, deliveryVars
  <2> QED
    BY <2>1, <2>2
<1> QED
  BY <1>0, <1>1, <1>2 DEF TurnsInv

\* However deliveries overlap, retry and crash: no handler's turn passes without the handler
\* having acted on the event or thrown, unless a delivery of it was lost or still runs the
\* handler (dispatchSync and dispatchAsync, event-dispatcher.ts:51-121).
TurnsSettled ==
  \A d \in Deliveries, h \in Handlers : TurnOver(d, h) => Settled(event[d], h)

THEOREM TurnsCorrect == Spec => []TurnsSettled
<1>1. TurnsInv => TurnsSettled
  BY DEF TurnsInv, TurnsSettled
<1> QED
  BY <1>1, InitTurns, StepTurns, PTL DEF Spec

=============================================================================
