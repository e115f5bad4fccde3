------------------------- MODULE LlmGateway_proofs -------------------------
(* Proofs about LlmGateway: type correctness, what the breakers count, the  *)
(* transitions they make, the pause they are given, and how requests end.  *)
EXTENDS LlmGateway, FiniteSetTheorems, TLAPS

-----------------------------------------------------------------------------
\* The breaker's methods.

LEMMA BreakerMethods ==
  ASSUME TypeOK, NEW b \in Breaker
  PROVE  /\ Asked(b) \in Breaker
         /\ RecordSuccess(b) \in Breaker
         /\ RecordFailure(b) \in Breaker
         /\ Asked(RecordFailure(b)) = RecordFailure(b)
<1> USE GatewayAssumption
<1>1. clock \in Nat
  BY DEF TypeOK
<1>2. Asked(b) \in Breaker
  BY <1>1 DEF Asked, Breaker
<1>3. RecordSuccess(b) \in Breaker
  BY DEF RecordSuccess, Tested, FreshBreaker, Breaker
<1>4. RecordFailure(b) \in Breaker
  BY <1>1 DEF RecordFailure, Breaker
<1>5. Asked(RecordFailure(b)) = RecordFailure(b)
  <2>1. ~(RecordFailure(b).state = "OPEN" /\ IsAvailable(RecordFailure(b)))
    BY <1>1 DEF RecordFailure, IsAvailable, Breaker
  <2> QED
    BY <2>1 DEF Asked
<1> QED
  BY <1>2, <1>3, <1>4, <1>5

LEMMA AskedAllType ==
  ASSUME TypeOK, NEW bs \in [Providers -> Breaker], NEW S
  PROVE  AskedAll(bs, S) \in [Providers -> Breaker]
<1>1. ASSUME NEW p \in Providers
      PROVE  (IF p \in S THEN Asked(bs[p]) ELSE bs[p]) \in Breaker
  BY BreakerMethods
<1> QED
  BY <1>1 DEF AskedAll

LEMMA AnswerType ==
  ASSUME TypeOK, NEW p \in Providers
  PROVE  /\ Succeeded(p) \in [Providers -> Breaker]
         /\ Failed(p) \in [Providers -> Breaker]
         /\ Succeeded(p)[p] = RecordSuccess(breaker[p])
         /\ Failed(p)[p] = RecordFailure(breaker[p])
         /\ \A q \in Providers \ {p} : /\ Succeeded(p)[q] = breaker[q]
                                       /\ Failed(p)[q] = breaker[q]
<1>1. breaker \in [Providers -> Breaker] /\ breaker[p] \in Breaker
  BY DEF TypeOK
<1>2. RecordSuccess(breaker[p]) \in Breaker /\ RecordFailure(breaker[p]) \in Breaker
  BY <1>1, BreakerMethods
<1>3. Succeeded(p) = [breaker EXCEPT ![p] = RecordSuccess(breaker[p])]
  BY DEF Succeeded
<1>4. Failed(p) = [breaker EXCEPT ![p] = RecordFailure(breaker[p])]
  BY DEF Failed
<1> QED
  BY <1>1, <1>2, <1>3, <1>4

LEMMA NotesType ==
  ASSUME TypeOK, NEW p \in Providers, NoteSuccess(p) \/ NoteFailure(p)
  PROVE  run' \in [Providers -> Int] /\ failedAt' \in [Providers -> Int]
BY DEF TypeOK, NoteSuccess, NoteFailure

-----------------------------------------------------------------------------
\* Type correctness.

\* The variables of requests and breakers, well typed after a step.
RequestsTyped ==
  /\ breaker \in [Providers -> Breaker]
  /\ pc \in [Requests -> RequestState]
  /\ provider \in [Requests -> Providers \cup {NoProvider}]
  /\ \A r \in Requests : pc[r] \in {"call", "wait", "stream", "finished"} =>
                           provider[r] \in Providers
  /\ tried \in [Requests -> SUBSET Providers]
  /\ attempt \in [Requests -> 1..MaxAttempts]

LEMMA EndsType ==
  ASSUME TypeOK, NEW r \in Requests, NEW how \in {"ok", "failed"}, Ends(r, how),
         breaker' \in [Providers -> Breaker]
  PROVE  RequestsTyped'
BY GatewayAssumption DEF TypeOK, RequestsTyped, Ends, RequestState

LEMMA MoveOnType ==
  ASSUME TypeOK, NEW r \in Requests, NEW bs \in [Providers -> Breaker], MoveOn(r, bs)
  PROVE  RequestsTyped'
<1>1. CASE Ends(r, "failed") /\ breaker' = bs
  BY <1>1, EndsType
<1>2. ASSUME NEW q \in Fallbacks(r, bs),
             pc' = [pc EXCEPT ![r] = "call"],
             provider' = [provider EXCEPT ![r] = q],
             tried' = [tried EXCEPT ![r] = @ \cup {q}],
             attempt' = [attempt EXCEPT ![r] = 1],
             breaker' = AskedAll(bs, {q})
      PROVE  RequestsTyped'
  <2>1. q \in Providers
    BY <1>2 DEF Fallbacks
  <2>2. breaker' \in [Providers -> Breaker]
    BY <1>2, AskedAllType
  <2>3. tried[r] \cup {q} \in SUBSET Providers
    BY <2>1 DEF TypeOK
  <2>4. tried' \in [Requests -> SUBSET Providers]
    BY <1>2, <2>3 DEF TypeOK
  <2>5. /\ provider' \in [Requests -> Providers \cup {NoProvider}]
        /\ attempt' \in [Requests -> 1..MaxAttempts]
        /\ pc' \in [Requests -> RequestState]
    BY <1>2, <2>1, GatewayAssumption DEF TypeOK, RequestState
  <2>6. ASSUME NEW x \in Requests, pc'[x] \in {"call", "wait", "stream", "finished"}
        PROVE  provider'[x] \in Providers
    BY <1>2, <2>1, <2>6 DEF TypeOK
  <2> QED
    BY <2>2, <2>4, <2>5, <2>6 DEF RequestsTyped
<1> QED
  BY <1>1, <1>2 DEF MoveOn

LEMMA AttemptFailedType ==
  ASSUME TypeOK, NEW r \in Requests, NEW bs \in [Providers -> Breaker],
         NEW retryable \in BOOLEAN, AttemptFailed(r, bs, retryable),
         provider[r] \in Providers
  PROVE  RequestsTyped'
<1>1. CASE retryable /\ attempt[r] < MaxAttempts
  <2>1. attempt[r] + 1 \in 1..MaxAttempts
    BY <1>1, GatewayAssumption DEF TypeOK
  <2> QED
    BY <1>1, <2>1 DEF AttemptFailed, TypeOK, RequestsTyped, RequestState
<1>2. CASE ~(retryable /\ attempt[r] < MaxAttempts)
  BY <1>2, MoveOnType DEF AttemptFailed
<1> QED
  BY <1>1, <1>2

LEMMA TypeStep ==
  ASSUME TypeOK, [Next]_vars
  PROVE  TypeOK'
<1> USE GatewayAssumption
<1> SUFFICES /\ clock' \in Nat
             /\ RequestsTyped'
             /\ run' \in [Providers -> Int]
             /\ failedAt' \in [Providers -> Int]
  BY DEF TypeOK, RequestsTyped
<1>0. /\ clock \in Nat /\ RequestsTyped
      /\ run \in [Providers -> Int] /\ failedAt \in [Providers -> Int]
  BY DEF TypeOK, RequestsTyped
<1>1. CASE Tick
  BY <1>0, <1>1 DEF Tick, RequestsTyped, requestVars, historyVars
<1>2. ASSUME NEW r \in Requests, Begin(r)
      PROVE  clock' \in Nat /\ RequestsTyped'
             /\ run' \in [Providers -> Int] /\ failedAt' \in [Providers -> Int]
  <2>1. PICK p \in Eligible, kind \in {"call", "stream"} :
          /\ pc' = [pc EXCEPT ![r] = kind]
          /\ provider' = [provider EXCEPT ![r] = p]
          /\ tried' = [tried EXCEPT ![r] = {p}]
    BY <1>2 DEF Begin
  <2>2. p \in Providers
    BY DEF Eligible
  <2>3. breaker' \in [Providers -> Breaker]
    BY <1>2, AskedAllType DEF Begin, TypeOK
  <2>4. UNCHANGED <<clock, attempt, run, failedAt>>
    BY <1>2 DEF Begin, historyVars
  <2> QED
    BY <1>0, <2>1, <2>2, <2>3, <2>4 DEF RequestsTyped, RequestState
<1>3. ASSUME NEW r \in Requests, BeginFails(r)
      PROVE  clock' \in Nat /\ RequestsTyped'
             /\ run' \in [Providers -> Int] /\ failedAt' \in [Providers -> Int]
  <2>1. Ends(r, "failed") /\ UNCHANGED <<clock, breaker, run, failedAt>>
    BY <1>3 DEF BeginFails, historyVars
  <2>2. RequestsTyped'
    BY <1>0, <2>1, EndsType DEF RequestsTyped
  <2> QED
    BY <1>0, <2>1, <2>2
<1>4. ASSUME NEW r \in Requests, CallReturns(r) \/ StreamFinishes(r)
      PROVE  clock' \in Nat /\ RequestsTyped'
             /\ run' \in [Providers -> Int] /\ failedAt' \in [Providers -> Int]
  <2>1. provider[r] \in Providers
    BY <1>0, <1>4 DEF RequestsTyped, CallReturns, StreamFinishes
  <2>2. breaker' \in [Providers -> Breaker]
    BY <1>4, <2>1, AnswerType DEF CallReturns, StreamFinishes
  <2>3. run' \in [Providers -> Int] /\ failedAt' \in [Providers -> Int]
    BY <1>4, <2>1, NotesType DEF CallReturns, StreamFinishes
  <2>4. CASE CallReturns(r)
    BY <1>0, <2>2, <2>3, <2>4, EndsType DEF CallReturns
  <2>5. CASE StreamFinishes(r)
    BY <1>0, <2>1, <2>2, <2>3, <2>5 DEF StreamFinishes, RequestsTyped, RequestState
  <2> QED
    BY <1>4, <2>4, <2>5
<1>5. ASSUME NEW r \in Requests, CallFails(r)
      PROVE  clock' \in Nat /\ RequestsTyped'
             /\ run' \in [Providers -> Int] /\ failedAt' \in [Providers -> Int]
  <2>1. provider[r] \in Providers
    BY <1>0, <1>5 DEF RequestsTyped, CallFails
  <2>2. PICK retryable \in BOOLEAN : AttemptFailed(r, Failed(provider[r]), retryable)
    BY <1>5 DEF CallFails
  <2>3. Failed(provider[r]) \in [Providers -> Breaker]
    BY <2>1, AnswerType
  <2>4. RequestsTyped'
    BY <2>1, <2>2, <2>3, AttemptFailedType
  <2>5. run' \in [Providers -> Int] /\ failedAt' \in [Providers -> Int]
    BY <1>5, <2>1, NotesType DEF CallFails
  <2> QED
    BY <1>0, <1>5, <2>4, <2>5 DEF CallFails
<1>6. ASSUME NEW r \in Requests, Retry(r)
      PROVE  clock' \in Nat /\ RequestsTyped'
             /\ run' \in [Providers -> Int] /\ failedAt' \in [Providers -> Int]
  <2>1. provider[r] \in Providers /\ UNCHANGED <<clock, run, failedAt>>
    BY <1>0, <1>6 DEF RequestsTyped, Retry, historyVars
  <2>2. CASE IsAvailable(breaker[provider[r]])
    <3>1. breaker' \in [Providers -> Breaker]
      BY <1>0, <1>6, <2>2, AskedAllType DEF Retry, RequestsTyped
    <3> QED
      BY <1>0, <1>6, <2>1, <2>2, <3>1 DEF Retry, RequestsTyped, RequestState
  <2>3. CASE ~IsAvailable(breaker[provider[r]])
    <3>1. AttemptFailed(r, breaker, TRUE)
      BY <1>6, <2>3 DEF Retry
    <3>2. RequestsTyped'
      BY <1>0, <2>1, <3>1, AttemptFailedType DEF RequestsTyped
    <3> QED
      BY <1>0, <2>1, <3>2
  <2> QED
    BY <2>2, <2>3
<1>7. ASSUME NEW r \in Requests, StreamThrows(r)
      PROVE  clock' \in Nat /\ RequestsTyped'
             /\ run' \in [Providers -> Int] /\ failedAt' \in [Providers -> Int]
  <2>1. provider[r] \in Providers
    BY <1>0, <1>7 DEF RequestsTyped, StreamThrows
  <2>2. breaker' \in [Providers -> Breaker]
    BY <1>7, <2>1, AnswerType DEF StreamThrows
  <2>3. RequestsTyped'
    BY <1>7, <2>2, EndsType DEF StreamThrows
  <2>4. run' \in [Providers -> Int] /\ failedAt' \in [Providers -> Int]
    BY <1>7, <2>1, NotesType DEF StreamThrows
  <2> QED
    BY <1>0, <1>7, <2>3, <2>4 DEF StreamThrows
<1>8. ASSUME NEW r \in Requests, StreamEnds(r)
      PROVE  clock' \in Nat /\ RequestsTyped'
             /\ run' \in [Providers -> Int] /\ failedAt' \in [Providers -> Int]
  <2>1. /\ Ends(r, "ok") \/ Ends(r, "failed")
        /\ UNCHANGED <<clock, breaker, run, failedAt>>
    BY <1>8 DEF StreamEnds, historyVars
  <2>2. breaker' \in [Providers -> Breaker]
    BY <1>0, <2>1 DEF RequestsTyped
  <2>3. RequestsTyped'
    BY <2>1, <2>2, EndsType
  <2> QED
    BY <1>0, <2>1, <2>3
<1>9. CASE UNCHANGED vars
  BY <1>0, <1>9 DEF vars, RequestsTyped, requestVars, historyVars
<1> QED
  BY <1>1, <1>2, <1>3, <1>4, <1>5, <1>6, <1>7, <1>8, <1>9
  DEF Next, CallStep, StreamStep

LEMMA TypeInit == Init => TypeOK
BY GatewayAssumption DEF Init, TypeOK, FreshBreaker, Breaker, RequestState

\* The gateway's variables keep their types, for any requests, providers,
\* thresholds and numbers of attempts; in particular a request never makes more
\* than MaxAttempts attempts with a provider.
THEOREM TypeCorrect == Spec => []TypeOK
<1>1. Init => TypeOK
  BY TypeInit
<1>2. TypeOK /\ [Next]_vars => TypeOK'
  BY TypeStep
<1> QED
  BY <1>1, <1>2, PTL DEF Spec

-----------------------------------------------------------------------------
\* What a step of the gateway does to the breaker of p.

Kept(p) ==
  breaker'[p] = breaker[p] /\ run'[p] = run[p] /\ failedAt'[p] = failedAt[p]

WasAsked(p) ==
  /\ breaker'[p] = Asked(breaker[p])
  /\ clock' = clock /\ run'[p] = run[p] /\ failedAt'[p] = failedAt[p]

Succeeds(p) ==
  /\ breaker'[p] = RecordSuccess(breaker[p])
  /\ run'[p] = IF run[p] > 0 THEN -1 ELSE run[p] - 1
  /\ clock' = clock /\ failedAt'[p] = failedAt[p]

Fails(p) ==
  /\ breaker'[p] = RecordFailure(breaker[p])
  /\ run'[p] = IF run[p] < 0 THEN 1 ELSE run[p] + 1
  /\ clock' = clock /\ failedAt'[p] = clock

BreakerStep(p) == Kept(p) \/ WasAsked(p) \/ Succeeds(p) \/ Fails(p)

\* Turning to another provider asks at most that provider's breaker.
LEMMA MoveOnBreaker ==
  ASSUME NEW r, NEW bs, MoveOn(r, bs), NEW p \in Providers,
         bs \in [Providers -> Breaker]
  PROVE  breaker'[p] = bs[p] \/ breaker'[p] = Asked(bs[p])
BY DEF MoveOn, AskedAll

LEMMA AttemptFailedBreaker ==
  ASSUME NEW r, NEW bs, NEW retryable, AttemptFailed(r, bs, retryable),
         NEW p \in Providers, bs \in [Providers -> Breaker]
  PROVE  breaker'[p] = bs[p] \/ breaker'[p] = Asked(bs[p])
BY MoveOnBreaker DEF AttemptFailed

LEMMA SuccessStep ==
  ASSUME TypeOK, NEW x \in Providers, breaker' = Succeeded(x), NoteSuccess(x),
         clock' = clock, NEW p \in Providers
  PROVE  BreakerStep(p)
<1>1. CASE p = x
  <2>1. breaker'[p] = RecordSuccess(breaker[p])
    BY <1>1, AnswerType
  <2>2. run'[p] = (IF run[p] > 0 THEN -1 ELSE run[p] - 1) /\ failedAt'[p] = failedAt[p]
    BY <1>1 DEF NoteSuccess, TypeOK
  <2> QED
    BY <2>1, <2>2 DEF BreakerStep, Succeeds
<1>2. CASE p # x
  <2>1. breaker'[p] = breaker[p]
    BY <1>2, AnswerType
  <2> QED
    BY <1>2, <2>1 DEF BreakerStep, Kept, NoteSuccess, TypeOK
<1> QED
  BY <1>1, <1>2

\* A failure, and whatever breaker is asked after it.
LEMMA FailureStep ==
  ASSUME TypeOK, NEW x \in Providers, NoteFailure(x), clock' = clock,
         NEW p \in Providers,
         breaker'[p] = Failed(x)[p] \/ breaker'[p] = Asked(Failed(x)[p])
  PROVE  BreakerStep(p)
<1>1. CASE p = x
  <2>1. breaker[p] \in Breaker
    BY DEF TypeOK
  <2>2. breaker'[p] = RecordFailure(breaker[p])
    BY <1>1, <2>1, AnswerType, BreakerMethods
  <2>3. run'[p] = (IF run[p] < 0 THEN 1 ELSE run[p] + 1) /\ failedAt'[p] = clock
    BY <1>1 DEF NoteFailure, TypeOK
  <2> QED
    BY <2>2, <2>3 DEF BreakerStep, Fails
<1>2. CASE p # x
  <2>1. Failed(x)[p] = breaker[p]
    BY <1>2, AnswerType
  <2>2. run'[p] = run[p] /\ failedAt'[p] = failedAt[p]
    BY <1>2 DEF NoteFailure, TypeOK
  <2> QED
    BY <2>1, <2>2 DEF BreakerStep, Kept, WasAsked
<1> QED
  BY <1>1, <1>2

LEMMA EveryStep ==
  ASSUME TypeOK, [Next]_vars, NEW p \in Providers
  PROVE  BreakerStep(p) /\ (clock' = clock \/ clock' = clock + 1)
<1>0. breaker \in [Providers -> Breaker]
  BY DEF TypeOK
<1>1. CASE Tick
  BY <1>1 DEF Tick, BreakerStep, Kept, historyVars
<1>2. ASSUME NEW r \in Requests, Begin(r)
      PROVE  BreakerStep(p) /\ clock' = clock
  BY <1>2 DEF Begin, AskedAll, BreakerStep, WasAsked, historyVars
<1>3. ASSUME NEW r \in Requests, BeginFails(r) \/ StreamEnds(r)
      PROVE  BreakerStep(p) /\ clock' = clock
  BY <1>3 DEF BeginFails, StreamEnds, BreakerStep, Kept, historyVars
<1>4. ASSUME NEW r \in Requests, CallReturns(r) \/ StreamFinishes(r)
      PROVE  BreakerStep(p) /\ clock' = clock
  <2>1. provider[r] \in Providers
    BY <1>4 DEF TypeOK, CallReturns, StreamFinishes
  <2>2. /\ breaker' = Succeeded(provider[r]) /\ NoteSuccess(provider[r])
        /\ clock' = clock
    BY <1>4 DEF CallReturns, StreamFinishes
  <2> QED
    BY <2>1, <2>2, SuccessStep
<1>5. ASSUME NEW r \in Requests, CallFails(r)
      PROVE  BreakerStep(p) /\ clock' = clock
  <2>1. provider[r] \in Providers
    BY <1>5 DEF TypeOK, CallFails
  <2>2. PICK retryable \in BOOLEAN : AttemptFailed(r, Failed(provider[r]), retryable)
    BY <1>5 DEF CallFails
  <2>3. Failed(provider[r]) \in [Providers -> Breaker]
    BY <2>1, AnswerType
  <2>4. \/ breaker'[p] = Failed(provider[r])[p]
        \/ breaker'[p] = Asked(Failed(provider[r])[p])
    BY <2>2, <2>3, AttemptFailedBreaker
  <2>5. NoteFailure(provider[r]) /\ clock' = clock
    BY <1>5 DEF CallFails
  <2> QED
    BY <2>1, <2>4, <2>5, FailureStep
<1>6. ASSUME NEW r \in Requests, Retry(r)
      PROVE  BreakerStep(p) /\ clock' = clock
  <2>1. UNCHANGED <<clock, run, failedAt>>
    BY <1>6 DEF Retry, historyVars
  <2>2. breaker'[p] = breaker[p] \/ breaker'[p] = Asked(breaker[p])
    <3>1. CASE IsAvailable(breaker[provider[r]])
      BY <1>6, <3>1 DEF Retry, AskedAll
    <3>2. CASE ~IsAvailable(breaker[provider[r]])
      <4>1. AttemptFailed(r, breaker, TRUE)
        BY <1>6, <3>2 DEF Retry
      <4> QED
        BY <1>0, <4>1, AttemptFailedBreaker
    <3> QED
      BY <3>1, <3>2
  <2> QED
    BY <2>1, <2>2 DEF BreakerStep, Kept, WasAsked
<1>7. ASSUME NEW r \in Requests, StreamThrows(r)
      PROVE  BreakerStep(p) /\ clock' = clock
  <2>1. provider[r] \in Providers
    BY <1>7 DEF TypeOK, StreamThrows
  <2>2. /\ breaker' = Failed(provider[r]) /\ NoteFailure(provider[r])
        /\ clock' = clock
    BY <1>7 DEF StreamThrows
  <2> QED
    BY <2>1, <2>2, FailureStep
<1>8. CASE UNCHANGED vars
  BY <1>8 DEF vars, BreakerStep, Kept, historyVars
<1> QED
  BY <1>1, <1>2, <1>3, <1>4, <1>5, <1>6, <1>7, <1>8 DEF Next, CallStep, StreamStep

-----------------------------------------------------------------------------
\* What the breakers count.

LEMMA CountsStep ==
  ASSUME TypeOK, BreakerCounts, [Next]_vars
  PROVE  BreakerCounts'
<1> USE GatewayAssumption
<1>1. SUFFICES ASSUME NEW p \in Providers
               PROVE  LET b == breaker'[p] IN
                 /\ b.state = "CLOSED" => /\ b.failureCount = FailuresInARow(p)'
                                          /\ b.failureCount < FailureThreshold
                 /\ b.state # "CLOSED" => b.failureCount >= FailureThreshold
                 /\ b.state = "HALF_OPEN" => /\ b.successCount <= SuccessesInARow(p)'
                                             /\ b.successCount < SuccessThreshold
  BY DEF BreakerCounts, FailuresInARow, SuccessesInARow
<1>2. breaker[p] \in Breaker /\ run[p] \in Int /\ clock \in Nat
  BY DEF TypeOK
<1>3. /\ breaker[p].state = "CLOSED" =>
           /\ breaker[p].failureCount = FailuresInARow(p)
           /\ breaker[p].failureCount < FailureThreshold
      /\ breaker[p].state # "CLOSED" => breaker[p].failureCount >= FailureThreshold
      /\ breaker[p].state = "HALF_OPEN" =>
           /\ breaker[p].successCount <= SuccessesInARow(p)
           /\ breaker[p].successCount < SuccessThreshold
  BY DEF BreakerCounts
<1>4. CASE Kept(p)
  BY <1>3, <1>4 DEF Kept, FailuresInARow, SuccessesInARow
<1>5. CASE WasAsked(p)
  BY <1>2, <1>3, <1>5 DEF WasAsked, Asked, Breaker, FailuresInARow, SuccessesInARow
<1>6. CASE Succeeds(p)
  BY <1>2, <1>3, <1>6
  DEF Succeeds, RecordSuccess, Tested, FreshBreaker, Breaker,
      FailuresInARow, SuccessesInARow
<1>7. CASE Fails(p)
  BY <1>2, <1>3, <1>7
  DEF Fails, RecordFailure, Breaker, FailuresInARow, SuccessesInARow
<1> QED
  BY <1>4, <1>5, <1>6, <1>7, EveryStep DEF BreakerStep

\* A CLOSED breaker has counted exactly the failures in a row that ended last,
\* and is never over its threshold, in whatever order the answers of concurrent
\* calls arrive; a breaker under test has counted no success before a failure.
THEOREM CountsCorrect == Spec => []BreakerCounts
<1>1. Init => BreakerCounts
  BY GatewayAssumption DEF Init, BreakerCounts, FreshBreaker, FailuresInARow
<1>2. TypeOK /\ BreakerCounts /\ [Next]_vars => BreakerCounts'
  BY CountsStep
<1> QED
  BY <1>1, <1>2, TypeCorrect, PTL DEF Spec

-----------------------------------------------------------------------------
\* The transitions.

Transition(p) ==
  LET from == breaker[p].state
      to == breaker'[p].state IN
    from # to =>
      \/ from = "CLOSED" /\ to = "OPEN" /\ FailuresInARow(p)' >= FailureThreshold
      \/ from = "OPEN" /\ to = "HALF_OPEN"
      \/ from = "HALF_OPEN" /\ to = "OPEN" /\ FailuresInARow(p)' > 0
      \/ from = "HALF_OPEN" /\ to = "CLOSED" /\ SuccessesInARow(p)' >= SuccessThreshold

LEMMA TransitionStep ==
  ASSUME TypeOK, BreakerCounts, [Next]_vars, NEW p \in Providers
  PROVE  Transition(p)
<1> USE GatewayAssumption
<1>1. breaker[p] \in Breaker /\ run[p] \in Int /\ clock \in Nat
  BY DEF TypeOK
<1>2. /\ breaker[p].state = "CLOSED" => breaker[p].failureCount = FailuresInARow(p)
      /\ breaker[p].state = "HALF_OPEN" =>
           breaker[p].successCount <= SuccessesInARow(p)
  BY DEF BreakerCounts
<1>3. CASE Kept(p)
  BY <1>3 DEF Kept, Transition
<1>4. CASE WasAsked(p)
  BY <1>1, <1>4 DEF WasAsked, Asked, Breaker, Transition
<1>5. CASE Succeeds(p)
  BY <1>1, <1>2, <1>5
  DEF Succeeds, RecordSuccess, Tested, FreshBreaker, Breaker, SuccessesInARow, Transition
<1>6. CASE Fails(p)
  BY <1>1, <1>2, <1>6
  DEF Fails, RecordFailure, Breaker, FailuresInARow, Transition
<1> QED
  BY <1>3, <1>4, <1>5, <1>6, EveryStep DEF BreakerStep

\* A breaker trips only after FailureThreshold failures in a row and closes only
\* after SuccessThreshold successes in a row, however late answers arrive.
THEOREM TransitionsCorrect == Spec => BreakerTransitions
<1>1. TypeOK /\ BreakerCounts /\ [Next]_vars => [\A p \in Providers : Transition(p)]_vars
  BY TransitionStep
<1>2. BreakerTransitions <=> [][\A p \in Providers : Transition(p)]_vars
  BY DEF BreakerTransitions, Transition
<1> QED
  BY <1>1, <1>2, TypeCorrect, CountsCorrect, PTL DEF Spec

-----------------------------------------------------------------------------
\* The pause after a failure.

\* An OPEN breaker remembers its provider's last failure; under test, that
\* failure is ResetTimeout ago.
Pause ==
  \A p \in Providers :
    /\ breaker[p].state = "OPEN" => breaker[p].lastFailureTime = failedAt[p]
    /\ breaker[p].state = "HALF_OPEN" => clock - failedAt[p] >= ResetTimeout

LEMMA PauseStep ==
  ASSUME TypeOK, Pause, [Next]_vars
  PROVE  Pause'
<1> USE GatewayAssumption
<1>1. SUFFICES ASSUME NEW p \in Providers
               PROVE  /\ breaker'[p].state = "OPEN" =>
                           breaker'[p].lastFailureTime = failedAt'[p]
                      /\ breaker'[p].state = "HALF_OPEN" =>
                           clock' - failedAt'[p] >= ResetTimeout
  BY DEF Pause
<1>2. breaker[p] \in Breaker /\ clock \in Nat /\ failedAt[p] \in Int
  BY DEF TypeOK
<1>3. /\ breaker[p].state = "OPEN" => breaker[p].lastFailureTime = failedAt[p]
      /\ breaker[p].state = "HALF_OPEN" => clock - failedAt[p] >= ResetTimeout
  BY DEF Pause
<1>4. clock' = clock \/ clock' = clock + 1
  BY EveryStep
<1>5. CASE Kept(p)
  BY <1>2, <1>3, <1>4, <1>5 DEF Kept
<1>6. CASE WasAsked(p)
  BY <1>2, <1>3, <1>6 DEF WasAsked, Asked, IsAvailable, Breaker
<1>7. CASE Succeeds(p)
  BY <1>2, <1>3, <1>7 DEF Succeeds, RecordSuccess, Tested, FreshBreaker, Breaker
<1>8. CASE Fails(p)
  BY <1>2, <1>3, <1>8 DEF Fails, RecordFailure, Breaker
<1> QED
  BY <1>5, <1>6, <1>7, <1>8, EveryStep DEF BreakerStep

LEMMA AskedIsNotOpen ==
  ASSUME NEW b \in Breaker, IsAvailable(b)
  PROVE  Asked(b).state # "OPEN"
BY DEF Asked, Breaker

\* The provider a request begins to call is not OPEN, and has not failed just now.
StartsWell(r) ==
  Starts(r) => /\ provider'[r] \in Providers
               /\ breaker'[provider'[r]].state # "OPEN"
               /\ failedAt'[provider'[r]] = failedAt[provider'[r]]
               /\ clock' = clock

LEMMA MoveOnStartsWell ==
  ASSUME TypeOK, NEW r \in Requests, NEW bs \in [Providers -> Breaker],
         MoveOn(r, bs), clock' = clock,
         pc[r] = "call" => \A p \in Providers \ {provider[r]} : failedAt'[p] = failedAt[p],
         pc[r] # "call" => failedAt' = failedAt,
         NEW x \in Requests
  PROVE  StartsWell(x)
<1>1. CASE Ends(r, "failed")
  <2>1. ~Starts(x)
    BY <1>1 DEF Ends, Starts, TypeOK
  <2> QED
    BY <2>1 DEF StartsWell
<1>2. ASSUME NEW q \in Fallbacks(r, bs),
             pc' = [pc EXCEPT ![r] = "call"],
             provider' = [provider EXCEPT ![r] = q],
             breaker' = AskedAll(bs, {q})
      PROVE  StartsWell(x)
  <2>1. q \in Providers /\ IsAvailable(bs[q])
    BY <1>2 DEF Fallbacks
  <2>2. breaker'[q].state # "OPEN"
    BY <1>2, <2>1, AskedIsNotOpen DEF AskedAll
  <2>3. CASE x # r
    <3>1. ~Starts(x)
      BY <1>2, <2>3 DEF Starts, TypeOK
    <3> QED
      BY <3>1 DEF StartsWell
  <2>4. CASE x = r
    <3>1. provider'[x] = q
      BY <1>2, <2>4 DEF TypeOK
    <3>2. Starts(x) => failedAt'[q] = failedAt[q]
      BY <2>1, <2>4, <3>1 DEF Starts
    <3> QED
      BY <2>1, <2>2, <3>1, <3>2 DEF StartsWell
  <2> QED
    BY <2>3, <2>4
<1> QED
  BY <1>1, <1>2 DEF MoveOn

LEMMA AttemptFailedStartsWell ==
  ASSUME TypeOK, NEW r \in Requests, NEW bs \in [Providers -> Breaker],
         NEW retryable \in BOOLEAN, AttemptFailed(r, bs, retryable), clock' = clock,
         pc[r] = "call" => \A p \in Providers \ {provider[r]} : failedAt'[p] = failedAt[p],
         pc[r] # "call" => failedAt' = failedAt,
         NEW x \in Requests
  PROVE  StartsWell(x)
<1>1. CASE retryable /\ attempt[r] < MaxAttempts
  <2>1. ~Starts(x)
    BY <1>1 DEF AttemptFailed, Starts, TypeOK
  <2> QED
    BY <2>1 DEF StartsWell
<1>2. CASE ~(retryable /\ attempt[r] < MaxAttempts)
  BY <1>2, MoveOnStartsWell DEF AttemptFailed
<1> QED
  BY <1>1, <1>2

LEMMA StartsWellStep ==
  ASSUME TypeOK, [Next]_vars, NEW x \in Requests
  PROVE  StartsWell(x)
<1>0. breaker \in [Providers -> Breaker]
  BY DEF TypeOK
<1>1. CASE Tick \/ UNCHANGED vars
  BY <1>1 DEF Tick, vars, requestVars, StartsWell, Starts
<1>2. ASSUME NEW r \in Requests, Begin(r)
      PROVE  StartsWell(x)
  <2>1. PICK p \in Eligible, kind \in {"call", "stream"} :
          /\ pc' = [pc EXCEPT ![r] = kind]
          /\ provider' = [provider EXCEPT ![r] = p]
    BY <1>2 DEF Begin
  <2>2. p \in Providers /\ breaker'[p].state # "OPEN"
    BY <1>0, <1>2, AskedIsNotOpen DEF Begin, Eligible, AskedAll
  <2>3. CASE x = r
    <3>1. provider'[x] = p
      BY <2>1, <2>3 DEF TypeOK
    <3> QED
      BY <1>2, <2>2, <3>1 DEF Begin, StartsWell, historyVars
  <2>4. CASE x # r
    BY <2>1, <2>4 DEF TypeOK, StartsWell, Starts
  <2> QED
    BY <2>3, <2>4
<1>3. ASSUME NEW r \in Requests, NEW how \in {"ok", "failed"}, Ends(r, how)
      PROVE  StartsWell(x)
  BY <1>3 DEF Ends, StartsWell, Starts, TypeOK
<1>4. ASSUME NEW r \in Requests, StreamFinishes(r)
      PROVE  StartsWell(x)
  BY <1>4 DEF StreamFinishes, StartsWell, Starts, TypeOK
<1>5. ASSUME NEW r \in Requests, CallFails(r)
      PROVE  StartsWell(x)
  <2>1. provider[r] \in Providers
    BY <1>5 DEF TypeOK, CallFails
  <2>2. PICK retryable \in BOOLEAN : AttemptFailed(r, Failed(provider[r]), retryable)
    BY <1>5 DEF CallFails
  <2>3. Failed(provider[r]) \in [Providers -> Breaker]
    BY <2>1, AnswerType
  <2>4. /\ pc[r] = "call" /\ clock' = clock
        /\ \A p \in Providers \ {provider[r]} : failedAt'[p] = failedAt[p]
    BY <1>5, <2>1 DEF CallFails, NoteFailure, TypeOK
  <2> QED
    BY <2>2, <2>3, <2>4, AttemptFailedStartsWell
<1>6. ASSUME NEW r \in Requests, Retry(r)
      PROVE  StartsWell(x)
  <2>1. pc[r] = "wait" /\ clock' = clock /\ failedAt' = failedAt
    BY <1>6 DEF Retry, historyVars
  <2>2. provider[r] \in Providers
    BY <2>1 DEF TypeOK
  <2>3. CASE IsAvailable(breaker[provider[r]])
    <3>1. /\ pc' = [pc EXCEPT ![r] = "call"] /\ provider' = provider
          /\ breaker' = AskedAll(breaker, {provider[r]})
      BY <1>6, <2>3 DEF Retry
    <3>2. breaker'[provider[r]].state # "OPEN"
      BY <1>0, <2>2, <2>3, <3>1, AskedIsNotOpen DEF AskedAll
    <3>3. x # r => ~Starts(x)
      BY <3>1 DEF Starts, TypeOK
    <3> QED
      BY <2>1, <2>2, <3>1, <3>2, <3>3 DEF StartsWell
  <2>4. CASE ~IsAvailable(breaker[provider[r]])
    <3>1. AttemptFailed(r, breaker, TRUE)
      BY <1>6, <2>4 DEF Retry
    <3> QED
      BY <1>0, <2>1, <3>1, AttemptFailedStartsWell
  <2> QED
    BY <2>3, <2>4
<1> QED
  BY <1>1, <1>2, <1>3, <1>4, <1>5, <1>6
  DEF Next, CallStep, StreamStep, BeginFails, CallReturns, StreamThrows, StreamEnds

LEMMA CoolDownStep ==
  ASSUME TypeOK, Pause, Pause', [Next]_vars, TypeOK', NEW r \in Requests, Starts(r)
  PROVE  \/ breaker'[provider'[r]].state = "CLOSED"
         \/ clock - failedAt[provider'[r]] >= ResetTimeout
<1>1. StartsWell(r)
  BY StartsWellStep
<1>2. breaker'[provider'[r]] \in Breaker
  BY <1>1 DEF StartsWell, TypeOK
<1>3. breaker'[provider'[r]].state \in {"CLOSED", "HALF_OPEN"}
  BY <1>1, <1>2 DEF StartsWell, Breaker
<1> QED
  BY <1>1, <1>3 DEF StartsWell, Pause

\* No request begins a call of a provider whose breaker has tripped until
\* ResetTimeout after that provider's last failure, late failures included.
THEOREM CoolDownCorrect == Spec => CoolDownRespected
<1>1. Init => Pause
  BY DEF Init, Pause, FreshBreaker
<1>2. TypeOK /\ Pause /\ [Next]_vars => Pause'
  BY PauseStep
<1>3. TypeOK /\ TypeOK' /\ Pause /\ Pause' /\ [Next]_vars =>
        [\A r \in Requests : Starts(r) =>
           \/ breaker'[provider'[r]].state = "CLOSED"
           \/ clock - failedAt[provider'[r]] >= ResetTimeout]_vars
  BY CoolDownStep
<1> QED
  BY <1>1, <1>2, <1>3, TypeCorrect, PTL DEF Spec, CoolDownRespected

-----------------------------------------------------------------------------
\* Giving up.

NoneLeft(r) ==
  pc[r] \in {"new", "call", "wait"} /\ pc'[r] = "failed" =>
    \A q \in Providers : q \in tried[r] \/ ~IsAvailable(breaker'[q])

\* Moving on changes r alone, and ends it only when there is no fallback.
LEMMA MoveOnNoneLeft ==
  ASSUME TypeOK, NEW r \in Requests, NEW bs, MoveOn(r, bs), NEW x \in Requests
  PROVE  NoneLeft(x)
<1>1. CASE x # r
  BY <1>1 DEF MoveOn, Ends, NoneLeft, TypeOK
<1>2. CASE x = r
  <2>1. CASE Fallbacks(r, bs) = {} /\ breaker' = bs
    BY <1>2, <2>1 DEF Fallbacks, NoneLeft
  <2>2. CASE pc' = [pc EXCEPT ![r] = "call"]
    BY <1>2, <2>2 DEF NoneLeft, TypeOK
  <2> QED
    BY <2>1, <2>2 DEF MoveOn
<1> QED
  BY <1>1, <1>2

LEMMA AttemptFailedNoneLeft ==
  ASSUME TypeOK, NEW r \in Requests, NEW bs, NEW retryable,
         AttemptFailed(r, bs, retryable), NEW x \in Requests
  PROVE  NoneLeft(x)
<1>1. CASE retryable /\ attempt[r] < MaxAttempts
  BY <1>1 DEF AttemptFailed, NoneLeft, TypeOK
<1>2. CASE ~(retryable /\ attempt[r] < MaxAttempts)
  BY <1>2, MoveOnNoneLeft DEF AttemptFailed
<1> QED
  BY <1>1, <1>2

LEMMA NoneLeftStep ==
  ASSUME TypeOK, [Next]_vars, NEW x \in Requests
  PROVE  NoneLeft(x)
<1>1. CASE Tick \/ UNCHANGED vars
  BY <1>1 DEF Tick, vars, requestVars, NoneLeft
<1>2. ASSUME NEW r \in Requests, Begin(r)
      PROVE  NoneLeft(x)
  BY <1>2 DEF Begin, NoneLeft, TypeOK
<1>3. ASSUME NEW r \in Requests, BeginFails(r)
      PROVE  NoneLeft(x)
  BY <1>3 DEF BeginFails, Ends, Eligible, NoneLeft, TypeOK
<1>4. ASSUME NEW r \in Requests, CallReturns(r)
      PROVE  NoneLeft(x)
  BY <1>4 DEF CallReturns, Ends, NoneLeft, TypeOK
<1>5. ASSUME NEW r \in Requests, CallFails(r)
      PROVE  NoneLeft(x)
  BY <1>5, AttemptFailedNoneLeft DEF CallFails
<1>6. ASSUME NEW r \in Requests, Retry(r)
      PROVE  NoneLeft(x)
  <2>1. CASE IsAvailable(breaker[provider[r]])
    BY <1>6, <2>1 DEF Retry, NoneLeft, TypeOK
  <2>2. CASE ~IsAvailable(breaker[provider[r]])
    BY <1>6, <2>2, AttemptFailedNoneLeft DEF Retry
  <2> QED
    BY <2>1, <2>2
<1>7. ASSUME NEW r \in Requests, StreamStep(r)
      PROVE  NoneLeft(x)
  BY <1>7 DEF StreamStep, StreamFinishes, StreamThrows, StreamEnds, Ends, NoneLeft, TypeOK
<1> QED
  BY <1>1, <1>2, <1>3, <1>4, <1>5, <1>6, <1>7 DEF Next, CallStep

\* A request fails only when every provider has been tried by it or refuses
\* calls at that moment.
THEOREM GivesUpCorrect == Spec => GivesUpOnlyIfNoneLeft
<1>1. TypeOK /\ [Next]_vars => [\A r \in Requests : NoneLeft(r)]_vars
  BY NoneLeftStep
<1>2. GivesUpOnlyIfNoneLeft <=> [][\A r \in Requests : NoneLeft(r)]_vars
  BY DEF GivesUpOnlyIfNoneLeft, NoneLeft
<1> QED
  BY <1>1, <1>2, TypeCorrect, PTL DEF Spec

-----------------------------------------------------------------------------
\* Coming to an end.

\* The steps a request can still take: two for each attempt, the call and the wait,
\* with the provider it asks now and with each it has not tried.
StepsLeft(r) ==
  CASE pc[r] = "call" -> (2 * MaxAttempts) * Cardinality(Providers \ tried[r])
                           + 2 * (MaxAttempts - attempt[r]) + 1
    [] pc[r] = "wait" -> (2 * MaxAttempts) * Cardinality(Providers \ tried[r])
                           + 2 * (MaxAttempts - attempt[r]) + 2
    [] OTHER -> 0

StepsBounded == \A r \in Requests :
  StepsLeft(r) \in 0 .. (2 * MaxAttempts) * Cardinality(Providers)

RunsDown(r) ==
  pc[r] \in {"call", "wait"} =>
    IF CallStep(r) THEN StepsLeft(r)' < StepsLeft(r) ELSE StepsLeft(r)' = StepsLeft(r)

LEMMA Untried ==
  ASSUME TypeOK, NEW r \in Requests
  PROVE  /\ Cardinality(Providers) \in Nat
         /\ Cardinality(Providers \ tried[r]) \in Nat
         /\ Cardinality(Providers \ tried[r]) <= Cardinality(Providers)
         /\ \A q \in Providers \ tried[r] :
              Cardinality(Providers \ (tried[r] \cup {q})) = Cardinality(Providers \ tried[r]) - 1
<1>1. IsFiniteSet(Providers) /\ IsFiniteSet(Providers \ tried[r])
  BY GatewayAssumption, FS_Subset
<1>2. /\ Cardinality(Providers) \in Nat
      /\ Cardinality(Providers \ tried[r]) \in Nat
      /\ Cardinality(Providers \ tried[r]) <= Cardinality(Providers)
  BY <1>1, FS_CardinalityType, FS_Subset
<1>3. ASSUME NEW q \in Providers \ tried[r]
      PROVE  Cardinality(Providers \ (tried[r] \cup {q})) = Cardinality(Providers \ tried[r]) - 1
  <2>1. Providers \ (tried[r] \cup {q}) = (Providers \ tried[r]) \ {q}
    OBVIOUS
  <2> QED
    BY <1>1, <2>1, FS_RemoveElement
<1> QED
  BY <1>2, <1>3

LEMMA LessMeansOneRoundLess ==
  ASSUME NEW a \in Nat, NEW k \in Nat
  PROVE  a * k \in Nat /\ a * (k - 1) = a * k - a
OBVIOUS

\* A request that completes has at least the call it is in, or waits for, before it.
LEMMA StepsLeftType ==
  ASSUME TypeOK, NEW r \in Requests
  PROVE  /\ StepsLeft(r) \in Nat
         /\ pc[r] \in {"call", "wait"} => StepsLeft(r) > 0
<1>1. (2 * MaxAttempts) * Cardinality(Providers \ tried[r]) \in Nat
  BY Untried, GatewayAssumption, LessMeansOneRoundLess
<1>2. MaxAttempts - attempt[r] \in Nat
  BY GatewayAssumption DEF TypeOK
<1> HIDE DEF TypeOK
<1> QED
  BY <1>1, <1>2 DEF StepsLeft

LEMMA EndsRunsDown ==
  ASSUME TypeOK, NEW r \in Requests, NEW how \in {"ok", "failed"}, Ends(r, how),
         pc[r] \in {"call", "wait"}
  PROVE  StepsLeft(r)' < StepsLeft(r)
<1>1. StepsLeft(r)' = 0
  BY DEF StepsLeft, Ends, TypeOK
<1> QED
  BY <1>1, StepsLeftType

\* The provider it moves on to is one fewer that it has not tried.
LEMMA MoveOnRunsDown ==
  ASSUME TypeOK, NEW r \in Requests, NEW bs, MoveOn(r, bs), pc[r] \in {"call", "wait"}
  PROVE  StepsLeft(r)' < StepsLeft(r)
<1>1. CASE Ends(r, "failed")
  BY <1>1, EndsRunsDown
<1>2. ASSUME NEW q \in Fallbacks(r, bs),
             pc' = [pc EXCEPT ![r] = "call"],
             tried' = [tried EXCEPT ![r] = @ \cup {q}],
             attempt' = [attempt EXCEPT ![r] = 1]
      PROVE  StepsLeft(r)' < StepsLeft(r)
  <2> DEFINE k == Cardinality(Providers \ tried[r])
             a == 2 * MaxAttempts
  <2>1. /\ pc'[r] = "call" /\ tried'[r] = tried[r] \cup {q} /\ attempt'[r] = 1
    BY <1>2 DEF TypeOK
  <2>2. k \in Nat /\ Cardinality(Providers \ tried'[r]) = k - 1
    BY <2>1, Untried DEF Fallbacks
  <2>3. StepsLeft(r)' = a * (k - 1) + 2 * (MaxAttempts - 1) + 1
    BY <2>1, <2>2 DEF StepsLeft
  <2>4. StepsLeft(r) >= a * k + 2 * (MaxAttempts - attempt[r]) + 1
    BY <2>2, GatewayAssumption, LessMeansOneRoundLess DEF StepsLeft, TypeOK
  <2>5. a \in Nat /\ MaxAttempts \in Nat /\ attempt[r] \in 1 .. MaxAttempts
    BY GatewayAssumption DEF TypeOK
  <2>6. a * k \in Nat /\ a * (k - 1) = a * k - a
    BY <2>2, <2>5, LessMeansOneRoundLess
  <2>7. StepsLeft(r) \in Nat
    BY StepsLeftType
  <2> QED
    BY <2>3, <2>4, <2>5, <2>6, <2>7
<1> QED
  BY <1>1, <1>2 DEF MoveOn

\* A failed attempt is counted before the wait.
LEMMA AttemptFailedRunsDown ==
  ASSUME TypeOK, NEW r \in Requests, NEW bs, NEW retryable,
         AttemptFailed(r, bs, retryable), pc[r] \in {"call", "wait"}
  PROVE  StepsLeft(r)' < StepsLeft(r)
<1>1. CASE retryable /\ attempt[r] < MaxAttempts
  <2> DEFINE rest == (2 * MaxAttempts) * Cardinality(Providers \ tried[r])
  <2>1. /\ pc'[r] = "wait" /\ tried'[r] = tried[r] /\ attempt'[r] = attempt[r] + 1
    BY <1>1 DEF AttemptFailed, TypeOK
  <2>2. rest \in Nat
    BY Untried, GatewayAssumption, LessMeansOneRoundLess
  <2>3. StepsLeft(r)' = rest + 2 * (MaxAttempts - (attempt[r] + 1)) + 2
    BY <2>1 DEF StepsLeft
  <2>4. StepsLeft(r) \in {rest + 2 * (MaxAttempts - attempt[r]) + 1,
                          rest + 2 * (MaxAttempts - attempt[r]) + 2}
    BY DEF StepsLeft
  <2>5. MaxAttempts \in Nat /\ attempt[r] \in 1 .. MaxAttempts
    BY GatewayAssumption DEF TypeOK
  <2> HIDE DEF rest
  <2> QED
    BY <2>2, <2>3, <2>4, <2>5
<1>2. CASE ~(retryable /\ attempt[r] < MaxAttempts)
  BY <1>2, MoveOnRunsDown DEF AttemptFailed
<1> QED
  BY <1>1, <1>2

LEMMA CallStepRunsDown ==
  ASSUME TypeOK, NEW r \in Requests, CallStep(r)
  PROVE  StepsLeft(r)' < StepsLeft(r)
<1>1. CASE CallReturns(r)
  BY <1>1, EndsRunsDown DEF CallReturns
<1>2. CASE CallFails(r)
  BY <1>2, AttemptFailedRunsDown DEF CallFails
<1>3. CASE Retry(r)
  <2>1. CASE IsAvailable(breaker[provider[r]])
    <3>1. /\ pc[r] = "wait" /\ pc'[r] = "call"
          /\ tried'[r] = tried[r] /\ attempt'[r] = attempt[r]
      BY <1>3, <2>1 DEF Retry, TypeOK
    <3>2. /\ (2 * MaxAttempts) * Cardinality(Providers \ tried[r]) \in Nat
          /\ MaxAttempts - attempt[r] \in Nat
      <4>1. MaxAttempts - attempt[r] \in Nat
        BY GatewayAssumption DEF TypeOK
      <4> QED
        BY <4>1, Untried, GatewayAssumption, LessMeansOneRoundLess
    <3> QED
      BY <3>1, <3>2 DEF StepsLeft
  <2>2. CASE ~IsAvailable(breaker[provider[r]])
    BY <1>3, <2>2, AttemptFailedRunsDown DEF Retry
  <2> QED
    BY <2>1, <2>2
<1> QED
  BY <1>1, <1>2, <1>3 DEF CallStep

\* Request x is left as it was.
Untouched(x) == pc'[x] = pc[x] /\ tried'[x] = tried[x] /\ attempt'[x] = attempt[x]

LEMMA OthersUntouched ==
  ASSUME TypeOK, NEW r \in Requests, NEW x \in Requests \ {r},
         Begin(r) \/ BeginFails(r) \/ CallStep(r) \/ StreamStep(r)
  PROVE  Untouched(x)
<1>1. CASE Begin(r) \/ BeginFails(r)
  BY <1>1 DEF Begin, BeginFails, Ends, Untouched, TypeOK
<1>2. ASSUME NEW bs, MoveOn(r, bs)
      PROVE  Untouched(x)
  BY <1>2 DEF MoveOn, Ends, Untouched, TypeOK
<1>3. ASSUME NEW bs, NEW retryable, AttemptFailed(r, bs, retryable)
      PROVE  Untouched(x)
  BY <1>2, <1>3 DEF AttemptFailed, Untouched, TypeOK
<1>4. CASE CallReturns(r)
  BY <1>4 DEF CallReturns, Ends, Untouched, TypeOK
<1>5. CASE CallFails(r)
  BY <1>3, <1>5 DEF CallFails
<1>6. CASE Retry(r)
  <2>1. CASE IsAvailable(breaker[provider[r]])
    BY <1>6, <2>1 DEF Retry, Untouched, TypeOK
  <2>2. CASE ~IsAvailable(breaker[provider[r]])
    BY <1>3, <1>6, <2>2 DEF Retry
  <2> QED
    BY <2>1, <2>2
<1>7. CASE StreamStep(r)
  BY <1>7 DEF StreamStep, StreamFinishes, StreamThrows, StreamEnds, Ends, Untouched, TypeOK
<1> QED
  BY <1>1, <1>4, <1>5, <1>6, <1>7 DEF CallStep

LEMMA RunsDownStep ==
  ASSUME TypeOK, [Next]_vars, NEW x \in Requests
  PROVE  RunsDown(x)
<1> SUFFICES ASSUME pc[x] \in {"call", "wait"}, ~ CallStep(x)
             PROVE  StepsLeft(x)' = StepsLeft(x)
  BY CallStepRunsDown DEF RunsDown
<1>1. Untouched(x)
  <2>1. CASE Tick \/ UNCHANGED vars
    BY <2>1 DEF Tick, vars, requestVars, Untouched
  <2>2. ASSUME NEW r \in Requests,
               Begin(r) \/ BeginFails(r) \/ CallStep(r) \/ StreamStep(r)
        PROVE  Untouched(x)
    <3>1. CASE r # x
      BY <2>2, <3>1, OthersUntouched
    <3>2. CASE r = x
      BY <2>2, <3>2
      DEF Begin, BeginFails, StreamStep, StreamFinishes, StreamThrows, StreamEnds
    <3> QED
      BY <3>1, <3>2
  <2> QED
    BY <2>1, <2>2 DEF Next
<1> QED
  BY <1>1 DEF Untouched, StepsLeft

\* Who has begun has tried a provider.
TriedSome == \A r \in Requests : pc[r] \in {"call", "wait"} => tried[r] # {}

LEMMA TriedSomeStep ==
  ASSUME TypeOK, TriedSome, [Next]_vars
  PROVE  TriedSome'
<1> SUFFICES ASSUME NEW x \in Requests, pc'[x] \in {"call", "wait"}
             PROVE  tried'[x] # {}
  BY DEF TriedSome
<1>1. CASE Untouched(x)
  BY <1>1 DEF Untouched, TriedSome
<1>2. CASE Begin(x) \/ BeginFails(x)
  BY <1>2 DEF Begin, BeginFails, Ends, TypeOK
<1>3. ASSUME NEW bs, MoveOn(x, bs)
      PROVE  tried'[x] # {}
  <2>1. CASE Ends(x, "failed")
    BY <2>1 DEF Ends, TypeOK
  <2>2. ASSUME NEW q, tried' = [tried EXCEPT ![x] = @ \cup {q}]
        PROVE  tried'[x] # {}
    <3>1. tried'[x] = tried[x] \cup {q}
      BY <2>2 DEF TypeOK
    <3> QED
      BY <3>1
  <2> QED
    BY <1>3, <2>1, <2>2 DEF MoveOn
<1>4. ASSUME NEW bs, NEW retryable, AttemptFailed(x, bs, retryable), pc[x] \in {"call", "wait"}
      PROVE  tried'[x] # {}
  <2>1. CASE retryable /\ attempt[x] < MaxAttempts
    BY <1>4, <2>1 DEF AttemptFailed, TriedSome
  <2>2. CASE ~(retryable /\ attempt[x] < MaxAttempts)
    BY <1>3, <1>4, <2>2 DEF AttemptFailed
  <2> QED
    BY <2>1, <2>2
<1>5. CASE CallReturns(x)
  BY <1>5 DEF CallReturns, Ends, TypeOK
<1>6. CASE CallFails(x)
  BY <1>4, <1>6 DEF CallFails
<1>7. CASE Retry(x)
  <2>1. CASE IsAvailable(breaker[provider[x]])
    BY <1>7, <2>1 DEF Retry, TriedSome
  <2>2. CASE ~IsAvailable(breaker[provider[x]])
    BY <1>4, <1>7, <2>2 DEF Retry
  <2> QED
    BY <2>1, <2>2
<1>8. CASE StreamStep(x)
  BY <1>8 DEF StreamStep, StreamFinishes, StreamThrows, StreamEnds, Ends, TypeOK
<1>9. CASE Tick \/ UNCHANGED vars
  BY <1>1, <1>9 DEF Tick, vars, requestVars, Untouched
<1> QED
  BY <1>1, <1>2, <1>5, <1>6, <1>7, <1>8, <1>9, OthersUntouched DEF Next, CallStep

LEMMA StepsAreBounded == TypeOK /\ TriedSome => StepsBounded
<1> SUFFICES ASSUME TypeOK, TriedSome, NEW r \in Requests
             PROVE  StepsLeft(r) \in 0 .. (2 * MaxAttempts) * Cardinality(Providers)
  BY DEF StepsBounded
<1> DEFINE a == 2 * MaxAttempts
           k == Cardinality(Providers \ tried[r])
           n == Cardinality(Providers)
<1>1. a \in Nat /\ k \in Nat /\ n \in Nat /\ k <= n /\ a * n \in Nat
  BY Untried, GatewayAssumption, LessMeansOneRoundLess
<1>2. CASE pc[r] \notin {"call", "wait"}
  BY <1>1, <1>2 DEF StepsLeft
<1>3. CASE pc[r] \in {"call", "wait"}
  <2>1. k < n
    <3>1. PICK p \in Providers : p \in tried[r]
      BY <1>3 DEF TriedSome, TypeOK
    <3>2. Providers \ tried[r] \subseteq Providers \ {p} /\ IsFiniteSet(Providers)
      BY <3>1, GatewayAssumption
    <3>3. IsFiniteSet(Providers \ {p}) /\ Cardinality(Providers \ {p}) = n - 1
      BY <3>2, FS_RemoveElement
    <3>4. k <= n - 1
      BY <3>2, <3>3, FS_Subset
    <3> QED
      BY <1>1, <3>4
  <2>2. a * k + a <= a * n /\ a * k \in Nat
    <3>1. n - (k + 1) \in Nat /\ n = (k + 1) + (n - (k + 1))
      BY <1>1, <2>1
    <3>2. a * (n - (k + 1)) \in Nat
      BY <1>1, <3>1, LessMeansOneRoundLess
    <3>3. a * (n - (k + 1)) = a * n - a * k - a
      BY <1>1
    <3> QED
      BY <1>1, <3>2, <3>3, LessMeansOneRoundLess
  <2>3. MaxAttempts \in Nat \ {0} /\ attempt[r] \in 1 .. MaxAttempts
    BY GatewayAssumption DEF TypeOK
  <2>4. StepsLeft(r) \in {a * k + 2 * (MaxAttempts - attempt[r]) + 1,
                          a * k + 2 * (MaxAttempts - attempt[r]) + 2}
    BY <1>3 DEF StepsLeft
  <2> QED
    BY <1>1, <2>2, <2>3, <2>4
<1> QED
  BY <1>2, <1>3

\* A request for a completion has only so many steps before it, whatever the
\* breakers, the clock and the other requests do: never more than two for each
\* attempt with each provider.  At each step of its own it has fewer left, also at a
\* refusal by an OPEN breaker, which makes no call, and no step of another adds to
\* them (llm-gateway.ts:276-303).
THEOREM StepsRunOut ==
  Spec => /\ []StepsBounded
          /\ [][\A r \in Requests : RunsDown(r)]_vars
<1>1. Init => TriedSome
  BY DEF Init, TriedSome
<1>2. TypeOK /\ TriedSome /\ [Next]_vars => TriedSome'
  BY TriedSomeStep
<1>3. TypeOK /\ [Next]_vars => [\A r \in Requests : RunsDown(r)]_vars
  BY RunsDownStep
<1> QED
  BY <1>1, <1>2, <1>3, StepsAreBounded, TypeCorrect, PTL DEF Spec
=============================================================================
