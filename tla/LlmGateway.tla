----------------------------- MODULE LlmGateway -----------------------------
(***************************************************************************)
(* The LLM gateway: requests that interleave at their awaits, each trying  *)
(* providers one after the other with retries, over one circuit breaker    *)
(* per provider that all of them share.  A call is answered when its       *)
(* provider's breaker may have changed state several times.                *)
(***************************************************************************)
EXTENDS Integers, FiniteSets

CONSTANTS Providers,         \* the enabled providers
          Requests,
          FailureThreshold,  \* 5 in the code
          SuccessThreshold,  \* 2 in the code
          ResetTimeout,      \* ticks, 30 s in the code
          MaxAttempts,       \* LLMRetryPolicy.maxAttempts
          MaxTime,           \* bound on the clock
          NoProvider

ASSUME GatewayAssumption ==
  /\ FailureThreshold \in Nat \ {0} /\ SuccessThreshold \in Nat \ {0}
  /\ ResetTimeout \in Nat \ {0} /\ MaxAttempts \in Nat \ {0} /\ MaxTime \in Nat
  /\ IsFiniteSet(Providers) /\ NoProvider \notin Providers

VARIABLES
  clock,
  breaker,    \* [Providers -> Breaker]
  pc,         \* [Requests -> RequestState]: the await a request stands at
  provider,   \* [Requests -> Providers \cup {NoProvider}]: whom it asks now
  tried,      \* [Requests -> SUBSET Providers]
  attempt,    \* [Requests -> Nat]: attempts with that provider
  run,        \* [Providers -> Int]: history, failures in a row, or minus the
              \* successes in a row, that ended last
  failedAt    \* [Providers -> Int]: history, the time of the last failure

requestVars == <<pc, provider, tried, attempt>>
historyVars == <<run, failedAt>>
vars == <<clock, breaker, requestVars, historyVars>>

Breaker == [state : {"CLOSED", "OPEN", "HALF_OPEN"}, failureCount : Nat,
            successCount : Nat, lastFailureTime : Nat]

RequestState == {"new", "call", "wait", "stream", "finished", "ok", "failed"}

\* Request r ends: the variables of its calls are gone.
Ends(r, how) ==
  /\ pc' = [pc EXCEPT ![r] = how]
  /\ provider' = [provider EXCEPT ![r] = NoProvider]
  /\ tried' = [tried EXCEPT ![r] = {}]
  /\ attempt' = [attempt EXCEPT ![r] = 1]

FreshBreaker ==
  [state |-> "CLOSED", failureCount |-> 0, successCount |-> 0, lastFailureTime |-> 0]

Init ==
  /\ clock = 0
  /\ breaker = [p \in Providers |-> FreshBreaker]
  /\ pc = [r \in Requests |-> "new"]
  /\ provider = [r \in Requests |-> NoProvider]
  /\ tried = [r \in Requests |-> {}]
  /\ attempt = [r \in Requests |-> 1]
  /\ run = [p \in Providers |-> 0]
  /\ failedAt = [p \in Providers |-> -ResetTimeout]

Tick ==
  /\ clock < MaxTime
  /\ clock' = clock + 1
  /\ UNCHANGED <<breaker, requestVars, historyVars>>

-----------------------------------------------------------------------------
\* ProviderCircuitBreaker.

IsAvailable(b) == b.state # "OPEN" \/ clock - b.lastFailureTime >= ResetTimeout

\* isAvailable() also moves an OPEN breaker that is available to HALF_OPEN.
Asked(b) ==
  IF b.state = "OPEN" /\ IsAvailable(b)
    THEN [b EXCEPT !.state = "HALF_OPEN", !.successCount = 0]
    ELSE b

AskedAll(bs, S) == [p \in Providers |-> IF p \in S THEN Asked(bs[p]) ELSE bs[p]]

\* A success counts towards the recovery of a HALF_OPEN breaker.
Tested(b) ==
  IF b.successCount + 1 >= SuccessThreshold
    THEN FreshBreaker
    ELSE [b EXCEPT !.successCount = @ + 1]

\* A mutant: a success in CLOSED leaves the failures counted.
RecordSuccess_KeepsFailures(b) == IF b.state = "HALF_OPEN" THEN Tested(b) ELSE b

\* A mutant: a late success counts in OPEN too.
RecordSuccess_CountsWhenOpen(b) ==
  IF b.state = "CLOSED" THEN [b EXCEPT !.failureCount = 0] ELSE Tested(b)

\* A success in OPEN is ignored.
RecordSuccess(b) ==
  IF b.state = "HALF_OPEN" THEN Tested(b)
  ELSE IF b.state = "CLOSED" THEN [b EXCEPT !.failureCount = 0]
  ELSE b

\* A mutant: a failure of an OPEN breaker does not begin the timeout anew.
RecordFailure_FirstFailureTime(b) ==
  [state |-> IF b.state = "CLOSED" /\ b.failureCount + 1 < FailureThreshold
               THEN "CLOSED" ELSE "OPEN",
   failureCount |-> b.failureCount + 1,
   successCount |-> IF b.state = "HALF_OPEN" THEN 0 ELSE b.successCount,
   lastFailureTime |-> IF b.state = "OPEN" THEN b.lastFailureTime ELSE clock]

\* One failure reopens a HALF_OPEN breaker; in OPEN it begins the timeout anew.
RecordFailure(b) ==
  [state |-> IF b.state = "CLOSED" /\ b.failureCount + 1 < FailureThreshold
               THEN "CLOSED" ELSE "OPEN",
   failureCount |-> b.failureCount + 1,
   successCount |-> IF b.state = "HALF_OPEN" THEN 0 ELSE b.successCount,
   lastFailureTime |-> clock]

-----------------------------------------------------------------------------
\* BaseLLMProvider: how a call of request r ends.

NoteSuccess(p) ==
  /\ run' = [run EXCEPT ![p] = IF @ > 0 THEN -1 ELSE @ - 1]
  /\ UNCHANGED failedAt

NoteFailure(p) ==
  /\ run' = [run EXCEPT ![p] = IF @ < 0 THEN 1 ELSE @ + 1]
  /\ failedAt' = [failedAt EXCEPT ![p] = clock]

Succeeded(p) == [breaker EXCEPT ![p] = RecordSuccess(@)]
Failed(p) == [breaker EXCEPT ![p] = RecordFailure(@)]

-----------------------------------------------------------------------------
\* LLMGateway.

\* A mutant: a provider that is being tested is left out.
Fallbacks_ClosedOnly(r, bs) ==
  {q \in Providers \ tried[r] : bs[q].state = "CLOSED"}

\* FallbackStrategy.nextProvider, whatever the configured order is.
Fallbacks(r, bs) == {q \in Providers \ tried[r] : IsAvailable(bs[q])}

\* executeWithRetryAndFallback is done with a provider; bs are the breakers then.
MoveOn(r, bs) ==
  \/ /\ Fallbacks(r, bs) = {}
     /\ Ends(r, "failed")
     /\ breaker' = bs
  \/ \E q \in Fallbacks(r, bs) :
       /\ pc' = [pc EXCEPT ![r] = "call"]
       /\ provider' = [provider EXCEPT ![r] = q]
       /\ tried' = [tried EXCEPT ![r] = @ \cup {q}]
       /\ attempt' = [attempt EXCEPT ![r] = 1]
       /\ breaker' = AskedAll(bs, {q})

\* A mutant: one attempt too many.
AttemptFailed_OneTooMany(r, bs, retryable) ==
  IF retryable /\ attempt[r] <= MaxAttempts
    THEN /\ pc' = [pc EXCEPT ![r] = "wait"]
         /\ attempt' = [attempt EXCEPT ![r] = @ + 1]
         /\ breaker' = bs
         /\ UNCHANGED <<provider, tried>>
    ELSE MoveOn(r, bs)

\* The provider's answer is a failure: wait for another attempt, or move on.
AttemptFailed(r, bs, retryable) ==
  IF retryable /\ attempt[r] < MaxAttempts
    THEN /\ pc' = [pc EXCEPT ![r] = "wait"]
         /\ attempt' = [attempt EXCEPT ![r] = @ + 1]
         /\ breaker' = bs
         /\ UNCHANGED <<provider, tried>>
    ELSE MoveOn(r, bs)

Eligible == {p \in Providers : IsAvailable(breaker[p])}

\* complete() and stream() select a provider; select() asks every breaker.
Begin(r) ==
  /\ pc[r] = "new"
  /\ \E p \in Eligible, kind \in {"call", "stream"} :
       /\ pc' = [pc EXCEPT ![r] = kind]
       /\ provider' = [provider EXCEPT ![r] = p]
       /\ tried' = [tried EXCEPT ![r] = {p}]
  /\ breaker' = AskedAll(breaker, Providers)
  /\ UNCHANGED <<clock, attempt, historyVars>>

BeginFails(r) ==
  /\ pc[r] = "new"
  /\ Eligible = {}
  /\ Ends(r, "failed")
  /\ UNCHANGED <<clock, breaker, historyVars>>

CallReturns(r) ==
  /\ pc[r] = "call"
  /\ Ends(r, "ok")
  /\ breaker' = Succeeded(provider[r])
  /\ NoteSuccess(provider[r])
  /\ UNCHANGED clock

\* The transport throws, or the timeout wins the race; some errors are final.
CallFails(r) ==
  /\ pc[r] = "call"
  /\ \E retryable \in BOOLEAN : AttemptFailed(r, Failed(provider[r]), retryable)
  /\ NoteFailure(provider[r])
  /\ UNCHANGED clock

\* A mutant: while the breaker refuses, the attempt is made again uncounted.
Retry_RefusalUncounted(r) ==
  /\ pc[r] = "wait"
  /\ IF IsAvailable(breaker[provider[r]])
       THEN /\ pc' = [pc EXCEPT ![r] = "call"]
            /\ breaker' = AskedAll(breaker, {provider[r]})
       ELSE UNCHANGED <<pc, breaker>>
  /\ UNCHANGED <<clock, provider, tried, attempt, historyVars>>

\* After the delay the breaker is asked again; its refusal is a failed attempt
\* that is not recorded.
Retry(r) ==
  /\ pc[r] = "wait"
  /\ IF IsAvailable(breaker[provider[r]])
       THEN /\ pc' = [pc EXCEPT ![r] = "call"]
            /\ breaker' = AskedAll(breaker, {provider[r]})
            /\ UNCHANGED <<provider, tried, attempt>>
       ELSE AttemptFailed(r, breaker, TRUE)
  /\ UNCHANGED <<clock, historyVars>>

\* stream(): the success is recorded with the finished chunk; a stream may still
\* throw after it, or end without it.  There is no timeout, retry or fallback.
StreamFinishes(r) ==
  /\ pc[r] = "stream"
  /\ pc' = [pc EXCEPT ![r] = "finished"]
  /\ breaker' = Succeeded(provider[r])
  /\ NoteSuccess(provider[r])
  /\ UNCHANGED <<clock, provider, tried, attempt>>

StreamThrows(r) ==
  /\ pc[r] \in {"stream", "finished"}
  /\ Ends(r, "failed")
  /\ breaker' = Failed(provider[r])
  /\ NoteFailure(provider[r])
  /\ UNCHANGED clock

\* The stream ends, or its reader leaves it; a transport without streaming fails
\* it before there is anything to record.
StreamEnds(r) ==
  /\ \/ pc[r] \in {"stream", "finished"} /\ Ends(r, "ok")
     \/ pc[r] = "stream" /\ Ends(r, "failed")
  /\ UNCHANGED <<clock, breaker, historyVars>>

CallStep(r) == CallReturns(r) \/ CallFails(r) \/ Retry(r)
StreamStep(r) == StreamFinishes(r) \/ StreamThrows(r) \/ StreamEnds(r)

Next == \/ Tick
        \/ \E r \in Requests : Begin(r) \/ BeginFails(r) \/ CallStep(r) \/ StreamStep(r)

Spec == Init /\ [][Next]_vars

\* The timeout bounds every call; nothing bounds a stream.
LiveSpec == Spec /\ \A r \in Requests : WF_vars(CallStep(r))

-----------------------------------------------------------------------------
\* Properties.

TypeOK ==
  /\ clock \in Nat
  /\ breaker \in [Providers -> Breaker]
  /\ pc \in [Requests -> RequestState]
  /\ provider \in [Requests -> Providers \cup {NoProvider}]
  /\ \A r \in Requests : pc[r] \in {"call", "wait", "stream", "finished"} =>
                           provider[r] \in Providers
  /\ tried \in [Requests -> SUBSET Providers]
  /\ attempt \in [Requests -> 1..MaxAttempts]
  /\ run \in [Providers -> Int]
  /\ failedAt \in [Providers -> Int]

FailuresInARow(p) == IF run[p] > 0 THEN run[p] ELSE 0
SuccessesInARow(p) == IF run[p] < 0 THEN -run[p] ELSE 0

\* The counters mean what their names say, in every state of the breaker and
\* although answers arrive late: a CLOSED breaker has counted exactly the failures
\* in a row, fewer than the threshold; the others have had the threshold; a
\* HALF_OPEN one has counted no success that a failure has followed.
BreakerCounts ==
  \A p \in Providers : LET b == breaker[p] IN
    /\ b.state = "CLOSED" =>
         b.failureCount = FailuresInARow(p) /\ b.failureCount < FailureThreshold
    /\ b.state # "CLOSED" => b.failureCount >= FailureThreshold
    /\ b.state = "HALF_OPEN" =>
         b.successCount <= SuccessesInARow(p) /\ b.successCount < SuccessThreshold

\* The breaker moves along four transitions only, and no single answer that arrives late
\* trips or closes it: it trips after FailureThreshold failures in a row
\* (provider-circuit-breaker.ts:58-83), and closes after SuccessThreshold successes in a row
\* (lines 42-56; line 12 says less, see SuccessCloses).
BreakerTransitions ==
  [][\A p \in Providers : LET from == breaker[p].state
                              to == breaker'[p].state IN
       from # to =>
         \/ from = "CLOSED" /\ to = "OPEN" /\ FailuresInARow(p)' >= FailureThreshold
         \/ from = "OPEN" /\ to = "HALF_OPEN"
         \/ from = "HALF_OPEN" /\ to = "OPEN" /\ FailuresInARow(p)' > 0
         \/ from = "HALF_OPEN" /\ to = "CLOSED" /\ SuccessesInARow(p)' >= SuccessThreshold]_vars

\* A call starts: the request was not calling, or turns to another provider.
Starts(r) == /\ pc'[r] \in {"call", "stream"}
             /\ pc[r] \notin {"call", "stream"} \/ provider'[r] # provider[r]

\* A provider whose breaker has tripped is left alone for ResetTimeout after its
\* last failure, also a failure of a call that was under way when it tripped.
CoolDownRespected ==
  [][\A r \in Requests : Starts(r) =>
       \/ breaker'[provider'[r]].state = "CLOSED"
       \/ clock - failedAt[provider'[r]] >= ResetTimeout]_vars

\* A request gives up only when no provider is left that it has not tried and
\* that would take a call at that moment.
GivesUpOnlyIfNoneLeft ==
  [][\A r \in Requests :
       pc[r] \in {"new", "call", "wait"} /\ pc'[r] = "failed" =>
         \A q \in Providers : q \in tried[r] \/ ~IsAvailable(breaker'[q])]_vars

\* Every request for a completion ends: an attempt that an OPEN breaker refuses
\* uses up an attempt too (llm-gateway.ts:276-303), so that a request is not left
\* to wait for its provider to recover.
RequestsEnd ==
  \A r \in Requests : pc[r] = "call" ~> pc[r] \in {"ok", "failed"}

\* "HALF_OPEN -> CLOSED: If request succeeds" (provider-circuit-breaker.ts:12): the first
\* success a HALF_OPEN breaker is told of closes it.
SuccessCloses ==
  [][\A p \in Providers :
       breaker[p].state = "HALF_OPEN" /\ run'[p] < run[p] => breaker'[p].state = "CLOSED"]_vars

=============================================================================
