---------------------------- MODULE EventDelivery ----------------------------
(***************************************************************************)
(* The in-process event bus: EventBus.publish, the EventDispatcher that    *)
(* runs the registered handlers with retries, the IdempotencyMiddleware    *)
(* the registry puts around each handler, and BaseEventHandler.handle with *)
(* its ProcessedEvents table.  Several deliveries run interleaved at their *)
(* awaits; the same event may be delivered more than once (the outbox      *)
(* publishes at least once).  A restart gives every handler a new random   *)
(* handlerId, so a row of ProcessedEvents belongs to one incarnation.      *)
(***************************************************************************)
EXTENDS Integers, FiniteSets

CONSTANTS Events,
          Deliveries,      \* calls of EventBus.publish
          NumHandlers,     \* handlers of the event's type, by priority
          MaxAttempts,     \* EventRetryPolicy.maxAttempts (3 in the code)
          MaxCrashes,      \* bound on process restarts
          MaxFaults,       \* bound on failed database calls
          NoEvent

ASSUME DeliveryAssumption == /\ IsFiniteSet(Deliveries)
                             /\ NumHandlers \in Nat \ {0}
                             /\ MaxAttempts \in Nat \ {0}
                             /\ MaxCrashes \in Nat
                             /\ MaxFaults \in Nat
                             /\ NoEvent \notin Events

VARIABLES
  event,      \* [Deliveries -> Events \cup {NoEvent}]
  mode,       \* [Deliveries -> {"SYNC", "ASYNC"}]
  pc,         \* [Deliveries -> DeliveryState]: the await the delivery stands at
  turn,       \* [Deliveries -> Nat]: the handler whose turn it is
  attempt,    \* [Deliveries -> Nat]: failed attempts of that handler
  outcome,    \* [Deliveries -> [Handlers -> Outcome]]: results of the handlers
  processed,  \* rows of ProcessedEvents
  faults,     \* failed database calls so far
  dlq,        \* deliveries in the in-memory dead letter queue
  epoch,      \* restarts so far
  effects,    \* [Keys -> Nat]: completed runs of onEvent
  degraded,   \* [Keys -> Nat]: history, runs the dedup row does not cover
  thrown      \* keys whose onEvent has thrown

deliveryVars == <<event, mode, pc, turn, attempt, outcome>>
dbVars == <<processed, faults>>
handlerVars == <<effects, degraded, thrown>>
vars == <<deliveryVars, dbVars, dlq, epoch, handlerVars>>

Handlers == 1..NumHandlers
Epochs == 0..MaxCrashes

\* (eventId, handlerId): the unique key of ProcessedEvents.
Keys == Events \X Handlers \X Epochs
Key(d) == <<event[d], turn[d], epoch>>

DeliveryState == {"idle", "check", "mark", "onEvent", "commit", "again", "record",
                  "done", "lost"}
Outcome == {"none", "ok", "failed"}

Init ==
  /\ event = [d \in Deliveries |-> NoEvent]
  /\ mode = [d \in Deliveries |-> "SYNC"]
  /\ pc = [d \in Deliveries |-> "idle"]
  /\ turn = [d \in Deliveries |-> 1]
  /\ attempt = [d \in Deliveries |-> 0]
  /\ outcome = [d \in Deliveries |-> [h \in Handlers |-> "none"]]
  /\ processed = {}
  /\ faults = 0
  /\ dlq = {}
  /\ epoch = 0
  /\ effects = [k \in Keys |-> 0]
  /\ degraded = [k \in Keys |-> 0]
  /\ thrown = {}

-----------------------------------------------------------------------------
\* EventBus.publish.  SYNC deliveries run inside publish(), ASYNC ones from
\* setImmediate after publish() has returned; both walk the same handler list.
Publish(d, e, m) ==
  /\ pc[d] = "idle"
  /\ event' = [event EXCEPT ![d] = e]
  /\ mode' = [mode EXCEPT ![d] = m]
  /\ pc' = [pc EXCEPT ![d] = "check"]
  /\ UNCHANGED <<turn, attempt, outcome, dbVars, dlq, epoch, handlerVars>>

\* A database call either answers or fails.
Answers == UNCHANGED faults

Fails == /\ faults < MaxFaults
         /\ faults' = faults + 1

Goto(d, p) == pc' = [pc EXCEPT ![d] = p]

Stay == UNCHANGED <<event, mode, turn, attempt, outcome, dlq, epoch>>

\* Mutant: a failed handler ends the dispatch.
EndHandler_Breaks(d, result) ==
  LET last == turn[d] = NumHandlers \/ result = "failed"
      raised == mode[d] = "SYNC" /\ result = "failed"
  IN /\ outcome' = [outcome EXCEPT ![d][turn[d]] = result]
     /\ turn' = [turn EXCEPT ![d] = IF last THEN @ ELSE @ + 1]
     /\ attempt' = [attempt EXCEPT ![d] = 0]
     /\ Goto(d, IF last THEN "done" ELSE "check")
     /\ dlq' = IF last /\ raised THEN dlq \cup {d} ELSE dlq
     /\ UNCHANGED <<event, mode, epoch>>

\* Mutant: the index of the handler loop is not advanced.
EndHandler_SameTurn(d, result) ==
  LET last == turn[d] = NumHandlers
  IN /\ outcome' = [outcome EXCEPT ![d][turn[d]] = result]
     /\ attempt' = [attempt EXCEPT ![d] = 0]
     /\ Goto(d, IF last THEN "done" ELSE "check")
     /\ UNCHANGED <<event, mode, turn, dlq, epoch>>

\* The next handler, or the end.  dispatchSync throws the first error when every
\* handler has had its turn, and publish() then moves the event to the dead
\* letter queue; dispatchAsync drops the result of executeWithRetry.
EndHandler(d, result) ==
  LET results == [outcome[d] EXCEPT ![turn[d]] = result]
      last == turn[d] = NumHandlers
      raised == mode[d] = "SYNC" /\ \E h \in Handlers : results[h] = "failed"
  IN /\ outcome' = [outcome EXCEPT ![d] = results]
     /\ turn' = [turn EXCEPT ![d] = IF last THEN @ ELSE @ + 1]
     /\ attempt' = [attempt EXCEPT ![d] = 0]
     /\ Goto(d, IF last THEN "done" ELSE "check")
     /\ dlq' = IF last /\ raised THEN dlq \cup {d} ELSE dlq
     /\ UNCHANGED <<event, mode, epoch>>

-----------------------------------------------------------------------------
\* IdempotencyMiddleware.handle before the handler: isProcessed.

CheckSeen(d) ==
  /\ pc[d] = "check"
  /\ Key(d) \in processed
  /\ EndHandler(d, "ok")
  /\ UNCHANGED <<dbVars, handlerVars>>

\* There is no row, or the query failed ("proceeding with handler").
CheckProceeds(d) ==
  /\ pc[d] = "check"
  /\ \/ Answers /\ Key(d) \notin processed
     \/ Fails
  /\ Goto(d, "mark")
  /\ UNCHANGED <<processed, handlerVars>>
  /\ Stay

-----------------------------------------------------------------------------
\* BaseEventHandler.handle.  The row is created through the global client, not
\* through the transaction's: it is committed at once and never rolled back.

\* Mutant: no unique constraint on (eventId, handlerId).
MarkCreates_NotUnique(d) ==
  /\ pc[d] = "mark"
  /\ processed' = processed \cup {Key(d)}
  /\ Answers
  /\ Goto(d, "onEvent")
  /\ UNCHANGED handlerVars
  /\ Stay

MarkCreates(d) ==
  /\ pc[d] = "mark"
  /\ Key(d) \notin processed
  /\ processed' = processed \cup {Key(d)}
  /\ Answers
  /\ Goto(d, "onEvent")
  /\ UNCHANGED handlerVars
  /\ Stay

\* Unique constraint violation: the callback returns without calling onEvent.
MarkConflicts(d) ==
  /\ pc[d] = "mark"
  /\ Key(d) \in processed
  /\ Goto(d, "commit")
  /\ UNCHANGED <<dbVars, handlerVars>>
  /\ Stay

\* Any other database error: onEvent runs without the row.
MarkFails(d) ==
  /\ pc[d] = "mark"
  /\ Fails
  /\ degraded' = [degraded EXCEPT ![Key(d)] = @ + 1]
  /\ Goto(d, "again")
  /\ UNCHANGED <<processed, effects, thrown>>
  /\ Stay

Affect(d) == effects' = [effects EXCEPT ![Key(d)] = @ + 1]

OnEventReturns(d) ==
  /\ pc[d] = "onEvent"
  /\ Affect(d)
  /\ Goto(d, "commit")
  /\ UNCHANGED <<dbVars, degraded, thrown>>
  /\ Stay

\* The transaction is rolled back, the error is taken for a failed idempotency
\* check, and onEvent runs again.
OnEventThrows(d) ==
  /\ pc[d] = "onEvent"
  /\ Goto(d, "again")
  /\ thrown' = thrown \cup {Key(d)}
  /\ UNCHANGED <<dbVars, effects, degraded>>
  /\ Stay

Commits(d) ==
  /\ pc[d] = "commit"
  /\ Goto(d, "record")
  /\ UNCHANGED <<dbVars, handlerVars>>
  /\ Stay

\* The transaction expired or the commit failed: onEvent runs (once more), even
\* if the callback had found the event already processed.
CommitFails(d) ==
  /\ pc[d] = "commit"
  /\ Fails
  /\ degraded' = [degraded EXCEPT ![Key(d)] = @ + 1]
  /\ Goto(d, "again")
  /\ UNCHANGED <<processed, effects, thrown>>
  /\ Stay

AgainReturns(d) ==
  /\ pc[d] = "again"
  /\ Affect(d)
  /\ Goto(d, "record")
  /\ UNCHANGED <<dbVars, degraded, thrown>>
  /\ Stay

\* Mutant: the last attempt is retried once more.
AgainThrows_OneTooMany(d) ==
  /\ pc[d] = "again"
  /\ IF attempt[d] < MaxAttempts
       THEN /\ attempt' = [attempt EXCEPT ![d] = @ + 1]
            /\ Goto(d, "check")
            /\ UNCHANGED <<event, mode, turn, outcome, dlq, epoch>>
       ELSE EndHandler(d, "failed")
  /\ thrown' = thrown \cup {Key(d)}
  /\ UNCHANGED <<dbVars, effects, degraded>>

\* The handler's Result is a failure: retry after the backoff, or give up.
AgainThrows(d) ==
  /\ pc[d] = "again"
  /\ IF attempt[d] + 1 < MaxAttempts
       THEN /\ attempt' = [attempt EXCEPT ![d] = @ + 1]
            /\ Goto(d, "check")
            /\ UNCHANGED <<event, mode, turn, outcome, dlq, epoch>>
       ELSE EndHandler(d, "failed")
  /\ thrown' = thrown \cup {Key(d)}
  /\ UNCHANGED <<dbVars, effects, degraded>>

-----------------------------------------------------------------------------
\* Mutant: the row is written for every handler of the event.
Record_AllHandlers(d) ==
  /\ pc[d] = "record"
  /\ processed' = processed \cup {<<event[d], h, epoch>> : h \in Handlers}
  /\ Answers
  /\ EndHandler(d, "ok")
  /\ UNCHANGED handlerVars

\* IdempotencyMiddleware.handle after a success: the row is written if it is not
\* there; an error is ignored.
Record(d) ==
  /\ pc[d] = "record"
  /\ \/ Answers /\ processed' = processed \cup {Key(d)}
     \/ Fails /\ UNCHANGED processed
  /\ EndHandler(d, "ok")
  /\ UNCHANGED handlerVars

-----------------------------------------------------------------------------
\* The process dies: the continuations and the in-memory queue are gone.
Crash ==
  /\ epoch < MaxCrashes
  /\ epoch' = epoch + 1
  /\ pc' = [d \in Deliveries |->
              IF pc[d] \in {"idle", "done", "lost"} THEN pc[d] ELSE "lost"]
  /\ dlq' = {}
  /\ UNCHANGED <<event, mode, turn, attempt, outcome, dbVars, handlerVars>>

DeliveryStep(d) ==
  \/ CheckSeen(d) \/ CheckProceeds(d)
  \/ MarkCreates(d) \/ MarkConflicts(d) \/ MarkFails(d)
  \/ OnEventReturns(d) \/ OnEventThrows(d)
  \/ Commits(d) \/ CommitFails(d)
  \/ AgainReturns(d) \/ AgainThrows(d)
  \/ Record(d)

Next == \/ \E d \in Deliveries, e \in Events, m \in {"SYNC", "ASYNC"} : Publish(d, e, m)
        \/ \E d \in Deliveries : DeliveryStep(d)
        \/ Crash

Spec == Init /\ [][Next]_vars

\* The event loop resumes every continuation of a live process.
LiveSpec == Spec /\ \A d \in Deliveries : WF_vars(DeliveryStep(d))

-----------------------------------------------------------------------------
\* Properties.

TypeOK ==
  /\ event \in [Deliveries -> Events \cup {NoEvent}]
  /\ mode \in [Deliveries -> {"SYNC", "ASYNC"}]
  /\ pc \in [Deliveries -> DeliveryState]
  /\ \A d \in Deliveries : pc[d] # "idle" => event[d] \in Events
  /\ turn \in [Deliveries -> Handlers]
  /\ attempt \in [Deliveries -> 0..(MaxAttempts - 1)]
  /\ outcome \in [Deliveries -> [Handlers -> Outcome]]
  /\ processed \subseteq Keys
  /\ faults \in 0..MaxFaults
  /\ dlq \subseteq Deliveries
  /\ epoch \in Epochs
  /\ effects \in [Keys -> Nat]
  /\ degraded \in [Keys -> Nat]
  /\ thrown \subseteq Keys

\* "Prevents side effects from duplicate event handling" (idempotency-middleware.ts:14):
\* however many deliveries of an event overlap and retry, a handler's onEvent
\* completes once per incarnation of the process, and once more only for each
\* failed write of the row or failed commit.
EffectsBounded == \A k \in Keys : effects[k] <= 1 + degraded[k]

\* An event that a row of ProcessedEvents hides from every later delivery has
\* been handled, is being handled, or was lost in one of two ways: onEvent threw
\* after the row was written, or the process died in between.
Working(d, k) == pc[d] \notin {"idle", "done", "lost"} /\ Key(d) = k

RowsAccountedFor ==
  \A k \in processed :
    \/ effects[k] > 0
    \/ \E d \in Deliveries : Working(d, k)
    \/ k \in thrown
    \/ k[3] < epoch

\* Every delivery comes to an end, unless the process dies first: executeWithRetry
\* does not retry for ever and no handler is waited for twice.
DeliveriesEnd ==
  \A d \in Deliveries : pc[d] # "idle" ~> pc[d] \in {"done", "lost"}

\* "All within a transaction to ensure atomicity" (base-event-handler.ts:49),
\* "exactly-once delivery" (world-updated.handler.ts:18): when a delivery reports
\* a handler's success, its onEvent has completed, or another delivery is at it.
SuccessIsHandled ==
  \A d \in Deliveries, h \in Handlers :
    outcome[d][h] = "ok" =>
      \/ \E ep \in Epochs : effects[<<event[d], h, ep>>] > 0
      \/ \E x \in Deliveries : Working(x, <<event[d], h, epoch>>)

\* "Moved to DLQ after max retries" (HANDLER_REGISTRY.md:291, of the async handlers), "Failed
\* events move to the dead letter queue after exhausting retries" (engines/event/README.md:230):
\* a delivery that ends when some handler of it has used up its attempts is in the queue.
FailedIsDeadLettered ==
  [][\A d \in Deliveries :
       /\ pc[d] # "done" /\ pc'[d] = "done"
       /\ \E h \in Handlers : outcome'[d][h] = "failed"
       => d \in dlq']_vars
=============================================================================
