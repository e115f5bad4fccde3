# A TLA+ verification of the companion backend

The repository is the backend of a companion application: a TypeScript service
(Express, Prisma, Redis, Socket.IO) built around an event bus. This directory
holds TLA+ modules that model its concurrent and stateful core, TLC
configurations that check them on small instances, and TLAPS proofs of the most
important invariants for all instances.

Contents: 1 the system, 2 the modules and how they correspond to the code,
3 the runs, 4 bounds and fairness, 5 the proofs, 6 disagreements between code
and documentation, 7 what is not modelled, 8 the plan.

Paths are relative to `src/src/` unless they begin with `prisma/` or are upper
case (`src/HANDLER_REGISTRY.md`).

## 1. The system

Everything runs in Node.js processes. Within one process a function runs
undisturbed from one `await` to the next, so the interleavings are those of the
awaits; several processes share PostgreSQL and Redis.

    use case --persist--> Outbox table --poll--> OutboxPoller --publish--> EventBus
                                                                              |
                 ProcessedEvents <--check, mark-- middleware, handlers <--dispatch
                                                                              |
              moment, notification, relationship, memory engines <--onEvent---+
              socket gateway <-> realtime managers;  engines -> LLM gateway -> providers

### Components, their state, and what makes them correct

| Component | State | Operations | Hard behaviour | Correct means |
|---|---|---|---|---|
| Transactional outbox (`services/outbox`, `database/repositories/outbox.repository.ts`) | table `Outbox`; `isRunning`; a loop's locals across awaits | `persist`, `start`, `stop`, `poll`, `publishById`, `markPublished`, `markFailed`, `purgePublishedBefore` | several loops and processes; crash between publishing and marking; failed writes whose Result is ignored | committed events only; settled by what the bus answered; none is left PENDING; duplicates are bounded |
| Event bus and dispatcher (`engines/event/core`) | handler lists; in-memory dead letter queue | `publish`, `dispatchSync`, `dispatchAsync`, `executeWithRetry` | handlers of overlapping deliveries; failures of some handlers; `setImmediate` after `publish` returned | every handler has its turn; retries end; failures are dead-lettered (ASYNC ones are not, section 6) |
| Handler idempotency (`idempotency-middleware.ts`, `base-event-handler.ts`) | table `ProcessedEvents`; `handlerId` of the process | middleware `handle`, `markProcessed`, `onEvent` | check and mark separated by awaits; a row that survives the rollback; fallback on any error | `onEvent` completes once per event and handler; a row means the event was handled |
| Notification engine (`engines/notification`) | maps `byId`, `byDedupe`; throttle ledgers | `scheduleNotification`, `cancelNotification`, `dispatchDue` | passes that overlap at the channels' awaits; throttle checked before and charged after | the limit is exceeded by a bounded number; one send per pass; one waiting notification per dedupe key |
| LLM gateway (`engines/llm-gateway`) | circuit breakers per provider; metrics | `complete`, `executeWithRetryAndFallback`, `recordSuccess`, `recordFailure`, `isAvailable` | answers of old requests arriving in a new breaker state; half-open without a limit | a request ends; an open breaker is not called before its timeout |
| BullMQ dispatcher (`engines/event/core/bullmq-dispatcher.ts`) | jobs in Redis; registered handlers; `isWorkerRunning` | `dispatch`, `processJob`, `startWorker`, `stopWorker`, `close` | jobs outlive the process, the handler ids in them do not; a failed handler ends the round | a completed job has reached its handlers |
| Message brokers, Redis dead letter queue (`engines/event/brokers`, `engines/event/core/redis-dlq.ts`) | the client libraries' | publish, subscribe, ack | acknowledgement of failed messages | no message is acknowledged unhandled |
| Two-level cache (`infra/cache/redis-l1-cache.base.ts`) | L1 map with expiry, Redis | get, set, delete, clear | a value read from Redis is stored in L1 after a delete | nothing is served for longer than its L1 life |
| Scheduler base (`engines/scheduler`), moment engine (`engines/moment`) | map in the process; sorted set and hash in Redis | schedule, cancel, mark delivered | commands nobody waits for; read and write back | Redis ends up with what the map holds |
| Authentication and sessions (`engines/authentication`) | sessions, handed out by reference | login, refresh, logout, logout of all devices, clean-up | read before an await, check and write after it; objects that are replaced | what has ended stays ended; logout reaches every session |
| Realtime (`realtime`) | connections, presence, typing, interactions, streams, voice sessions | connect, disconnect, typing, interaction, stream, voice | many maps that must agree; a disconnect handler that may never run; pools at their limit | registries agree; capacity holds and is freed |
| Relationship engine (`engines/relationship`) | a row of scores; twelve derived dimensions | `recordEvent`, `evolveRelationship`, pause, resume, end | read, await, write without a lock; clamping and rounding | no work is undone that a call did not mean to change |
| Companion engine (`engines/companion`) | none; the caller hands the state back | resolve state, plan transition | a search through a graph of states | hops are legal and get there |
| Memory engines (`engines/memory`, `-query`, `-retrieval`) | repository, index, a timeline per relationship | create, update, merge, resolve a conflict, expire, archive | the order of saving and deleting; objects shared with callers, changed by them and handed in again | stores agree; what is closed stays as it is; nothing told is lost |
| Conversation, context, interaction, prompt and response engines | the pending consent question of a conversation | process a message | turns that overlap | a candidate is stored only on a yes to it |
| HTTP API, controllers and middleware | the rate limiters' counter in Redis | count, expire, refuse | two commands without a transaction | a counter expires |
| World and life simulator, evaluation; domain services and repositories; process and infrastructure | records, scores | pipelines, CRUD, start-up | mostly sequential, textual or numeric | - |

`PROJECT.json` lists every component with its sources and status, and under
`hazards` the 40 places where this code is hard to test, each at its line, with
the properties that cover it and, where they cover it in part or not at all, a note that says so.

## 2. The modules

| Module | What it is |
|---|---|
| `OutboxPromise` | abstract specification: what the outbox promises about one event |
| `Outbox` | table, transactions, poll loops, crashes, failed calls; refines `OutboxPromise` |
| `EventDelivery` | publish, dispatch with retries, idempotency middleware, `BaseEventHandler`, restarts |
| `EventPlatform` | composes `Outbox` and `EventDelivery` in one process that may die |
| `Notification` | notification engine with scheduler, throttler and channel dispatcher |
| `LlmGateway` | concurrent requests with retries and fallback over shared circuit breakers |
| `BullmqDispatcher` | the queue of ASYNC events over several lives of the process |
| `AuthSessions` | sessions under overlapping refreshes, logouts and clean-ups |
| `RealtimeGateway` | the socket gateway's handlers and the registries they write |
| `RealtimeTransfers` | pools of token streams and voice sessions |
| `LiveSessions` | puts the three together: sessions, gateway and transfers, each with a state of its own |
| `RelationshipEngine` | overlapping calls that read, change and write back one row |
| `MomentScheduler` | scheduler's map and its copy in Redis |
| `TwoLevelCache` | processes with an L1 map each over one Redis |
| `ConversationConsent` | turns of a conversation and the consent question |
| `MemoryStore` | the memory engine's repository, index and timelines, and the objects it shares with its callers |
| `RateLimit` | the rate limiting middleware |
| `CompanionLife` | schedule, state and transition planning of a companion |
| `EnginesAndStores` | puts the eight from `RelationshipEngine` to `CompanionLife` and `BullmqDispatcher` together, each with a state of its own |
| `MCOutbox`, `MCEventDelivery`, `MCEventPlatform`, `MCLlmGateway` | constants of the runs |
| `MCLiveAndNotification`, `MCEnginesAndStores`, `MCPlatformAndEngines` | several components in one run, see section 3 |
| `Outbox_proofs`, `EventDelivery_proofs`, `EventPlatform_proofs`, `Notification_proofs`, `LlmGateway_proofs` | theorems and proofs about the module of that name |
| `LiveSessions_proofs` | theorems about `LiveSessions` and its three parts |
| `Engines_proofs` | theorems about `RelationshipEngine`, `ConversationConsent`, `BullmqDispatcher`, `MomentScheduler`, `CompanionLife` |
| `Stores_proofs` | theorems about `TwoLevelCache`, `MemoryStore`, `RateLimit`, and about `EnginesAndStores` as a whole |

Operators named `X_Something` directly before `X`, with a comment that begins
"Mutant" or "A mutant", are deliberately wrong versions of `X` that are used to
show that a property can fail; no specification refers to them.

### Outbox

| Code | Model |
|---|---|
| a row of `Outbox`, ordered by `createdAt` | a number in `Rows`; `status`, `deletedAt` |
| the caller's transaction around `persist` | `tx[r]`; `Persist`, `EndTransaction` |
| `publishedAt` older than the retention | `r \in expired`; `Expire` |
| `isRunning`, `start`, `stop` | `running`; `Start`, `Stop` |
| one running call of `poll()` | a member of `Loops`, owned by a worker (a process) |
| an `await` of `poll`/`publishById` | a value of `pc[l]`: `find`, `read`, `publish`, `mark`, `endpoll`, `sleep` |
| `findPending` | `FindPending`, `FindPendingFails` |
| the re-read in `publishById` and its early returns | `ReadPending`, `SkipRow` |
| `eventBus.publish` and its Result | `BusTakes`, `BusRefuses` |
| `markPublished`, `markFailed`, and their exceptions | `MarkPublished`, `MarkFailed`, `MarkFails` |
| `purgePublishedBefore` | `EndPoll` with `ArchivePublished` |

`stop()` clears a flag that the loop reads only after its next sleep. `stop()`
followed by `start()` in the meantime leaves two loops running, and the model
keeps that. `accepted` and `unrecorded` are history: how often the bus took an
event, and how often that fact was lost (crash, failed write, archived entry).

Abstracted: the retry counters and `nextRetryAt`, which no query reads; the
countdown to the purge (every 1000th iteration; here any iteration may purge);
a stored payload that cannot be parsed. Nothing under `src/` constructs
`OutboxService` or `OutboxPollerService`: they are modelled as they are written
to be used.

### EventDelivery

One `Deliveries` member is one call of `EventBus.publish`. `pc[d]` is the await
it stands at: the middleware's `isProcessed` (`check`), `markProcessed`
(`mark`), `onEvent` inside the transaction (`onEvent`), the end of the
transaction (`commit`), the fallback call of `onEvent` outside of it (`again`),
and the middleware's own record (`record`). `Key(d)` is the unique key
(eventId, handlerId); `handlerId` is a fresh UUID in every process, hence the
`epoch` in the key. SYNC and ASYNC differ at the end only: `dispatchSync` throws
the first error after every handler has had its turn, and `publish` then adds
the event to the dead letter queue; `dispatchAsync` drops the failed Result.

`degraded` counts the runs of `onEvent` that the code makes without the
protection of the row (failed write of the row, failed commit). `thrown` records
whose `onEvent` has thrown.

Abstracted: subscription changes during a dispatch, `publishBatch` (a loop over
`publish`), metrics, and the variant of the dead letter queue in Redis.

### EventPlatform

`Poll == INSTANCE Outbox` and `Bus == INSTANCE EventDelivery` share nothing but
the joint action `PublishEntry`: the outbox's `BusTakes` together with an ASYNC
`Publish`. `EventBus.publish` returns a success in every case an outbox entry
can produce, so `BusRefuses` and `MarkFailed` do not occur here; they are
checked in `Outbox`, where the bus is any implementation of the interface. A
crash takes the loops and the deliveries of the process together.

### Notification

`Begin(p)` is the start of a `dispatchDue` call up to its first await, and
`SendReturns`, `SendThrowsAgain`, `SendThrowsLast` are the awaits of a channel.
`Proceed` is what the code does between two awaits: skip the entries that are
expired or throttled, start on the first that is neither. A pass keeps the list
it read at its start (`listed`) and the time it was given (`now`): neither
status nor time is read again. `ledger` is the throttler's count for one user;
one window stands for minute, hour and day, whose code is the same three times.
The copies written to Redis are never read back and are left out, and so is a
restart: the maps start empty. Nothing under `src/` calls `dispatchDue`, so the
model lets callers overlap as they like.

### LlmGateway

A request is one call of `complete` or `stream`; `pc[r]` is its await: the
provider's answer (`call`), the delay before another attempt (`wait`), a chunk
of a stream before or after the finished one (`stream`, `finished`). `provider`,
`tried` and `attempt` are the locals of `executeWithRetryAndFallback`. `breaker[p]`
is the `ProviderCircuitBreaker` that all requests to `p` share; its methods are
the operators `Asked` (`isAvailable`, which also changes the state),
`RecordSuccess` and `RecordFailure`. From a provider's answer to the next await
the code runs undisturbed, so `CallFails` records the failure, decides on a
retry, and turns to a fallback whose breaker it asks, in one step. `Retry` asks
the breaker again after the delay; its refusal is a failed attempt that the
breaker does not count. The timeout is one of the ways `CallFails` happens;
the answer that arrives later has no effect. `run` and `failedAt` are history:
the failures or successes in a row of a provider, and the time of its last failure.

Abstracted: which of the eligible providers a strategy or the configured order
prefers (any of them); the response cache, whose hit ends a request before it
selects a provider; usage metrics and health figures; the numbers of chunks.
Every provider is registered and enabled.

### BullmqDispatcher

`job[e]` is the job of an event in Redis, `origin` the life of the process whose
handler ids it carries (`handlerIds`), `todo` what is left of `processJob`'s
loop. `HandlerSucceeds` and `HandlerFails` are the ends of one `handle`;
`Exhausted` is the throw after the last attempt, with which the queue tries the
whole job again or keeps it as failed. `RestartProcess` ends the process:
`registered` is empty in the next one and an active job is stalled until a
worker reclaims it. `bound` is history: the handlers a job was queued for that
have not unsubscribed. External: the queue keeps jobs, hands each to one worker,
counts attempts. Nothing under `src/` calls `startWorker`, although the comment at
`engines/event/core/bullmq-dispatcher.ts:92` demands it; the model may call it
at any time. `dispatchSync` repeats that of `EventDelivery` and is left out.

### AuthSessions

The repository hands out references to its objects and `updateSession` puts a
copy in an object's place; a request may hold an object that is the session no
longer. `objects[s]` is the sequence of all objects that have stood for session
`s`, the last one in the repository; `call[c].held` is the position of the one a
request holds. `pc` is the await at which the request stands. `Fetch`,
`CheckFetched`, `Expire`, `RotateSessionToken`, `UpdateSessionActivity`, `Touch` are
the pieces of `refreshSession` between its awaits, `Revoke` ends `logout`, `List`
and `RevokeNext` are `logoutAllDevices`, `List` and `ExpireNext` are
`getUserSessions`, `CleanupExpiredSessions` has the two loops of the clean-up.
`overdue` and `idle` are what the clock has done to a session. Tokens, devices,
identity providers and events are left out.

### RealtimeGateway and RealtimeTransfers

Every handler runs to its end at once; the difficulty is in the registries. One
action per handler: `Connection`, `Disconnection`, `PresenceUpdate`,
`TypingStart`, `TypingStop`, `InteractionStart`, `InteractionMessage`, `InteractionStop`,
`Shutdown`. `SocketDown` is Socket.IO taking a socket away. The handler that
cleans up is attached to the server's `disconnect`
(`realtime/socket.gateway.ts:121`), which Socket.IO emits on sockets only, so
`Disconnection` may come late or never: it is enabled, and not fair.

`RealtimeTransfers` has the streaming and the voice manager. `StartStream` removes
expired streams even when it then throws; `StartVoiceSession` evicts the least
recently used session of a full pool before it removes the inactive ones, as the
code does. The order in which the map of voice sessions holds them, which decides who is
evicted, is the relation `voiceOrder`; the chunks of a session are counted by their
length. `wall` is the clock. Rooms, reconnect attempts and acknowledgements
are left out: nothing calls the operations that would change them.

### RelationshipEngine

`row` is the relationship's row, in thousandths of a point; `Hydrate` derives the
dimensions, `RULES` are the full tables of impacts and multipliers. A call reads the
row (`ReadForEvent`, `ReadForEvolution`) and writes the scores that changed
(`Persist`), then counts the interaction (`UpdateLastInteraction`); between these
steps other calls do the same, and `SetStatus` pauses, resumes or ends. `ledger`
and `raced` are history: the sum of all that was recorded, and the scores that
were changed from an outdated read. Floating point is replaced by integers; where
equal values are sorted the model allows every order.

### MomentScheduler

`local` is the map that answers; `wire` holds the commands sent and not yet
executed, in order, since all go over one connection and nobody waits for them.
`updateItem` is two steps: `MarkRead` when Redis answers the read, `UpdateItem`
when the write is sent. `CommandFails` loses a command; `Restart` empties map
and wire, and nothing reads Redis back.

### TwoLevelCache

One key, several processes. `access[g]` is a call with the Redis command it waits
for. `ReadTtl` puts into L1 what `ReadL2` has read, whatever happened since; its
time counts from the start of the call (`waited`). `age` is history: how long ago
a value was last in Redis, or was given to that process. `RedisFails` is any
command that fails; `Evict` the LRU map; `Elapse` the clocks.

### ConversationConsent

A turn passes `sent` (lookup), `persisting` (storing a candidate), `completing`
(context, prompt, model) and ends as `replied` or `failed`. `pending` is the
conversation's entry of `pendingConsentByConversation`. `heard[t]` is history:
which questions had been asked when message `t` was sent, whereas `next[q]` is the first
turn the engine took up after question `q`; the difference between the two is the finding
of run `consent_race`.

### MemoryStore

The engine is synchronous, so each operation is one step with all its writes, in
their order. A memory has a status, a relationship and a content, the set of the
accounts it holds. `timeline[k]` is the list of one relationship, or the `"global"` one
of memories without; `addEntry` looks for the id in one list only, so that a memory that
moves to another relationship leaves its entry behind. `Update` is given any object with
the id of a stored memory: any status, any accounts told so far, any relationship. A merge
saves first and then deletes the ids it was given, and `merge([id])` deletes what it returns.

`save` returns the object it has put into the map, and `create` hands that object to the
timeline and to the caller: `shared` is the set of the memories for which repository,
`"global"` list and caller still have one object. `update` stores a copy of the object that
it hands to timeline and caller. `CallerAssigns` is a caller that assigns to a field of such
an object: the entry of the list changes, and the stored memory with it where it is the
same object; nothing is indexed, and no status is checked. `expire`, `archive` and `update`
put a new object in the map, which ends the sharing. `touched` and `closed` are history.

Abstracted: memories of other users, who share nothing; the dates by which a list is
sorted; `getTimeline`, which returns the list's own array, is taken to be read only; arrays
inside a memory (`tags`, `entities`) that are changed in place rather than assigned, which
copies of the memory share as well.

### RateLimit and CompanionLife

`RateLimit`: `Incr` and `ExpireKey` are the middleware's two commands,
`RedisError` a failure or the end of the process, `WindowEnds` Redis dropping the
key. All limiters of a client share one key.

`CompanionLife`: `ADJACENCY` is the table of the source, in its order, since the order
decides which of several shortest ways is taken; `AddedBefore` is the order in which the
constructor fills a state's set of neighbours. `Visit` is one round of the search: one
neighbour, or one state taken off the queue. The search of the code stops when it
meets its target; the model's goes on, which changes no way found before (`Ways`), so that one search
serves all targets. `Back` is the loop of `reconstruct`, `NextHop` what `plan` returns.
`PlanTransition` hands back the state the previous call led to.

## 3. The runs

| Run | Question | Result |
|---|---|---|
| `outbox` | two entries, one process with up to two loops, batches of one, one fault | holds: `TypeOK`, `DuplicatesBounded`, `KeepsPromise` (the refinement), `PendingDrained` |
| `outbox_retry` | is a FAILED entry tried again? | violated: `FailedRetried` |
| `event_delivery` | one event delivered twice, two handlers, three attempts, two failed calls, one restart | holds: `TypeOK`, `EffectsBounded`, `RowsAccountedFor`, `DeliveriesEnd` |
| `event_dlq` | is an event whose handler has used up its attempts dead-lettered? | violated: `FailedIsDeadLettered` |
| `event_success` | does a reported success mean that `onEvent` completed? | violated: `SuccessIsHandled` |
| `event_restart` | is an event handled once across a restart? | violated: `HandledInOneProcess` |
| `llm_gateway` | three requests, two providers, thresholds of two, two attempts, a tick of the clock | holds: `TypeOK`, `BreakerCounts`, `BreakerTransitions`, `CoolDownRespected`, `GivesUpOnlyIfNoneLeft`, `RequestsEnd` |
| `breaker_recovery` | does a success close a breaker under test? | violated: `SuccessCloses` |
| `live_and_notification` | sessions, sockets, streams and voices, and two overlapping passes over two notifications of one user with a limit of one, each by itself | holds: `TypesOK`, `EndedStaysEnded`, `LogoutReachesAll`, `RefreshedWasLive`, `RegistriesAgree`, `TransfersBounded`, `BusyVoicesKept`; `TypeOK`, `ThrottleBounded`, `OncePerPass`, `CancelledStays`, `OneScheduledPerKey`, `PassSettles` |
| `platform_and_engines` | outbox and bus together with one death of the process, and relationship, moments, cache, consent, memories, rate limit, queue, companion, each by itself | holds: `PublishedIsHandled`, `ReplayedOnlyIfUnrecorded`, `CommittedIsDelivered`; `EnginesTypesOK`, `ScoresAreTheLedger`, `MirrorSettles`, `ServedIsRecent`, `SavedOnlyOnAYes`, `MemoriesConsistent`, `ClosedIsImmutable`, `CounterExpires`, `CompletedWasHandled`, `HopsGetThere` |
| `consent_race` | was the user who said yes asked about what is stored? | violated: `SavedWasAffirmed` |
| `memory_merge` | is what two memories said still stored after a merge? | violated: `SafeToMerge` |

`live_and_notification` and `platform_and_engines` check several components that share nothing. In
their modules a variable that never changes (`part`, and `half` in `MCPlatformAndEngines`) says which
component moves; the others keep an initial state. The state space is therefore the sum of the
components' state spaces (about 212,000 and 431,000 states), not their product, and a behaviour of the run
is a behaviour of one component. `consent_race` and `memory_merge` use `MCEnginesAndStores`,
the half of it that holds the engines and stores; `event_restart` uses the other, `MCEventPlatform`.

What the properties say:

- `DuplicatesBounded`: the bus takes an event at most once per poll loop, plus
  once per acceptance that was never recorded. One loop without faults gives
  exactly-once publishing; two loops (an immediate restart of the poller) do not.
- `KeepsPromise`: the outbox, with every interleaving of loops, implements
  `OutboxPromise`. In particular a late `markFailed` may overwrite PUBLISHED,
  but only if the bus really refused the event that time.
- `PendingDrained`: provided some poller is running again and again, no committed
  entry stays PENDING.
- `EffectsBounded`: overlapping deliveries, retries and the fallback cause at
  most one completed `onEvent` per key, plus one per uncovered run.
- `RowsAccountedFor`: a row that hides an event from later deliveries is there
  because it was handled, is being handled, or for one of two named reasons.
- `PublishedIsHandled`: what PUBLISHED is worth end to end. ASYNC publishing
  succeeds before the handlers run, so a death of the process is one of the cases.
- `ReplayedOnlyIfUnrecorded`: a second process handles an event again only when
  the first did not record that the bus had taken it.
- `ThrottleBounded`: the throttle is checked before the channels are awaited and
  charged afterwards; the overshoot is bounded by the other passes under way.
- `OncePerPass`: overlapping passes may send a notification several times, but
  never more often than there are passes.
- `CancelledStays`: a cancelled notification that no pass has listed is never sent and
  stays cancelled. That premise is needed: a pass sends what it has listed without reading
  the status again, and overwrites the cancellation.
- `OneScheduledPerKey`: the dedupe map remembers only the latest id of a key;
  this is enough for one waiting notification per key.
- `BreakerCounts`, `BreakerTransitions`: answers of calls that began long ago do
  not confuse a breaker. CLOSED has counted the failures in a row, fewer than the
  threshold; it trips and closes only after as many failures or successes in a
  row as the thresholds say.
- `CoolDownRespected`: after a provider's last failure, also a late one, no
  request begins to call it for the timeout, unless its breaker is CLOSED.
- `GivesUpOnlyIfNoneLeft`: a request fails only when each provider has been tried
  or refuses calls at that moment, also one that became available meanwhile.
- `RequestsEnd`: a request ends although the breaker refuses its attempts.
- `CompletedWasHandled`: a job that its own process completed has succeeded with
  every handler it was queued for and that has not unsubscribed, through retries
  that call earlier handlers again; a handler is never reached before those of a
  higher priority. A job that another process takes carries ids nobody there
  knows: it completes without a call, of which the property says nothing.
- `EndedStaysEnded`, `LogoutReachesAll`, `RefreshedWasLive`: refreshes write new
  objects in the place of those a logout has listed. Still no session comes back,
  logout ends all it found, and a refresh that began too late is not answered. A
  refresh may, however, be answered although its session is revoked meanwhile.
- `RegistriesAgree`: a socket is indexed under its user and its session and has a
  heartbeat record exactly while it is registered; who is shown as present has a
  registered connection (the converse fails: one of two sockets that goes takes the user
  offline; and the connection may be that of a socket long gone); rooms show who types; an
  interaction is indexed under its owner and its turns add up; the second
  indexes of streams and voices hold what the maps hold.
- `TransfersBounded`, `BusyVoicesKept`: pools and quotas hold through any mixture of
  starts, evictions and chunks; a new voice session costs at most one session
  that is not inactive, and never one that was used more recently than one that stays.
- `ScoresAreTheLedger`: a score that no call has changed from an outdated read is
  the sum of everything recorded, and the status is what the last lifecycle
  call set: calls do not undo what they did not mean to change. Two calls that
  change the same score at once do lose one of the changes (`raced`).
- `MirrorSettles`: once all commands are done, Redis has exactly the moments of
  the map, with their status, unless a command was lost; what it may have besides
  are details of moments cancelled during an update.
- `ServedIsRecent`: a process does not answer from its own map with a value that
  left Redis `l1MaxTtl` ago or earlier, although a delete or a set during a read is
  undone in L1.
- `SavedOnlyOnAYes`: a candidate is stored at most once, and only by a yes that
  is the first message taken up after the question.
- `MemoriesConsistent`: a memory that no caller has assigned to since the engine last
  listed it is found by all it holds, and while ACTIVE its relationship's timeline shows
  it as stored, whatever was handed in before and however often it has moved from one
  relationship to another and back. Of a memory that a caller did assign to, this is not true.
- `ClosedIsImmutable`: what `expire` or `archive` has closed is only archived or deleted
  after that, although callers still hold objects of it that once were the stored one.
- `CounterExpires`: a counter without a time to live is about to get one, unless
  the request that created it failed between the two commands.
- `HopsGetThere`: each planned hop is legal and brings the companion one closer to where
  the engine wants it; in confining weather the way between two states indoors
  does not lead outdoors, which depends on the order of the table.

For every property of a passing run `PROJECT.json` names a mutant: a plausible
mistake in one definition with which TLC finds the property violated.

## 4. Bounds and fairness

Bounds are constants or cfg values, and nothing else is cut:

- `outbox`: two rows and `BatchSize = 1` make an entry wait for a second poll;
  two loops are needed for every race between the check for PENDING and the mark;
  one fault is a crash, a failed query or a failed update. A third loop
  repeats the pair's race; the proof covers any number.
- `event_delivery`: two deliveries of one event overlap at every await; with three
  attempts there is a first, a middle and a last one; two handlers show that a
  failure does not end the list; two faults allow a failed row write followed by a
  failed commit. Different events share no key and no state.
- `llm_gateway`: one request trips a breaker with its two attempts, and two others
  are then enough to close it again, or to fail late while it is OPEN or under
  test; two providers give one fallback. `MaxTime = 1` equals the timeout, so
  every pause can end once, before, between and after outstanding answers. With
  one pause, an answer outlives at most one test of its provider; the
  theorems of section 5 hold for any number.
- `live_and_notification`, notifications: two passes and two notifications with a limit of one make each
  of expiry, throttling, deduplication, cancellation during a send and a window
  that closes while a pass waits reachable; two channels with two attempts each
  separate "one channel failed" from "all failed". `MaxTime = 1` gives one change of window.
- `live_and_notification`, live sessions: three calls overlap a refresh, a logout of all devices and
  a clean-up over two sessions of one user; two sockets are of the same user or of two,
  of the same session or of two; two streams with a pool of one and three voices
  with a pool of two reach the limits; ids are used once, as UUIDs are. Bytes,
  tokens, messages and the clock are cut by `MaxBytes`, `TokenBound`,
  `MaxMessages` and `WallBound`.
- `platform_and_engines`, the platform: one entry, two deliveries (the second for the replay), two
  handlers, one attempt (retries are checked in `event_delivery`), one death and
  one failed call of the poller, so that a replay and a failed poll can follow each other.
- `platform_and_engines`, engines and stores: two calls with three kinds of events on two rows, one of which
  is near both ends of the scale, so that clamping and rounding matter; two moments
  with three commands under way (`MaxWire`); two processes and three calls on the cache,
  an L1 life of two and a Redis life of three ticks; three turns, one of which asks, one answers
  and one comes in between; three memories of two lists, with four steps that make or change one (`MaxCalls`; deletions and
  merges come on top of them), enough to merge, move back and forth, assign and close; three requests
  of two limiters with different maxima; one event with three handlers, two attempts
  and three lives of the process; a day of six hours with three schedules (a drive, overlapping,
  empty and wrapping blocks, none at all) and eight activities.

Deadlock checking is off in every run because the models may stop: entries,
deliveries and the clock are finite.

Fairness is weak fairness of the continuations only: `LoopStep(l)`,
`DeliveryStep(d)`, `HandlerStep(d)`, `PassStep(p)`, `CallStep(r)`. A database call or channel
answers or fails, and the event loop resumes whatever awaited it. A call of a
provider is bounded by its timeout; a stream is not, and is not fair. Nothing the
application or the environment does is fair: no `Start`, `Persist`,
`EndTransaction`, `Publish`, `Begin` (of a pass or a request) or `Tick`. The
components of a live session, the engines and the stores have safety properties
only and no fairness; in particular a `Disconnection` need not come. Where a promise depends on a
poller being there, that is the premise `[]<>(running # {})` of the property. The number of faults
is finite, so a failing database does not fail for ever; this is an
assumption of the liveness results. Between retries of a failing handler the
code sleeps; the model has no time there and retries at once.

## 5. What is proved

Every theorem holds for all values of the constants that satisfy the assumptions
named in the last column.

| Theorem | Statement | Assumption |
|---|---|---|
| `Outbox_proofs!TypeCorrect` | `Spec => []TypeOK` | `OutboxAssumption` |
| `Outbox_proofs!DuplicatesCorrect` | `Spec => []DuplicatesBounded` | |
| `Outbox_proofs!Refinement` | `Spec => KeepsPromise`: every step of the outbox is a step of `OutboxPromise` or a stutter | |
| `EventDelivery_proofs!TypeCorrect` | `Spec => []TypeOK` | `DeliveryAssumption` |
| `EventDelivery_proofs!EffectsCorrect` | `Spec => []EffectsBounded` | |
| `EventDelivery_proofs!RowsCorrect` | `Spec => []RowsAccountedFor` | |
| `EventDelivery_proofs!TurnsCorrect` | `Spec => []TurnsSettled` | |
| `EventPlatform_proofs!PublishedCorrect` | `Spec => []PublishedIsHandled` | `PlatformAssumption` |
| `EventPlatform_proofs!ReplayCorrect` | `Spec => []ReplayedOnlyIfUnrecorded` | |
| `EventPlatform_proofs!HalvesCorrect` | `Spec => P!Spec /\ B!Spec`: the platform implements `Outbox` and `EventDelivery` | |
| `EventPlatform_proofs!PromiseKept` | `Spec => P!KeepsPromise` | |
| `EventPlatform_proofs!EffectsBoundedCorrect` | `Spec => [](B!EffectsBounded)` | |
| `Notification_proofs!TypeCorrect` | `Spec => []TypeOK` | `NotificationAssumption` |
| `Notification_proofs!ThrottleCorrect` | `Spec => []ThrottleBounded` | |
| `Notification_proofs!OncePerPassCorrect` | `Spec => []OncePerPass` | |
| `Notification_proofs!CancelledCorrect` | `Spec => CancelledStays` | |
| `Notification_proofs!DedupeCorrect` | `Spec => []OneScheduledPerKey` | |
| `LlmGateway_proofs!TypeCorrect` | `Spec => []TypeOK` | `GatewayAssumption` |
| `LlmGateway_proofs!CountsCorrect` | `Spec => []BreakerCounts` | |
| `LlmGateway_proofs!TransitionsCorrect` | `Spec => BreakerTransitions` | |
| `LlmGateway_proofs!CoolDownCorrect` | `Spec => CoolDownRespected` | |
| `LlmGateway_proofs!GivesUpCorrect` | `Spec => GivesUpOnlyIfNoneLeft` | |
| `LlmGateway_proofs!StepsRunOut` | `Spec => []StepsBounded /\ [][\A r \in Requests : RunsDown(r)]_vars`: the safety half of `RequestsEnd` | |
| `LiveSessions_proofs!EndedCorrect` | `AuthSpec => EndedStaysEnded` | `AuthAssumption` |
| `LiveSessions_proofs!LogoutCorrect` | `AuthSpec => []LogoutReachesAll` | |
| `LiveSessions_proofs!RefreshCorrect` | `AuthSpec => []RefreshedWasLive` | |
| `LiveSessions_proofs!TransfersCorrect` | `TransferSpec => []TransfersBounded` | `TransferAssumption` |
| `LiveSessions_proofs!EvictionCorrect` | `TransferSpec => BusyVoicesKept` | |
| `LiveSessions_proofs!TypesCorrect` | `SessionsSpec => []TypesOK` | all three |
| `LiveSessions_proofs!RegistriesCorrect` | `SessionsSpec => []RegistriesAgree` | the last two |
| `Engines_proofs!ScoresCorrect` | `RelationshipSpec => []ScoresAreTheLedger` | `RelationshipAssumption` |
| `Engines_proofs!MirrorCorrect` | `MomentSpec => []MirrorSettles` | `MomentAssumption` |
| `Engines_proofs!ConsentCorrect` | `ConsentSpec => []SavedOnlyOnAYes` | none |
| `Engines_proofs!CompletedCorrect` | `QueueSpec => []CompletedWasHandled` | `JobAssumption` |
| `Engines_proofs!HopsCorrect` | `LifeSpec => []HopsGetThere` | `LifeAssumption` |
| `Engines_proofs!ArrivesInThree` | the third `NextHop` towards a state is that state | |
| `Stores_proofs!RecencyCorrect` | `CacheSpec => []ServedIsRecent` | `CacheAssumption` |
| `Stores_proofs!MemoriesCorrect` | `MemorySpec => []MemoriesConsistent` | `MemoryAssumption` |
| `Stores_proofs!ClosedCorrect` | `MemorySpec => ClosedIsImmutable` | |
| `Stores_proofs!ExpiryCorrect` | `LimitSpec => []CounterExpires` | `LimitAssumption` |
| `Stores_proofs!TypesCorrect` | `EnginesSpec => []EnginesTypesOK` | those of the eight parts |

What the assumptions ask of the constants, and why the code gives it: the sets of loops,
deliveries, passes and providers are finite, and batch sizes, attempts, limits, thresholds, pool
sizes, lifetimes and timeouts are positive numbers, as the constants of the source are;
model ids are natural numbers where the order of creation matters; the values `NoEvent`,
`NoKey`, `NoProvider`, `NoSession`, `NoMemory` and `Nobody` are no ids. `Sessions # {}` says that there is a
session a handshake can name. `RelationshipAssumption` says that the rows the engine
starts from hold scores in hundredths of a point, which is what a row is created with
(0, `prisma/schema.prisma`) and all that `projectSnapshotToUpdate` ever writes
(`roundScore`), and that the kinds of events are those of `RULES`. `LifeAssumption` says that
schedules and activities name states of the enumeration and hours of the day. TLC evaluates all of
them in the runs.

The arguments:

- *Outbox.* `DuplicatesBounded` is not inductive: a loop that has read PENDING
  may publish at any later time. The invariant `Counted` says that `accepted` is at
  most the number of loops that recorded an acceptance of the row or still owe
  one to the table (`Holders`), plus the unrecorded acceptances. A loop that recorded PUBLISHED
  does not come back to the row, because the status leaves PENDING for good. Further
  parts: a row not written is in no loop's hands; a loop works on one entry; a
  positive Result is true of the bus. The same invariant gives the refinement,
  with the mapping `phase` (transaction, archive flag and status), `taken`
  (accepted at least once) and `refused`.
- *EventDelivery, effects.* `EffectsBounded` becomes inductive by counting what has been
  promised: for a key, completed runs plus the deliveries about to run `onEvent`
  are at most the row (0 or 1) plus the uncovered runs. Only the creation of the
  row, which the unique key allows once, and the counted faults add to the
  right-hand side; `OnEventThrows` moves a delivery from one pending run to another.
- *EventDelivery, rows.* `RowsAccountedFor` is not inductive: a delivery at work on a
  key accounts for the row, but it may be one that found the row of another and passes on.
  `RowsInv` names the one that counts, the delivery at `onEvent`, and says of
  those further on that `onEvent` has completed or that the row was there (`Finishing`).
- *EventDelivery, turns.* `TurnsSettled` says what has become of a handler when its turn
  is over. No step takes back an effect, an error or a loss (`Moves`, `SettledKept`), a step touches
  one delivery (`StepIsLocal`), and a turn ends only with its handler settled
  (`HandlerEnds`, `TurnEnds`), which needs `RowsInv` for a handler that finds a row and
  does nothing.
- *EventPlatform.* The invariants of the halves are taken from their proofs: `P` and `B`
  instantiate `Outbox_proofs` and `EventDelivery_proofs` with the platform's variables,
  and `StepOfPoll` and `StepOfBus` show that each step of the platform is a step of each half or leaves it
  alone (`HalvesCorrect`), so that the halves' theorems hold in the platform. `PublishedIsHandled` follows from `TurnsSettled` once every PUBLISHED entry
  has a delivery (`PublishedIsTaken`). The replay needs `EntriesInv`, which relates the
  halves: a loop at its mark has started a delivery; an entry that was taken has been
  settled, or a loop owes that, or the acceptance is `unrecorded`; and what an earlier
  process acted on and recorded is PENDING no more, in no loop's hands and in no delivery that runs.
- *Notification, throttle.* The count of a user plus the passes sending to that
  user is below limit plus passes. A pass becomes a sender only when the count
  is below the limit, and there are never more senders than passes; a success
  turns a sender into a count. The proof needs that what a pass has in hand was
  stored before (`InHand`), so that its user does not change.
- *Notification, once per pass.* `OncePerPass` needs `Settled`: what a pass has
  dispatched and let go of is not SCHEDULED, and nothing makes it so again.
- *Notification, cancellations.* `CancelledStays` is about single steps: a pass lists only
  what is SCHEDULED, and settles nothing it has not listed (`ProceedLeaves`).
- *Notification, keys.* `OneScheduledPerKey` is about pairs; inductive is that the id the map
  has for a key is that of the one that waits (`KeyInv`). A request takes its
  place only when its status is no longer SCHEDULED, which is for good.
- *LlmGateway.* The lemma `EveryStep` reduces every action to what it does to one
  breaker: nothing, being asked, a success, or a failure. In particular a
  failure after which the request asks another breaker leaves the failed one as it
  is, because a breaker that has just tripped refuses. `BreakerCounts` is
  inductive over these four cases and gives the transitions. `CoolDownRespected`
  needs `Pause` (an OPEN breaker remembers its provider's last failure; under
  test that failure is a timeout ago) and that a call begins only at a breaker
  that is not OPEN (`StartsWell`). `StepsRunOut` gives each request a number, two steps
  (the call and the wait) for each attempt with the provider it asks and with each
  it has not tried, which each of its steps lowers and no step of another changes. With
  the fairness of `LiveSpec` that is why `RequestsEnd` holds for any number of
  providers and attempts; the last inference, from fairness, is left to TLC.
- *AuthSessions.* Every step either leaves the objects of a session alone, puts a
  copy of the last one after them, or ends the last one (`Evolves`); in each
  case what has ended stays ended (`EvolvesKeeps`), also in the objects that
  requests hold. So a late refresh still finds out from the object it holds,
  and a listed session, once ended, needs no second look.
- *RealtimeGateway.* A handler removes a connection from the indexes under the user and the session
  that the registry holds, and adds it under those of the handshake. The two are the
  same while the socket is up, and a new socket is registered nowhere (`LiveIsRegistered`);
  with that, each registry's own part (`ConnectionInv`, `TypingInv`,
  `InteractionInv`) is inductive, and `GoneIsOffline` follows from the first.
- *RealtimeTransfers.* The bound of the voice pool and `BusyVoicesKept` rest on one fact:
  the order of the map is a strict total order of what it holds (`VoicesOrdered`). Then a finite pool
  that is not empty has exactly one least recently used session (`LeastRecentIsOne`;
  a first element exists because proper inclusion of finite sets is well-founded), the eviction frees one place and takes nobody who
  was used later than one that stays (`StartCost`). Removal of sessions keeps the order of
  the others, a new one comes after all.
- *RelationshipEngine.* The ledger adds impacts (clamped, never rounded) and the row holds
  rounded scores, so equality needs that nothing is ever lost by rounding: rows,
  impacts and what calls have read are whole hundredths (`ExactRow`, `ExactCalls`), clamping
  keeps that (`ClampedTens`), and a score that is not in a patch has not changed.
- *MomentScheduler.* For each moment the invariant follows the commands under way: of a
  moment in the map, what Redis lacks is on the wire, and the write of its details comes before
  every read and update of them (`Kept`); of a cancelled one, what remains is followed
  by its removal (`Gone`); an unused id is nowhere (`Unknown`). The lemmas on
  `Append` and `Tail` (`Followed`, `Precedes`, `Once`) carry this through sends and executions.
- *ConversationConsent.* A candidate is in one place: asked for and pending, in the
  hands of the turn that settled it, stored, or dropped; `next` fixes that turn.
- *BullmqDispatcher.* While a job is active, whom it is bound to is on its list or has
  answered (`ActiveIsOwn`). Handlers are called in ascending order, the first
  one of a list of numbers existing by well-founded induction, hence `InOrder`.
- *TwoLevelCache.* For an entry of L1, the time it has left and the time since its value
  was last in Redis add up to at most `L1MaxTtl` (`CachedIsFresh`). The same is
  true of a value on its way from Redis, with the life its entry will get less the time the call has
  waited (`FetchedIsFresh`): the code computes that life from the start of the call, and the
  invariant is what makes that computation enough.
- *MemoryStore.* `MemoriesConsistent` is not inductive: an object that the repository shares
  with the `"global"` list must be that list's entry, and not one that was closed. `MemoryInOrder` says
  this of one memory, besides that it is indexed and listed unless it was touched. Each step moves one memory
  (with those it deletes) and leaves it in order (`OneMoved`, `Listed`), and the others unmoved, at most shared no more
  (`Unmoved`). `ClosedIsImmutable` rests on the same: closing ends the sharing, so that no later assignment reaches the store.
- *RateLimit.* Inductive as it is: the one request that raised the counter to 1 owes the time to live.

- *CompanionLife.* The search, the cursor that goes back and the distances are recursive
  functions of the number of rounds. `NatSteps` is induction as a statement about a set of numbers (a least
  element outside it is impossible), `Recursion` says that a function defined by recursion
  over the numbers exists, and with it `SearchSteps`, `BackSteps` and `WithinSteps` say what the
  three are at 0 and at n + 1. The invariant of the search (`SearchInv`) says that the way to each visited
  state is one hop longer than the way to where it came from, that the queue is in the
  order of the distance and spans two distances at most, and that nothing as near as its head is left.
  `VisitShortens` counts the rounds: the queue is empty in time, and as the graph is connected
  everything was visited. The cursor then gets one nearer to the start at every
  step (`BackIsShortest`), so that it has one last state before it, the first hop. That this hop
  is IDLE between states indoors rests on the order of the table (`IdleIsFirst`, `ByIdle`).
  No distance is above three (`InThree`), so three hops arrive (`ArrivesInThree`).
- *Types of the engines and stores.* Besides the invariants above: a pending question is
  replaced, never joined (`PendingIsLone`); only an active job has handlers to call
  (`NothingToDo`); a key has one entry in each map and a time left in Redis (`OneEntry`).

Model-checked only: all liveness (`PendingDrained`, `DeliveriesEnd`, `CommittedIsDelivered`,
`PassSettles`, `RequestsEnd`), which with fairness and ENABLED is out of the prover's reach.
Every invariant and every action property of a passing run is a theorem.

## 6. Disagreements between code and documentation

- `outbox-poller.service.ts:17` promises a retry with exponential backoff.
  `markFailed` sets `nextRetryAt`, but `findPending` selects PENDING only:
  a refused entry is never offered again (run `outbox_retry`).
- `base-event-handler.ts:49` says "All within a transaction to ensure
  atomicity". `markProcessed` writes through the repository's global client, so
  the row survives when `onEvent` throws and the transaction rolls back. The
  retry finds the row and reports a success although `onEvent` never completed
  (run `event_success`).
- `prisma/schema.prisma:1116-1117` says duplicates are prevented after a process
  restart. `handlerId` is `randomUUID()` in the constructor: no row of an earlier
  process matches (run `event_restart`).
- `engines/conversation/conversation.engine.ts:45-46` says that a candidate is "only
  persisted if the user affirms it on their very next message". A "yes" that was
  sent while another turn waited for the model answers the question that turn asks
  meanwhile (run `consent_race`).
- `engines/memory/components/conflict-resolver.ts:61` gives "Safe to merge." as the
  reason of a merge. `resolveConflict` saves the result under the old memory's id
  and then deletes that id and the new one (run `memory_merge`).
- `src/HANDLER_REGISTRY.md:291` and `engines/event/README.md:59,230` promise the dead
  letter queue for what has exhausted its retries, of async handlers too. `dispatchAsync`
  drops the failed Result of its retries (`engines/event/core/event-dispatcher.ts:107`;
  run `event_dlq`).
- `engines/llm-gateway/circuit-breaker/provider-circuit-breaker.ts:12` says that HALF_OPEN
  becomes CLOSED if a request succeeds; it takes `successThreshold` successes in a row, 2 for
  the providers (`providers/base-llm-provider.ts:66`; run `breaker_recovery`). `BreakerTransitions` says
  what does hold.

Seen while modelling, without a run of their own, since a passing run's property already names
the case as an exception or the code shows it in one place:

- `tests/unit/realtime/socket.gateway.spec.ts:359-386` expects the connection of a socket to be gone
  after its disconnect. The clean-up is attached to the server, which does not emit that event
  (`realtime/socket.gateway.ts:121`).
- `engines/memory/README.md:13` speaks of memories "within specific relationship contexts". A
  memory that moves to another relationship stays in the timeline of the first, as it was
  (`engines/memory/components/memory-timeline.ts:17`).
- `engines/scheduler/redis-scheduler.base.ts:95` says of `removeItem` that it removes the item. An
  `updateItem` that had read it writes its details back (line 115).
- `middleware/rateLimit.ts:23` says requests are counted "within a time window". A counter whose first request
  fails between its two commands never gets one (line 49).
- `engines/memory/handlers/message-received.handler.ts:18` (and six other handlers) speaks of
  "exactly-once delivery". With the BullMQ dispatcher, a job taken by the process after the one
  that queued it completes without a call (`engines/event/core/bullmq-dispatcher.ts:236`).
- `src/ARCHITECTURE_EVENT_DRIVEN.md:723` says "Handler errors don't block other handlers". A handler that
  fails in a BullMQ job keeps the event from those after it (`engines/event/core/bullmq-dispatcher.ts:272`).
- `engines/llm-gateway/circuit-breaker/provider-circuit-breaker.ts:7` speaks of "limited
  requests" under test; nothing limits them.
- A job that BullMQ gives up is not put into the dead letter queue either. `processJob`
  calls `onError` twice for a failed handler (the throw is caught by its own `catch`).
- `AUTHENTICATION_PLATFORM.md:93` promises automatic expiration after inactivity;
  only `cleanupExpiredSessions` looks at it and nothing calls that.
- `engines/moment/scheduler/redis-moment.scheduler.ts:10-12` speaks of Redis for
  persistence and horizontal scaling; nothing reads the copy back.
  `engines/moment/evaluator/moment.evaluator.ts:64` reads a `delta` that no
  published event carries.
- `realtime/managers/streaming.manager.ts`: streams that are PENDING or STREAMING never
  expire; `addTokens` (line 150) skips indexes, since it adds `i` to a length
  that grows with `i`.
- `realtime/socket.gateway.ts:132` sets a user offline who has another socket.
- `engines/context/providers/memory-context.provider.ts:29` asks for critical
  memories with the companion's id as the user's.
- `middleware/rateLimit.ts`: all limiters of a client count in one key, so that a
  request to a lenient route can exhaust a strict one.

## 7. What is not modelled

- *External semantics*: Redis, BullMQ, RabbitMQ and Socket.IO, the Prisma engine.
  What the code relies on (committed reads, a unique constraint, a transaction
  that may fail to commit, commands of one connection in order, a job for one worker)
  is in the models.
- *Message brokers and the Redis dead letter queue*: adapters whose steps are calls
  of a client library; the dead letter queue is a stream that Redis caps.
- *Text and numbers*: prompts, templates, memory ranking and retrieval, emotional
  scores, evaluation, and the world and life simulator, whose events are
  pseudo-random. There is no state that two steps share.
- *Managers nothing drives*: rooms, reconnect attempts and acknowledgements of the
  realtime layer. Their operations have no caller that would give them an order.
- *Single-record services, HTTP controllers, process start-up*: reads and writes of one
  record through the ORM, mapping and validation.
- *Within modelled components*: response cache and metrics of the LLM gateway,
  `publishBatch`, templates and analytics of notifications, `dispatchSync` of the
  BullMQ dispatcher, tokens and devices of authentication, and the companion's weighted choices
  of mood, outfit and gesture. The components of `PROJECT.json` say so one by one.

## 8. Plan

Done: all modules of section 2, the runs of section 3 and the theorems of section 5, which
state every safety property of the passing runs and that the platform implements its
halves. Left: the invariants behind the violations `consent_race` and `memory_merge`, as
far as they say what does hold: which candidate a yes can store, and which accounts
survive a merge.
