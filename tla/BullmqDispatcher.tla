-------------------------- MODULE BullmqDispatcher --------------------------
(***************************************************************************)
(* The dispatcher that puts ASYNC events into a queue in Redis, and the    *)
(* worker that takes them out.  The queue outlives the process; the ids a  *)
(* job carries do not: a handler's id is a new uuid in every process, so   *)
(* an id is known only to the life of the process that made it.            *)
(***************************************************************************)
EXTENDS Naturals

CONSTANTS QueuedEvents,   \* the events published in ASYNC mode
          Subscribers,    \* the handlers of their type, 1 .. n by priority
          JobAttempts,    \* retryPolicy.maxAttempts, of a job and of a handler
          MaxLives        \* bound on the processes, one after the other

ASSUME JobAssumption == /\ Subscribers \subseteq Nat
                        /\ JobAttempts \in Nat \ {0}
                        /\ MaxLives \in Nat \ {0}

VARIABLES
  life,        \* 1 .. MaxLives: the process that runs
  isWorkerRunning,
  registered,  \* SUBSET Subscribers, with this process's event bus
  job,         \* [QueuedEvents -> Job]
  answered,    \* history: [QueuedEvents -> SUBSET Subscribers], with success
  bound        \* history: [QueuedEvents -> SUBSET Subscribers]: the job's handlers
               \* that have not unsubscribed since

queueVars == <<life, isWorkerRunning, registered, job, answered, bound>>

\* origin is the life whose ids the job carries, handlerIds; of an active job, todo
\* is what is left of processJob's list and tries what handle has refused in a row.
JobState == {"unpublished", "not queued", "waiting", "active", "stalled", "completed", "failed"}
Job == [state : JobState, handlerIds : SUBSET Subscribers, origin : 1 .. MaxLives,
        endedIn : 1 .. MaxLives, attempts : Nat, todo : SUBSET Subscribers, tries : Nat]

QueueInit ==
  /\ life = 1 /\ isWorkerRunning = FALSE /\ registered = {}
  /\ job = [e \in QueuedEvents |->
              [state |-> "unpublished", handlerIds |-> {}, origin |-> 1, endedIn |-> 1,
               attempts |-> 0, todo |-> {}, tries |-> 0]]
  /\ answered = [e \in QueuedEvents |-> {}]
  /\ bound = [e \in QueuedEvents |-> {}]

ActiveJobs == {e \in QueuedEvents : job[e].state = "active"}

-----------------------------------------------------------------------------
Subscribe(h) ==
  /\ h \notin registered
  /\ registered' = registered \cup {h}
  /\ UNCHANGED <<life, isWorkerRunning, job, answered, bound>>

Unsubscribe(h) ==
  /\ h \in registered
  /\ registered' = registered \ {h}
  /\ bound' = [e \in QueuedEvents |-> IF job[e].origin = life THEN bound[e] \ {h} ELSE bound[e]]
  /\ UNCHANGED <<life, isWorkerRunning, job, answered>>

\* dispatch and dispatchAsync: an event without a handler is dropped, and of the
\* others queue.add puts a job into Redis, or fails.
DispatchAsync(e) ==
  /\ job[e].state = "unpublished"
  /\ \/ job' = [job EXCEPT ![e].state = "not queued"] /\ UNCHANGED bound
     \/ /\ registered # {}
        /\ bound' = [bound EXCEPT ![e] = registered]
        /\ job' = [job EXCEPT ![e] = [@ EXCEPT !.state = "waiting", !.origin = life,
                                               !.handlerIds = registered]]
  /\ UNCHANGED <<life, isWorkerRunning, registered, answered>>

StartWorker ==
  /\ ~isWorkerRunning
  /\ isWorkerRunning' = TRUE
  /\ UNCHANGED <<life, registered, job, answered, bound>>

\* worker.close waits for the active jobs.
StopWorker ==
  /\ isWorkerRunning /\ ActiveJobs = {}
  /\ isWorkerRunning' = FALSE
  /\ UNCHANGED <<life, registered, job, answered, bound>>

\* The job is over when nobody is left to call; removeOnComplete takes it away.
Continues(e, j) ==
  job' = [job EXCEPT ![e] = IF j.todo = {} THEN [j EXCEPT !.state = "completed", !.endedIn = life]
                            ELSE j]

\* The worker takes a job, whatever it does with others: processJob lists the handlers
\* registered now whose ids, of this life, are in handlerIds.
TakeJob(e) ==
  /\ isWorkerRunning
  /\ job[e].state = "waiting"
  /\ Continues(e, [job[e] EXCEPT !.state = "active", !.tries = 0,
                     !.todo = IF job[e].origin = life THEN registered \cap job[e].handlerIds ELSE {}])
  /\ UNCHANGED <<life, isWorkerRunning, registered, answered, bound>>

Called(e) == CHOOSE h \in job[e].todo : \A g \in job[e].todo : h =< g

HandlerSucceeds(e) ==
  /\ job[e].state = "active"
  /\ Continues(e, [job[e] EXCEPT !.tries = 0, !.todo = @ \ {Called(e)}])
  /\ answered' = [answered EXCEPT ![e] = @ \cup {Called(e)}]
  /\ UNCHANGED <<life, isWorkerRunning, registered, bound>>

\* A mutant: the error is reported to the handler and not thrown to the queue.
Exhausted_Swallowed(e) ==
  Continues(e, [job[e] EXCEPT !.tries = 0, !.todo = @ \ {Called(e)}])

\* executeWithRetry gives up and processJob throws: the handlers after this one are
\* not called, and the queue tries the whole job again, or keeps it as failed.
Exhausted(e) ==
  LET over == job[e].attempts + 1 = JobAttempts IN
  job' = [job EXCEPT ![e] =
            [job[e] EXCEPT !.attempts = job[e].attempts + 1, !.todo = {}, !.tries = 0,
                           !.state = IF over THEN "failed" ELSE "waiting", !.endedIn = life]]

\* handle throws or returns a failure.
HandlerFails(e) ==
  /\ job[e].state = "active"
  /\ IF job[e].tries + 1 < JobAttempts
     THEN job' = [job EXCEPT ![e].tries = @ + 1]
     ELSE Exhausted(e)
  /\ UNCHANGED <<life, isWorkerRunning, registered, answered, bound>>

\* The process ends and the next one starts: an active job is stalled.
RestartProcess ==
  /\ life < MaxLives
  /\ life' = life + 1 /\ isWorkerRunning' = FALSE /\ registered' = {}
  /\ job' = [e \in QueuedEvents |->
               IF job[e].state = "active"
               THEN [job[e] EXCEPT !.state = "stalled", !.todo = {}, !.tries = 0] ELSE job[e]]
  /\ UNCHANGED <<answered, bound>>

\* A running worker finds a stalled job and puts it back.
Reclaim(e) ==
  /\ isWorkerRunning
  /\ job[e].state = "stalled"
  /\ job' = [job EXCEPT ![e].state = "waiting"]
  /\ UNCHANGED <<life, isWorkerRunning, registered, answered, bound>>

QueueNext ==
  \/ \E h \in Subscribers : Subscribe(h) \/ Unsubscribe(h)
  \/ \E e \in QueuedEvents :
       \/ DispatchAsync(e) \/ TakeJob(e) \/ HandlerSucceeds(e) \/ HandlerFails(e)
       \/ Reclaim(e)
  \/ StartWorker \/ StopWorker \/ RestartProcess

QueueSpec == QueueInit /\ [][QueueNext]_queueVars

-----------------------------------------------------------------------------
QueueTypeOK ==
  /\ life \in 1 .. MaxLives
  /\ registered \subseteq Subscribers
  /\ \A e \in QueuedEvents : /\ job[e] \in Job
                             /\ job[e].todo # {} <=> job[e].state = "active"

\* Which handlers an event has really reached.  A job that its own process, with a
\* worker running, ends as completed has succeeded with every handler it was queued
\* for and that has not unsubscribed.  A handler is reached only after those before
\* it.  A job that another process takes has none of this: no id matches, and it
\* is completed without a call (bullmq-dispatcher.ts:236-239).
CompletedWasHandled ==
  \A e \in QueuedEvents :
    /\ job[e].state = "completed" /\ job[e].endedIn = job[e].origin => bound[e] \subseteq answered[e]
    /\ \A h \in answered[e], g \in bound[e] : g < h => g \in answered[e]

=============================================================================
