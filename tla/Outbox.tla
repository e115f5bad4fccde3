------------------------------- MODULE Outbox -------------------------------
(***************************************************************************)
(* The transactional outbox: OutboxService.persist writes an entry beside  *)
(* the aggregate, and the poll loops of OutboxPollerService offer pending  *)
(* entries to an event bus and record the outcome.                         *)
(*                                                                         *)
(* Every await of the code is a step boundary.  Worker processes share the *)
(* Outbox table; each runs the poll loops its poller has started (stop     *)
(* followed by start, before the old loop has woken up, leaves two).  A    *)
(* fault is a failed database call or a crashed process.                   *)
(***************************************************************************)
EXTENDS Integers, FiniteSets

CONSTANTS Rows,           \* entries, as numbers in the order of createdAt
          Workers,        \* processes that own an OutboxPollerService
          Loops,          \* poll loops that may be running at once
          Owner,          \* [Loops -> Workers]: the process of each loop
          BatchSize,      \* entries per poll (100 in the code)
          MaxFaults       \* bound on failed database calls and crashes

ASSUME OutboxAssumption == /\ Rows \subseteq Nat
                           /\ IsFiniteSet(Rows)
                           /\ IsFiniteSet(Loops)
                           /\ Owner \in [Loops -> Workers]
                           /\ BatchSize \in Nat \ {0}
                           /\ MaxFaults \in Nat

VARIABLES
  tx,          \* [Rows -> TxState]: the transaction that creates the entry
  status,      \* [Rows -> Status]: Outbox.status
  deletedAt,   \* rows whose Outbox.deletedAt is set
  expired,     \* rows whose publishedAt is older than the retention
  running,     \* workers whose poller has isRunning
  pc,          \* [Loops -> LoopState]: the await a poll loop stands at
  batch,       \* [Loops -> SUBSET Rows]: entries of this poll still to publish
  current,     \* [Loops -> SUBSET Rows]: the entry publishById works on
  success,     \* [Loops -> BOOLEAN]: publishResult.isSuccess
  accepted,    \* [Rows -> Nat]: times the bus has taken the event
  refused,     \* rows whose event the bus has refused
  recordedBy,  \* [Rows -> SUBSET Loops]: history, loops that recorded PUBLISHED
  unrecorded,  \* [Rows -> Nat]: history, acceptances that were never recorded
  faults       \* faults so far

tableVars == <<tx, status, deletedAt, expired>>
loopVars == <<pc, batch, current, success>>
busVars == <<accepted, refused>>
historyVars == <<recordedBy, unrecorded>>
vars == <<tableVars, running, loopVars, busVars, historyVars, faults>>

TxState == {"unwritten", "open", "committed", "aborted"}
Status == {"PENDING", "PUBLISHED", "FAILED"}
LoopState == {"off", "find", "read", "publish", "mark", "endpoll", "sleep"}

Init ==
  /\ tx = [r \in Rows |-> "unwritten"]
  /\ status = [r \in Rows |-> "PENDING"]
  /\ deletedAt = {}
  /\ expired = {}
  /\ running = {}
  /\ pc = [l \in Loops |-> "off"]
  /\ batch = [l \in Loops |-> {}]
  /\ current = [l \in Loops |-> {}]
  /\ success = [l \in Loops |-> FALSE]
  /\ accepted = [r \in Rows |-> 0]
  /\ refused = {}
  /\ recordedBy = [r \in Rows |-> {}]
  /\ unrecorded = [r \in Rows |-> 0]
  /\ faults = 0

-----------------------------------------------------------------------------
\* The table, as the repository's queries see it: committed and not archived.

Visible(r) == tx[r] = "committed" /\ r \notin deletedAt

Pending == {r \in Rows : Visible(r) /\ status[r] = "PENDING"}

\* findPending: the BatchSize oldest pending entries.
IsOldestPending(S) ==
  /\ S \subseteq Pending
  /\ Cardinality(S) <= BatchSize
  /\ S # Pending => Cardinality(S) = BatchSize
  /\ \A r \in S, q \in Pending \ S : r < q

Fault == /\ faults < MaxFaults
         /\ faults' = faults + 1

\* A database call either answers or fails.
Answers == UNCHANGED faults

-----------------------------------------------------------------------------
\* OutboxService.persist and the transaction around it.

\* The entry is created inside the caller's transaction, or by a standalone
\* write that commits at once.
Persist(r) ==
  /\ tx[r] = "unwritten"
  /\ \A q \in Rows : q < r => tx[q] # "unwritten"
  /\ \E t \in {"open", "committed"} : tx' = [tx EXCEPT ![r] = t]
  /\ UNCHANGED <<status, deletedAt, expired>>
  /\ UNCHANGED <<running, loopVars, busVars, historyVars, faults>>

EndTransaction(r) ==
  /\ tx[r] = "open"
  /\ \E t \in {"committed", "aborted"} : tx' = [tx EXCEPT ![r] = t]
  /\ UNCHANGED <<status, deletedAt, expired>>
  /\ UNCHANGED <<running, loopVars, busVars, historyVars, faults>>

\* The retention (7 days after publishedAt) passes.
Expire(r) ==
  /\ status[r] = "PUBLISHED"
  /\ r \notin expired
  /\ expired' = expired \cup {r}
  /\ UNCHANGED <<tx, status, deletedAt>>
  /\ UNCHANGED <<running, loopVars, busVars, historyVars, faults>>

-----------------------------------------------------------------------------
\* OutboxPollerService.start, stop, and the crash of a process.

\* start() does nothing while isRunning; otherwise it calls poll(), which runs
\* up to the first findPending before start() returns.  A loop that is off has
\* the locals a new one starts with.
Start(l) ==
  /\ Owner[l] \notin running
  /\ pc[l] = "off"
  /\ running' = running \cup {Owner[l]}
  /\ pc' = [pc EXCEPT ![l] = "find"]
  /\ UNCHANGED <<batch, current, success>>
  /\ UNCHANGED <<tableVars, busVars, historyVars, faults>>

\* stop() only clears the flag: a loop notices after its next sleep.
Stop(w) ==
  /\ w \in running
  /\ running' = running \ {w}
  /\ UNCHANGED <<tableVars, loopVars, busVars, historyVars, faults>>

\* Rows whose event the bus has taken and whose outcome loop l must still record.
Owed(l) == {r \in Rows : pc[l] = "mark" /\ r \in current[l] /\ success[l]}

OwedBy(L, r) == Cardinality({l \in L : r \in Owed(l)})

Crash(w) ==
  LET mine == {l \in Loops : Owner[l] = w}
  IN /\ \E l \in mine : pc[l] # "off"
     /\ Fault
     /\ running' = running \ {w}
     /\ pc' = [l \in Loops |-> IF l \in mine THEN "off" ELSE pc[l]]
     /\ batch' = [l \in Loops |-> IF l \in mine THEN {} ELSE batch[l]]
     /\ current' = [l \in Loops |-> IF l \in mine THEN {} ELSE current[l]]
     /\ success' = [l \in Loops |-> IF l \in mine THEN FALSE ELSE success[l]]
     /\ unrecorded' = [r \in Rows |-> unrecorded[r] + OwedBy(mine, r)]
     /\ UNCHANGED <<recordedBy, tableVars, busVars>>

-----------------------------------------------------------------------------
\* OutboxPollerService.poll: one iteration, await by await.

Goto(l, p) == pc' = [pc EXCEPT ![l] = p]

\* After an entry the loop takes the next one, or ends the poll.
NextRow(l, rest) == Goto(l, IF rest = {} THEN "endpoll" ELSE "read")

FindPending(l) ==
  /\ pc[l] = "find"
  /\ Answers
  /\ \E S \in SUBSET Rows : /\ IsOldestPending(S)
                            /\ batch' = [batch EXCEPT ![l] = S]
                            /\ NextRow(l, S)
  /\ UNCHANGED <<current, success>>
  /\ UNCHANGED <<tableVars, running, busVars, historyVars>>

\* Mutant: the error of the query ends the loop, with isRunning left set.
FindPendingFails_EndsLoop(l) ==
  /\ pc[l] = "find"
  /\ Fault
  /\ Goto(l, "off")
  /\ UNCHANGED <<batch, current, success>>
  /\ UNCHANGED <<tableVars, running, busVars, historyVars>>

\* A failed query skips the rest of the iteration.
FindPendingFails(l) ==
  /\ pc[l] = "find"
  /\ Fault
  /\ Goto(l, "sleep")
  /\ UNCHANGED <<batch, current, success>>
  /\ UNCHANGED <<tableVars, running, busVars, historyVars>>

IsNextInBatch(l, r) == r \in batch[l] /\ \A q \in batch[l] : r <= q

\* publishById reads the entry again.  It goes on to the bus only when the entry
\* is still there and PENDING.
ReadPending(l) ==
  /\ pc[l] = "read"
  /\ Answers
  /\ \E r \in Rows :
       /\ IsNextInBatch(l, r)
       /\ Visible(r)
       /\ status[r] = "PENDING"
       /\ batch' = [batch EXCEPT ![l] = @ \ {r}]
       /\ current' = [current EXCEPT ![l] = {r}]
  /\ Goto(l, "publish")
  /\ UNCHANGED success
  /\ UNCHANGED <<tableVars, running, busVars, historyVars>>

\* The entry is gone (NotFoundError), was settled by another loop, or the query
\* fails: publishById returns and the loop goes on.
SkipRow(l) ==
  /\ pc[l] = "read"
  /\ \E r \in Rows :
       /\ IsNextInBatch(l, r)
       /\ \/ Answers /\ (~Visible(r) \/ status[r] # "PENDING")
          \/ Fault
       /\ batch' = [batch EXCEPT ![l] = @ \ {r}]
       /\ NextRow(l, batch[l] \ {r})
  /\ UNCHANGED <<current, success>>
  /\ UNCHANGED <<tableVars, running, busVars, historyVars>>

BusTakes(l) ==
  /\ pc[l] = "publish"
  /\ accepted' = [r \in Rows |-> accepted[r] + IF r \in current[l] THEN 1 ELSE 0]
  /\ success' = [success EXCEPT ![l] = TRUE]
  /\ Goto(l, "mark")
  /\ UNCHANGED <<batch, current, refused>>
  /\ UNCHANGED <<tableVars, running, historyVars, faults>>

BusRefuses(l) ==
  /\ pc[l] = "publish"
  /\ refused' = refused \cup current[l]
  /\ success' = [success EXCEPT ![l] = FALSE]
  /\ Goto(l, "mark")
  /\ UNCHANGED <<batch, current, accepted>>
  /\ UNCHANGED <<tableVars, running, historyVars, faults>>

\* The outcome is written unless the entry was archived meanwhile (update has
\* deletedAt: null in its filter and throws) or the write fails; publishById
\* turns both into a failed Result, which poll() does not look at.
CanUpdate(r) == r \notin deletedAt

FinishRow(l) ==
  /\ current' = [current EXCEPT ![l] = {}]
  /\ success' = [success EXCEPT ![l] = FALSE]
  /\ NextRow(l, batch[l])
  /\ UNCHANGED <<batch, running, busVars>>

\* Mutant: publishedAt is written, the status is not.
MarkPublished_KeepsStatus(l) ==
  /\ pc[l] = "mark"
  /\ success[l]
  /\ Answers
  /\ \E r \in current[l] :
       /\ CanUpdate(r)
       /\ expired' = expired \ {r}
       /\ recordedBy' = [recordedBy EXCEPT ![r] = @ \cup {l}]
  /\ FinishRow(l)
  /\ UNCHANGED <<tx, status, deletedAt, unrecorded>>

MarkPublished(l) ==
  /\ pc[l] = "mark"
  /\ success[l]
  /\ Answers
  /\ \E r \in current[l] :
       /\ CanUpdate(r)
       /\ status' = [status EXCEPT ![r] = "PUBLISHED"]
       /\ expired' = expired \ {r}
       /\ recordedBy' = [recordedBy EXCEPT ![r] = @ \cup {l}]
  /\ FinishRow(l)
  /\ UNCHANGED <<tx, deletedAt, unrecorded>>

\* Mutant: a status that the enum of the table does not have.
MarkFailed_AsRetrying(l) ==
  /\ pc[l] = "mark"
  /\ ~success[l]
  /\ Answers
  /\ \E r \in current[l] : CanUpdate(r) /\ status' = [status EXCEPT ![r] = "RETRYING"]
  /\ FinishRow(l)
  /\ UNCHANGED <<tx, deletedAt, expired, historyVars>>

MarkFailed(l) ==
  /\ pc[l] = "mark"
  /\ ~success[l]
  /\ Answers
  /\ \E r \in current[l] :
       /\ CanUpdate(r)
       /\ status' = [status EXCEPT ![r] = "FAILED"]
  /\ FinishRow(l)
  /\ UNCHANGED <<tx, deletedAt, expired, historyVars>>

MarkFails(l) ==
  /\ pc[l] = "mark"
  /\ \/ Answers /\ \E r \in current[l] : ~CanUpdate(r)
     \/ Fault
  /\ unrecorded' = [r \in Rows |-> unrecorded[r] + IF r \in Owed(l) THEN 1 ELSE 0]
  /\ FinishRow(l)
  /\ UNCHANGED <<tableVars, recordedBy>>

\* Mutant: the purge looks at publishedAt and not at the status.
ArchivePublished_AnyStatus == deletedAt' = deletedAt \cup {r \in expired : Visible(r)}

\* purgePublishedBefore archives the published entries past their retention.
ArchivePublished ==
  deletedAt' = deletedAt \cup {r \in expired : Visible(r) /\ status[r] = "PUBLISHED"}

\* The end of the iteration.  Every 1000th one purges; the model lets any do.
EndPoll(l) ==
  /\ pc[l] = "endpoll"
  /\ \/ Answers /\ UNCHANGED deletedAt
     \/ Answers /\ ArchivePublished
     \/ Fault /\ UNCHANGED deletedAt
  /\ Goto(l, "sleep")
  /\ UNCHANGED <<batch, current, success>>
  /\ UNCHANGED <<tx, status, expired, running, busVars, historyVars>>

\* The sleep ends and the loop looks at isRunning.  Its locals end with it.
Wake(l) ==
  /\ pc[l] = "sleep"
  /\ Goto(l, IF Owner[l] \in running THEN "find" ELSE "off")
  /\ UNCHANGED <<batch, current, success>>
  /\ UNCHANGED <<tableVars, running, busVars, historyVars, faults>>

-----------------------------------------------------------------------------
LoopStep(l) ==
  \/ FindPending(l) \/ FindPendingFails(l)
  \/ ReadPending(l) \/ SkipRow(l)
  \/ BusTakes(l) \/ BusRefuses(l)
  \/ MarkPublished(l) \/ MarkFailed(l) \/ MarkFails(l)
  \/ EndPoll(l) \/ Wake(l)

Next == \/ \E r \in Rows : Persist(r) \/ EndTransaction(r) \/ Expire(r)
        \/ \E l \in Loops : Start(l) \/ LoopStep(l)
        \/ \E w \in Workers : Stop(w) \/ Crash(w)

Spec == Init /\ [][Next]_vars

\* The event loop of a live process resumes every continuation.
LiveSpec == Spec /\ \A l \in Loops : WF_vars(LoopStep(l))
-----------------------------------------------------------------------------
\* Properties.

TypeOK ==
  /\ tx \in [Rows -> TxState]
  /\ status \in [Rows -> Status]
  /\ deletedAt \subseteq Rows
  /\ expired \subseteq Rows
  /\ running \subseteq Workers
  /\ pc \in [Loops -> LoopState]
  /\ batch \in [Loops -> SUBSET Rows]
  /\ current \in [Loops -> SUBSET Rows]
  /\ success \in [Loops -> BOOLEAN]
  /\ accepted \in [Rows -> Nat]
  /\ refused \subseteq Rows
  /\ recordedBy \in [Rows -> SUBSET Loops]
  /\ unrecorded \in [Rows -> Nat]
  /\ faults \in 0..MaxFaults

\* At least once, and how much more: the bus takes an event at most once per
\* poll loop, plus once for every acceptance whose outcome a crash, a failed
\* write or an archived entry kept from being recorded.  So one loop without
\* faults publishes each event exactly once (publishById reads the entry before
\* the bus call and writes it after, with awaits between).
DuplicatesBounded ==
  \A r \in Rows : accepted[r] <= Cardinality(Loops) + unrecorded[r]

\* The outbox keeps the promise of OutboxPromise: publishById and the poll loops
\* offer committed events only, and settle an entry by what the bus answered.
PhaseOfStatus == [PENDING |-> "waiting", PUBLISHED |-> "sent", FAILED |-> "refused"]

Phase(r) == IF tx[r] # "committed" THEN "unwritten"
            ELSE IF r \in deletedAt THEN "archived"
            ELSE PhaseOfStatus[status[r]]

Promise == INSTANCE OutboxPromise
             WITH phase <- [r \in Rows |-> Phase(r)],
                  taken <- {r \in Rows : accepted[r] > 0},
                  refused <- refused

KeepsPromise == Promise!Spec

\* The poller's reason to exist: as long as some poller is running again and
\* again, no committed entry stays PENDING, however pollers are stopped,
\* restarted and crashed, and although a poll takes BatchSize entries only.
PendingDrained ==
  []<>(running # {}) => \A r \in Rows : r \in Pending ~> r \notin Pending

\* "Failure handling: Mark failed, schedule retry with exponential backoff"
\* (outbox-poller.service.ts:17): an entry marked FAILED is tried again.
FailedRetried ==
  []<>(running # {}) =>
    \A r \in Rows : (Visible(r) /\ status[r] = "FAILED") ~> status[r] # "FAILED"
=============================================================================
