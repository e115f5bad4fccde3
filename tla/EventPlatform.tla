---------------------------- MODULE EventPlatform ----------------------------
(***************************************************************************)
(* The outbox and the event bus in one process: the bus the poll loops     *)
(* publish to is the EventBus of EventDelivery.  Publishing an entry       *)
(* starts an ASYNC delivery and succeeds at once, so an entry may be       *)
(* PUBLISHED long before its handlers run; a crash takes the poll loops    *)
(* and the deliveries together, and the next process has new handlerIds.   *)
(***************************************************************************)
EXTENDS Integers, FiniteSets

CONSTANTS Rows, Worker, Loops, BatchSize, MaxPollFaults,
          Deliveries, NumHandlers, MaxAttempts, MaxCrashes, MaxHandlerFaults, NoEvent

\* What the two halves assume of their constants.
ASSUME PlatformAssumption ==
  /\ Rows \subseteq Nat /\ IsFiniteSet(Rows) /\ NoEvent \notin Rows
  /\ IsFiniteSet(Loops) /\ IsFiniteSet(Deliveries)
  /\ BatchSize \in Nat \ {0} /\ MaxPollFaults \in Nat
  /\ NumHandlers \in Nat \ {0} /\ MaxAttempts \in Nat \ {0}
  /\ MaxCrashes \in Nat /\ MaxHandlerFaults \in Nat

VARIABLES tx, status, deletedAt, expired, running, loopPc, batch, current, success,
          accepted, refused, recordedBy, unrecorded, pollFaults

VARIABLES event, mode, deliveryPc, handlerTurn, attempt, outcome, processed, handlerFaults,
          dlq, epoch, effects, degraded, thrown

pollVars == <<tx, status, deletedAt, expired, running, loopPc, batch, current, success,
              accepted, refused, recordedBy, unrecorded, pollFaults>>
busVars == <<event, mode, deliveryPc, handlerTurn, attempt, outcome, processed, handlerFaults,
             dlq, epoch, effects, degraded, thrown>>
vars == <<pollVars, busVars>>

Poll == INSTANCE Outbox
          WITH Workers <- {Worker}, Owner <- [l \in Loops |-> Worker],
               MaxFaults <- MaxPollFaults, pc <- loopPc, faults <- pollFaults

\* The eventId of an entry is the entry itself.
Bus == INSTANCE EventDelivery
         WITH Events <- Rows, MaxFaults <- MaxHandlerFaults,
              pc <- deliveryPc, turn <- handlerTurn, faults <- handlerFaults

Init == Poll!Init /\ Bus!Init

-----------------------------------------------------------------------------
\* The application writes entries, and starts and stops the poller.
Application ==
  /\ \/ \E r \in Rows : Poll!Persist(r) \/ Poll!EndTransaction(r) \/ Poll!Expire(r)
     \/ \E l \in Loops : Poll!Start(l)
     \/ Poll!Stop(Worker)
  /\ UNCHANGED busVars

\* publishById calls EventBus.publish(envelope, ASYNC).  dispatch never fails:
\* setImmediate takes the handlers, and publish() returns a success.
PublishEntry(l) ==
  /\ Poll!BusTakes(l)
  /\ \E d \in Deliveries, r \in current[l] : Bus!Publish(d, r, "ASYNC")

LoopStep(l) ==
  \/ PublishEntry(l)
  \/ /\ \/ Poll!FindPending(l) \/ Poll!FindPendingFails(l)
        \/ Poll!ReadPending(l) \/ Poll!SkipRow(l)
        \/ Poll!MarkPublished(l) \/ Poll!MarkFails(l)
        \/ Poll!EndPoll(l) \/ Poll!Wake(l)
     /\ UNCHANGED busVars

HandlerStep(d) == Bus!DeliveryStep(d) /\ UNCHANGED pollVars

\* The process dies, with its poll loops if there are any.
ProcessDies ==
  /\ Bus!Crash
  /\ \/ Poll!Crash(Worker)
     \/ (\A l \in Loops : loopPc[l] = "off") /\ UNCHANGED pollVars

Next == \/ Application
        \/ \E l \in Loops : LoopStep(l)
        \/ \E d \in Deliveries : HandlerStep(d)
        \/ ProcessDies

Spec == Init /\ [][Next]_vars

LiveSpec == /\ Spec
            /\ \A l \in Loops : WF_vars(LoopStep(l))
            /\ \A d \in Deliveries : WF_vars(HandlerStep(d))

-----------------------------------------------------------------------------
\* Properties.

Handled(r, h) == {ep \in Bus!Epochs : effects[<<r, h, ep>>] > 0}

\* What a PUBLISHED entry is worth: each handler has acted on the event, or a
\* delivery of this process still has it, or onEvent threw, or the process that
\* had it died; nothing else loses an event that is marked PUBLISHED.
PublishedIsHandled ==
  \A r \in Rows, h \in Bus!Handlers :
    status[r] = "PUBLISHED" =>
      \/ Handled(r, h) # {}
      \/ \E d \in Deliveries : /\ event[d] = r
                               /\ handlerTurn[d] <= h
                               /\ deliveryPc[d] \notin {"idle", "done", "lost"}
      \/ \E k \in thrown : k[1] = r /\ k[2] = h
      \/ \E d \in Deliveries : event[d] = r /\ deliveryPc[d] = "lost"

\* handlerId is new in each process, so ProcessedEvents does not tell a second
\* process what the first has handled.  A second process handles an event again
\* only if the first one failed to record that the bus had taken it.
ReplayedOnlyIfUnrecorded ==
  \A r \in Rows, h \in Bus!Handlers :
    Cardinality(Handled(r, h)) > 1 => unrecorded[r] > 0

\* "events written to Outbox are eventually published, even if the main process
\* crashes" (outbox-poller.service.ts:11): while the poller is running again and
\* again, every committed event gets a delivery that runs to its end, unless a
\* crash takes it.
CommittedIsDelivered ==
  []<>(running # {}) =>
    \A r \in Rows :
      tx[r] = "committed" ~>
        \E d \in Deliveries : event[d] = r /\ deliveryPc[d] \in {"done", "lost"}

\* "Prevents duplicate side effects when the same event is delivered multiple
\* times (e.g., after process restart)" (prisma/schema.prisma:1116-1117).
HandledInOneProcess ==
  \A r \in Rows, h \in Bus!Handlers : Cardinality(Handled(r, h)) <= 1
=============================================================================
