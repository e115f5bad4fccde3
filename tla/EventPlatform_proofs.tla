------------------------ MODULE EventPlatform_proofs ------------------------
(* Proofs about EventPlatform.  The invariants of the outbox and of the event  *)
(* bus are taken from their proofs: a step of the platform is a step of each,  *)
(* or leaves it alone.                                                         *)
EXTENDS EventPlatform, FiniteSetTheorems, TLAPS

P == INSTANCE Outbox_proofs
       WITH Workers <- {Worker}, Owner <- [l \in Loops |-> Worker],
            MaxFaults <- MaxPollFaults, pc <- loopPc, faults <- pollFaults

B == INSTANCE EventDelivery_proofs
       WITH Events <- Rows, MaxFaults <- MaxHandlerFaults,
            pc <- deliveryPc, turn <- handlerTurn, faults <- handlerFaults

-----------------------------------------------------------------------------
\* A step of the platform, in the eyes of the two proofs.

LEMMA PollConstants == P!OutboxAssumption
BY PlatformAssumption DEF P!OutboxAssumption, IsFiniteSet, P!IsFiniteSet

LEMMA BusConstants == B!DeliveryAssumption
BY PlatformAssumption DEF B!DeliveryAssumption, IsFiniteSet, B!IsFiniteSet

LEMMA BothStart == Init => P!Init /\ B!Init
BY DEF Init, Poll!Init, P!Init, Bus!Init, B!Init, Bus!Handlers, B!Handlers, Bus!Keys, B!Keys,
       Bus!Epochs, B!Epochs

LEMMA SameCardinality ==
  ASSUME NEW S
  PROVE  Poll!Cardinality(S) = P!Cardinality(S)
BY DEF Poll!Cardinality, P!Cardinality

LEMMA SameApplication ==
  /\ \A r \in Rows : Poll!Persist(r) \/ Poll!EndTransaction(r) \/ Poll!Expire(r) => P!Next
  /\ \A l \in Loops : Poll!Start(l) => P!Next
  /\ Poll!Stop(Worker) => P!Next
<1> USE DEF Poll!tableVars, P!tableVars, Poll!loopVars, P!loopVars, Poll!busVars, P!busVars,
            Poll!historyVars, P!historyVars
<1>1. ASSUME NEW r \in Rows, Poll!Persist(r) \/ Poll!EndTransaction(r) \/ Poll!Expire(r)
      PROVE  P!Persist(r) \/ P!EndTransaction(r) \/ P!Expire(r)
  BY <1>1 DEF Poll!Persist, P!Persist, Poll!EndTransaction, P!EndTransaction, Poll!Expire,
              P!Expire
<1>2. ASSUME NEW l \in Loops, Poll!Start(l)
      PROVE  P!Start(l)
  BY <1>2 DEF Poll!Start, P!Start
<1>3. ASSUME Poll!Stop(Worker)
      PROVE  P!Stop(Worker)
  BY <1>3 DEF Poll!Stop, P!Stop
<1> QED
  BY <1>1, <1>2, <1>3 DEF P!Next

LEMMA SameCrash == Poll!Crash(Worker) => P!Next
<1>1. ASSUME Poll!Crash(Worker)
      PROVE  P!Crash(Worker)
  BY <1>1, SameCardinality
     DEF Poll!Crash, P!Crash, Poll!Fault, P!Fault, Poll!OwedBy, P!OwedBy, Poll!Owed, P!Owed,
         Poll!tableVars, P!tableVars, Poll!busVars, P!busVars, Poll!historyVars, P!historyVars
<1> QED
  BY <1>1 DEF P!Next

LEMMA SameLoopStep ==
  ASSUME NEW l \in Loops,
         \/ Poll!FindPending(l) \/ Poll!FindPendingFails(l) \/ Poll!ReadPending(l)
         \/ Poll!SkipRow(l) \/ Poll!BusTakes(l) \/ Poll!MarkPublished(l) \/ Poll!MarkFails(l)
         \/ Poll!EndPoll(l) \/ Poll!Wake(l)
  PROVE  P!LoopStep(l)
<1> USE DEF Poll!tableVars, P!tableVars, Poll!busVars, P!busVars, Poll!historyVars,
            P!historyVars, Poll!Goto, P!Goto, Poll!NextRow, P!NextRow, Poll!Answers, P!Answers,
            Poll!Fault, P!Fault, Poll!Visible, P!Visible
<1>1. ASSUME Poll!FindPending(l)
      PROVE  P!FindPending(l)
  BY <1>1, SameCardinality
     DEF Poll!FindPending, P!FindPending, Poll!IsOldestPending, P!IsOldestPending,
         Poll!Pending, P!Pending
<1>2. ASSUME Poll!FindPendingFails(l)
      PROVE  P!FindPendingFails(l)
  BY <1>2 DEF Poll!FindPendingFails, P!FindPendingFails
<1>3. ASSUME Poll!ReadPending(l)
      PROVE  P!ReadPending(l)
  BY <1>3 DEF Poll!ReadPending, P!ReadPending, Poll!IsNextInBatch, P!IsNextInBatch
<1>4. ASSUME Poll!SkipRow(l)
      PROVE  P!SkipRow(l)
  BY <1>4 DEF Poll!SkipRow, P!SkipRow, Poll!IsNextInBatch, P!IsNextInBatch
<1>5. ASSUME Poll!BusTakes(l)
      PROVE  P!BusTakes(l)
  BY <1>5 DEF Poll!BusTakes, P!BusTakes
<1>6. ASSUME Poll!MarkPublished(l)
      PROVE  P!MarkPublished(l)
  BY <1>6
     DEF Poll!MarkPublished, P!MarkPublished, Poll!FinishRow, P!FinishRow, Poll!CanUpdate,
         P!CanUpdate
<1>7. ASSUME Poll!MarkFails(l)
      PROVE  P!MarkFails(l)
  BY <1>7
     DEF Poll!MarkFails, P!MarkFails, Poll!FinishRow, P!FinishRow, Poll!CanUpdate,
         P!CanUpdate, Poll!Owed, P!Owed
<1>8. ASSUME Poll!EndPoll(l)
      PROVE  P!EndPoll(l)
  BY <1>8 DEF Poll!EndPoll, P!EndPoll, Poll!ArchivePublished, P!ArchivePublished
<1>9. ASSUME Poll!Wake(l)
      PROVE  P!Wake(l)
  BY <1>9 DEF Poll!Wake, P!Wake
<1> QED
  BY <1>1, <1>2, <1>3, <1>4, <1>5, <1>6, <1>7, <1>8, <1>9 DEF P!LoopStep

LEMMA PollUnchanged == UNCHANGED pollVars => UNCHANGED P!vars
BY DEF pollVars, P!vars, P!tableVars, P!loopVars, P!busVars, P!historyVars

LEMMA StepOfPoll == [Next]_vars => [P!Next]_P!vars
<1>1. CASE Application
  BY <1>1, SameApplication DEF Application
<1>2. ASSUME NEW l \in Loops, LoopStep(l)
      PROVE  P!Next
  BY <1>2, SameLoopStep DEF LoopStep, PublishEntry, P!Next
<1>3. ASSUME NEW d \in Deliveries, HandlerStep(d)
      PROVE  UNCHANGED P!vars
  BY <1>3, PollUnchanged DEF HandlerStep
<1>4. CASE ProcessDies
  BY <1>4, SameCrash, PollUnchanged DEF ProcessDies
<1>5. CASE UNCHANGED vars
  BY <1>5, PollUnchanged DEF vars
<1> QED
  BY <1>1, <1>2, <1>3, <1>4, <1>5 DEF Next

LEMMA SameDelivery ==
  /\ \A d \in Deliveries : Bus!DeliveryStep(d) => B!DeliveryStep(d)
  /\ \A d \in Deliveries, r \in Rows, m \in {"SYNC", "ASYNC"} :
       Bus!Publish(d, r, m) => B!Publish(d, r, m)
  /\ Bus!Crash => B!Crash
<1> USE DEF Bus!dbVars, B!dbVars, Bus!handlerVars, B!handlerVars
<1>1. ASSUME NEW d \in Deliveries, Bus!DeliveryStep(d)
      PROVE  B!DeliveryStep(d)
  BY <1>1
     DEF Bus!DeliveryStep, B!DeliveryStep, Bus!CheckSeen, B!CheckSeen, Bus!CheckProceeds,
         B!CheckProceeds, Bus!MarkCreates, B!MarkCreates, Bus!MarkConflicts, B!MarkConflicts,
         Bus!MarkFails, B!MarkFails, Bus!OnEventReturns, B!OnEventReturns,
         Bus!OnEventThrows, B!OnEventThrows, Bus!Commits, B!Commits, Bus!CommitFails,
         B!CommitFails, Bus!AgainReturns, B!AgainReturns, Bus!AgainThrows, B!AgainThrows,
         Bus!Record, B!Record, Bus!EndHandler, B!EndHandler, Bus!Goto, B!Goto, Bus!Stay,
         B!Stay, Bus!Key, B!Key, Bus!Handlers, B!Handlers, Bus!Answers, B!Answers, Bus!Fails,
         B!Fails, Bus!Affect, B!Affect
<1>2. ASSUME NEW d \in Deliveries, NEW r \in Rows, NEW m \in {"SYNC", "ASYNC"},
             Bus!Publish(d, r, m)
      PROVE  B!Publish(d, r, m)
  BY <1>2 DEF Bus!Publish, B!Publish
<1>3. ASSUME Bus!Crash
      PROVE  B!Crash
  BY <1>3 DEF Bus!Crash, B!Crash
<1> QED
  BY <1>1, <1>2, <1>3

LEMMA BusUnchanged == UNCHANGED busVars => UNCHANGED B!vars
BY DEF busVars, B!vars, B!deliveryVars, B!dbVars, B!handlerVars

\* An entry that a loop holds is an entry.
LEMMA HeldIsEntry ==
  ASSUME P!TypeOK, NEW l \in Loops, NEW r \in current[l]
  PROVE  r \in Rows
BY DEF P!TypeOK

LEMMA StepOfBus == P!TypeOK /\ [Next]_vars => [B!Next]_B!vars
<1> SUFFICES ASSUME P!TypeOK, [Next]_vars
             PROVE  [B!Next]_B!vars
  OBVIOUS
<1>1. CASE Application
  BY <1>1, BusUnchanged DEF Application
<1>2. ASSUME NEW l \in Loops, LoopStep(l)
      PROVE  [B!Next]_B!vars
  <2>1. CASE PublishEntry(l)
    BY <2>1, SameDelivery, HeldIsEntry DEF PublishEntry, B!Next
  <2>2. CASE UNCHANGED busVars
    BY <2>2, BusUnchanged
  <2> QED
    BY <1>2, <2>1, <2>2 DEF LoopStep
<1>3. ASSUME NEW d \in Deliveries, HandlerStep(d)
      PROVE  B!Next
  BY <1>3, SameDelivery DEF HandlerStep, B!Next
<1>4. CASE ProcessDies
  BY <1>4, SameDelivery DEF ProcessDies, B!Next
<1>5. CASE UNCHANGED vars
  BY <1>5, BusUnchanged DEF vars
<1> QED
  BY <1>1, <1>2, <1>3, <1>4, <1>5 DEF Next

LEMMA HalvesInit == Init => P!OutboxInv /\ B!TurnsInv
<1> SUFFICES ASSUME Init
             PROVE  P!OutboxInv /\ B!TurnsInv
  OBVIOUS
<1>1. P!OutboxInv
  BY BothStart, PollConstants, P!InitInv
<1>2. B!TurnsInv
  BY BothStart, BusConstants, B!InitTurns
<1> QED
  BY <1>1, <1>2

LEMMA HalvesStep ==
  P!OutboxInv /\ B!TurnsInv /\ [Next]_vars => P!OutboxInv' /\ B!TurnsInv'
<1> SUFFICES ASSUME P!OutboxInv, B!TurnsInv, [Next]_vars
             PROVE  P!OutboxInv' /\ B!TurnsInv'
  OBVIOUS
<1>1. P!OutboxInv'
  BY StepOfPoll, PollConstants, P!StepInv
<1>2. P!TypeOK
  BY DEF P!OutboxInv
<1>3. B!TurnsInv'
  BY <1>2, StepOfBus, BusConstants, B!StepTurns
<1> QED
  BY <1>1, <1>3

-----------------------------------------------------------------------------
\* What a step does to the entries and to their deliveries.

\* A delivery of the entry was started, or is running.
Taken(r) == \E d \in Deliveries : event[d] = r /\ deliveryPc[d] # "idle"
Busy(r) == \E d \in Deliveries : event[d] = r /\ deliveryPc[d] \notin {"idle", "done", "lost"}

\* A loop has to record that the bus took the entry.
Owes(l, r) == loopPc[l] = "mark" /\ r \in current[l] /\ success[l]

\* Some handler of process ep has acted on the entry.
ActedIn(r, ep) == \E h \in B!Handlers : effects[<<r, h, ep>>] > 0

\* A step of the poll side, and what it may do to an entry.  The third and the fourth part
\* say where an entry in a loop comes from, the last what a debt turns into.
PollMoves ==
  /\ \A r \in Rows : /\ unrecorded[r] > 0 => unrecorded'[r] > 0
                     /\ status[r] # "PENDING" => status'[r] # "PENDING"
  /\ \A r \in Rows : status'[r] = "PUBLISHED" =>
       status[r] = "PUBLISHED" \/ \E l \in Loops : loopPc[l] = "mark" /\ r \in current[l]
  /\ \A l \in Loops, r \in Rows : r \in current'[l] =>
       r \in current[l] \/ status[r] = "PENDING"
  /\ \A l \in Loops, r \in Rows : r \in current'[l] /\ loopPc'[l] = "mark" =>
       /\ r \in current[l]
       /\ \/ loopPc[l] = "mark" /\ success'[l] = success[l]
          \/ loopPc[l] = "publish" /\ success'[l] /\ PublishEntry(l)
  /\ \A l \in Loops, r \in Rows : Owes(l, r) =>
       Owes(l, r)' \/ status'[r] # "PENDING" \/ unrecorded'[r] > 0

LEMMA PollTypes ==
  ASSUME P!OutboxInv
  PROVE  /\ status \in [Rows -> P!Status] /\ unrecorded \in [Rows -> Nat]
         /\ loopPc \in [Loops -> P!LoopState] /\ current \in [Loops -> SUBSET Rows]
         /\ success \in [Loops -> BOOLEAN]
BY DEF P!OutboxInv, P!TypeOK

\* The loop goes from one await to another without the entry it may hold.
LEMMA QuietLoop ==
  ASSUME P!OutboxInv, NEW l \in Loops, NEW p, p # "mark", loopPc[l] # "mark",
         loopPc' = [loopPc EXCEPT ![l] = p],
         UNCHANGED <<current, success, status, unrecorded>>
  PROVE  PollMoves
BY PollTypes DEF PollMoves, Owes

\* The loop is done with its entry.
LEMMA FinishedLoop ==
  ASSUME P!OutboxInv, NEW l \in Loops, Poll!FinishRow(l), loopPc[l] = "mark"
  PROVE  /\ current' = [current EXCEPT ![l] = {}]
         /\ \A x \in Loops \ {l} : UNCHANGED <<loopPc[x], current[x], success[x]>>
BY PollTypes DEF Poll!FinishRow, Poll!NextRow, Poll!Goto

LEMMA ApplicationMoves ==
  ASSUME P!OutboxInv, Application
  PROVE  PollMoves
<1> USE DEF Poll!loopVars, Poll!historyVars, Poll!tableVars
<1>1. ASSUME UNCHANGED <<loopPc, current, success, status, unrecorded>>
      PROVE  PollMoves
  BY <1>1, PollTypes DEF PollMoves, Owes
<1>2. ASSUME NEW r \in Rows, Poll!Persist(r) \/ Poll!EndTransaction(r) \/ Poll!Expire(r)
      PROVE  PollMoves
  BY <1>1, <1>2 DEF Poll!Persist, Poll!EndTransaction, Poll!Expire
<1>3. ASSUME NEW l \in Loops, Poll!Start(l)
      PROVE  PollMoves
  BY <1>3, QuietLoop DEF Poll!Start
<1>4. ASSUME Poll!Stop(Worker)
      PROVE  PollMoves
  BY <1>1, <1>4 DEF Poll!Stop
<1> QED
  BY <1>2, <1>3, <1>4 DEF Application

LEMMA LoopMoves ==
  ASSUME P!OutboxInv, NEW l \in Loops, LoopStep(l)
  PROVE  PollMoves
<1> USE DEF Poll!historyVars, Poll!tableVars, Poll!Goto
<1>1. CASE PublishEntry(l)
  <2>1. /\ loopPc[l] = "publish" /\ UNCHANGED <<current, status, unrecorded>>
        /\ loopPc' = [loopPc EXCEPT ![l] = "mark"]
        /\ success' = [success EXCEPT ![l] = TRUE]
    BY <1>1 DEF PublishEntry, Poll!BusTakes
  <2> QED
    BY <1>1, <2>1, PollTypes DEF PollMoves, Owes
<1>2. CASE \/ Poll!FindPending(l) \/ Poll!FindPendingFails(l) \/ Poll!SkipRow(l)
           \/ Poll!EndPoll(l) \/ Poll!Wake(l)
  <2>1. /\ loopPc[l] # "mark" /\ UNCHANGED <<current, success, status, unrecorded>>
        /\ \E p \in {"endpoll", "read", "sleep", "find", "off"} :
             loopPc' = [loopPc EXCEPT ![l] = p]
    BY <1>2 DEF Poll!FindPending, Poll!FindPendingFails, Poll!SkipRow, Poll!EndPoll, Poll!Wake,
                Poll!NextRow
  <2> QED
    BY <2>1, QuietLoop
<1>3. CASE Poll!ReadPending(l)
  <2>1. PICK r \in Rows : /\ status[r] = "PENDING"
                          /\ current' = [current EXCEPT ![l] = {r}]
    BY <1>3 DEF Poll!ReadPending
  <2>2. /\ loopPc[l] = "read" /\ loopPc' = [loopPc EXCEPT ![l] = "publish"]
        /\ UNCHANGED <<success, status, unrecorded>>
    BY <1>3 DEF Poll!ReadPending
  <2> QED
    BY <2>1, <2>2, PollTypes DEF PollMoves, Owes
<1>4. CASE Poll!MarkPublished(l)
  <2>1. PICK r \in current[l] : status' = [status EXCEPT ![r] = "PUBLISHED"]
    BY <1>4 DEF Poll!MarkPublished
  <2>2. loopPc[l] = "mark" /\ unrecorded' = unrecorded /\ Poll!FinishRow(l)
    BY <1>4 DEF Poll!MarkPublished
  <2>3. r \in Rows /\ \A q \in current[l] : q = r
    BY PollTypes DEF P!OutboxInv, P!OneEntry
  <2> QED
    BY <2>1, <2>2, <2>3, FinishedLoop, PollTypes DEF PollMoves, Owes
<1>5. CASE Poll!MarkFails(l)
  <2>1. /\ loopPc[l] = "mark" /\ status' = status /\ Poll!FinishRow(l)
        /\ unrecorded' = [r \in Rows |-> unrecorded[r] + IF r \in Poll!Owed(l) THEN 1 ELSE 0]
    BY <1>5 DEF Poll!MarkFails
  <2>2. \A r \in Rows : /\ unrecorded[r] > 0 => unrecorded'[r] > 0
                        /\ Owes(l, r) => unrecorded'[r] > 0
    BY <2>1, PollTypes DEF Poll!Owed, Owes
  <2> QED
    BY <2>1, <2>2, FinishedLoop, PollTypes DEF PollMoves, Owes
<1> QED
  BY <1>1, <1>2, <1>3, <1>4, <1>5 DEF LoopStep

\* After a crash no loop has an entry, and every debt has become an acceptance that was never
\* recorded.
LEMMA CrashMoves ==
  ASSUME P!OutboxInv, ProcessDies
  PROVE  /\ status' = status
         /\ \A l \in Loops : current'[l] = {}
         /\ \A r \in Rows : unrecorded[r] > 0 => unrecorded'[r] > 0
         /\ \A l \in Loops, r \in Rows : Owes(l, r) => unrecorded'[r] > 0
<1>1. CASE Poll!Crash(Worker)
  <2> DEFINE owing(r) == {l \in Loops : r \in Poll!Owed(l)}
  <2>1. /\ status' = status
        /\ \A l \in Loops : current'[l] = {}
        /\ \A r \in Rows : unrecorded'[r] = unrecorded[r] + Poll!OwedBy(Loops, r)
    <3>1. {l \in Loops : [x \in Loops |-> Worker][l] = Worker} = Loops
      OBVIOUS
    <3> QED
      BY <1>1, <3>1 DEF Poll!Crash, Poll!tableVars
  <2>2. ASSUME NEW r \in Rows
        PROVE  /\ Poll!OwedBy(Loops, r) \in Nat
               /\ \A l \in Loops : Owes(l, r) => Poll!OwedBy(Loops, r) > 0
    <3>1. IsFiniteSet(owing(r)) /\ Cardinality(owing(r)) \in Nat
      BY PlatformAssumption, FS_Subset, FS_CardinalityType
    <3>2. owing(r) # {} => Cardinality(owing(r)) # 0
      BY <3>1, FS_EmptySet
    <3>3. Poll!OwedBy(Loops, r) = Cardinality(owing(r))
      BY DEF Poll!OwedBy, Poll!Cardinality, Cardinality
    <3>4. \A l \in Loops : Owes(l, r) => l \in owing(r)
      BY DEF Owes, Poll!Owed
    <3> HIDE DEF owing
    <3> QED
      BY <3>1, <3>2, <3>3, <3>4
  <2> QED
    BY <2>1, <2>2, PollTypes
<1>2. CASE (\A l \in Loops : loopPc[l] = "off") /\ UNCHANGED pollVars
  <2>1. \A l \in Loops : current[l] = {}
    BY <1>2, PollTypes DEF P!OutboxInv, P!OneEntry
  <2> QED
    BY <1>2, <2>1 DEF pollVars, Owes
<1> QED
  BY <1>1, <1>2 DEF ProcessDies

\* A step of a delivery acts on the entry of a running delivery, in this process.
LEMMA HandlerMoves ==
  ASSUME B!TurnsInv, NEW d \in Deliveries, HandlerStep(d)
  PROVE  /\ epoch' = epoch
         /\ \A r \in Rows : (Taken(r) => Taken(r)') /\ (Busy(r)' => Busy(r))
         /\ \A r \in Rows, h \in B!Handlers, ep \in B!Epochs :
              effects'[<<r, h, ep>>] > 0 =>
                effects[<<r, h, ep>>] > 0 \/ (ep = epoch /\ Busy(r))
<1>1. B!TypeOK /\ B!DeliveryStep(d)
  BY SameDelivery DEF HandlerStep, B!TurnsInv, B!RowsInv
<1>2. /\ UNCHANGED <<event, epoch>>
      /\ deliveryPc[d] \notin {"idle", "done", "lost"} /\ deliveryPc'[d] # "idle"
      /\ \A x \in Deliveries \ {d} : deliveryPc'[x] = deliveryPc[x]
      /\ \A k \in B!Keys \ {B!Key(d)} : effects'[k] = effects[k]
  BY <1>1, BusConstants, B!StepIsLocal
<1>3. ASSUME NEW r \in Rows
      PROVE  (Taken(r) => Taken(r)') /\ (Busy(r)' => Busy(r))
  BY <1>2 DEF Taken, Busy
<1>4. ASSUME NEW r \in Rows, NEW h \in B!Handlers, NEW ep \in B!Epochs,
             effects'[<<r, h, ep>>] > 0
      PROVE  effects[<<r, h, ep>>] > 0 \/ (ep = epoch /\ Busy(r))
  <2>1. <<r, h, ep>> \in B!Keys
    BY DEF B!Keys
  <2>2. CASE <<r, h, ep>> = B!Key(d)
    BY <1>2, <2>2 DEF B!Key, Busy
  <2>3. CASE <<r, h, ep>> # B!Key(d)
    BY <1>2, <1>4, <2>1, <2>3
  <2> QED
    BY <2>2, <2>3
<1> QED
  BY <1>2, <1>3, <1>4

\* A delivery is started for an entry that a loop has read.
LEMMA PublishMoves ==
  ASSUME P!OutboxInv, B!TurnsInv, NEW l \in Loops, PublishEntry(l)
  PROVE  /\ UNCHANGED <<epoch, effects>>
         /\ \A r \in Rows : Taken(r) => Taken(r)'
         /\ \A r \in current[l] : Taken(r)'
         /\ \A r \in Rows \ current[l] : (Taken(r)' => Taken(r)) /\ (Busy(r)' => Busy(r))
<1>1. PICK d \in Deliveries, r \in current[l] :
        /\ deliveryPc[d] = "idle"
        /\ event' = [event EXCEPT ![d] = r]
        /\ deliveryPc' = [deliveryPc EXCEPT ![d] = "check"]
        /\ UNCHANGED <<epoch, effects>>
  BY DEF PublishEntry, Bus!Publish, Bus!handlerVars
<1>2. /\ event'[d] = r /\ deliveryPc'[d] = "check"
      /\ \A x \in Deliveries \ {d} : event'[x] = event[x] /\ deliveryPc'[x] = deliveryPc[x]
  BY <1>1 DEF B!TurnsInv, B!RowsInv, B!TypeOK
<1>3. r \in Rows /\ \A q \in current[l] : q = r
  BY PollTypes DEF P!OutboxInv, P!OneEntry
<1> QED
  BY <1>1, <1>2, <1>3 DEF Taken, Busy

LEMMA DeathMoves ==
  ASSUME B!TurnsInv, ProcessDies
  PROVE  /\ epoch' = epoch + 1 /\ effects' = effects
         /\ \A r \in Rows : (Taken(r) <=> Taken(r)') /\ ~ Busy(r)'
BY DEF ProcessDies, Bus!Crash, Bus!handlerVars, B!TurnsInv, B!RowsInv, B!TypeOK, Taken, Busy

-----------------------------------------------------------------------------
\* The invariant of the platform.

\* A handler has acted only on entries that were taken, and not in a later process.
ActedOnTaken ==
  \A r \in Rows, h \in B!Handlers, ep \in B!Epochs :
    effects[<<r, h, ep>>] > 0 => Taken(r) /\ ep <= epoch

\* Whoever records that an entry is PUBLISHED has started a delivery of it.
MarkedIsTaken ==
  \A l \in Loops : \A r \in current[l] : loopPc[l] = "mark" => success[l] /\ Taken(r)

PublishedIsTaken == \A r \in Rows : status[r] = "PUBLISHED" => Taken(r)

\* An entry that was taken is settled, or a loop is about to settle it, or the chance is gone.
TakenIsCovered ==
  \A r \in Rows : Taken(r) =>
    status[r] # "PENDING" \/ unrecorded[r] > 0 \/ \E l \in Loops : Owes(l, r)

\* What an earlier process has acted on, and recorded, is out of reach of this one.
PastIsSettled ==
  \A r \in Rows, ep \in B!Epochs :
    unrecorded[r] = 0 /\ ep < epoch /\ ActedIn(r, ep) =>
      status[r] # "PENDING" /\ ~ Busy(r) /\ \A l \in Loops : r \notin current[l]

ActedOnce ==
  \A r \in Rows, ep1, ep2 \in B!Epochs :
    unrecorded[r] = 0 /\ ActedIn(r, ep1) /\ ActedIn(r, ep2) => ep1 = ep2

EntriesInv == /\ ActedOnTaken /\ MarkedIsTaken /\ PublishedIsTaken
              /\ TakenIsCovered /\ PastIsSettled /\ ActedOnce

PlatformInv == P!OutboxInv /\ B!TurnsInv /\ EntriesInv

LEMMA EpochTypes ==
  ASSUME B!TurnsInv
  PROVE  /\ epoch \in B!Epochs /\ B!Epochs \subseteq Nat
         /\ \A r \in Rows, h \in B!Handlers, ep \in B!Epochs : effects[<<r, h, ep>>] \in Nat
BY PlatformAssumption DEF B!TurnsInv, B!RowsInv, B!TypeOK, B!Epochs, B!Keys

LEMMA InitEntries == Init => EntriesInv
<1> SUFFICES ASSUME Init
             PROVE  EntriesInv
  OBVIOUS
<1>1. /\ deliveryPc = [d \in Deliveries |-> "idle"] /\ status = [r \in Rows |-> "PENDING"]
      /\ current = [l \in Loops |-> {}]
      /\ effects = [k \in B!Keys |-> 0]
  BY BothStart DEF P!Init, B!Init
<1>2. \A r \in Rows, h \in B!Handlers, ep \in B!Epochs : ~ (effects[<<r, h, ep>>] > 0)
  BY <1>1 DEF B!Keys
<1>3. \A r \in Rows : ~ Taken(r) /\ \A ep \in B!Epochs : ~ ActedIn(r, ep)
  BY <1>1, <1>2 DEF Taken, ActedIn
<1> QED
  BY <1>1, <1>2, <1>3
     DEF EntriesInv, ActedOnTaken, MarkedIsTaken, PublishedIsTaken, TakenIsCovered,
         PastIsSettled, ActedOnce

\* A step of the poll side that starts no delivery.
LEMMA PollEntries ==
  ASSUME PlatformInv, P!OutboxInv', PollMoves, UNCHANGED busVars,
         \A l \in Loops : ~ PublishEntry(l)
  PROVE  EntriesInv'
<1>0. /\ UNCHANGED <<event, deliveryPc, epoch, effects>>
      /\ unrecorded \in [Rows -> Nat] /\ unrecorded' \in [Rows -> Nat]
  BY PollTypes DEF busVars, PlatformInv, P!OutboxInv, P!TypeOK
<1>1. /\ \A r \in Rows : (Taken(r)' <=> Taken(r)) /\ (Busy(r)' <=> Busy(r))
      /\ \A r \in Rows, ep \in B!Epochs : ActedIn(r, ep)' <=> ActedIn(r, ep)
      /\ \A r \in Rows : unrecorded'[r] = 0 => unrecorded[r] = 0
  BY <1>0 DEF Taken, Busy, ActedIn, PollMoves
<1>2. \A l \in Loops : current'[l] \subseteq Rows
  BY DEF PlatformInv, P!OutboxInv, P!TypeOK
<1>3. ActedOnTaken' /\ ActedOnce'
  BY <1>0, <1>1 DEF PlatformInv, EntriesInv, ActedOnTaken, ActedOnce
<1>4. MarkedIsTaken' /\ PublishedIsTaken'
  BY <1>1, <1>2 DEF PlatformInv, EntriesInv, MarkedIsTaken, PublishedIsTaken, PollMoves
<1>5. TakenIsCovered'
  BY <1>1 DEF PlatformInv, EntriesInv, TakenIsCovered, PollMoves
<1>6. PastIsSettled'
  BY <1>0, <1>1 DEF PlatformInv, EntriesInv, PastIsSettled, PollMoves
<1> QED
  BY <1>3, <1>4, <1>5, <1>6 DEF EntriesInv

\* A delivery is started.  Its entry was not acted on by an earlier process, unless the
\* record of that was lost: a loop has none of those.
LEMMA PublishEntries ==
  ASSUME PlatformInv, P!OutboxInv', NEW l \in Loops, PublishEntry(l)
  PROVE  EntriesInv'
<1>0. P!OutboxInv /\ B!TurnsInv /\ EntriesInv /\ PollMoves
  BY LoopMoves DEF PlatformInv, LoopStep
<1>1. /\ UNCHANGED <<epoch, effects, current, status, unrecorded>>
      /\ loopPc[l] = "publish" /\ loopPc'[l] = "mark" /\ success'[l]
      /\ \A x \in Loops \ {l} : UNCHANGED <<loopPc[x], success[x]>>
  BY <1>0, PublishMoves, PollTypes
     DEF PublishEntry, Poll!BusTakes, Poll!Goto, Poll!tableVars, Poll!historyVars
<1>2. /\ \A r \in Rows : Taken(r) => Taken(r)'
      /\ \A r \in current[l] : Taken(r)'
      /\ \A r \in Rows \ current[l] : (Taken(r)' => Taken(r)) /\ (Busy(r)' => Busy(r))
  BY <1>0, PublishMoves
<1>3. \A x \in Loops : current[x] \subseteq Rows
  BY <1>0 DEF P!OutboxInv, P!TypeOK
<1>4. \A r \in Rows, ep \in B!Epochs : ActedIn(r, ep)' <=> ActedIn(r, ep)
  BY <1>1 DEF ActedIn
<1>5. ActedOnTaken' /\ ActedOnce'
  BY <1>0, <1>1, <1>2, <1>4 DEF EntriesInv, ActedOnTaken, ActedOnce
<1>6. MarkedIsTaken' /\ PublishedIsTaken'
  BY <1>0, <1>1, <1>2, <1>3 DEF EntriesInv, MarkedIsTaken, PublishedIsTaken
<1>7. TakenIsCovered'
  BY <1>0, <1>1, <1>2 DEF EntriesInv, TakenIsCovered, Owes
<1>8. PastIsSettled'
  BY <1>0, <1>1, <1>2, <1>4 DEF EntriesInv, PastIsSettled
<1> QED
  BY <1>5, <1>6, <1>7, <1>8 DEF EntriesInv

\* A handler acts.  It acts on the entry of a running delivery, which no earlier process has
\* acted on and recorded.
LEMMA HandlerEntries ==
  ASSUME PlatformInv, NEW d \in Deliveries, HandlerStep(d)
  PROVE  EntriesInv'
<1>0. B!TurnsInv /\ EntriesInv
  BY DEF PlatformInv
<1>1. /\ epoch' = epoch
      /\ \A r \in Rows : (Taken(r) => Taken(r)') /\ (Busy(r)' => Busy(r))
      /\ \A r \in Rows, h \in B!Handlers, ep \in B!Epochs :
           effects'[<<r, h, ep>>] > 0 =>
             effects[<<r, h, ep>>] > 0 \/ (ep = epoch /\ Busy(r))
  BY <1>0, HandlerMoves
<1>2. UNCHANGED <<loopPc, current, success, status, unrecorded>>
  BY DEF HandlerStep, pollVars
<1>3. \A r \in Rows : Busy(r) => Taken(r)
  BY DEF Busy, Taken
<1>4. \A r \in Rows : Taken(r)' => Taken(r)
  BY <1>0, SameDelivery, BusConstants, B!StepIsLocal
     DEF HandlerStep, B!TurnsInv, B!RowsInv, Taken
<1>5. \A r \in Rows, ep \in B!Epochs :
        ActedIn(r, ep)' => ActedIn(r, ep) \/ (ep = epoch /\ Busy(r))
  BY <1>1 DEF ActedIn
<1>6. epoch \in Nat /\ B!Epochs \subseteq Nat
  BY <1>0, EpochTypes
<1>7. \A r \in Rows, ep \in B!Epochs : ActedIn(r, ep) => ep <= epoch
  BY <1>0 DEF EntriesInv, ActedOnTaken, ActedIn
<1>8. ActedOnTaken'
  BY <1>0, <1>1, <1>3, <1>6 DEF EntriesInv, ActedOnTaken
<1>9. MarkedIsTaken' /\ PublishedIsTaken'
  BY <1>0, <1>1, <1>2, PollTypes
     DEF EntriesInv, MarkedIsTaken, PublishedIsTaken, PlatformInv, P!OutboxInv, P!TypeOK
<1>10. TakenIsCovered'
  BY <1>0, <1>2, <1>4 DEF EntriesInv, TakenIsCovered, Owes
<1>11. PastIsSettled'
  <2>1. \A r \in Rows, ep \in B!Epochs : ep < epoch /\ ActedIn(r, ep)' => ActedIn(r, ep)
    BY <1>5, <1>6
  <2> QED
    BY <1>0, <1>1, <1>2, <2>1 DEF EntriesInv, PastIsSettled
<1>12. ActedOnce'
  <2>1. ASSUME NEW r \in Rows, NEW ep1 \in B!Epochs, NEW ep2 \in B!Epochs,
               unrecorded[r] = 0, ActedIn(r, ep1)', ActedIn(r, ep2)'
        PROVE  ep1 = ep2
    <3>1. CASE ~ Busy(r)
      BY <1>0, <1>5, <2>1, <3>1 DEF EntriesInv, ActedOnce
    <3>2. CASE Busy(r)
      <4>1. \A ep \in B!Epochs : ActedIn(r, ep) => ep = epoch
        BY <1>0, <1>6, <1>7, <2>1, <3>2 DEF EntriesInv, PastIsSettled
      <4> QED
        BY <1>5, <2>1, <4>1
    <3> QED
      BY <3>1, <3>2
  <2> QED
    BY <1>2, <2>1 DEF ActedOnce
<1> QED
  BY <1>8, <1>9, <1>10, <1>11, <1>12 DEF EntriesInv

\* The process dies.  What it has acted on is settled, or its record is lost.
LEMMA DeathEntries ==
  ASSUME PlatformInv, P!OutboxInv', B!TurnsInv', ProcessDies
  PROVE  EntriesInv'
<1>0. P!OutboxInv /\ B!TurnsInv /\ EntriesInv
  BY DEF PlatformInv
<1>1. /\ epoch' = epoch + 1 /\ effects' = effects
      /\ \A r \in Rows : (Taken(r) <=> Taken(r)') /\ ~ Busy(r)'
  BY <1>0, DeathMoves
<1>2. /\ status' = status
      /\ \A l \in Loops : current'[l] = {}
      /\ \A r \in Rows : unrecorded[r] > 0 => unrecorded'[r] > 0
      /\ \A l \in Loops, r \in Rows : Owes(l, r) => unrecorded'[r] > 0
  BY <1>0, CrashMoves
<1>3. /\ epoch \in Nat /\ B!Epochs \subseteq Nat
      /\ unrecorded \in [Rows -> Nat] /\ unrecorded' \in [Rows -> Nat]
  BY <1>0, EpochTypes, PollTypes DEF P!OutboxInv, P!TypeOK
<1>4. \A r \in Rows, ep \in B!Epochs : ActedIn(r, ep)' <=> ActedIn(r, ep)
  BY <1>1 DEF ActedIn
<1>5. \A r \in Rows : unrecorded'[r] = 0 => unrecorded[r] = 0
  BY <1>2, <1>3
<1>6. ActedOnTaken'
  BY <1>0, <1>1, <1>3 DEF EntriesInv, ActedOnTaken
<1>7. MarkedIsTaken' /\ PublishedIsTaken'
  BY <1>0, <1>1, <1>2 DEF EntriesInv, MarkedIsTaken, PublishedIsTaken
<1>8. \A r \in Rows : Taken(r) => status[r] # "PENDING" \/ unrecorded'[r] > 0
  BY <1>0, <1>2 DEF EntriesInv, TakenIsCovered
<1>9. TakenIsCovered'
  BY <1>1, <1>2, <1>8 DEF TakenIsCovered
<1>10. PastIsSettled'
  <2>1. \A r \in Rows, ep \in B!Epochs : ActedIn(r, ep) => Taken(r)
    BY <1>0 DEF EntriesInv, ActedOnTaken, ActedIn
  <2> QED
    BY <1>1, <1>2, <1>3, <1>4, <1>8, <2>1 DEF PastIsSettled
<1>11. ActedOnce'
  BY <1>0, <1>4, <1>5 DEF EntriesInv, ActedOnce
<1> QED
  BY <1>6, <1>7, <1>9, <1>10, <1>11 DEF EntriesInv

LEMMA PlatformStep == PlatformInv /\ [Next]_vars => PlatformInv'
<1> SUFFICES ASSUME PlatformInv, [Next]_vars
             PROVE  PlatformInv'
  OBVIOUS
<1>0. P!OutboxInv /\ P!OutboxInv' /\ B!TurnsInv'
  BY HalvesStep DEF PlatformInv
<1>1. ASSUME Application \/ \E l \in Loops : LoopStep(l)
      PROVE  EntriesInv'
  <2>1. CASE \E l \in Loops : PublishEntry(l)
    BY <1>0, <2>1, PublishEntries
  <2>2. CASE \A l \in Loops : ~ PublishEntry(l)
    <3>1. PollMoves /\ UNCHANGED busVars
      BY <1>0, <1>1, <2>2, ApplicationMoves, LoopMoves DEF Application, LoopStep
    <3> QED
      BY <1>0, <2>2, <3>1, PollEntries
  <2> QED
    BY <2>1, <2>2
<1>2. ASSUME UNCHANGED vars
      PROVE  EntriesInv'
  <2>1. PollMoves /\ UNCHANGED busVars /\ \A l \in Loops : ~ PublishEntry(l)
    <3>1. UNCHANGED <<loopPc, current, success, status, unrecorded, busVars>>
      BY <1>2 DEF vars, pollVars
    <3>2. \A l \in Loops : ~ PublishEntry(l)
      BY <1>0, <3>1, PollTypes DEF PublishEntry, Poll!BusTakes, Poll!Goto
    <3> QED
      BY <1>0, <3>1, <3>2, PollTypes DEF PollMoves, Owes
  <2> QED
    BY <1>0, <2>1, PollEntries
<1>3. ASSUME NEW d \in Deliveries, HandlerStep(d)
      PROVE  EntriesInv'
  BY <1>3, HandlerEntries
<1>4. ASSUME ProcessDies
      PROVE  EntriesInv'
  BY <1>0, <1>4, DeathEntries
<1>5. EntriesInv'
  BY <1>1, <1>2, <1>3, <1>4 DEF Next
<1> QED
  BY <1>0, <1>5 DEF PlatformInv

LEMMA PlatformAlways == Spec => []PlatformInv
BY HalvesInit, InitEntries, PlatformStep, PTL DEF Spec, PlatformInv

LEMMA SameKeys == Bus!Handlers = B!Handlers /\ Bus!Epochs = B!Epochs
BY DEF Bus!Handlers, B!Handlers, Bus!Epochs, B!Epochs

\* For any number of entries, poll loops, deliveries and handlers, whatever fails and
\* crashes: an entry marked PUBLISHED has been handled by each handler, or is on its way to
\* it, or was lost to an error of onEvent or with its process (OutboxPollerService and
\* EventBus: a publish succeeds before the handlers run).
THEOREM PublishedCorrect == Spec => []PublishedIsHandled
<1>1. PlatformInv => PublishedIsHandled
  <2> SUFFICES ASSUME PlatformInv, NEW r \in Rows, NEW h \in B!Handlers,
                      status[r] = "PUBLISHED"
               PROVE  \/ Handled(r, h) # {}
                      \/ \E d \in Deliveries : /\ event[d] = r
                                               /\ handlerTurn[d] <= h
                                               /\ deliveryPc[d] \notin {"idle", "done", "lost"}
                      \/ \E k \in thrown : k[1] = r /\ k[2] = h
                      \/ \E d \in Deliveries : event[d] = r /\ deliveryPc[d] = "lost"
    BY SameKeys DEF PublishedIsHandled
  <2>1. PICK d \in Deliveries : event[d] = r /\ deliveryPc[d] # "idle"
    BY DEF PlatformInv, EntriesInv, PublishedIsTaken, Taken
  <2>2. handlerTurn \in [Deliveries -> B!Handlers] /\ B!Handlers \subseteq Nat
    BY DEF PlatformInv, B!TurnsInv, B!RowsInv, B!TypeOK, B!Handlers
  <2>3. CASE B!TurnOver(d, h)
    <3>1. B!Settled(r, h)
      BY <2>1, <2>3 DEF PlatformInv, B!TurnsInv
    <3>2. CASE \E ep \in B!Epochs : effects[<<r, h, ep>>] > 0
      BY <3>2, SameKeys DEF Handled
    <3>3. CASE \E c \in Deliveries : event[c] = r /\ handlerTurn[c] = h /\ deliveryPc[c] = "onEvent"
      <4>1. PICK c \in Deliveries : event[c] = r /\ handlerTurn[c] = h /\ deliveryPc[c] = "onEvent"
        BY <3>3
      <4>2. h \in Nat /\ handlerTurn[c] = h
        BY <2>2, <4>1
      <4>3. handlerTurn[c] <= h
        BY <4>2
      <4> QED
        BY <4>1, <4>3
    <3> QED
      BY <3>1, <3>2, <3>3 DEF B!Settled
  <2>4. CASE ~ B!TurnOver(d, h)
    <3>1. ~ (h < handlerTurn[d]) /\ deliveryPc[d] # "done"
      BY <2>1, <2>4 DEF B!TurnOver
    <3>2. h \in Nat /\ handlerTurn[d] \in Nat
      BY <2>2
    <3>3. handlerTurn[d] <= h
      BY <3>1, <3>2
    <3>4. CASE deliveryPc[d] = "lost"
      BY <2>1, <3>4
    <3> QED
      BY <2>1, <3>1, <3>3, <3>4
  <2> QED
    BY <2>3, <2>4
<1> QED
  BY <1>1, PlatformAlways, PTL

\* For any number of restarts: a second process handles an event again only if the first one
\* took it and failed to record that (ProcessedEvents is keyed by a handlerId that is new in
\* each process, so that nothing else would stop it).
THEOREM ReplayCorrect == Spec => []ReplayedOnlyIfUnrecorded
<1>1. PlatformInv => ReplayedOnlyIfUnrecorded
  <2> SUFFICES ASSUME PlatformInv, NEW r \in Rows, NEW h \in B!Handlers,
                      unrecorded[r] = 0
               PROVE  ~ (Cardinality(Handled(r, h)) > 1)
    <3>1. ASSUME PlatformInv, NEW r \in Rows, NEW h \in Bus!Handlers,
                 Cardinality(Handled(r, h)) > 1
          PROVE  unrecorded[r] > 0
      <4>1. unrecorded[r] \in Nat /\ h \in B!Handlers
        BY <3>1, SameKeys, PollTypes DEF PlatformInv
      <4> QED
        BY <3>1, <4>1
    <3> QED
      BY <3>1 DEF ReplayedOnlyIfUnrecorded
  <2>1. \A e1, e2 \in Handled(r, h) : e1 = e2
    BY SameKeys DEF PlatformInv, EntriesInv, ActedOnce, ActedIn, Handled
  <2>2. CASE Handled(r, h) = {}
    BY <2>2, FS_EmptySet
  <2>3. CASE Handled(r, h) # {}
    <3>1. PICK e : Handled(r, h) = {e}
      BY <2>1, <2>3
    <3>2. Cardinality({e}) = 1
      BY FS_Singleton
    <3>3. Cardinality(Handled(r, h)) = 1
      BY <3>1, <3>2
    <3> QED
      BY <3>3
  <2> QED
    BY <2>2, <2>3
<1> QED
  BY <1>1, PlatformAlways, PTL

-----------------------------------------------------------------------------
\* What was proved of the halves is true of them in the platform.

\* Running in one process, sharing its death, and answering each other does not let the
\* poller or the bus do anything that each could not do alone (OutboxPollerService calls
\* EventBus.publish through the interface only, outbox.service.ts).
THEOREM HalvesCorrect == Spec => P!Spec /\ B!Spec
<1>1. PlatformInv => P!TypeOK
  BY DEF PlatformInv, P!OutboxInv
<1>2. Spec => [](P!TypeOK)
  BY <1>1, PlatformAlways, PTL
<1> QED
  BY <1>2, BothStart, StepOfPoll, StepOfBus, PTL DEF Spec, P!Spec, B!Spec

\* With the real bus the outbox keeps its promise: events are offered after their commit,
\* settled by what the bus answered, and archived only when published.
THEOREM PromiseKept == Spec => P!KeepsPromise
BY HalvesCorrect, PollConstants, P!Refinement, PTL

\* With the real poller, as often as it publishes an entry again, onEvent completes at most
\* once for a handler in a process, plus once for each run without the row's protection.
THEOREM EffectsBoundedCorrect == Spec => [](B!EffectsBounded)
BY HalvesCorrect, BusConstants, B!EffectsCorrect, PTL

=============================================================================
