---------------------------- MODULE Outbox_proofs ----------------------------
(***************************************************************************)
(* Proofs about Outbox: type correctness, the bound on duplicate           *)
(* publications, and the refinement of OutboxPromise.                      *)
(***************************************************************************)
EXTENDS Outbox, FiniteSetTheorems, TLAPS

-----------------------------------------------------------------------------
\* Type correctness.

LEMMA InitType == Init => TypeOK
BY OutboxAssumption DEF Init, TypeOK, TxState, Status, LoopState

LEMMA OwedByIsNat ==
  ASSUME NEW L \in SUBSET Loops, NEW r
  PROVE  OwedBy(L, r) \in Nat
<1>1. {l \in L : r \in Owed(l)} \subseteq Loops
  OBVIOUS
<1>2. IsFiniteSet({l \in L : r \in Owed(l)})
  BY <1>1, OutboxAssumption, FS_Subset
<1> QED
  BY <1>2, FS_CardinalityType DEF OwedBy

\* Where a loop goes after an entry.
LEMMA NextRowType ==
  ASSUME TypeOK, NEW l \in Loops, NEW rest, NextRow(l, rest)
  PROVE  pc' \in [Loops -> LoopState]
BY DEF TypeOK, NextRow, Goto, LoopState

LEMMA FinishRowType ==
  ASSUME TypeOK, NEW l \in Loops, FinishRow(l)
  PROVE  /\ pc' \in [Loops -> LoopState]
         /\ batch' \in [Loops -> SUBSET Rows]
         /\ current' \in [Loops -> SUBSET Rows]
         /\ success' \in [Loops -> BOOLEAN]
         /\ running' \subseteq Workers
         /\ accepted' \in [Rows -> Nat]
         /\ refused' \subseteq Rows
BY NextRowType DEF TypeOK, FinishRow, busVars

LEMMA StepType == TypeOK /\ [Next]_vars => TypeOK'
<1> SUFFICES ASSUME TypeOK, [Next]_vars
             PROVE  TypeOK'
  OBVIOUS
<1> USE OutboxAssumption
<1>1. ASSUME NEW r \in Rows, Persist(r) \/ EndTransaction(r)
      PROVE  TypeOK'
  <2>1. \E t \in TxState : tx' = [tx EXCEPT ![r] = t]
    BY <1>1 DEF Persist, EndTransaction, TxState
  <2>2. /\ UNCHANGED <<status, deletedAt, expired>>
        /\ UNCHANGED <<running, loopVars, busVars, historyVars, faults>>
    BY <1>1 DEF Persist, EndTransaction
  <2> QED
    BY <2>1, <2>2 DEF TypeOK, loopVars, busVars, historyVars
<1>2. ASSUME NEW r \in Rows, Expire(r)
      PROVE  TypeOK'
  BY <1>2 DEF TypeOK, Expire, loopVars, busVars, historyVars
<1>3. ASSUME NEW l \in Loops, Start(l)
      PROVE  TypeOK'
  BY <1>3 DEF TypeOK, Start, LoopState, tableVars, busVars, historyVars
<1>4. ASSUME NEW w \in Workers, Stop(w)
      PROVE  TypeOK'
  BY <1>4 DEF TypeOK, Stop, tableVars, loopVars, busVars, historyVars
<1>5. ASSUME NEW w \in Workers, Crash(w)
      PROVE  TypeOK'
  <2> DEFINE mine == {l \in Loops : Owner[l] = w}
  <2>1. unrecorded' \in [Rows -> Nat]
    <3>1. \A r \in Rows : OwedBy(mine, r) \in Nat
      BY OwedByIsNat
    <3>2. unrecorded' = [r \in Rows |-> unrecorded[r] + OwedBy(mine, r)]
      BY <1>5 DEF Crash
    <3> HIDE DEF mine
    <3> QED
      BY <3>1, <3>2 DEF TypeOK
  <2>2. /\ pc' \in [Loops -> LoopState]
        /\ batch' \in [Loops -> SUBSET Rows]
        /\ current' \in [Loops -> SUBSET Rows]
        /\ success' \in [Loops -> BOOLEAN]
    BY <1>5 DEF Crash, TypeOK, LoopState
  <2>3. faults' \in 0..MaxFaults
    BY <1>5 DEF Crash, Fault, TypeOK
  <2>4. /\ running' = running \ {w}
        /\ UNCHANGED <<recordedBy, tableVars, busVars>>
    BY <1>5 DEF Crash
  <2> QED
    BY <2>1, <2>2, <2>3, <2>4 DEF TypeOK, tableVars, busVars
<1>6. ASSUME NEW l \in Loops, FindPending(l)
      PROVE  TypeOK'
  <2>1. PICK S \in SUBSET Rows : batch' = [batch EXCEPT ![l] = S] /\ NextRow(l, S)
    BY <1>6 DEF FindPending
  <2>2. pc' \in [Loops -> LoopState] /\ batch' \in [Loops -> SUBSET Rows]
    BY <2>1, NextRowType DEF TypeOK
  <2> QED
    BY <1>6, <2>2 DEF TypeOK, FindPending, Answers, tableVars, busVars, historyVars
<1>7. ASSUME NEW l \in Loops, FindPendingFails(l)
      PROVE  TypeOK'
  BY <1>7 DEF TypeOK, FindPendingFails, Fault, Goto, LoopState, tableVars, busVars, historyVars
<1>8. ASSUME NEW l \in Loops, ReadPending(l)
      PROVE  TypeOK'
  <2>1. batch' \in [Loops -> SUBSET Rows] /\ current' \in [Loops -> SUBSET Rows]
    BY <1>8 DEF TypeOK, ReadPending
  <2> QED
    BY <1>8, <2>1
       DEF TypeOK, ReadPending, Answers, Goto, LoopState, tableVars, busVars, historyVars
<1>9. ASSUME NEW l \in Loops, SkipRow(l)
      PROVE  TypeOK'
  <2>1. batch' \in [Loops -> SUBSET Rows] /\ pc' \in [Loops -> LoopState]
    BY <1>9, NextRowType DEF TypeOK, SkipRow
  <2>2. faults' \in 0..MaxFaults
    BY <1>9 DEF SkipRow, Answers, Fault, TypeOK
  <2>3. /\ UNCHANGED <<current, success>>
        /\ UNCHANGED <<tableVars, running, busVars, historyVars>>
    BY <1>9 DEF SkipRow
  <2> QED
    BY <2>1, <2>2, <2>3 DEF TypeOK, tableVars, busVars, historyVars
<1>10. ASSUME NEW l \in Loops, BusTakes(l)
       PROVE  TypeOK'
  <2>1. accepted' \in [Rows -> Nat]
    BY <1>10 DEF BusTakes, TypeOK
  <2> QED
    BY <1>10, <2>1 DEF TypeOK, BusTakes, Goto, LoopState, tableVars, historyVars
<1>11. ASSUME NEW l \in Loops, BusRefuses(l)
       PROVE  TypeOK'
  BY <1>11 DEF TypeOK, BusRefuses, Goto, LoopState, tableVars, historyVars
<1>12. ASSUME NEW l \in Loops, MarkPublished(l)
       PROVE  TypeOK'
  <2>1. PICK r \in current[l] :
          /\ status' = [status EXCEPT ![r] = "PUBLISHED"]
          /\ expired' = expired \ {r}
          /\ recordedBy' = [recordedBy EXCEPT ![r] = @ \cup {l}]
    BY <1>12 DEF MarkPublished
  <2>2. /\ status' \in [Rows -> Status] /\ expired' \subseteq Rows
        /\ recordedBy' \in [Rows -> SUBSET Loops]
    BY <2>1 DEF TypeOK, Status
  <2>3. FinishRow(l) /\ UNCHANGED <<tx, deletedAt, unrecorded, faults>>
    BY <1>12 DEF MarkPublished, Answers
  <2> QED
    BY <2>2, <2>3, FinishRowType DEF TypeOK
<1>13. ASSUME NEW l \in Loops, MarkFailed(l)
       PROVE  TypeOK'
  <2>1. status' \in [Rows -> Status]
    BY <1>13 DEF MarkFailed, TypeOK, Status
  <2>2. FinishRow(l) /\ UNCHANGED <<tx, deletedAt, expired, historyVars, faults>>
    BY <1>13 DEF MarkFailed, Answers
  <2> QED
    BY <2>1, <2>2, FinishRowType DEF TypeOK, historyVars
<1>14. ASSUME NEW l \in Loops, MarkFails(l)
       PROVE  TypeOK'
  <2>1. unrecorded' \in [Rows -> Nat]
    BY <1>14 DEF MarkFails, TypeOK
  <2>2. faults' \in 0..MaxFaults
    BY <1>14 DEF MarkFails, Answers, Fault, TypeOK
  <2>3. FinishRow(l) /\ UNCHANGED <<tableVars, recordedBy>>
    BY <1>14 DEF MarkFails
  <2> QED
    BY <2>1, <2>2, <2>3, FinishRowType DEF TypeOK, tableVars
<1>15. ASSUME NEW l \in Loops, EndPoll(l)
       PROVE  TypeOK'
  <2>1. deletedAt' \subseteq Rows
    BY <1>15 DEF EndPoll, ArchivePublished, TypeOK
  <2>2. faults' \in 0..MaxFaults
    BY <1>15 DEF EndPoll, Answers, Fault, TypeOK
  <2>3. /\ Goto(l, "sleep")
        /\ UNCHANGED <<batch, current, success>>
        /\ UNCHANGED <<tx, status, expired, running, busVars, historyVars>>
    BY <1>15 DEF EndPoll
  <2> QED
    BY <2>1, <2>2, <2>3 DEF TypeOK, Goto, LoopState, busVars, historyVars
<1>16. ASSUME NEW l \in Loops, Wake(l)
       PROVE  TypeOK'
  BY <1>16 DEF TypeOK, Wake, Goto, LoopState, tableVars, busVars, historyVars
<1>17. CASE UNCHANGED vars
  BY <1>17 DEF TypeOK, vars, tableVars, loopVars, busVars, historyVars
<1> QED
  BY <1>1, <1>2, <1>3, <1>4, <1>5, <1>6, <1>7, <1>8, <1>9, <1>10, <1>11, <1>12, <1>13,
     <1>14, <1>15, <1>16, <1>17 DEF Next, LoopStep

\* Every reachable state of the outbox and its pollers is well typed.
THEOREM TypeCorrect == Spec => []TypeOK
BY InitType, StepType, PTL DEF Spec

-----------------------------------------------------------------------------
\* The inductive invariant: what a loop knows about the entry it works on, and
\* what the table says of entries nobody has committed or somebody has settled.

\* An entry is PENDING and not archived before its transaction commits.
Unwritten == \A r \in Rows : tx[r] # "committed" => status[r] = "PENDING" /\ r \notin deletedAt

\* publishById works on one committed entry, and has it only around the bus call.
OneEntry == \A l \in Loops : \A r \in current[l] :
              /\ \A q \in current[l] : q = r
              /\ tx[r] = "committed"
              /\ pc[l] \in {"publish", "mark"}

\* The success a loop is about to record is the bus's.
SuccessIsTrue == \A l \in Loops : \A r \in current[l] :
                   pc[l] = "mark" => IF success[l] THEN accepted[r] > 0 ELSE r \in refused

\* A loop that recorded an entry as PUBLISHED never gets it again: the entry is
\* settled for good, and publishById goes to the bus with PENDING entries only.
RecordedOnce == \A r \in Rows : \A l \in recordedBy[r] :
                  status[r] # "PENDING" /\ r \notin current[l]

\* Loops that stand for one acceptance of r each.
Holders(r) == recordedBy[r] \cup {l \in Loops : r \in Owed(l)}

Counted == \A r \in Rows : accepted[r] <= Cardinality(Holders(r)) + unrecorded[r]

OutboxInv == TypeOK /\ Unwritten /\ OneEntry /\ SuccessIsTrue /\ RecordedOnce

LEMMA InitInv == Init => OutboxInv /\ Counted
<1> SUFFICES ASSUME Init
             PROVE  OutboxInv /\ Counted
  OBVIOUS
<1>1. Unwritten /\ OneEntry /\ SuccessIsTrue /\ RecordedOnce
  BY DEF Init, Unwritten, OneEntry, SuccessIsTrue, RecordedOnce
<1>2. ASSUME NEW r \in Rows
      PROVE  accepted[r] <= Cardinality(Holders(r)) + unrecorded[r]
  <2>1. Holders(r) = {}
    BY DEF Init, Holders, Owed
  <2> QED
    BY <2>1, FS_EmptySet DEF Init
<1> QED
  BY <1>1, <1>2, InitType DEF OutboxInv, Counted

LEMMA StepInv == OutboxInv /\ [Next]_vars => OutboxInv'
<1> SUFFICES ASSUME OutboxInv, [Next]_vars
             PROVE  OutboxInv'
  OBVIOUS
<1> USE DEF Unwritten, OneEntry, SuccessIsTrue, RecordedOnce
<1>0. TypeOK /\ TypeOK'
  BY StepType DEF OutboxInv
\* Actions that leave the entry a loop works on alone.
<1>1. ASSUME NEW r \in Rows, Persist(r) \/ EndTransaction(r)
      PROVE  OutboxInv'
  <2>1. tx[r] # "committed" /\ \E t \in TxState : tx' = [tx EXCEPT ![r] = t]
    BY <1>1 DEF Persist, EndTransaction, TxState
  <2>2. UNCHANGED <<status, deletedAt, loopVars, busVars, historyVars>>
    BY <1>1 DEF Persist, EndTransaction
  <2> QED
    BY <1>0, <2>1, <2>2 DEF OutboxInv, TypeOK, loopVars, busVars, historyVars
<1>2. ASSUME NEW r \in Rows, Expire(r)
      PROVE  OutboxInv'
  BY <1>0, <1>2 DEF OutboxInv, Expire, loopVars, busVars, historyVars
<1>3. ASSUME NEW l \in Loops, Start(l)
      PROVE  OutboxInv'
  BY <1>0, <1>3 DEF OutboxInv, TypeOK, Start, tableVars, busVars, historyVars
<1>4. ASSUME NEW w \in Workers, Stop(w)
      PROVE  OutboxInv'
  BY <1>0, <1>4 DEF OutboxInv, Stop, tableVars, loopVars, busVars, historyVars
<1>5. ASSUME NEW w \in Workers, Crash(w)
      PROVE  OutboxInv'
  <2>1. UNCHANGED <<recordedBy, tableVars, busVars>>
    BY <1>5 DEF Crash
  <2>2. \A l \in Loops : \/ current'[l] = {}
                         \/ UNCHANGED <<pc[l], current[l], success[l]>>
    BY <1>5 DEF Crash
  <2> QED
    BY <1>0, <2>1, <2>2 DEF OutboxInv, TypeOK, tableVars, busVars
<1>6. ASSUME NEW l \in Loops,
             FindPending(l) \/ FindPendingFails(l) \/ SkipRow(l) \/ Wake(l)
      PROVE  OutboxInv'
  <2>1. pc[l] \in {"find", "read", "sleep"} /\ \E p \in LoopState : Goto(l, p)
    BY <1>6 DEF FindPending, FindPendingFails, SkipRow, Wake, NextRow, LoopState
  <2>2. UNCHANGED <<current, success, tableVars, busVars, historyVars>>
    BY <1>6 DEF FindPending, FindPendingFails, SkipRow, Wake
  <2> QED
    BY <1>0, <2>1, <2>2 DEF OutboxInv, TypeOK, Goto, tableVars, busVars, historyVars
<1>7. ASSUME NEW l \in Loops, EndPoll(l)
      PROVE  OutboxInv'
  <2>1. pc[l] = "endpoll" /\ Goto(l, "sleep")
    BY <1>7 DEF EndPoll
  <2>2. \A r \in Rows : r \in deletedAt' => r \in deletedAt \/ tx[r] = "committed"
    BY <1>7 DEF EndPoll, ArchivePublished, Visible
  <2>3. UNCHANGED <<current, success, tx, status, expired, busVars, historyVars>>
    BY <1>7 DEF EndPoll
  <2> QED
    BY <1>0, <2>1, <2>2, <2>3 DEF OutboxInv, TypeOK, Goto, busVars, historyVars
<1>8. CASE UNCHANGED vars
  BY <1>0, <1>8 DEF OutboxInv, vars, tableVars, loopVars, busVars, historyVars
\* The life of one entry in publishById.
<1>9. ASSUME NEW l \in Loops, ReadPending(l)
      PROVE  OutboxInv'
  <2>1. PICK r \in Rows : /\ tx[r] = "committed" /\ status[r] = "PENDING"
                          /\ current' = [current EXCEPT ![l] = {r}]
    BY <1>9 DEF ReadPending, Visible
  <2>2. Goto(l, "publish") /\ UNCHANGED <<tableVars, busVars, historyVars, success>>
    BY <1>9 DEF ReadPending
  <2>3. OneEntry'
    BY <2>1, <2>2 DEF OutboxInv, TypeOK, Goto, tableVars
  <2>4. SuccessIsTrue'
    BY <2>1, <2>2 DEF OutboxInv, TypeOK, Goto, busVars
  <2>5. Unwritten' /\ RecordedOnce'
    BY <2>1, <2>2 DEF OutboxInv, TypeOK, tableVars, historyVars
  <2> QED
    BY <1>0, <2>3, <2>4, <2>5 DEF OutboxInv
<1>10. ASSUME NEW l \in Loops, BusTakes(l) \/ BusRefuses(l)
       PROVE  OutboxInv'
  <2>1. /\ pc[l] = "publish" /\ Goto(l, "mark")
        /\ UNCHANGED <<current, tableVars, historyVars>>
    BY <1>10 DEF BusTakes, BusRefuses
  <2>2. SuccessIsTrue'
    <3>1. \A r \in Rows : accepted[r] > 0 => accepted'[r] > 0
      BY <1>10 DEF BusTakes, BusRefuses, OutboxInv, TypeOK
    <3>2. \A r \in Rows : r \in refused => r \in refused'
      BY <1>10 DEF BusTakes, BusRefuses
    <3>3. \A r \in current[l] : IF success'[l] THEN accepted'[r] > 0 ELSE r \in refused'
      <4>1. CASE BusTakes(l)
        BY <4>1 DEF BusTakes, OutboxInv, TypeOK
      <4>2. CASE BusRefuses(l)
        BY <4>2 DEF BusRefuses, OutboxInv, TypeOK
      <4> QED
        BY <1>10, <4>1, <4>2
    <3>4. \A x \in Loops \ {l} : success'[x] = success[x] /\ pc'[x] = pc[x]
      BY <1>10, <2>1 DEF BusTakes, BusRefuses, Goto, OutboxInv, TypeOK
    <3> QED
      BY <2>1, <3>1, <3>2, <3>3, <3>4 DEF OutboxInv, TypeOK
  <2> QED
    BY <1>0, <2>1, <2>2 DEF OutboxInv, TypeOK, Goto, tableVars, historyVars
<1>11. ASSUME NEW l \in Loops, FinishRow(l), UNCHANGED <<tx, deletedAt>>,
              \A r \in Rows : \/ status'[r] = status[r]
                              \/ tx[r] = "committed" /\ status'[r] # "PENDING",
              \A r \in Rows : \/ recordedBy'[r] = recordedBy[r]
                              \/ recordedBy'[r] = recordedBy[r] \cup {l} /\ status'[r] # "PENDING"
       PROVE  OutboxInv'
  <2>1. /\ current' = [current EXCEPT ![l] = {}]
        /\ \A x \in Loops \ {l} : success'[x] = success[x] /\ pc'[x] = pc[x]
        /\ UNCHANGED busVars
    BY <1>11 DEF FinishRow, NextRow, Goto, OutboxInv, TypeOK
  <2>2. OneEntry' /\ SuccessIsTrue'
    BY <1>11, <2>1 DEF OutboxInv, TypeOK, busVars
  <2>3. Unwritten' /\ RecordedOnce'
    BY <1>11, <2>1 DEF OutboxInv, TypeOK
  <2> QED
    BY <1>0, <2>2, <2>3 DEF OutboxInv
<1>12. ASSUME NEW l \in Loops, MarkPublished(l)
       PROVE  OutboxInv'
  <2>1. PICK r \in current[l] :
          /\ status' = [status EXCEPT ![r] = "PUBLISHED"]
          /\ recordedBy' = [recordedBy EXCEPT ![r] = @ \cup {l}]
    BY <1>12 DEF MarkPublished
  <2>2. r \in Rows /\ tx[r] = "committed"
    BY DEF OutboxInv, TypeOK
  <2>3. FinishRow(l) /\ UNCHANGED <<tx, deletedAt>>
    BY <1>12 DEF MarkPublished
  <2> QED
    BY <1>11, <2>1, <2>2, <2>3 DEF OutboxInv, TypeOK
<1>13. ASSUME NEW l \in Loops, MarkFailed(l)
       PROVE  OutboxInv'
  <2>1. PICK r \in current[l] : status' = [status EXCEPT ![r] = "FAILED"]
    BY <1>13 DEF MarkFailed
  <2>2. r \in Rows /\ tx[r] = "committed"
    BY DEF OutboxInv, TypeOK
  <2>3. FinishRow(l) /\ UNCHANGED <<tx, deletedAt, historyVars>>
    BY <1>13 DEF MarkFailed
  <2> QED
    BY <1>11, <2>1, <2>2, <2>3 DEF OutboxInv, TypeOK, historyVars
<1>14. ASSUME NEW l \in Loops, MarkFails(l)
       PROVE  OutboxInv'
  <2>1. FinishRow(l) /\ UNCHANGED <<tx, deletedAt, status, recordedBy>>
    BY <1>14 DEF MarkFails, tableVars
  <2> QED
    BY <1>11, <2>1
<1> QED
  BY <1>1, <1>2, <1>3, <1>4, <1>5, <1>6, <1>7, <1>8, <1>9, <1>10, <1>12, <1>13, <1>14
     DEF Next, LoopStep

-----------------------------------------------------------------------------
\* The bound on duplicates.

LEMMA CardinalityOfUnion ==
  ASSUME NEW S, NEW T, IsFiniteSet(S), IsFiniteSet(T)
  PROVE  /\ IsFiniteSet(S \cup T)
         /\ Cardinality(S \cup T) \in Nat
         /\ Cardinality(S \cup T) <= Cardinality(S) + Cardinality(T)
<1>1. IsFiniteSet(S \cup T) /\ IsFiniteSet(S \cap T)
  BY FS_Union, FS_Intersection
<1>2. Cardinality(S) \in Nat /\ Cardinality(T) \in Nat /\ Cardinality(S \cap T) \in Nat
  BY <1>1, FS_CardinalityType
<1>3. Cardinality(S \cup T) = Cardinality(S) + Cardinality(T) - Cardinality(S \cap T)
  BY FS_Union
<1> QED
  BY <1>1, <1>2, <1>3, FS_CardinalityType

LEMMA HoldersFinite ==
  ASSUME TypeOK, NEW r \in Rows
  PROVE  /\ IsFiniteSet(Holders(r))
         /\ Cardinality(Holders(r)) \in Nat
         /\ Cardinality(Holders(r)) <= Cardinality(Loops)
<1>1. Holders(r) \in SUBSET Loops
  BY DEF Holders, TypeOK
<1> QED
  BY <1>1, OutboxAssumption, FS_Subset, FS_CardinalityType

LEMMA HoldersFiniteNext ==
  ASSUME TypeOK', NEW r \in Rows
  PROVE  IsFiniteSet(Holders(r)') /\ Cardinality(Holders(r)') \in Nat
<1>1. Holders(r)' \in SUBSET Loops
  BY DEF Holders, TypeOK
<1> QED
  BY <1>1, OutboxAssumption, FS_Subset, FS_CardinalityType

\* What is enough for one entry: its holders lost no more than was given up as
\* unrecorded, or gained as much as the bus accepted.
LEMMA CountedKept ==
  ASSUME TypeOK, TypeOK', NEW r \in Rows,
         accepted[r] <= Cardinality(Holders(r)) + unrecorded[r],
         UNCHANGED <<accepted[r], unrecorded[r]>>,
         Holders(r) \subseteq Holders(r)'
  PROVE  (accepted[r] <= Cardinality(Holders(r)) + unrecorded[r])'
<1>1. /\ IsFiniteSet(Holders(r)') /\ Cardinality(Holders(r)') \in Nat
  BY HoldersFiniteNext
<1>2. Cardinality(Holders(r)) <= Cardinality(Holders(r)')
  BY <1>1, FS_Subset
<1> QED
  BY <1>1, <1>2, HoldersFinite DEF TypeOK

LEMMA StepCounted == OutboxInv /\ Counted /\ [Next]_vars => Counted'
<1> SUFFICES ASSUME OutboxInv, Counted, [Next]_vars, NEW r \in Rows
             PROVE  (accepted[r] <= Cardinality(Holders(r)) + unrecorded[r])'
  BY DEF Counted
<1> USE DEF Holders, Owed
<1>0. /\ TypeOK /\ TypeOK' /\ OutboxInv'
      /\ accepted[r] <= Cardinality(Holders(r)) + unrecorded[r]
  BY StepType, StepInv DEF OutboxInv, Counted
<1>a. /\ IsFiniteSet(Holders(r)) /\ Cardinality(Holders(r)) \in Nat
      /\ IsFiniteSet(Holders(r)') /\ Cardinality(Holders(r)') \in Nat
  BY <1>0, HoldersFinite, HoldersFiniteNext
\* Actions that touch neither an acceptance nor a loop that owes one.
<1>1. ASSUME UNCHANGED <<busVars, historyVars, loopVars>>
      PROVE  (accepted[r] <= Cardinality(Holders(r)) + unrecorded[r])'
  BY <1>0, <1>1, CountedKept DEF busVars, historyVars, loopVars
<1>2. ASSUME NEW l \in Loops, pc[l] # "mark",
             \A x \in Loops \ {l} : pc'[x] = pc[x] /\ UNCHANGED <<current[x], success[x]>>,
             UNCHANGED <<accepted, historyVars>>
      PROVE  (accepted[r] <= Cardinality(Holders(r)) + unrecorded[r])'
  BY <1>0, <1>2, CountedKept DEF historyVars
<1>3. ASSUME NEW l \in Loops, \/ Start(l)
                              \/ FindPending(l) \/ FindPendingFails(l)
                              \/ ReadPending(l) \/ SkipRow(l) \/ BusRefuses(l)
                              \/ EndPoll(l) \/ Wake(l)
      PROVE  (accepted[r] <= Cardinality(Holders(r)) + unrecorded[r])'
  <2>1. pc[l] # "mark" /\ UNCHANGED <<accepted, historyVars>>
    BY <1>3 DEF Start, FindPending, FindPendingFails, ReadPending, SkipRow, BusRefuses,
       EndPoll, Wake, busVars
  <2>2. \A x \in Loops \ {l} : pc'[x] = pc[x] /\ UNCHANGED <<current[x], success[x]>>
    BY <1>0, <1>3 DEF Start, FindPending, FindPendingFails, ReadPending, SkipRow, BusRefuses,
       EndPoll, Wake, Goto, NextRow, TypeOK
  <2> QED
    BY <1>2, <2>1, <2>2
\* The bus takes the event: the loop becomes one of its holders.
<1>4. ASSUME NEW l \in Loops, BusTakes(l)
      PROVE  (accepted[r] <= Cardinality(Holders(r)) + unrecorded[r])'
  <2>1. UNCHANGED historyVars
    BY <1>4 DEF BusTakes
  <2>2. CASE r \notin current[l]
    <3>1. accepted'[r] = accepted[r]
      BY <1>0, <1>4, <2>2 DEF BusTakes, TypeOK
    <3>2. Holders(r) \subseteq Holders(r)'
      BY <1>0, <1>4, <2>1 DEF BusTakes, Goto, historyVars, TypeOK
    <3> QED
      BY <1>0, <2>1, <3>1, <3>2, CountedKept DEF historyVars
  <2>3. CASE r \in current[l]
    <3>1. accepted'[r] = accepted[r] + 1
      BY <1>0, <1>4, <2>3 DEF BusTakes, TypeOK
    <3>2. l \notin Holders(r)
      BY <1>4, <2>3 DEF BusTakes, OutboxInv, RecordedOnce
    <3>3. Holders(r) \cup {l} \subseteq Holders(r)'
      BY <1>0, <1>4, <2>1, <2>3 DEF BusTakes, Goto, historyVars, TypeOK
    <3>4. Cardinality(Holders(r) \cup {l}) = Cardinality(Holders(r)) + 1
      BY <1>a, <3>2, FS_AddElement
    <3>5. Cardinality(Holders(r) \cup {l}) <= Cardinality(Holders(r)')
      BY <1>a, <3>3, FS_Subset
    <3> QED
      BY <1>0, <1>a, <2>1, <3>1, <3>4, <3>5 DEF historyVars, TypeOK
  <2> QED
    BY <2>2, <2>3
\* The loop that owes r records it, and goes on standing for the acceptance.
<1>5. ASSUME NEW l \in Loops, MarkPublished(l)
      PROVE  (accepted[r] <= Cardinality(Holders(r)) + unrecorded[r])'
  <2>1. PICK q \in current[l] : recordedBy' = [recordedBy EXCEPT ![q] = @ \cup {l}]
    BY <1>5 DEF MarkPublished
  <2>2. \A p \in current[l] : p = q
    BY DEF OutboxInv, OneEntry
  <2>3. FinishRow(l) /\ UNCHANGED unrecorded
    BY <1>5 DEF MarkPublished
  <2>4. \A x \in Loops \ {l} : pc'[x] = pc[x] /\ UNCHANGED <<current[x], success[x]>>
    BY <1>0, <2>3 DEF FinishRow, NextRow, Goto, TypeOK
  <2>5. q \in Rows /\ l \in recordedBy'[q]
        /\ \A p \in Rows : recordedBy[p] \subseteq recordedBy'[p]
    BY <1>0, <2>1 DEF TypeOK
  <2>6. Holders(r) \subseteq Holders(r)'
    BY <2>2, <2>4, <2>5
  <2> QED
    BY <1>0, <2>3, <2>6, CountedKept DEF FinishRow, busVars
<1>6. ASSUME NEW l \in Loops, MarkFailed(l)
      PROVE  (accepted[r] <= Cardinality(Holders(r)) + unrecorded[r])'
  <2>1. ~success[l] /\ FinishRow(l) /\ UNCHANGED historyVars
    BY <1>6 DEF MarkFailed
  <2>2. Holders(r) \subseteq Holders(r)'
    BY <1>0, <2>1 DEF FinishRow, NextRow, Goto, historyVars, TypeOK
  <2> QED
    BY <1>0, <2>1, <2>2, CountedKept DEF FinishRow, busVars, historyVars
\* The outcome is lost: one holder less, one unrecorded acceptance more.
<1>7. ASSUME NEW l \in Loops, MarkFails(l)
      PROVE  (accepted[r] <= Cardinality(Holders(r)) + unrecorded[r])'
  <2>1. /\ FinishRow(l) /\ UNCHANGED <<recordedBy, accepted>>
        /\ unrecorded'[r] = unrecorded[r] + IF r \in Owed(l) THEN 1 ELSE 0
    BY <1>0, <1>7 DEF MarkFails, FinishRow, busVars, TypeOK
  <2>2. \A x \in Loops \ {l} : pc'[x] = pc[x] /\ UNCHANGED <<current[x], success[x]>>
    BY <1>0, <2>1 DEF FinishRow, NextRow, Goto, TypeOK
  <2>3. CASE r \notin Owed(l)
    <3>1. Holders(r) \subseteq Holders(r)'
      BY <2>1, <2>2, <2>3
    <3>2. unrecorded'[r] = unrecorded[r]
      BY <1>0, <2>1, <2>3 DEF TypeOK
    <3> QED
      BY <1>0, <2>1, <3>1, <3>2, CountedKept
  <2>4. CASE r \in Owed(l)
    <3>1. Holders(r) \subseteq Holders(r)' \cup {l}
      BY <2>1, <2>2
    <3>2. /\ IsFiniteSet(Holders(r)' \cup {l})
          /\ Cardinality(Holders(r)' \cup {l}) <= Cardinality(Holders(r)') + 1
          /\ Cardinality(Holders(r)' \cup {l}) \in Nat
      <4> HIDE DEF Holders
      <4>1. IsFiniteSet({l}) /\ Cardinality({l}) = 1
        BY FS_Singleton
      <4> QED
        BY <1>a, <4>1, CardinalityOfUnion
    <3>3. Cardinality(Holders(r)) <= Cardinality(Holders(r)' \cup {l})
      BY <3>1, <3>2, FS_Subset
    <3> QED
      BY <1>0, <1>a, <2>1, <2>4, <3>2, <3>3 DEF TypeOK
  <2> QED
    BY <2>3, <2>4
<1>8. ASSUME NEW w \in Workers, Crash(w)
      PROVE  (accepted[r] <= Cardinality(Holders(r)) + unrecorded[r])'
  <2> DEFINE mine == {l \in Loops : Owner[l] = w}
             owing == {l \in mine : r \in Owed(l)}
  <2>1. /\ unrecorded'[r] = unrecorded[r] + Cardinality(owing)
        /\ UNCHANGED <<recordedBy, accepted>>
    BY <1>8 DEF Crash, OwedBy, busVars
  <2>2. \A x \in Loops \ mine : UNCHANGED <<pc[x], current[x], success[x]>>
    BY <1>8 DEF Crash
  <2>3. Holders(r) \subseteq Holders(r)' \cup owing
    BY <2>1, <2>2
  <2>4. IsFiniteSet(owing) /\ Cardinality(owing) \in Nat
    <3>1. owing \in SUBSET Loops
      OBVIOUS
    <3> QED
      BY <3>1, OutboxAssumption, FS_Subset, FS_CardinalityType
  <2>5. /\ IsFiniteSet(Holders(r)' \cup owing)
        /\ Cardinality(Holders(r)' \cup owing) <= Cardinality(Holders(r)') + Cardinality(owing)
        /\ Cardinality(Holders(r)' \cup owing) \in Nat
    <3> HIDE DEF owing, Holders
    <3> QED
      BY <1>a, <2>4, CardinalityOfUnion
  <2>6. Cardinality(Holders(r)) <= Cardinality(Holders(r)' \cup owing)
    BY <2>3, <2>5, FS_Subset
  <2> HIDE DEF owing, Holders
  <2> QED
    BY <1>0, <1>a, <2>1, <2>4, <2>5, <2>6 DEF TypeOK
\* Every other action.
<1>9. ASSUME NEW x \in Rows, Persist(x) \/ EndTransaction(x) \/ Expire(x)
      PROVE  (accepted[r] <= Cardinality(Holders(r)) + unrecorded[r])'
  BY <1>1, <1>9 DEF Persist, EndTransaction, Expire
<1>10. ASSUME NEW w \in Workers, Stop(w)
       PROVE  (accepted[r] <= Cardinality(Holders(r)) + unrecorded[r])'
  BY <1>1, <1>10 DEF Stop
<1>11. CASE UNCHANGED vars
  BY <1>1, <1>11 DEF vars
<1> QED
  BY <1>3, <1>4, <1>5, <1>6, <1>7, <1>8, <1>9, <1>10, <1>11 DEF Next, LoopStep

\* The bus takes an event at most once per poll loop, plus once for every
\* acceptance that was never recorded, for any number of loops and entries.
THEOREM DuplicatesCorrect == Spec => []DuplicatesBounded
<1>1. Init => OutboxInv /\ Counted
  BY InitInv
<1>2. OutboxInv /\ Counted /\ [Next]_vars => OutboxInv' /\ Counted'
  BY StepInv, StepCounted
<1>3. OutboxInv /\ Counted => DuplicatesBounded
  <2> SUFFICES ASSUME OutboxInv, Counted, NEW r \in Rows
               PROVE  accepted[r] <= Cardinality(Loops) + unrecorded[r]
    BY DEF DuplicatesBounded
  <2>1. TypeOK /\ accepted[r] <= Cardinality(Holders(r)) + unrecorded[r]
    BY DEF OutboxInv, Counted
  <2>2. Cardinality(Loops) \in Nat
    BY OutboxAssumption, FS_CardinalityType
  <2> QED
    BY <2>1, <2>2, HoldersFinite DEF TypeOK
<1> QED
  BY <1>1, <1>2, <1>3, PTL DEF Spec

-----------------------------------------------------------------------------
\* The refinement of OutboxPromise.

PhaseMap == [r \in Rows |-> Phase(r)]
TakenMap == {r \in Rows : accepted[r] > 0}

\* A step that changes nothing the promise speaks of.
LEMMA PromiseStutters ==
  ASSUME UNCHANGED <<tx, status, deletedAt, accepted, refused>>
  PROVE  UNCHANGED Promise!promiseVars
BY DEF Promise!promiseVars, Phase

\* How the phase of an entry follows from its columns.
LEMMA PhaseOf ==
  ASSUME TypeOK, NEW r \in Rows
  PROVE  /\ tx[r] # "committed" <=> Phase(r) = "unwritten"
         /\ Visible(r) /\ status[r] = "PUBLISHED" => Phase(r) = "sent"
         /\ Visible(r) => Phase(r) \in {"waiting", "sent", "refused"}
BY DEF Phase, PhaseOfStatus, Visible, TypeOK, Status

LEMMA PromiseInit == Init => Promise!Init
BY DEF Init, Promise!Init, Phase

\* An entry appears when its transaction commits, PENDING.
LEMMA PromiseCommit ==
  ASSUME OutboxInv, NEW r \in Rows, Persist(r) \/ EndTransaction(r)
  PROVE  Promise!Next \/ UNCHANGED Promise!promiseVars
<1>1. /\ tx[r] # "committed"
      /\ \E t \in TxState : tx' = [tx EXCEPT ![r] = t]
      /\ UNCHANGED <<status, deletedAt, accepted, refused>>
  BY DEF Persist, EndTransaction, TxState, busVars
<1>2. \A q \in Rows \ {r} : Phase(q)' = Phase(q)
  BY <1>1 DEF Phase, OutboxInv, TypeOK
<1>3. Phase(r) = "unwritten" /\ Phase(r)' \in {"unwritten", "waiting"}
  BY <1>1 DEF Phase, PhaseOfStatus, OutboxInv, Unwritten, TypeOK
<1>4. CASE Phase(r)' = "unwritten"
  BY <1>1, <1>2, <1>3, <1>4 DEF Promise!promiseVars
<1>5. CASE Phase(r)' = "waiting"
  <2>1. PhaseMap' = [PhaseMap EXCEPT ![r] = "waiting"]
    BY <1>2, <1>5 DEF PhaseMap
  <2>2. Promise!Commit(r)
    BY <1>1, <1>3, <2>1 DEF Promise!Commit, PhaseMap
  <2> QED
    BY <2>2 DEF Promise!Next
<1> QED
  BY <1>3, <1>4, <1>5

LEMMA PromiseTake ==
  ASSUME OutboxInv, NEW l \in Loops, BusTakes(l)
  PROVE  Promise!Next \/ UNCHANGED Promise!promiseVars
<1>1. UNCHANGED <<tx, status, deletedAt, refused>>
  BY DEF BusTakes, tableVars
<1>2. PhaseMap' = PhaseMap
  BY <1>1 DEF PhaseMap, Phase
<1>3. CASE current[l] = {}
  <2>1. accepted' = accepted
    BY <1>3 DEF BusTakes, OutboxInv, TypeOK
  <2> QED
    BY <1>1, <2>1, PromiseStutters
<1>4. ASSUME NEW r \in current[l]
      PROVE  Promise!Next
  <2>1. r \in Rows /\ current[l] = {r} /\ Phase(r) # "unwritten"
    BY PhaseOf DEF OutboxInv, OneEntry, TypeOK
  <2>2. TakenMap' = TakenMap \cup {r}
    BY <2>1 DEF BusTakes, TakenMap, OutboxInv, TypeOK
  <2>3. Promise!Take(r)
    BY <1>1, <1>2, <2>1, <2>2 DEF Promise!Take, PhaseMap, TakenMap
  <2> QED
    BY <2>1, <2>3 DEF Promise!Next
<1> QED
  BY <1>3, <1>4

LEMMA PromiseRefuse ==
  ASSUME OutboxInv, NEW l \in Loops, BusRefuses(l)
  PROVE  Promise!Next \/ UNCHANGED Promise!promiseVars
<1>1. UNCHANGED <<tx, status, deletedAt, accepted>> /\ refused' = refused \cup current[l]
  BY DEF BusRefuses, tableVars
<1>2. PhaseMap' = PhaseMap /\ TakenMap' = TakenMap
  BY <1>1 DEF PhaseMap, Phase, TakenMap
<1>3. CASE current[l] = {}
  BY <1>1, <1>3, PromiseStutters
<1>4. ASSUME NEW r \in current[l]
      PROVE  Promise!Next
  <2>1. r \in Rows /\ current[l] = {r} /\ Phase(r) # "unwritten"
    BY PhaseOf DEF OutboxInv, OneEntry, TypeOK
  <2>2. Promise!Refuse(r)
    BY <1>1, <1>2, <2>1 DEF Promise!Refuse, PhaseMap, TakenMap
  <2> QED
    BY <2>1, <2>2 DEF Promise!Next
<1> QED
  BY <1>3, <1>4

\* The outcome that publishById writes is the bus's, and the entry is committed
\* and not archived when it is written.
LEMMA PromiseSettle ==
  ASSUME OutboxInv, NEW l \in Loops, MarkPublished(l) \/ MarkFailed(l)
  PROVE  Promise!Next
<1>1. PICK r \in current[l] :
        /\ r \notin deletedAt
        /\ status' = [status EXCEPT ![r] = IF success[l] THEN "PUBLISHED" ELSE "FAILED"]
  BY DEF MarkPublished, MarkFailed, CanUpdate
<1>2. /\ r \in Rows /\ tx[r] = "committed" /\ pc[l] = "mark"
      /\ IF success[l] THEN accepted[r] > 0 ELSE r \in refused
  BY DEF MarkPublished, MarkFailed, OutboxInv, OneEntry, SuccessIsTrue, TypeOK
<1>3. UNCHANGED <<tx, deletedAt, accepted, refused>>
  BY DEF MarkPublished, MarkFailed, FinishRow, busVars
<1>4. Phase(r) \in {"waiting", "sent", "refused"}
  BY <1>1, <1>2, PhaseOf DEF OutboxInv, Visible
<1>5. PhaseMap' = [PhaseMap EXCEPT ![r] = IF success[l] THEN "sent" ELSE "refused"]
  <2>1. \A q \in Rows \ {r} : Phase(q)' = Phase(q)
    BY <1>1, <1>3 DEF Phase, OutboxInv, TypeOK
  <2>2. Phase(r)' = IF success[l] THEN "sent" ELSE "refused"
    BY <1>1, <1>2, <1>3 DEF Phase, PhaseOfStatus, OutboxInv, TypeOK
  <2> QED
    BY <2>1, <2>2 DEF PhaseMap
<1>6. CASE success[l]
  <2>1. Promise!SettleSent(r)
    BY <1>2, <1>3, <1>4, <1>5, <1>6 DEF Promise!SettleSent, Promise!Live, PhaseMap, TakenMap
  <2> QED
    BY <1>2, <2>1 DEF Promise!Next
<1>7. CASE ~success[l]
  <2>1. Promise!SettleRefused(r)
    BY <1>2, <1>3, <1>4, <1>5, <1>7 DEF Promise!SettleRefused, Promise!Live, PhaseMap, TakenMap
  <2> QED
    BY <1>2, <2>1 DEF Promise!Next
<1> QED
  BY <1>6, <1>7

\* Only entries that are committed, PUBLISHED and not archived are archived.
LEMMA PromiseArchive ==
  ASSUME OutboxInv, NEW l \in Loops, EndPoll(l)
  PROVE  Promise!Next \/ UNCHANGED Promise!promiseVars
<1>1. UNCHANGED <<tx, status, expired, accepted, refused>>
  BY DEF EndPoll, busVars
<1>2. CASE deletedAt' = deletedAt
  BY <1>1, <1>2, PromiseStutters
<1>3. CASE ArchivePublished
  <2> DEFINE S == {r \in expired : Visible(r) /\ status[r] = "PUBLISHED"}
  <2>1. S \in SUBSET Rows /\ deletedAt' = deletedAt \cup S
    BY <1>3 DEF ArchivePublished, OutboxInv, TypeOK
  <2>2. \A r \in S : Phase(r) = "sent"
    BY <2>1, PhaseOf DEF OutboxInv
  <2>3. \A r \in Rows : Phase(r)' = IF r \in S THEN "archived" ELSE Phase(r)
    BY <1>1, <2>1 DEF Phase, Visible
  <2>4. PhaseMap' = [r \in Rows |-> IF r \in S THEN "archived" ELSE PhaseMap[r]]
    BY <2>3 DEF PhaseMap
  <2> HIDE DEF S
  <2>5. Promise!Archive(S)
    BY <1>1, <2>1, <2>2, <2>4 DEF Promise!Archive, PhaseMap, TakenMap
  <2> QED
    BY <2>1, <2>5 DEF Promise!Next
<1> QED
  BY <1>2, <1>3 DEF EndPoll

LEMMA PromiseStep ==
  OutboxInv /\ [Next]_vars => Promise!Next \/ UNCHANGED Promise!promiseVars
<1> SUFFICES ASSUME OutboxInv, [Next]_vars
             PROVE  Promise!Next \/ UNCHANGED Promise!promiseVars
  OBVIOUS
<1>1. ASSUME NEW l \in Loops, \/ Start(l) \/ FindPending(l) \/ FindPendingFails(l)
                              \/ ReadPending(l) \/ SkipRow(l) \/ MarkFails(l) \/ Wake(l)
      PROVE  UNCHANGED Promise!promiseVars
  <2>1. UNCHANGED <<tx, status, deletedAt, accepted, refused>>
    BY <1>1 DEF Start, FindPending, FindPendingFails, ReadPending, SkipRow, MarkFails,
       FinishRow, Wake, tableVars, busVars
  <2> QED
    BY <2>1, PromiseStutters
<1>2. ASSUME NEW w \in Workers, Stop(w) \/ Crash(w)
      PROVE  UNCHANGED Promise!promiseVars
  <2>1. UNCHANGED <<tx, status, deletedAt, accepted, refused>>
    BY <1>2 DEF Stop, Crash, tableVars, busVars
  <2> QED
    BY <2>1, PromiseStutters
<1>3. ASSUME NEW r \in Rows, Expire(r)
      PROVE  UNCHANGED Promise!promiseVars
  BY <1>3, PromiseStutters DEF Expire, busVars
<1>4. CASE UNCHANGED vars
  BY <1>4, PromiseStutters DEF vars, tableVars, busVars
<1> QED
  BY <1>1, <1>2, <1>3, <1>4, PromiseCommit, PromiseTake, PromiseRefuse, PromiseSettle,
     PromiseArchive DEF Next, LoopStep

\* The outbox implements its promise: whatever the pollers, their restarts and
\* the failed writes, an event is offered after its commit only, an entry is
\* settled by what the bus answered, and only a published entry is archived.
THEOREM Refinement == Spec => KeepsPromise
<1>1. Init => OutboxInv /\ Promise!Init
  BY InitInv, PromiseInit
<1>2. OutboxInv /\ [Next]_vars => OutboxInv' /\ [Promise!Next]_(Promise!promiseVars)
  BY StepInv, PromiseStep
<1> QED
  BY <1>1, <1>2, PTL DEF Spec, KeepsPromise, Promise!Spec
=============================================================================
