---------------------------- MODULE Engines_proofs ----------------------------
(***************************************************************************)
(* What overlapping calls of the engines cannot do, for any number of them *)
(* and any order of their steps: lose a recorded change of a relationship, *)
(* store what the user did not agree to, complete a job that has not       *)
(* reached its handlers, or leave Redis apart from the moments' map when   *)
(* no command is lost.                                                     *)
(***************************************************************************)
EXTENDS RelationshipEngine, ConversationConsent, BullmqDispatcher, MomentScheduler,
        CompanionLife, FiniteSetTheorems, WellFoundedInduction, TLAPS

-----------------------------------------------------------------------------
\* RelationshipEngine.  What a row holds and what a call adds to it are hundredths of a
\* point, so that rounding loses nothing and a score that is not in the patch has not
\* changed.

Tens == {10 * k : k \in Int}

LEMMA RoundsToTens == ASSUME NEW x \in Int PROVE RoundScore(x) \in Tens
<1>1. (x + 5) \div 10 \in Int
  OBVIOUS
<1> QED
  BY <1>1 DEF RoundScore, Tens

LEMMA TensAreRound == ASSUME NEW x \in Tens PROVE x \in Int /\ RoundScore(x) = x
<1>1. PICK k \in Int : x = 10 * k
  BY DEF Tens
<1>2. (10 * k + 5) \div 10 = k
  OBVIOUS
<1> QED
  BY <1>1, <1>2 DEF RoundScore

LEMMA TenTimes == ASSUME NEW k \in Int PROVE 10 * k \in Tens
BY DEF Tens

LEMMA TopType == Top \in Nat
BY DEF Top

LEMMA TopIsTens == Top = 10 * 10000
BY DEF Top

LEMMA ClampType ==
  ASSUME NEW x \in Int
  PROVE  /\ Clamp(x) \in {0, Top, x} /\ Clamp(x) \in 0 .. Top
         /\ x \in 0 .. Top => Clamp(x) = x
BY TopType DEF Clamp

LEMMA TensAdd == ASSUME NEW x \in Tens, NEW y \in Tens PROVE x + y \in Tens
<1>1. PICK j \in Int, k \in Int : x = 10 * j /\ y = 10 * k
  BY DEF Tens
<1> DEFINE n == j + k
<1>2. n \in Int /\ x + y = 10 * n
  BY <1>1
<1> HIDE DEF n
<1> QED
  BY <1>2, TenTimes

LEMMA ClampedTens ==
  ASSUME NEW x \in Tens, NEW y \in Tens
  PROVE  Clamp(x + y) \in Tens /\ Clamp(x + y) \in 0 .. Top
<1>1. x + y \in Tens /\ x + y \in Int
  BY TensAdd, TensAreRound
<1>2. 10 * 0 \in Tens /\ 10 * 10000 \in Tens
  BY TenTimes
<1>3. 0 \in Tens /\ Top \in Tens
  BY <1>2, TopIsTens
<1> QED
  BY <1>1, <1>3, ClampType

LEMMA ScoresAreDimensions == Scores \subseteq Dimensions
BY DEF Scores, Dimensions, RULES

LEMMA RulesType ==
  ASSUME NEW d \in Dimensions
  PROVE  RULES[d][1] \in [1..10 -> Int] /\ RULES[d][2] \in [1..5 -> Int]
BY DEF Dimensions, RULES

LEMMA ImpactType ==
  ASSUME NEW h \in Happenings
  PROVE  Impact(h) \in [Dimensions -> Int] /\ \A d \in Dimensions : Impact(h)[d] \in Tens
<1>1. Place(EventTypes, h[1]) \in 1..10
  <2>1. \E i \in DOMAIN EventTypes : EventTypes[i] = h[1]
    BY RelationshipAssumption
  <2>2. Place(EventTypes, h[1]) \in DOMAIN EventTypes
    BY <2>1 DEF Place
  <2> QED
    BY <2>2 DEF EventTypes
<1>2. Place(Qualities, h[2]) \in 1..5
  <2>1. \E i \in DOMAIN Qualities : Qualities[i] = h[2]
    BY RelationshipAssumption
  <2>2. Place(Qualities, h[2]) \in DOMAIN Qualities
    BY <2>1 DEF Place
  <2> QED
    BY <2>2 DEF Qualities
<1>3. ASSUME NEW d \in Dimensions
      PROVE  Impact(h)[d] \in Tens /\ Impact(h)[d] \in Int
  <2> DEFINE base == RULES[d][1][Place(EventTypes, h[1])]
             multiplier == RULES[d][2][Place(Qualities, h[2])]
             tenths == (base * multiplier + 5) \div 10
  <2>1. base \in Int /\ multiplier \in Int
    BY <1>1, <1>2, <1>3, RulesType
  <2>2. Impact(h)[d] = 100 * tenths
    BY <1>3 DEF Impact
  <2> HIDE DEF base, multiplier
  <2>3. base * multiplier + 5 \in Int
    BY <2>1
  <2>4. tenths \in Int
    BY <2>3
  <2> HIDE DEF tenths
  <2>5. Impact(h)[d] = 10 * (10 * tenths) /\ 10 * tenths \in Int
    BY <2>2, <2>4
  <2> QED
    BY <2>5 DEF Tens
<1>4. Impact(h) = [d \in Dimensions |-> Impact(h)[d]]
  BY DEF Impact
<1> QED
  BY <1>3, <1>4

\* The dimensions of a row are whole numbers, and three of them are its scores.
LEMMA HydrateType ==
  ASSUME NEW r \in Row
  PROVE  /\ Hydrate(r) \in [Dimensions -> Int]
         /\ \A s \in Scores : Hydrate(r)[s] = r.score[s]
<1>1. \A s \in Scores : r.score[s] \in Int
  BY TopType DEF Row
<1>2. \A x \in Int : Clamp(x) \in Int
  BY ClampType, TopType
<1>3. /\ "TRUST" \in Scores /\ "EMOTIONAL_DEPTH" \in Scores /\ "FAMILIARITY" \in Scores
      /\ r.interactions \in Nat
  BY DEF Scores, Row
<1>4. \A x \in Int : x \div 2 \in Int /\ x \div 10 \in Int
  OBVIOUS
<1>5. DOMAIN Hydrate(r) = Dimensions
  BY DEF Hydrate, Dimensions, RULES
<1>6. \A s \in Scores : Hydrate(r)[s] = r.score[s]
  BY DEF Hydrate, Scores
<1>7. Hydrate(r) = [d \in Dimensions |-> Hydrate(r)[d]]
  BY <1>5 DEF Hydrate
<1>8. \A d \in Dimensions : Hydrate(r)[d] \in Int
  BY <1>1, <1>2, <1>3, <1>4 DEF Hydrate, Dimensions, RULES
<1> QED
  BY <1>6, <1>7, <1>8

LEMMA AppliedScores ==
  ASSUME NEW r \in Row, NEW impact \in [Dimensions -> Int], NEW s \in Scores,
         r.score[s] \in Tens, impact[s] \in Tens
  PROVE  LET after == ApplyEvent(Hydrate(r), impact) IN
         /\ after[s] = Clamp(r.score[s] + impact[s])
         /\ after[s] \in Tens /\ after[s] \in 0 .. Top /\ RoundScore(after[s]) = after[s]
         /\ s \in Changed(Hydrate(r), after) <=> after[s] # r.score[s]
<1> DEFINE after == ApplyEvent(Hydrate(r), impact)
<1>1. s \in Dimensions
  BY ScoresAreDimensions
<1>2. Hydrate(r)[s] = r.score[s]
  BY HydrateType
<1>3. after[s] = Clamp(r.score[s] + impact[s])
  BY <1>1, <1>2 DEF ApplyEvent
<1>4. after[s] \in Tens /\ after[s] \in 0 .. Top
  BY <1>3, ClampedTens
<1>5. RoundScore(after[s]) = after[s] /\ RoundScore(r.score[s]) = r.score[s]
  BY <1>4, TensAreRound
<1>6. s \in Changed(Hydrate(r), after) <=> after[s] # r.score[s]
  BY <1>1, <1>2, <1>5 DEF Changed
<1> QED
  BY <1>3, <1>4, <1>5, <1>6

LEMMA GrowthType ==
  ASSUME NEW r \in Row, NEW T, \A s \in Scores : r.score[s] \in Tens
  PROVE  /\ Growth(T, Hydrate(r)) \in [Dimensions -> Int]
         /\ \A s \in Scores : Growth(T, Hydrate(r))[s] \in Tens
<1>1. Hydrate(r) \in [Dimensions -> Int]
  BY HydrateType
<1>2. Growth(T, Hydrate(r)) \in [Dimensions -> Int]
  BY <1>1, TopType DEF Growth
<1>3. ASSUME NEW s \in Scores
      PROVE  Growth(T, Hydrate(r))[s] \in Tens
  <2>1. PICK k \in Int : r.score[s] = 10 * k
    BY DEF Tens
  <2> DEFINE n == 10000 - k
  <2>2. n \in Int /\ Top - r.score[s] = 10 * n
    BY <2>1, TopIsTens
  <2> HIDE DEF n
  <2>3. 10 * 0 \in Tens /\ 10 * 500 \in Tens /\ 10 * n \in Tens
    BY <2>2, TenTimes
  <2>4. 0 \in Tens /\ 5000 \in Tens /\ Top - r.score[s] \in Tens
    BY <2>2, <2>3
  <2>5. Growth(T, Hydrate(r))[s] \in {0, 5000, Top - r.score[s]}
    <3>1. s \in Dimensions /\ Hydrate(r)[s] = r.score[s]
      BY ScoresAreDimensions, HydrateType
    <3> QED
      BY <3>1 DEF Growth
  <2> QED
    BY <2>4, <2>5
<1> QED
  BY <1>2, <1>3

-----------------------------------------------------------------------------
ExactRow == \A s \in Scores : row.score[s] \in Tens

ExactCalls ==
  \A c \in Callers : \A s \in Scores :
    /\ caller[c].impact[s] \in Tens
    /\ \A r \in caller[c].read : r.score[s] \in Tens

RelationshipInv == RelationshipTypeOK /\ ScoresAreTheLedger /\ ExactRow /\ ExactCalls

LEMMA NoImpactType ==
  NoImpact \in [Dimensions -> Int] /\ \A s \in Scores : NoImpact[s] = 0 /\ NoImpact[s] \in Tens
<1>1. 0 = 10 * 0 /\ 0 \in Int
  OBVIOUS
<1>2. 0 \in Tens
  BY <1>1 DEF Tens
<1> QED
  BY <1>2, ScoresAreDimensions DEF NoImpact

LEMMA IdleType ==
  ASSUME NEW pc \in CallerState
  PROVE  LET idle == [Idle EXCEPT !.pc = pc] IN
         idle \in Caller /\ idle.pc = pc /\ idle.read = {} /\ idle.impact = NoImpact
BY NoImpactType DEF Idle, Caller, CallerState

LEMMA RelationshipInitInv == RelationshipInit => RelationshipInv
<1> SUFFICES ASSUME RelationshipInit PROVE RelationshipInv
  OBVIOUS
<1>1. row \in Row /\ \A s \in Scores : /\ row.score[s] \in Int
                                     /\ RoundScore(row.score[s]) = row.score[s]
  BY RelationshipAssumption, TopType DEF RelationshipInit, Row
<1>2. ExactRow
  BY <1>1, RoundsToTens DEF ExactRow
<1>3. Idle \in Caller /\ Idle.pc = "new" /\ Idle.read = {} /\ Idle.impact = NoImpact
  BY NoImpactType DEF Idle, Caller, CallerState
<1>4. RelationshipTypeOK
  BY <1>1, <1>3 DEF RelationshipInit, RelationshipTypeOK, Row
<1>5. ScoresAreTheLedger
  BY DEF RelationshipInit, ScoresAreTheLedger
<1>6. ExactCalls
  BY <1>3, NoImpactType DEF RelationshipInit, ExactCalls
<1> QED
  BY <1>2, <1>4, <1>5, <1>6 DEF RelationshipInv

\* Of a step that touches one call, what is to be shown of that call.
CallOK(it) ==
  /\ it \in Caller
  /\ it.read # {} <=> it.pc \in {"apply", "grow"}
  /\ \A s \in Scores : /\ it.impact[s] \in Tens
                      /\ \A r \in it.read : r.score[s] \in Tens

LEMMA CallerUpdate ==
  ASSUME RelationshipInv, NEW c \in Callers, NEW it, CallOK(it),
         caller' = [caller EXCEPT ![c] = it]
  PROVE  /\ caller' \in [Callers -> Caller]
         /\ \A x \in Callers : caller'[x].read # {} <=> caller'[x].pc \in {"apply", "grow"}
         /\ ExactCalls'
<1>1. caller'[c] = it /\ \A x \in Callers : x # c => caller'[x] = caller[x]
  BY DEF RelationshipInv, RelationshipTypeOK
<1>2. caller' \in [Callers -> Caller]
  BY DEF RelationshipInv, RelationshipTypeOK, CallOK
<1> QED
  BY <1>1, <1>2 DEF RelationshipInv, RelationshipTypeOK, ExactCalls, CallOK

LEMMA ReadInv ==
  ASSUME RelationshipInv, NEW c \in Callers, ReadForEvent(c) \/ ReadForEvolution(c)
  PROVE  RelationshipInv'
<1>1. PICK pc \in {"apply", "grow"}, impact \in [Dimensions -> Int] :
        /\ \A s \in Scores : impact[s] \in Tens
        /\ caller' = [caller EXCEPT ![c].pc = pc, ![c].read = {row}, ![c].impact = impact]
  <2>1. CASE ReadForEvent(c)
    <3>1. PICK h \in Happenings :
            caller' = [caller EXCEPT ![c].pc = "apply", ![c].read = {row},
                                     ![c].impact = Impact(h)]
      BY <2>1 DEF ReadForEvent
    <3> QED
      BY <3>1, ImpactType, ScoresAreDimensions
  <2>2. CASE ReadForEvolution(c)
    <3>1. PICK T \in Weakest(Hydrate(row)) :
            caller' = [caller EXCEPT ![c].pc = "grow", ![c].read = {row},
                                     ![c].impact = Growth(T, Hydrate(row))]
      BY <2>2 DEF ReadForEvolution
    <3> QED
      BY <3>1, GrowthType DEF RelationshipInv, RelationshipTypeOK, ExactRow
  <2> QED
    BY <2>1, <2>2
<1> DEFINE it == [caller[c] EXCEPT !.pc = pc, !.read = {row}, !.impact = impact]
<1>2. caller' = [caller EXCEPT ![c] = it]
  BY <1>1
<1>3. UNCHANGED <<row, lifecycle, ledger, raced>>
  BY DEF ReadForEvent, ReadForEvolution
<1>4. caller[c] \in Caller /\ row \in Row
  BY DEF RelationshipInv, RelationshipTypeOK
<1>5. it.pc = pc /\ it.read = {row} /\ it.impact = impact
  BY <1>4 DEF Caller
<1>6. it \in Caller
  <2> DEFINE one == [caller[c] EXCEPT !.pc = pc]
             two == [one EXCEPT !.read = {row}]
  <2>1. one \in Caller
    BY <1>4 DEF Caller, CallerState
  <2> HIDE DEF one
  <2>2. two \in Caller
    BY <1>4, <2>1 DEF Caller
  <2>3. it = [two EXCEPT !.impact = impact]
    BY DEF one
  <2> HIDE DEF two
  <2> QED
    BY <2>2, <2>3 DEF Caller
<1> HIDE DEF it
<1>7. CallOK(it)
  BY <1>1, <1>5, <1>6 DEF CallOK, RelationshipInv, ExactRow
<1>8. RelationshipTypeOK' /\ ExactCalls'
  BY <1>2, <1>3, <1>7, CallerUpdate DEF RelationshipInv, RelationshipTypeOK
<1>9. ScoresAreTheLedger' /\ ExactRow'
  BY <1>3 DEF RelationshipInv, ScoresAreTheLedger, ExactRow
<1> QED
  BY <1>8, <1>9 DEF RelationshipInv

LEMMA ReleasedCall ==
  ASSUME RelationshipInv, NEW c \in Callers, NEW pc \in {"bump", "done", "failed"},
         Releases(c, pc)
  PROVE  /\ caller' \in [Callers -> Caller]
         /\ \A x \in Callers : caller'[x].read # {} <=> caller'[x].pc \in {"apply", "grow"}
         /\ ExactCalls'
<1> DEFINE it == [Idle EXCEPT !.pc = pc]
<1>1. it \in Caller /\ it.pc = pc /\ it.read = {} /\ it.impact = NoImpact
  BY IdleType DEF CallerState
<1>2. caller' = [caller EXCEPT ![c] = it]
  BY DEF Releases
<1> HIDE DEF it
<1>3. CallOK(it)
  BY <1>1, NoImpactType DEF CallOK
<1> QED
  BY <1>2, <1>3, CallerUpdate

LEMMA FailsInv ==
  ASSUME RelationshipInv, NEW c \in Callers, Fails(c)
  PROVE  RelationshipInv'
<1>1. UNCHANGED <<row, lifecycle, ledger, raced>> /\ Releases(c, "failed")
  BY DEF Fails
<1> QED
  BY <1>1, ReleasedCall
     DEF RelationshipInv, RelationshipTypeOK, ScoresAreTheLedger, ExactRow

\* A score that is in the patch was changed by the call, and by nobody else since it read
\* the row, unless it is counted as raced; one that is not is as it was.
LEMMA PersistInv ==
  ASSUME RelationshipInv, NEW c \in Callers, Persist(c)
  PROVE  RelationshipInv'
<1> DEFINE impact == caller[c].impact
           held == Read(c)
           after == Applied(c)
           patch == ProjectSnapshotToUpdate(held, after)
           score == [s \in Scores |-> IF s \in DOMAIN patch.score
                                       THEN patch.score[s] ELSE row.score[s]]
<1>1. /\ row' = [row EXCEPT !.score = score, !.status = row.status]
      /\ ledger' = [s \in Scores |-> Clamp(ledger[s] + impact[s])]
      /\ raced' = raced \cup {s \in {x \in Scores : impact[x] # 0} :
                                held.score[s] # row.score[s]}
      /\ lifecycle' = lifecycle
  BY DEF Persist, ProjectSnapshotToUpdate
<1>2. /\ row \in Row /\ caller[c] \in Caller /\ caller[c].read # {}
      /\ ledger \in [Scores -> 0 .. Top]
  BY DEF RelationshipInv, RelationshipTypeOK, Persist
<1>3. held \in caller[c].read /\ held \in Row /\ impact \in [Dimensions -> Int]
  BY <1>2 DEF Read, Caller
<1>4. \A s \in Scores : held.score[s] \in Tens /\ impact[s] \in Tens /\ row.score[s] \in Tens
  BY <1>3 DEF RelationshipInv, ExactCalls, ExactRow
<1>5. \A s \in Scores :
        /\ after[s] = Clamp(held.score[s] + impact[s])
        /\ after[s] \in Tens /\ after[s] \in 0 .. Top /\ RoundScore(after[s]) = after[s]
        /\ s \in Changed(Hydrate(held), after) <=> after[s] # held.score[s]
  BY <1>3, <1>4, AppliedScores DEF Applied
<1>6. \A s \in Scores : score[s] = IF after[s] # held.score[s] THEN after[s] ELSE row.score[s]
  BY <1>5 DEF ProjectSnapshotToUpdate
<1> HIDE DEF after, held, impact, patch
<1>7. \A s \in Scores : row.score[s] \in 0 .. Top /\ held.score[s] \in 0 .. Top
  BY <1>2, <1>3 DEF Row
<1>8. score \in [Scores -> 0 .. Top] /\ \A s \in Scores : score[s] \in Tens
  BY <1>4, <1>5, <1>6, <1>7
<1> HIDE DEF score
<1>9. /\ row'.score = score /\ row'.status = row.status /\ row' \in Row
  BY <1>1, <1>2, <1>8 DEF Row
<1>10. ExactRow'
  BY <1>8, <1>9 DEF ExactRow
<1>11. ASSUME NEW s \in Scores, s \notin raced'
       PROVE  row'.score[s] = ledger'[s]
  <2>1. ledger'[s] = Clamp(ledger[s] + impact[s]) /\ ledger[s] = row.score[s]
    BY <1>1, <1>11 DEF RelationshipInv, ScoresAreTheLedger
  <2>2. /\ row.score[s] + 0 = row.score[s] /\ held.score[s] + 0 = held.score[s]
        /\ Clamp(row.score[s]) = row.score[s] /\ Clamp(held.score[s]) = held.score[s]
    BY <1>7, ClampType, TopType
  <2>3. CASE impact[s] = 0
    BY <1>5, <1>6, <1>9, <2>1, <2>2, <2>3
  <2>4. CASE impact[s] # 0
    <3>1. held.score[s] = row.score[s]
      BY <1>1, <1>11, <2>4
    <3> QED
      BY <1>5, <1>6, <1>9, <2>1, <3>1
  <2> QED
    BY <2>3, <2>4
<1>12. ScoresAreTheLedger'
  BY <1>1, <1>9, <1>11 DEF RelationshipInv, ScoresAreTheLedger
<1>13. ledger' \in [Scores -> 0 .. Top] /\ raced' \subseteq Scores
  <2>1. \A s \in Scores : ledger[s] + impact[s] \in Int
    BY <1>2, <1>4, TensAreRound, TopType
  <2>2. \A x \in Int : Clamp(x) \in 0 .. Top
    BY ClampType
  <2> QED
    BY <1>1, <2>1, <2>2 DEF RelationshipInv, RelationshipTypeOK
<1>14. PICK pc \in {"bump", "done", "failed"} : Releases(c, pc)
  BY DEF Persist
<1> QED
  BY <1>1, <1>9, <1>10, <1>12, <1>13, <1>14, ReleasedCall
     DEF RelationshipInv, RelationshipTypeOK

LEMMA UpdateLastInteractionInv ==
  ASSUME RelationshipInv, NEW c \in Callers, UpdateLastInteraction(c)
  PROVE  RelationshipInv'
<1>1. /\ UNCHANGED <<lifecycle, ledger, raced>> /\ Releases(c, "done")
      /\ row' = [row EXCEPT !.interactions = row.interactions + 1] \/ row' = row
  BY DEF UpdateLastInteraction
<1>2. row \in Row
  BY DEF RelationshipInv, RelationshipTypeOK
<1>3. row' \in Row /\ row'.score = row.score /\ row'.status = row.status
  BY <1>1, <1>2 DEF Row
<1> QED
  BY <1>1, <1>3, ReleasedCall
     DEF RelationshipInv, RelationshipTypeOK, ScoresAreTheLedger, ExactRow

LEMMA SetStatusInv == RelationshipInv /\ SetStatus => RelationshipInv'
<1> SUFFICES ASSUME RelationshipInv, SetStatus PROVE RelationshipInv'
  OBVIOUS
<1>1. PICK status \in RelationshipStatus :
        row' = [row EXCEPT !.status = status] /\ lifecycle' = status
  BY DEF SetStatus
<1>2. row \in Row /\ UNCHANGED <<caller, ledger, raced>>
  BY DEF RelationshipInv, RelationshipTypeOK, SetStatus
<1>3. row' \in Row /\ row'.score = row.score /\ row'.status = status
  BY <1>1, <1>2 DEF Row
<1> QED
  BY <1>1, <1>2, <1>3
     DEF RelationshipInv, RelationshipTypeOK, ScoresAreTheLedger, ExactRow, ExactCalls

LEMMA RelationshipStepInv ==
  RelationshipInv /\ [RelationshipNext]_relationshipVars => RelationshipInv'
<1> SUFFICES ASSUME RelationshipInv, [RelationshipNext]_relationshipVars
             PROVE  RelationshipInv'
  OBVIOUS
<1>1. CASE UNCHANGED relationshipVars
  BY <1>1 DEF relationshipVars, RelationshipInv, RelationshipTypeOK, ScoresAreTheLedger,
              ExactRow, ExactCalls
<1> QED
  BY <1>1, ReadInv, FailsInv, PersistInv, UpdateLastInteractionInv, SetStatusInv
     DEF RelationshipNext

\* For any number of calls that overlap in any way, whatever they record: a score that no
\* call has changed from an outdated read is the sum of all that was recorded, and the
\* status is what the last lifecycle call has set (recordEvent, evolveRelationship and
\* projectSnapshotToUpdate of relationship.engine.ts).
THEOREM ScoresCorrect == RelationshipSpec => []ScoresAreTheLedger
<1>1. RelationshipInv => ScoresAreTheLedger
  BY DEF RelationshipInv
<1> QED
  BY <1>1, RelationshipInitInv, RelationshipStepInv, PTL DEF RelationshipSpec

LEMMA RelationshipTypes == RelationshipSpec => []RelationshipTypeOK
<1>1. RelationshipInv => RelationshipTypeOK
  BY DEF RelationshipInv
<1> QED
  BY <1>1, RelationshipInitInv, RelationshipStepInv, PTL DEF RelationshipSpec

-----------------------------------------------------------------------------
\* ConversationConsent.  A candidate is stored only by the yes that settles its question.

\* The history and the turns have their shapes.
ConsentShaped ==
  /\ pending \subseteq Turns
  /\ turn \in [Turns -> Turn]
  /\ saved \subseteq Turns \X Turns
  /\ next \in [Turns -> SUBSET Turns]

\* A turn that has asked is over, and nobody settles a question not yet asked.
AskedOnce ==
  \A q \in Turns : /\ turn[q].asks => turn[q].pc = "replied"
                   /\ ~turn[q].asks => next[q] = {}

\* The pending question has been asked and not been settled.
PendingIsOpen == \A q \in pending : turn[q].asks /\ next[q] = {}

\* A turn holds only what its own yes has settled.
HeldIsSettled ==
  \A t \in Turns : \A q \in turn[t].holds :
    turn[q].asks /\ turn[t].yes /\ next[q] = {t}

SavedWasSettled ==
  \A q, t \in Turns : <<q, t>> \in saved => turn[q].asks /\ turn[t].yes /\ next[q] = {t}

ConsentInv == ConsentShaped /\ AskedOnce /\ PendingIsOpen /\ HeldIsSettled /\ SavedWasSettled

-----------------------------------------------------------------------------
\* It holds before the first turn.
LEMMA ConsentInitInv == ConsentInit => ConsentInv
<1> SUFFICES ASSUME ConsentInit PROVE ConsentInv
  OBVIOUS
<1>1. \A t \in Turns : turn[t] \in Turn /\ turn[t].asks = FALSE /\ turn[t].holds = {}
  <2>1. PICK yes \in [Turns -> BOOLEAN], flagged \in [Turns -> BOOLEAN] :
          turn = [t \in Turns |-> [pc |-> "unsent", yes |-> yes[t], flagged |-> flagged[t],
                                   holds |-> {}, asks |-> FALSE]]
    BY DEF ConsentInit
  <2> QED
    BY <2>1 DEF Turn, TurnState
<1>2. ConsentShaped
  BY <1>1 DEF ConsentInit, ConsentShaped
<1> QED
  BY <1>1, <1>2 DEF ConsentInit, ConsentInv, AskedOnce, PendingIsOpen, HeldIsSettled, SavedWasSettled

\* A step that only moves a turn's pc, not away from its reply, disturbs nothing.
LEMMA ProceedsInv ==
  ASSUME ConsentInv, NEW t \in Turns, NEW state \in TurnState, Proceeds(t, state),
         turn[t].pc # "replied", UNCHANGED <<pending, saved, next>>
  PROVE  ConsentInv'
<1>1. turn \in [Turns -> Turn]
  BY DEF ConsentInv, ConsentShaped
<1>2. \A x \in Turns : /\ turn'[x] \in Turn
                       /\ turn'[x].asks = turn[x].asks /\ turn'[x].yes = turn[x].yes
                       /\ turn'[x].holds = turn[x].holds
                       /\ x # t => turn'[x].pc = turn[x].pc
  BY <1>1 DEF Proceeds, Turn
<1>3. turn' \in [Turns -> Turn]
  BY <1>1, <1>2 DEF Proceeds
<1>4. ConsentShaped'
  BY <1>3 DEF ConsentInv, ConsentShaped
<1>5. AskedOnce'
  BY <1>2 DEF ConsentInv, AskedOnce
<1>6. PendingIsOpen' /\ HeldIsSettled' /\ SavedWasSettled'
  BY <1>1, <1>2 DEF ConsentInv, ConsentShaped, Turn, PendingIsOpen, HeldIsSettled, SavedWasSettled
<1> QED
  BY <1>4, <1>5, <1>6 DEF ConsentInv

\* Settling: what was pending is closed by this turn, and by no other.
LEMMA ResolveInv ==
  ASSUME ConsentInv, NEW t \in Turns, ResolvePendingConsent(t)
  PROVE  ConsentInv'
<1>1. turn \in [Turns -> Turn] /\ pending \subseteq Turns
  BY DEF ConsentInv, ConsentShaped
<1>2. /\ turn[t].pc = "sent" /\ pending' = {} /\ saved' = saved
      /\ next' = [q \in Turns |-> IF turn[q].asks /\ next[q] = {} THEN {t} ELSE next[q]]
  BY DEF ResolvePendingConsent, Settled
<1>3. \A x \in Turns : /\ turn'[x] \in Turn
                       /\ turn'[x].asks = turn[x].asks /\ turn'[x].yes = turn[x].yes
                       /\ x # t => turn'[x] = turn[x]
  <2>1. turn[t] \in Turn
    BY <1>1
  <2>2. turn'[t] = [turn[t] EXCEPT
          !.pc = IF turn[t].yes /\ pending # {} THEN "persisting" ELSE "completing",
          !.holds = IF turn[t].yes THEN pending ELSE {}]
    BY <1>1 DEF ResolvePendingConsent
  <2>3. turn'[t] \in Turn /\ turn'[t].asks = turn[t].asks /\ turn'[t].yes = turn[t].yes
    BY <1>1, <2>1, <2>2 DEF Turn, TurnState
  <2>4. \A x \in Turns : x # t => turn'[x] = turn[x]
    BY <1>1 DEF ResolvePendingConsent
  <2> QED
    BY <1>1, <2>3, <2>4
<1>4. turn'[t].holds = IF turn[t].yes THEN pending ELSE {}
  BY <1>1 DEF ResolvePendingConsent, Turn
<1>5. ~turn[t].asks
  BY <1>2 DEF ConsentInv, AskedOnce
<1>6. \A q \in pending : turn[q].asks /\ next'[q] = {t}
  BY <1>1, <1>2 DEF ConsentInv, PendingIsOpen
<1>7. \A q, x \in Turns : next[q] = {x} => next'[q] = {x}
  BY <1>2
<1>8. ConsentShaped'
  <2>1. turn' \in [Turns -> Turn]
    BY <1>1, <1>3 DEF ResolvePendingConsent
  <2>2. next' \in [Turns -> SUBSET Turns]
    BY <1>2 DEF ConsentInv, ConsentShaped
  <2> QED
    BY <1>2, <2>1, <2>2 DEF ConsentInv, ConsentShaped
<1>9. AskedOnce'
  BY <1>2, <1>3, <1>5 DEF ConsentInv, AskedOnce
<1>10. PendingIsOpen'
  BY <1>2 DEF PendingIsOpen
<1>11. HeldIsSettled'
  <2> SUFFICES ASSUME NEW x \in Turns, NEW q \in turn'[x].holds
               PROVE  turn'[q].asks /\ turn'[x].yes /\ next'[q] = {x}
    BY DEF HeldIsSettled
  <2>1. CASE x = t
    BY <1>1, <1>3, <1>4, <1>6, <2>1
  <2>2. CASE x # t
    <3>1. q \in turn[x].holds /\ q \in Turns
      BY <1>1, <1>3, <2>2 DEF Turn
    <3>2. turn[q].asks /\ turn[x].yes /\ next[q] = {x}
      BY <3>1 DEF ConsentInv, HeldIsSettled
    <3> QED
      BY <1>3, <1>7, <3>1, <3>2
  <2> QED
    BY <2>1, <2>2
<1>12. SavedWasSettled'
  BY <1>2, <1>3, <1>7 DEF ConsentInv, SavedWasSettled
<1> QED
  BY <1>8, <1>9, <1>10, <1>11, <1>12 DEF ConsentInv

\* Storing moves what a turn holds to what is saved, or drops it.
LEMMA PersistCandidateInv ==
  ASSUME ConsentInv, NEW t \in Turns, PersistMemoryCandidate(t)
  PROVE  ConsentInv'
<1>1. turn \in [Turns -> Turn] /\ turn[t].holds \subseteq Turns
  BY DEF ConsentInv, ConsentShaped, Turn
<1>2. /\ turn[t].pc = "persisting" /\ pending' = pending /\ next' = next
      /\ saved' = saved \/ saved' = saved \cup {<<q, t>> : q \in turn[t].holds}
  BY DEF PersistMemoryCandidate
<1>3. \A x \in Turns : /\ turn'[x] \in Turn
                       /\ turn'[x].asks = turn[x].asks /\ turn'[x].yes = turn[x].yes
                       /\ turn'[x].holds \subseteq turn[x].holds
                       /\ x # t => turn'[x].pc = turn[x].pc
  BY <1>1 DEF PersistMemoryCandidate, Turn, TurnState
<1>4. ConsentShaped'
  <2>1. turn' \in [Turns -> Turn]
    BY <1>1, <1>3 DEF PersistMemoryCandidate
  <2> QED
    BY <1>1, <1>2, <2>1 DEF ConsentInv, ConsentShaped
<1>5. AskedOnce'
  BY <1>2, <1>3 DEF ConsentInv, AskedOnce
<1>6. PendingIsOpen' /\ HeldIsSettled'
  BY <1>1, <1>2, <1>3 DEF ConsentInv, ConsentShaped, Turn, PendingIsOpen, HeldIsSettled
<1>7. SavedWasSettled'
  <2> SUFFICES ASSUME NEW q \in Turns, NEW x \in Turns, <<q, x>> \in saved'
               PROVE  turn'[q].asks /\ turn'[x].yes /\ next'[q] = {x}
    BY DEF SavedWasSettled
  <2>1. <<q, x>> \in saved \/ (x = t /\ q \in turn[t].holds)
    BY <1>2
  <2>2. turn[q].asks /\ turn[x].yes /\ next[q] = {x}
    BY <2>1 DEF ConsentInv, SavedWasSettled, HeldIsSettled
  <2> QED
    BY <1>2, <1>3, <2>2
<1> QED
  BY <1>4, <1>5, <1>6, <1>7 DEF ConsentInv

\* A reply opens a new question, which nobody can have settled yet.
LEMMA ReplyInv ==
  ASSUME ConsentInv, NEW t \in Turns, Reply(t)
  PROVE  ConsentInv'
<1>1. turn \in [Turns -> Turn]
  BY DEF ConsentInv, ConsentShaped
<1>2. /\ turn[t].pc = "completing" /\ saved' = saved /\ next' = next
      /\ pending' = IF turn[t].flagged THEN {t} ELSE pending
  BY DEF Reply
<1>3. \A x \in Turns : /\ turn'[x] \in Turn
                       /\ turn'[x].yes = turn[x].yes /\ turn'[x].holds = turn[x].holds
                       /\ x # t => turn'[x] = turn[x]
  BY <1>1 DEF Reply, Turn, TurnState
<1>4. turn'[t].pc = "replied" /\ turn'[t].asks = turn[t].flagged
  BY <1>1 DEF Reply, Turn
<1>5. ~turn[t].asks /\ next[t] = {}
  BY <1>2 DEF ConsentInv, AskedOnce
<1>6. \A x \in Turns : turn[x].asks => turn'[x].asks
  BY <1>3, <1>5
<1>7. ConsentShaped'
  <2>1. turn' \in [Turns -> Turn]
    BY <1>1, <1>3 DEF Reply
  <2> QED
    BY <1>2, <2>1 DEF ConsentInv, ConsentShaped
<1>8. AskedOnce'
  BY <1>2, <1>3, <1>4, <1>5 DEF ConsentInv, AskedOnce
<1>9. PendingIsOpen'
  BY <1>2, <1>4, <1>5, <1>6 DEF ConsentInv, ConsentShaped, PendingIsOpen
<1>10. HeldIsSettled' /\ SavedWasSettled'
  BY <1>1, <1>2, <1>3, <1>6 DEF ConsentInv, ConsentShaped, Turn, HeldIsSettled, SavedWasSettled
<1> QED
  BY <1>7, <1>8, <1>9, <1>10 DEF ConsentInv

\* Every step keeps the invariant.
LEMMA ConsentStepInv == ConsentInv /\ [ConsentNext]_consentVars => ConsentInv'
<1> SUFFICES ASSUME ConsentInv, [ConsentNext]_consentVars PROVE ConsentInv'
  OBVIOUS
<1>1. CASE UNCHANGED consentVars
  BY <1>1 DEF consentVars, ConsentInv, ConsentShaped, AskedOnce, PendingIsOpen, HeldIsSettled,
              SavedWasSettled
<1>2. CASE ConsentNext
  <2>1. PICK t \in Turns : \/ SendMessage(t) \/ LookupFails(t) \/ ResolvePendingConsent(t)
                           \/ PersistMemoryCandidate(t) \/ TurnFails(t) \/ Reply(t)
    BY <1>2 DEF ConsentNext
  <2>2. CASE SendMessage(t)
    BY <2>2, ProceedsInv DEF SendMessage, TurnState
  <2>3. CASE LookupFails(t)
    BY <2>3, ProceedsInv DEF LookupFails, TurnState
  <2>4. CASE TurnFails(t)
    BY <2>4, ProceedsInv DEF TurnFails, TurnState
  <2> QED
    BY <2>1, <2>2, <2>3, <2>4, ResolveInv, PersistCandidateInv, ReplyInv
<1> QED
  BY <1>1, <1>2

\* However many turns of a conversation overlap, a memory candidate is stored only by
\* a yes that is the first message taken up after its question was asked
\* (resolvePendingConsent, conversation.engine.ts:91-118).
THEOREM ConsentCorrect == ConsentSpec => []SavedOnlyOnAYes
<1>1. ConsentInv => SavedOnlyOnAYes
  <2> SUFFICES ASSUME ConsentInv, NEW s \in saved
               PROVE  turn[s[1]].asks /\ turn[s[2]].yes /\ next[s[1]] = {s[2]}
    BY DEF SavedOnlyOnAYes
  <2>1. PICK q \in Turns, t \in Turns : s = <<q, t>>
    BY DEF ConsentInv, ConsentShaped
  <2> QED
    BY <2>1 DEF ConsentInv, SavedWasSettled
<1> QED
  BY <1>1, ConsentInitInv, ConsentStepInv, PTL DEF ConsentSpec

\* What has at most one element.
Lone(S) == \A x, y \in S : x = y

LEMMA LoneCardinality == ASSUME NEW S, Lone(S) PROVE Cardinality(S) =< 1
<1>1. CASE S = {}
  BY <1>1, FS_EmptySet
<1>2. CASE S # {}
  <2>1. PICK x \in S : S = {x}
    BY <1>2 DEF Lone
  <2> QED
    BY <2>1, FS_Singleton
<1> QED
  BY <1>1, <1>2

\* ConversationConsent: there is one question at most.
LEMMA PendingIsLone == ConsentSpec => []Lone(pending)
<1>1. ConsentInit => Lone(pending)
  BY DEF ConsentInit, Lone
<1>2. Lone(pending) /\ [ConsentNext]_consentVars => Lone(pending)'
  <2> SUFFICES ASSUME Lone(pending), [ConsentNext]_consentVars PROVE Lone(pending')
    BY DEF Lone
  <2>1. ASSUME NEW t \in Turns,
               SendMessage(t) \/ LookupFails(t) \/ PersistMemoryCandidate(t) \/ TurnFails(t)
        PROVE  Lone(pending')
    BY <2>1 DEF SendMessage, LookupFails, PersistMemoryCandidate, TurnFails
  <2>2. ASSUME NEW t \in Turns, ResolvePendingConsent(t) \/ Reply(t)
        PROVE  Lone(pending')
    BY <2>2 DEF ResolvePendingConsent, Settled, Reply, Lone
  <2>3. CASE UNCHANGED consentVars
    BY <2>3 DEF consentVars
  <2> QED
    BY <2>1, <2>2, <2>3 DEF ConsentNext
<1> QED
  BY <1>1, <1>2, PTL DEF ConsentSpec

LEMMA ConsentTypes == ConsentSpec => []ConsentTypeOK
<1>1. ConsentInv /\ Lone(pending) => ConsentTypeOK
  BY LoneCardinality DEF ConsentInv, ConsentShaped, ConsentTypeOK
<1>2. ConsentSpec => []ConsentInv
  BY ConsentInitInv, ConsentStepInv, PTL DEF ConsentSpec
<1> QED
  BY <1>1, <1>2, PendingIsLone, PTL

-----------------------------------------------------------------------------
\* BullmqDispatcher.  Which handlers a queued event has reached, through attempts and
\* restarts.

QueueShaped ==
  /\ life \in 1 .. MaxLives
  /\ registered \subseteq Subscribers
  /\ job \in [QueuedEvents -> Job]
  /\ answered \in [QueuedEvents -> SUBSET Subscribers]
  /\ bound \in [QueuedEvents -> SUBSET Subscribers]

\* Whom the event is bound to: nobody before it is queued; ids of its job; and, while
\* the process that queued it runs, handlers that are still registered.
Bound(e) ==
  /\ job[e].origin =< life
  /\ job[e].state \in {"unpublished", "not queued"} => bound[e] = {} /\ answered[e] = {}
  /\ bound[e] \subseteq job[e].handlerIds
  /\ job[e].origin = life => bound[e] \subseteq registered

\* An active job is one of this process, and has the rest of its handlers to do.
ActiveIsOwn(e) ==
  job[e].state = "active" => /\ job[e].origin = life
                             /\ job[e].todo # {}
                             /\ bound[e] \subseteq job[e].todo \cup answered[e]

Complete(e) ==
  job[e].state = "completed" /\ job[e].endedIn = job[e].origin => bound[e] \subseteq answered[e]

InOrder(e) == \A h \in answered[e], g \in bound[e] : g < h => g \in answered[e]

Event(e) == Bound(e) /\ ActiveIsOwn(e) /\ Complete(e) /\ InOrder(e)

QueueInv == QueueShaped /\ \A e \in QueuedEvents : Event(e)

-----------------------------------------------------------------------------
\* Of any handlers one comes first.
LEMMA FirstExists ==
  ASSUME NEW S \in SUBSET Nat, S # {}
  PROVE  \E h \in S : \A g \in S : h =< g
<1>1. PICK h \in S : \A g \in S : <<g, h>> \notin OpToRel(<, Nat)
  BY NatLessThanWellFounded, WFMin
<1>2. \A g \in S : ~ (g < h)
  BY <1>1 DEF OpToRel
<1> QED
  BY <1>2

\* The handler called is the first of those that are left.
LEMMA CalledIsFirst ==
  ASSUME QueueShaped, NEW e \in QueuedEvents, job[e].todo # {}
  PROVE  Called(e) \in job[e].todo /\ \A g \in job[e].todo : Called(e) =< g
<1>1. job[e].todo \in SUBSET Nat
  BY JobAssumption DEF QueueShaped, Job
<1>2. \E h \in job[e].todo : \A g \in job[e].todo : h =< g
  BY <1>1, FirstExists
<1> QED
  BY <1>2 DEF Called

LEMMA QueueInitInv == QueueInit => QueueInv
<1> SUFFICES ASSUME QueueInit PROVE QueueInv
  OBVIOUS
<1>1. 1 \in 1 .. MaxLives
  BY JobAssumption
<1>2. QueueShaped
  <2> DEFINE j == [state |-> "unpublished", handlerIds |-> {}, origin |-> 1, endedIn |-> 1,
                  attempts |-> 0, todo |-> {}, tries |-> 0]
  <2>1. j \in Job
    BY <1>1 DEF Job, JobState
  <2>2. job = [e \in QueuedEvents |-> j]
    BY DEF QueueInit
  <2> HIDE DEF j
  <2>3. job \in [QueuedEvents -> Job]
    BY <2>1, <2>2
  <2> QED
    BY <1>1, <2>3 DEF QueueInit, QueueShaped
<1>3. ASSUME NEW e \in QueuedEvents PROVE Event(e)
  <2>1. /\ job[e].state = "unpublished" /\ job[e].origin = 1 /\ life = 1
        /\ bound[e] = {} /\ answered[e] = {}
    BY DEF QueueInit
  <2> QED
    BY <2>1 DEF Event, Bound, ActiveIsOwn, Complete, InOrder
<1> QED
  BY <1>2, <1>3 DEF QueueInv

\* A step that leaves an event, its process and the subscriptions alone keeps what is
\* known of it.
LEMMA EventUntouched ==
  ASSUME NEW e \in QueuedEvents, Event(e), job'[e] = job[e], answered'[e] = answered[e],
         bound'[e] = bound[e], life' = life, registered \subseteq registered'
  PROVE  Event(e)'
BY DEF Event, Bound, ActiveIsOwn, Complete, InOrder

\* One job changes; the others are as they were.
LEMMA OneJob ==
  ASSUME QueueShaped, NEW e \in QueuedEvents, NEW j \in Job, job' = [job EXCEPT ![e] = j]
  PROVE  /\ job' \in [QueuedEvents -> Job]
         /\ job'[e] = j
         /\ \A x \in QueuedEvents : x # e => job'[x] = job[x]
BY DEF QueueShaped

\* Subscriptions.
LEMMA SubscribeInv ==
  ASSUME QueueInv, NEW h \in Subscribers, Subscribe(h)
  PROVE  QueueInv'
<1>1. QueueShaped'
  BY DEF QueueInv, QueueShaped, Subscribe
<1>2. \A e \in QueuedEvents : Event(e)'
  BY EventUntouched DEF QueueInv, Subscribe
<1> QED
  BY <1>1, <1>2 DEF QueueInv

LEMMA UnsubscribeInv ==
  ASSUME QueueInv, NEW h \in Subscribers, Unsubscribe(h)
  PROVE  QueueInv'
<1>1. QueueShaped'
  BY DEF QueueInv, QueueShaped, Unsubscribe
<1>2. ASSUME NEW e \in QueuedEvents PROVE Event(e)'
  <2>1. /\ Event(e) /\ job' = job /\ answered' = answered /\ life' = life
        /\ registered' = registered \ {h}
        /\ bound'[e] = IF job[e].origin = life THEN bound[e] \ {h} ELSE bound[e]
    BY DEF QueueInv, Unsubscribe
  <2> QED
    BY <2>1 DEF Event, Bound, ActiveIsOwn, Complete, InOrder
<1> QED
  BY <1>1, <1>2 DEF QueueInv

\* Dispatch.
LEMMA DispatchInv ==
  ASSUME QueueInv, NEW e \in QueuedEvents, DispatchAsync(e)
  PROVE  QueueInv'
<1>1. QueueShaped /\ Event(e) /\ job[e] \in Job /\ job[e].state = "unpublished"
  BY DEF QueueInv, QueueShaped, DispatchAsync
<1>2. life' = life /\ registered' = registered /\ answered' = answered
  BY DEF DispatchAsync
<1>3. CASE job' = [job EXCEPT ![e].state = "not queued"] /\ UNCHANGED bound
  <2> DEFINE j == [job[e] EXCEPT !.state = "not queued"]
  <2>1. j \in Job /\ job' = [job EXCEPT ![e] = j]
    BY <1>1, <1>3 DEF Job, JobState
  <2>2. QueueShaped'
    BY <1>1, <1>2, <1>3, <2>1, OneJob DEF QueueShaped
  <2>3. Event(e)'
    <3>1. job'[e].state = "not queued" /\ job'[e].origin = job[e].origin
      BY <1>1, <2>1, OneJob DEF Job
    <3>2. bound[e] = {} /\ answered[e] = {}
      BY <1>1 DEF Event, Bound
    <3> QED
      BY <1>1, <1>2, <1>3, <3>1, <3>2 DEF Event, Bound, ActiveIsOwn, Complete, InOrder
  <2>4. \A x \in QueuedEvents : x # e => Event(x)'
    BY <1>1, <1>2, <1>3, <2>1, OneJob, EventUntouched DEF QueueInv
  <2> QED
    BY <2>2, <2>3, <2>4 DEF QueueInv
<1>4. CASE /\ bound' = [bound EXCEPT ![e] = registered]
           /\ job' = [job EXCEPT ![e] = [@ EXCEPT !.state = "waiting", !.origin = life,
                                                  !.handlerIds = registered]]
  <2> DEFINE j == [job[e] EXCEPT !.state = "waiting", !.origin = life, !.handlerIds = registered]
  <2>1. j \in Job /\ job' = [job EXCEPT ![e] = j]
    BY <1>1, <1>4 DEF QueueShaped, Job, JobState
  <2>2. QueueShaped'
    BY <1>1, <1>2, <1>4, <2>1, OneJob DEF QueueShaped
  <2>3. bound'[e] = registered /\ \A x \in QueuedEvents : x # e => bound'[x] = bound[x]
    BY <1>1, <1>4 DEF QueueShaped
  <2>4. Event(e)'
    BY <1>1, <1>2, <2>1, <2>3, OneJob DEF QueueShaped, Event, Bound, ActiveIsOwn, Complete, InOrder, Job
  <2>5. \A x \in QueuedEvents : x # e => Event(x)'
    BY <1>1, <1>2, <2>1, <2>3, OneJob, EventUntouched DEF QueueInv
  <2> QED
    BY <2>2, <2>4, <2>5 DEF QueueInv
<1> QED
  BY <1>3, <1>4 DEF DispatchAsync

\* A step of a job that keeps its origin, its handlers and whom it is bound to.
LEMMA JobStep ==
  ASSUME QueueInv, NEW e \in QueuedEvents, NEW j \in Job, job' = [job EXCEPT ![e] = j],
         job[e].state \notin {"unpublished", "not queued"},
         j.state \notin {"unpublished", "not queued"},
         j.origin = job[e].origin, j.handlerIds = job[e].handlerIds,
         UNCHANGED <<life, registered, bound>>,
         answered' \in [QueuedEvents -> SUBSET Subscribers],
         \A x \in QueuedEvents : x # e => answered'[x] = answered[x],
         ActiveIsOwn(e)', Complete(e)', InOrder(e)'
  PROVE  QueueInv'
<1>1. QueueShaped'
  BY OneJob DEF QueueInv, QueueShaped
<1>2. Event(e)'
  BY OneJob DEF QueueInv, QueueShaped, Event, Bound
<1>3. \A x \in QueuedEvents : x # e => Event(x)'
  BY OneJob, EventUntouched DEF QueueInv
<1> QED
  BY <1>1, <1>2, <1>3 DEF QueueInv

\* The worker takes a job: of another process, it is over at once; of this one, all
\* whom the event is bound to are on the list.
LEMMA TakeInv ==
  ASSUME QueueInv, NEW e \in QueuedEvents, TakeJob(e)
  PROVE  QueueInv'
<1> DEFINE todo == IF job[e].origin = life THEN registered \cap job[e].handlerIds ELSE {}
           k == [job[e] EXCEPT !.state = "active", !.tries = 0, !.todo = todo]
           j == IF todo = {} THEN [k EXCEPT !.state = "completed", !.endedIn = life] ELSE k
<1>1. QueueShaped /\ Event(e) /\ job[e] \in Job /\ job[e].state = "waiting"
  BY DEF QueueInv, QueueShaped, TakeJob
<1>2. k \in Job /\ k.todo = todo
  BY <1>1 DEF QueueShaped, Job, JobState
<1>3. job' = [job EXCEPT ![e] = j]
  BY <1>2 DEF TakeJob, Continues
<1>4. /\ j \in Job
      /\ j.origin = job[e].origin /\ j.handlerIds = job[e].handlerIds /\ j.todo = todo
      /\ IF todo = {} THEN j.state = "completed" /\ j.endedIn = life ELSE j.state = "active"
  BY <1>1, <1>2 DEF QueueShaped, Job, JobState
<1> HIDE DEF j, k
<1>5. UNCHANGED <<life, registered, answered, bound>>
  BY DEF TakeJob
<1>6. job[e].origin = life => bound[e] \subseteq todo
  BY <1>1 DEF Event, Bound
<1>7. job'[e] = j
  BY <1>1, <1>3, <1>4, OneJob
<1>8. ActiveIsOwn(e)' /\ Complete(e)' /\ InOrder(e)'
  BY <1>1, <1>4, <1>5, <1>6, <1>7 DEF Event, ActiveIsOwn, Complete, InOrder
<1> QED
  BY <1>1, <1>3, <1>4, <1>5, <1>8, JobStep DEF QueueShaped

\* A success moves the first of the list to those that have answered.
LEMMA SucceedsInv ==
  ASSUME QueueInv, NEW e \in QueuedEvents, HandlerSucceeds(e)
  PROVE  QueueInv'
<1> DEFINE h == Called(e)
           k == [job[e] EXCEPT !.tries = 0, !.todo = @ \ {h}]
           j == IF k.todo = {} THEN [k EXCEPT !.state = "completed", !.endedIn = life] ELSE k
<1>1. /\ QueueShaped /\ Event(e) /\ job[e] \in Job /\ job[e].state = "active"
      /\ job[e].origin = life /\ job[e].todo # {} /\ job[e].todo \subseteq Subscribers
      /\ bound[e] \subseteq job[e].todo \cup answered[e]
  BY DEF QueueInv, QueueShaped, HandlerSucceeds, Event, ActiveIsOwn, Job
<1>2. h \in job[e].todo /\ \A g \in job[e].todo : h =< g
  BY <1>1, CalledIsFirst
<1> HIDE DEF h
<1>3. k \in Job /\ k.todo = job[e].todo \ {h}
  BY <1>1 DEF Job
<1>4. job' = [job EXCEPT ![e] = j]
  BY DEF HandlerSucceeds, Continues, h
<1>5. /\ j \in Job
      /\ j.origin = job[e].origin /\ j.handlerIds = job[e].handlerIds
      /\ j.todo = job[e].todo \ {h}
      /\ IF job[e].todo \ {h} = {} THEN j.state = "completed" ELSE j.state = "active"
  BY <1>1, <1>3 DEF QueueShaped, Job, JobState
<1> HIDE DEF j, k
<1>6. UNCHANGED <<life, registered, bound>>
  BY DEF HandlerSucceeds
<1>7. answered' = [answered EXCEPT ![e] = @ \cup {h}]
  BY DEF HandlerSucceeds, h
<1>8. /\ answered' \in [QueuedEvents -> SUBSET Subscribers]
      /\ answered'[e] = answered[e] \cup {h}
      /\ \A x \in QueuedEvents : x # e => answered'[x] = answered[x]
  BY <1>1, <1>2, <1>7 DEF QueueShaped
<1>9. job'[e] = j
  BY <1>1, <1>4, <1>5, OneJob
<1>10. bound[e] \subseteq (job[e].todo \ {h}) \cup answered'[e]
  BY <1>1, <1>8
<1>11. ActiveIsOwn(e)' /\ Complete(e)'
  BY <1>1, <1>5, <1>6, <1>9, <1>10 DEF ActiveIsOwn, Complete
<1>12. InOrder(e)'
  <2> SUFFICES ASSUME NEW f \in answered'[e], NEW g \in bound'[e], g < f
               PROVE  g \in answered'[e]
    BY DEF InOrder
  <2>1. f \in Nat /\ g \in Nat /\ g \in bound[e]
    BY <1>1, <1>6, <1>8, JobAssumption DEF QueueShaped
  <2>2. CASE f \in answered[e]
    BY <1>1, <1>8, <2>1, <2>2 DEF Event, InOrder
  <2>3. CASE f = h
    BY <1>1, <1>2, <1>8, <2>1, <2>3
  <2> QED
    BY <1>8, <2>2, <2>3
<1> QED
  BY <1>1, <1>4, <1>5, <1>6, <1>8, <1>11, <1>12, JobStep

\* A failure is tried again, or ends the round.
LEMMA JobFailsInv ==
  ASSUME QueueInv, NEW e \in QueuedEvents, HandlerFails(e)
  PROVE  QueueInv'
<1>1. QueueShaped /\ Event(e) /\ job[e] \in Job /\ job[e].state = "active"
  BY DEF QueueInv, QueueShaped, HandlerFails
<1>2. UNCHANGED <<life, registered, answered, bound>>
  BY DEF HandlerFails
<1>3. CASE job' = [job EXCEPT ![e].tries = @ + 1]
  <2> DEFINE j == [job[e] EXCEPT !.tries = @ + 1]
  <2>1. /\ j \in Job /\ j.state = "active" /\ j.todo = job[e].todo
        /\ j.origin = job[e].origin /\ j.handlerIds = job[e].handlerIds
    BY <1>1 DEF Job
  <2>2. job' = [job EXCEPT ![e] = j]
    BY <1>3
  <2> HIDE DEF j
  <2>3. job'[e] = j
    BY <1>1, <2>1, <2>2, OneJob
  <2>4. ActiveIsOwn(e)' /\ Complete(e)' /\ InOrder(e)'
    BY <1>1, <1>2, <2>1, <2>3 DEF Event, ActiveIsOwn, Complete, InOrder
  <2> QED
    BY <1>1, <1>2, <2>1, <2>2, <2>4, JobStep DEF QueueShaped
<1>4. CASE Exhausted(e)
  <2> DEFINE state == IF job[e].attempts + 1 = JobAttempts THEN "failed" ELSE "waiting"
             more == job[e].attempts + 1
             j == [job[e] EXCEPT !.attempts = more, !.todo = {}, !.tries = 0,
                                 !.state = state, !.endedIn = life]
  <2>1. job' = [job EXCEPT ![e] = j]
    BY <1>4 DEF Exhausted
  <2>2. state \in {"failed", "waiting"} /\ more \in Nat
    BY <1>1 DEF Job
  <2> HIDE DEF state, more
  <2>3. /\ j \in Job /\ j.state \in {"failed", "waiting"}
        /\ j.origin = job[e].origin /\ j.handlerIds = job[e].handlerIds
    BY <1>1, <2>2 DEF QueueShaped, Job, JobState
  <2> HIDE DEF j
  <2>4. job'[e] = j
    BY <1>1, <2>1, <2>3, OneJob
  <2>5. ActiveIsOwn(e)' /\ Complete(e)' /\ InOrder(e)'
    BY <1>1, <1>2, <2>3, <2>4 DEF Event, ActiveIsOwn, Complete, InOrder
  <2> QED
    BY <1>1, <1>2, <2>1, <2>3, <2>5, JobStep DEF QueueShaped
<1> QED
  BY <1>3, <1>4 DEF HandlerFails

LEMMA ReclaimInv ==
  ASSUME QueueInv, NEW e \in QueuedEvents, Reclaim(e)
  PROVE  QueueInv'
<1> DEFINE j == [job[e] EXCEPT !.state = "waiting"]
<1>1. QueueShaped /\ Event(e) /\ job[e] \in Job /\ job[e].state = "stalled"
  BY DEF QueueInv, QueueShaped, Reclaim
<1>2. UNCHANGED <<life, registered, answered, bound>> /\ job' = [job EXCEPT ![e] = j]
  BY DEF Reclaim
<1>3. /\ j \in Job /\ j.state = "waiting"
      /\ j.origin = job[e].origin /\ j.handlerIds = job[e].handlerIds
  BY <1>1 DEF Job, JobState
<1> HIDE DEF j
<1>4. job'[e] = j
  BY <1>1, <1>2, <1>3, OneJob
<1>5. ActiveIsOwn(e)' /\ Complete(e)' /\ InOrder(e)'
  BY <1>1, <1>2, <1>3, <1>4 DEF Event, ActiveIsOwn, Complete, InOrder
<1> QED
  BY <1>1, <1>2, <1>3, <1>5, JobStep DEF QueueShaped

\* A new process knows no id, and no job is active in it.
LEMMA RestartInv ==
  ASSUME QueueInv, RestartProcess
  PROVE  QueueInv'
<1>1. /\ QueueShaped /\ life' = life + 1 /\ life < MaxLives /\ registered' = {}
      /\ answered' = answered /\ bound' = bound
  BY DEF QueueInv, RestartProcess
<1>2. \A e \in QueuedEvents :
        job'[e] = IF job[e].state = "active"
                  THEN [job[e] EXCEPT !.state = "stalled", !.todo = {}, !.tries = 0] ELSE job[e]
  BY DEF RestartProcess
<1>3. ASSUME NEW e \in QueuedEvents
      PROVE  /\ job'[e] \in Job /\ job'[e].state # "active"
             /\ job'[e].origin = job[e].origin /\ job'[e].handlerIds = job[e].handlerIds
             /\ job[e].state # "active" => job'[e] = job[e]
             /\ job[e].state = "active" => job'[e].state = "stalled"
  <2> DEFINE j == [job[e] EXCEPT !.state = "stalled", !.todo = {}, !.tries = 0]
  <2>1. job[e] \in Job
    BY <1>1 DEF QueueShaped
  <2>2. /\ j \in Job /\ j.state = "stalled"
        /\ j.origin = job[e].origin /\ j.handlerIds = job[e].handlerIds
    BY <2>1 DEF Job, JobState
  <2>3. job'[e] = IF job[e].state = "active" THEN j ELSE job[e]
    BY <1>2
  <2> HIDE DEF j
  <2> QED
    BY <2>1, <2>2, <2>3
<1>4. QueueShaped'
  <2>1. job' \in [QueuedEvents -> Job]
    BY <1>3 DEF RestartProcess
  <2>2. life' \in 1 .. MaxLives
    BY <1>1, JobAssumption DEF QueueShaped
  <2> QED
    BY <1>1, <2>1, <2>2 DEF QueueShaped
<1>5. ASSUME NEW e \in QueuedEvents PROVE Event(e)'
  <2>1. Event(e) /\ job[e].origin \in Nat /\ life \in Nat
    BY <1>1, JobAssumption DEF QueueInv, QueueShaped, Job
  <2>2. Bound(e)'
    <3>1. job'[e].origin = job[e].origin /\ job'[e].handlerIds = job[e].handlerIds
      BY <1>3
    <3>2. job'[e].state \in {"unpublished", "not queued"} => job'[e].state = job[e].state
      BY <1>3
    <3>3. job[e].origin =< life
      BY <2>1 DEF Event, Bound
    <3>4. job'[e].origin # life' /\ job'[e].origin =< life'
      BY <1>1, <2>1, <3>1, <3>3
    <3> QED
      BY <1>1, <2>1, <3>1, <3>2, <3>4 DEF Event, Bound
  <2>3. ActiveIsOwn(e)' /\ Complete(e)' /\ InOrder(e)'
    BY <1>1, <1>3, <2>1 DEF Event, ActiveIsOwn, Complete, InOrder
  <2> QED
    BY <2>2, <2>3 DEF Event
<1> QED
  BY <1>4, <1>5 DEF QueueInv

\* Every step keeps the invariant.
LEMMA QueueStepInv == QueueInv /\ [QueueNext]_queueVars => QueueInv'
<1> SUFFICES ASSUME QueueInv, [QueueNext]_queueVars PROVE QueueInv'
  OBVIOUS
<1>1. ASSUME UNCHANGED <<life, registered, job, answered, bound>> PROVE QueueInv'
  BY <1>1 DEF QueueInv, QueueShaped, Event, Bound, ActiveIsOwn, Complete, InOrder
<1>2. CASE UNCHANGED queueVars
  BY <1>1, <1>2 DEF queueVars
<1>3. CASE StartWorker \/ StopWorker
  BY <1>1, <1>3 DEF StartWorker, StopWorker
<1>4. CASE \E h \in Subscribers : Subscribe(h) \/ Unsubscribe(h)
  BY <1>4, SubscribeInv, UnsubscribeInv
<1>5. CASE \E e \in QueuedEvents :
             \/ DispatchAsync(e) \/ TakeJob(e) \/ HandlerSucceeds(e) \/ HandlerFails(e)
             \/ Reclaim(e)
  BY <1>5, DispatchInv, TakeInv, SucceedsInv, JobFailsInv, ReclaimInv
<1> QED
  BY <1>2, <1>3, <1>4, <1>5, RestartInv DEF QueueNext

\* For any number of events, handlers, attempts and lives of the process: a job ended
\* as completed by the process that queued it has reached all whom it was bound to,
\* and handlers are reached in order (processJob, bullmq-dispatcher.ts:232-275).
THEOREM CompletedCorrect == QueueSpec => []CompletedWasHandled
<1>1. QueueInv => CompletedWasHandled
  BY DEF QueueInv, Event, Complete, InOrder, CompletedWasHandled
<1> QED
  BY <1>1, QueueInitInv, QueueStepInv, PTL DEF QueueSpec

\* BullmqDispatcher: a job that is not active has nobody left to call.
NothingToDo == \A e \in QueuedEvents : job[e].state # "active" => job[e].todo = {}

LEMMA NothingToDoStep == QueueShaped /\ NothingToDo /\ [QueueNext]_queueVars => NothingToDo'
<1> SUFFICES ASSUME QueueShaped, NothingToDo, [QueueNext]_queueVars PROVE NothingToDo'
  OBVIOUS
<1>1. \A e \in QueuedEvents : job[e] \in Job
  BY DEF QueueShaped
<1>2. job \in [QueuedEvents -> Job]
  BY DEF QueueShaped
<1>3. ASSUME NEW e \in QueuedEvents, NEW new, job' = [job EXCEPT ![e] = new],
             new.state # "active" => new.todo = {}
      PROVE  NothingToDo'
  BY <1>2, <1>3 DEF NothingToDo
<1>4. ASSUME NEW e \in QueuedEvents, NEW j \in Job, Continues(e, j), j.state = "active"
      PROVE  NothingToDo'
  <2> DEFINE new == IF j.todo = {} THEN [j EXCEPT !.state = "completed", !.endedIn = life] ELSE j
  <2>1. job' = [job EXCEPT ![e] = new]
    BY <1>4 DEF Continues
  <2>2. new.state # "active" => new.todo = {}
    BY <1>4 DEF Job
  <2> HIDE DEF new
  <2> QED
    BY <1>3, <2>1, <2>2
<1>5. ASSUME NEW e \in QueuedEvents, TakeJob(e) PROVE NothingToDo'
  <2> DEFINE j == [job[e] EXCEPT !.state = "active", !.tries = 0,
                     !.todo = IF job[e].origin = life THEN registered \cap job[e].handlerIds ELSE {}]
  <2>1. Continues(e, j)
    BY <1>5 DEF TakeJob
  <2>2. j \in Job /\ j.state = "active"
    BY <1>1 DEF QueueShaped, Job, JobState
  <2> HIDE DEF j
  <2> QED
    BY <1>4, <2>1, <2>2
<1>6. ASSUME NEW e \in QueuedEvents, HandlerSucceeds(e) PROVE NothingToDo'
  <2> DEFINE j == [job[e] EXCEPT !.tries = 0, !.todo = @ \ {Called(e)}]
  <2>1. Continues(e, j)
    BY <1>6 DEF HandlerSucceeds
  <2>2. j \in Job /\ j.state = "active"
    BY <1>1, <1>6 DEF HandlerSucceeds, Job
  <2> HIDE DEF j
  <2> QED
    BY <1>4, <2>1, <2>2
<1>7. ASSUME NEW e \in QueuedEvents, HandlerFails(e) PROVE NothingToDo'
  <2>1. CASE job[e].tries + 1 < JobAttempts
    <3>1. job[e].state = "active" /\ job' = [job EXCEPT ![e].tries = @ + 1]
      BY <1>7, <2>1 DEF HandlerFails
    <3>2. job'[e].state = "active" /\ \A f \in QueuedEvents : f # e => job'[f] = job[f]
      BY <1>1, <1>2, <3>1 DEF Job
    <3> QED
      BY <3>2 DEF NothingToDo
  <2>2. CASE ~ (job[e].tries + 1 < JobAttempts)
    <3>1. Exhausted(e)
      BY <1>7, <2>2 DEF HandlerFails
    <3>2. job'[e].todo = {} /\ \A f \in QueuedEvents : f # e => job'[f] = job[f]
      BY <1>1, <1>2, <3>1 DEF Exhausted, Job
    <3> QED
      BY <3>2 DEF NothingToDo
  <2> QED
    BY <2>1, <2>2
<1>8. ASSUME NEW e \in QueuedEvents, DispatchAsync(e) PROVE NothingToDo'
  <2>1. job'[e].todo = job[e].todo /\ \A f \in QueuedEvents : f # e => job'[f] = job[f]
    BY <1>1, <1>2, <1>8 DEF DispatchAsync, Job
  <2>2. job[e].state = "unpublished"
    BY <1>8 DEF DispatchAsync
  <2> QED
    BY <2>1, <2>2 DEF NothingToDo
<1>9. ASSUME NEW e \in QueuedEvents, Reclaim(e) PROVE NothingToDo'
  <2>1. job'[e].todo = job[e].todo /\ \A f \in QueuedEvents : f # e => job'[f] = job[f]
    BY <1>1, <1>2, <1>9 DEF Reclaim, Job
  <2>2. job[e].state = "stalled"
    BY <1>9 DEF Reclaim
  <2> QED
    BY <2>1, <2>2 DEF NothingToDo
<1>10. CASE RestartProcess
  <2>1. ASSUME NEW e \in QueuedEvents, job[e].state = "active" PROVE job'[e].todo = {}
    BY <1>1, <1>10, <2>1 DEF RestartProcess, Job
  <2>2. ASSUME NEW e \in QueuedEvents, job[e].state # "active" PROVE job'[e] = job[e]
    BY <1>10, <2>2 DEF RestartProcess
  <2> QED
    BY <2>1, <2>2 DEF NothingToDo
<1>11. ASSUME NEW h \in Subscribers, Subscribe(h) \/ Unsubscribe(h) PROVE NothingToDo'
  BY <1>11 DEF Subscribe, Unsubscribe, NothingToDo
<1>12. CASE StartWorker \/ StopWorker
  BY <1>12 DEF StartWorker, StopWorker, NothingToDo
<1>13. CASE UNCHANGED queueVars
  BY <1>13 DEF queueVars, NothingToDo
<1> QED
  BY <1>5, <1>6, <1>7, <1>8, <1>9, <1>10, <1>11, <1>12, <1>13 DEF QueueNext

LEMMA QueueTypes == QueueSpec => []QueueTypeOK
<1>1. QueueInit => NothingToDo
  BY DEF QueueInit, NothingToDo
<1>2. QueueInv => QueueShaped
  BY DEF QueueInv
<1>3. QueueInv /\ NothingToDo => QueueTypeOK
  BY DEF QueueInv, QueueShaped, NothingToDo, Event, ActiveIsOwn, QueueTypeOK
<1> QED
  BY <1>1, <1>2, <1>3, NothingToDoStep, QueueInitInv, QueueStepInv, PTL DEF QueueSpec

-----------------------------------------------------------------------------
\* MomentScheduler.  Commands arrive in the order in which they were sent, so that for each
\* moment it is enough to know which commands are still under way, and which of them
\* come after which.

Has(w, a, m) == \E i \in DOMAIN w : w[i] = <<a, m>>

Followed(w, a, b, m) ==
  \A i \in DOMAIN w : w[i] = <<a, m>> => \E j \in DOMAIN w : i < j /\ w[j] = <<b, m>>

Precedes(w, a, b, m) ==
  \A i, j \in DOMAIN w : w[i] = <<a, m>> /\ w[j] = <<b, m>> => i < j

Once(w, a, m) == \A i, j \in DOMAIN w : w[i] = <<a, m>> /\ w[j] = <<a, m>> => i = j

\* An id that has not been given out is nowhere.
Unknown(m) ==
  /\ local[m] = "ABSENT" /\ details[m] = "ABSENT"
  /\ \A i \in DOMAIN wire : wire[i][2] # m

\* What was scheduled and not cancelled is in Redis, or on its way.
Kept(m) ==
  /\ local[m] # "ABSENT"
  /\ ~ Has(wire, "zrem", m) /\ ~ Has(wire, "hdel", m)
  /\ Has(wire, "zadd", m) \/ m \in sorted
  /\ Has(wire, "hset", m) \/ details[m] # "ABSENT"
  /\ Has(wire, "hset", m) => details[m] = "ABSENT" /\ m \notin read
  /\ Once(wire, "hset", m)
  /\ Precedes(wire, "hset", "hget", m) /\ Precedes(wire, "hset", "hset_delivered", m)
  /\ local[m] = "SCHEDULED" => /\ ~ Has(wire, "hget", m) /\ ~ Has(wire, "hset_delivered", m)
                               /\ m \notin read /\ details[m] # "DELIVERED"
  /\ local[m] = "DELIVERED" => \/ details[m] = "DELIVERED" \/ m \in read
                               \/ Has(wire, "hget", m) \/ Has(wire, "hset_delivered", m)

\* What was cancelled has left Redis, or the commands that remove it come last.
Gone(m) ==
  /\ local[m] = "ABSENT"
  /\ Followed(wire, "zadd", "zrem", m) /\ Followed(wire, "hset", "hdel", m)
  /\ m \in sorted => Has(wire, "zrem", m)
  /\ details[m] = "SCHEDULED" => Has(wire, "hdel", m)

MomentOK(m) ==
  /\ m \notin used => Unknown(m)
  /\ m \in used \ (doubtful \cup cancelled) => Kept(m)
  /\ m \in cancelled \ doubtful => Gone(m)

MomentInv == MomentTypeOK /\ \A m \in Moments : MomentOK(m)

\* Commands of one moment are put at the end of the wire.
Appends(w, v, A, m) ==
  /\ Len(w) \in Nat /\ Len(v) \in Nat /\ Len(w) <= Len(v)
  /\ DOMAIN w = 1 .. Len(w) /\ DOMAIN v = 1 .. Len(v)
  /\ \A i \in 1 .. Len(w) : v[i] = w[i]
  /\ \A i \in 1 .. Len(v) : i > Len(w) => \E a \in A : v[i] = <<a, m>>
  /\ \A a \in A : \E i \in 1 .. Len(v) : i > Len(w) /\ v[i] = <<a, m>>

\* What Send puts at the end of the wire.
Sent(w, c, v) ==
  /\ v \in Seq(Command) /\ Len(v) = Len(w) + Len(c)
  /\ Len(w) \in Nat /\ Len(v) \in Nat
  /\ DOMAIN w = 1 .. Len(w) /\ DOMAIN v = 1 .. Len(v)
  /\ \A i \in 1 .. Len(w) : v[i] = w[i]
  /\ \A i \in 1 .. Len(c) : v[Len(w) + i] = c[i]

LEMMA Appended ==
  ASSUME NEW w \in Seq(Command), NEW c \in Seq(Command)
  PROVE  Sent(w, c, w \o c)
BY DEF Sent

LEMMA AppendOne ==
  ASSUME NEW w \in Seq(Command), NEW c \in Seq(Command), NEW a, NEW m, NEW v,
         Len(c) = 1, c[1] = <<a, m>>, Sent(w, c, v)
  PROVE  v \in Seq(Command) /\ Appends(w, v, {a}, m)
<1>1. Len(v) = Len(w) + 1 /\ Len(w) <= Len(v)
  BY DEF Sent
<1>2. v[Len(w) + 1] = <<a, m>>
  BY DEF Sent
<1>3. \A i \in 1 .. Len(v) : i > Len(w) => i = Len(w) + 1
  BY DEF Sent
<1>4. Len(w) + 1 \in 1 .. Len(v) /\ Len(w) + 1 > Len(w)
  BY DEF Sent
<1>5. \A i \in 1 .. Len(v) : i > Len(w) => \E x \in {a} : v[i] = <<x, m>>
  BY <1>2, <1>3
<1>6. \A x \in {a} : \E i \in 1 .. Len(v) : i > Len(w) /\ v[i] = <<x, m>>
  BY <1>2, <1>4
<1> QED
  BY <1>1, <1>5, <1>6 DEF Sent, Appends

LEMMA AppendTwo ==
  ASSUME NEW w \in Seq(Command), NEW c \in Seq(Command), NEW a, NEW b, NEW m, NEW v,
         Len(c) = 2, c[1] = <<a, m>>, c[2] = <<b, m>>, Sent(w, c, v)
  PROVE  v \in Seq(Command) /\ Appends(w, v, {a, b}, m)
<1>1. Len(v) = Len(w) + 2 /\ Len(w) <= Len(v)
  BY DEF Sent
<1>2. v[Len(w) + 1] = <<a, m>> /\ v[Len(w) + 2] = <<b, m>>
  BY DEF Sent
<1>3. \A i \in 1 .. Len(v) : i > Len(w) => i = Len(w) + 1 \/ i = Len(w) + 2
  BY DEF Sent
<1>4. /\ Len(w) + 1 \in 1 .. Len(v) /\ Len(w) + 1 > Len(w)
      /\ Len(w) + 2 \in 1 .. Len(v) /\ Len(w) + 2 > Len(w)
  BY DEF Sent
<1>5. \A i \in 1 .. Len(v) : i > Len(w) => \E x \in {a, b} : v[i] = <<x, m>>
  BY <1>2, <1>3
<1>6. \A x \in {a, b} : \E i \in 1 .. Len(v) : i > Len(w) /\ v[i] = <<x, m>>
  BY <1>2, <1>4
<1> QED
  BY <1>1, <1>2, <1>5, <1>6 DEF Sent, Appends

LEMMA SentOne ==
  ASSUME NEW a, NEW m, <<a, m>> \in Command, NEW c,
         c = [i \in 1 .. Len(<<a>>) |-> <<<<a>>[i], m>>]
  PROVE  c \in Seq(Command) /\ Len(c) = 1 /\ c[1] = <<a, m>>
<1>1. Len(<<a>>) = 1 /\ \A i \in 1 .. 1 : <<a>>[i] = a
  OBVIOUS
<1>2. c = [i \in 1 .. 1 |-> <<a, m>>]
  BY <1>1
<1> QED
  BY <1>2

LEMMA SentTwo ==
  ASSUME NEW a, NEW b, NEW m, <<a, m>> \in Command, <<b, m>> \in Command, NEW c,
         c = [i \in 1 .. Len(<<a, b>>) |-> <<<<a, b>>[i], m>>]
  PROVE  c \in Seq(Command) /\ Len(c) = 2 /\ c[1] = <<a, m>> /\ c[2] = <<b, m>>
<1>1. Len(<<a, b>>) = 2 /\ <<a, b>>[1] = a /\ <<a, b>>[2] = b
  OBVIOUS
<1>2. \A i \in 1 .. 2 : i = 1 \/ i = 2
  OBVIOUS
<1>3. \A i \in 1 .. 2 : <<<<a, b>>[i], m>> = IF i = 1 THEN <<a, m>> ELSE <<b, m>>
  BY <1>1, <1>2
<1>4. c = [i \in 1 .. 2 |-> IF i = 1 THEN <<a, m>> ELSE <<b, m>>]
  BY <1>1, <1>3
<1> QED
  BY <1>4

LEMMA AppendedHas ==
  ASSUME NEW w, NEW v, NEW A, NEW m, Appends(w, v, A, m), NEW a, NEW n
  PROVE  Has(v, a, n) <=> Has(w, a, n) \/ (n = m /\ a \in A)
<1>1. Has(w, a, n) => Has(v, a, n)
  BY DEF Appends, Has
<1>2. n = m /\ a \in A => Has(v, a, n)
  BY DEF Appends, Has
<1>3. Has(v, a, n) => Has(w, a, n) \/ (n = m /\ a \in A)
  BY DEF Appends, Has
<1> QED
  BY <1>1, <1>2, <1>3

LEMMA AppendedFollowed ==
  ASSUME NEW w, NEW v, NEW A, NEW m, Appends(w, v, A, m), NEW a, NEW b, NEW n,
         n # m \/ a \notin A,
         Followed(w, a, b, n) \/ (n = m /\ b \in A)
  PROVE  Followed(v, a, b, n)
<1> SUFFICES ASSUME NEW i \in 1 .. Len(v), v[i] = <<a, n>>
             PROVE  \E j \in 1 .. Len(v) : i < j /\ v[j] = <<b, n>>
  BY DEF Appends, Followed
<1>1. i \in 1 .. Len(w) /\ w[i] = <<a, n>>
  BY DEF Appends
<1>2. CASE n = m /\ b \in A
  <2>1. PICK j \in 1 .. Len(v) : j > Len(w) /\ v[j] = <<b, n>>
    BY <1>2 DEF Appends
  <2>2. i < j
    BY <1>1, <2>1 DEF Appends
  <2> QED
    BY <2>1, <2>2
<1>3. CASE Followed(w, a, b, n)
  <2>1. PICK j \in 1 .. Len(w) : i < j /\ w[j] = <<b, n>>
    BY <1>1, <1>3 DEF Followed, Appends
  <2> QED
    BY <2>1 DEF Appends
<1> QED
  BY <1>2, <1>3

LEMMA AppendedPrecedes ==
  ASSUME NEW w, NEW v, NEW A, NEW m, Appends(w, v, A, m), NEW a, NEW b, NEW n,
         n # m \/ a \notin A, Precedes(w, a, b, n)
  PROVE  Precedes(v, a, b, n)
<1> SUFFICES ASSUME NEW i \in 1 .. Len(v), NEW j \in 1 .. Len(v),
                    v[i] = <<a, n>>, v[j] = <<b, n>>
             PROVE  i < j
  BY DEF Appends, Precedes
<1>1. i \in 1 .. Len(w) /\ w[i] = <<a, n>>
  BY DEF Appends
<1>2. CASE j > Len(w)
  BY <1>1, <1>2 DEF Appends
<1>3. CASE ~ (j > Len(w))
  <2>1. j \in 1 .. Len(w) /\ w[j] = <<b, n>>
    BY <1>3 DEF Appends
  <2> QED
    BY <1>1, <2>1 DEF Appends, Precedes
<1> QED
  BY <1>2, <1>3

LEMMA AppendedOnce ==
  ASSUME NEW w, NEW v, NEW A, NEW m, Appends(w, v, A, m), NEW a, NEW n,
         n # m \/ a \notin A, Once(w, a, n)
  PROVE  Once(v, a, n)
<1> SUFFICES ASSUME NEW i \in 1 .. Len(v), NEW j \in 1 .. Len(v),
                    v[i] = <<a, n>>, v[j] = <<a, n>>
             PROVE  i = j
  BY DEF Appends, Once
<1>1. i \in 1 .. Len(w) /\ w[i] = <<a, n>> /\ j \in 1 .. Len(w) /\ w[j] = <<a, n>>
  BY DEF Appends
<1> QED
  BY <1>1 DEF Appends, Once

\* The first command leaves the wire.
LEMMA TailOf ==
  ASSUME NEW w \in Seq(Command), w # << >>
  PROVE  /\ Tail(w) \in Seq(Command) /\ Len(w) \in Nat \ {0} /\ Len(Tail(w)) = Len(w) - 1
         /\ DOMAIN w = 1 .. Len(w) /\ DOMAIN Tail(w) = 1 .. (Len(w) - 1)
         /\ \A i \in 1 .. (Len(w) - 1) : Tail(w)[i] = w[i + 1]
         /\ Head(w) = w[1] /\ Head(w) \in Command
OBVIOUS

LEMMA TailHas ==
  ASSUME NEW w \in Seq(Command), w # << >>, NEW a, NEW m
  PROVE  /\ Has(Tail(w), a, m) => Has(w, a, m)
         /\ Has(w, a, m) => Has(Tail(w), a, m) \/ Head(w) = <<a, m>>
<1>1. ASSUME Has(Tail(w), a, m)
      PROVE  Has(w, a, m)
  <2>1. PICK i \in 1 .. (Len(w) - 1) : Tail(w)[i] = <<a, m>>
    BY <1>1, TailOf DEF Has
  <2>2. i + 1 \in 1 .. Len(w) /\ w[i + 1] = <<a, m>>
    BY <2>1, TailOf
  <2> QED
    BY <2>2, TailOf DEF Has
<1>2. ASSUME Has(w, a, m), Head(w) # <<a, m>>
      PROVE  Has(Tail(w), a, m)
  <2>1. PICK i \in 1 .. Len(w) : w[i] = <<a, m>>
    BY <1>2, TailOf DEF Has
  <2>2. i # 1
    BY <1>2, <2>1, TailOf
  <2>3. i - 1 \in 1 .. (Len(w) - 1) /\ (i - 1) + 1 = i
    BY <2>2, TailOf
  <2>4. Tail(w)[i - 1] = <<a, m>>
    BY <2>1, <2>3, TailOf
  <2> QED
    BY <2>3, <2>4, TailOf DEF Has
<1> QED
  BY <1>1, <1>2

LEMMA TailFollowed ==
  ASSUME NEW w \in Seq(Command), w # << >>, NEW a, NEW b, NEW m, Followed(w, a, b, m)
  PROVE  /\ Followed(Tail(w), a, b, m)
         /\ Head(w) = <<a, m>> => Has(Tail(w), b, m)
<1>1. ASSUME NEW i \in 1 .. Len(w), w[i] = <<a, m>>
      PROVE  \E j \in 1 .. (Len(w) - 1) : i < j + 1 /\ Tail(w)[j] = <<b, m>>
  <2>1. PICK j \in 1 .. Len(w) : i < j /\ w[j] = <<b, m>>
    BY <1>1, TailOf DEF Followed
  <2>2. j - 1 \in 1 .. (Len(w) - 1) /\ (j - 1) + 1 = j
    BY <2>1, TailOf
  <2> QED
    BY <2>1, <2>2, TailOf
<1>2. Followed(Tail(w), a, b, m)
  <2> SUFFICES ASSUME NEW i \in 1 .. (Len(w) - 1), Tail(w)[i] = <<a, m>>
               PROVE  \E j \in 1 .. (Len(w) - 1) : i < j /\ Tail(w)[j] = <<b, m>>
    BY TailOf DEF Followed
  <2>1. i + 1 \in 1 .. Len(w) /\ w[i + 1] = <<a, m>>
    BY TailOf
  <2>2. PICK j \in 1 .. (Len(w) - 1) : i + 1 < j + 1 /\ Tail(w)[j] = <<b, m>>
    BY <1>1, <2>1
  <2> QED
    BY <2>2, TailOf
<1>3. ASSUME Head(w) = <<a, m>>
      PROVE  Has(Tail(w), b, m)
  <2>1. 1 \in 1 .. Len(w) /\ w[1] = <<a, m>>
    BY <1>3, TailOf
  <2>2. PICK j \in 1 .. (Len(w) - 1) : Tail(w)[j] = <<b, m>>
    BY <1>1, <2>1
  <2> QED
    BY <2>2, TailOf DEF Has
<1> QED
  BY <1>2, <1>3

LEMMA TailPrecedes ==
  ASSUME NEW w \in Seq(Command), w # << >>, NEW a, NEW b, NEW m, Precedes(w, a, b, m)
  PROVE  /\ Precedes(Tail(w), a, b, m)
         /\ Head(w) = <<b, m>> => ~ Has(w, a, m)
<1>1. Precedes(Tail(w), a, b, m)
  <2> SUFFICES ASSUME NEW i \in 1 .. (Len(w) - 1), NEW j \in 1 .. (Len(w) - 1),
                      Tail(w)[i] = <<a, m>>, Tail(w)[j] = <<b, m>>
               PROVE  i < j
    BY TailOf DEF Precedes
  <2>1. /\ i + 1 \in 1 .. Len(w) /\ w[i + 1] = <<a, m>>
        /\ j + 1 \in 1 .. Len(w) /\ w[j + 1] = <<b, m>>
    BY TailOf
  <2>2. i + 1 < j + 1
    BY <2>1, TailOf DEF Precedes
  <2> QED
    BY <2>2, TailOf
<1>2. Head(w) = <<b, m>> => ~ Has(w, a, m)
  BY TailOf DEF Has, Precedes
<1> QED
  BY <1>1, <1>2

LEMMA TailOnce ==
  ASSUME NEW w \in Seq(Command), w # << >>, NEW a, NEW m, Once(w, a, m)
  PROVE  /\ Once(Tail(w), a, m)
         /\ Head(w) = <<a, m>> => ~ Has(Tail(w), a, m)
<1>1. ASSUME NEW i \in 1 .. (Len(w) - 1), Tail(w)[i] = <<a, m>>
      PROVE  i + 1 \in 1 .. Len(w) /\ w[i + 1] = <<a, m>>
  BY <1>1, TailOf
<1>2. Once(Tail(w), a, m)
  <2> SUFFICES ASSUME NEW i \in 1 .. (Len(w) - 1), NEW j \in 1 .. (Len(w) - 1),
                      Tail(w)[i] = <<a, m>>, Tail(w)[j] = <<a, m>>
               PROVE  i = j
    BY TailOf DEF Once
  <2>1. i + 1 = j + 1
    BY <1>1, TailOf DEF Once
  <2> QED
    BY <2>1
<1>3. ASSUME Head(w) = <<a, m>>, Has(Tail(w), a, m)
      PROVE  FALSE
  <2>1. PICK i \in 1 .. (Len(w) - 1) : Tail(w)[i] = <<a, m>>
    BY <1>3, TailOf DEF Has
  <2>2. i + 1 \in 1 .. Len(w) /\ w[i + 1] = <<a, m>>
    BY <1>1, <2>1
  <2>3. 1 \in 1 .. Len(w) /\ w[1] = <<a, m>>
    BY <1>3, TailOf
  <2>4. i + 1 = 1
    BY <2>2, <2>3, TailOf DEF Once
  <2> QED
    BY <2>4
<1> QED
  BY <1>2, <1>3

LEMMA Sends ==
  ASSUME wire \in Seq(Command), NEW m
  PROVE  /\ \A a : <<a, m>> \in Command /\ Send(<<a>>, m) =>
              wire' \in Seq(Command) /\ Len(wire') =< MaxWire /\ Appends(wire, wire', {a}, m)
         /\ \A a, b : <<a, m>> \in Command /\ <<b, m>> \in Command /\ Send(<<a, b>>, m) =>
              /\ wire' \in Seq(Command) /\ Len(wire') =< MaxWire
              /\ Appends(wire, wire', {a, b}, m)
              /\ Len(wire') = Len(wire) + 2
              /\ wire'[Len(wire) + 1] = <<a, m>> /\ wire'[Len(wire) + 2] = <<b, m>>
<1>1. ASSUME NEW a, <<a, m>> \in Command, Send(<<a>>, m)
      PROVE  wire' \in Seq(Command) /\ Len(wire') =< MaxWire /\ Appends(wire, wire', {a}, m)
  <2> DEFINE c == [i \in 1 .. Len(<<a>>) |-> <<<<a>>[i], m>>]
  <2>1. c \in Seq(Command) /\ Len(c) = 1 /\ c[1] = <<a, m>>
    BY <1>1, SentOne
  <2>2. Len(wire) + Len(<<a>>) =< MaxWire /\ wire' = wire \o c
    BY <1>1 DEF Send
  <2>3. Len(<<a>>) = 1
    OBVIOUS
  <2> HIDE DEF c
  <2>4. Sent(wire, c, wire')
    BY <2>1, <2>2, Appended
  <2>5. Len(wire') = Len(wire) + 1
    BY <2>1, <2>4 DEF Sent
  <2> QED
    BY <2>1, <2>2, <2>3, <2>4, <2>5, AppendOne
<1>2. ASSUME NEW a, NEW b, <<a, m>> \in Command, <<b, m>> \in Command, Send(<<a, b>>, m)
      PROVE  /\ wire' \in Seq(Command) /\ Len(wire') =< MaxWire
             /\ Appends(wire, wire', {a, b}, m)
             /\ Len(wire') = Len(wire) + 2
             /\ wire'[Len(wire) + 1] = <<a, m>> /\ wire'[Len(wire) + 2] = <<b, m>>
  <2> DEFINE c == [i \in 1 .. Len(<<a, b>>) |-> <<<<a, b>>[i], m>>]
  <2>1. c \in Seq(Command) /\ Len(c) = 2 /\ c[1] = <<a, m>> /\ c[2] = <<b, m>>
    BY <1>2, SentTwo
  <2>2. Len(wire) + Len(<<a, b>>) =< MaxWire /\ wire' = wire \o c
    BY <1>2 DEF Send
  <2>3. Len(<<a, b>>) = 2
    OBVIOUS
  <2> HIDE DEF c
  <2>4. Sent(wire, c, wire')
    BY <2>1, <2>2, Appended
  <2>5. wire' \in Seq(Command) /\ Appends(wire, wire', {a, b}, m)
    BY <2>1, <2>4, AppendTwo
  <2>6. /\ Len(wire') = Len(wire) + 2
        /\ wire'[Len(wire) + 1] = <<a, m>> /\ wire'[Len(wire) + 2] = <<b, m>>
    BY <2>1, <2>4 DEF Sent
  <2> QED
    BY <2>2, <2>3, <2>5, <2>6
<1> QED
  BY <1>1, <1>2

\* What is under way for one moment does not change.
SameFor(w, v, n) ==
  /\ \A a : Has(v, a, n) <=> Has(w, a, n)
  /\ \A a, b : Followed(w, a, b, n) => Followed(v, a, b, n)
  /\ \A a, b : Precedes(w, a, b, n) => Precedes(v, a, b, n)
  /\ \A a : Once(w, a, n) => Once(v, a, n)
  /\ (\A i \in DOMAIN w : w[i][2] # n) => \A i \in DOMAIN v : v[i][2] # n

LEMMA AppendedSame ==
  ASSUME NEW w, NEW v, NEW A, NEW m, Appends(w, v, A, m), NEW n, n # m
  PROVE  SameFor(w, v, n)
<1>1. \A a : Has(v, a, n) <=> Has(w, a, n)
  BY AppendedHas
<1>2. \A a, b : Followed(w, a, b, n) => Followed(v, a, b, n)
  BY AppendedFollowed
<1>3. \A a, b : Precedes(w, a, b, n) => Precedes(v, a, b, n)
  BY AppendedPrecedes
<1>4. \A a : Once(w, a, n) => Once(v, a, n)
  BY AppendedOnce
<1>5. ASSUME \A i \in DOMAIN w : w[i][2] # n, NEW i \in DOMAIN v
      PROVE  v[i][2] # n
  <2>1. CASE i > Len(w)
    BY <1>5, <2>1 DEF Appends
  <2>2. CASE ~ (i > Len(w))
    <3>1. i \in DOMAIN w /\ v[i] = w[i]
      BY <1>5, <2>2 DEF Appends
    <3> QED
      BY <1>5, <3>1
  <2> QED
    BY <2>1, <2>2
<1> QED
  BY <1>1, <1>2, <1>3, <1>4, <1>5 DEF SameFor

LEMMA TailSame ==
  ASSUME NEW w \in Seq(Command), w # << >>, NEW n, Head(w)[2] # n
  PROVE  SameFor(w, Tail(w), n)
<1>1. \A a : Has(Tail(w), a, n) <=> Has(w, a, n)
  BY TailHas
<1>2. \A a, b : Followed(w, a, b, n) => Followed(Tail(w), a, b, n)
  BY TailFollowed
<1>3. \A a, b : Precedes(w, a, b, n) => Precedes(Tail(w), a, b, n)
  BY TailPrecedes
<1>4. \A a : Once(w, a, n) => Once(Tail(w), a, n)
  BY TailOnce
<1>5. ASSUME \A i \in DOMAIN w : w[i][2] # n, NEW i \in DOMAIN Tail(w)
      PROVE  Tail(w)[i][2] # n
  <2>1. i \in 1 .. (Len(w) - 1) /\ i + 1 \in DOMAIN w
    BY <1>5, TailOf
  <2> QED
    BY <1>5, <2>1, TailOf
<1> QED
  BY <1>1, <1>2, <1>3, <1>4, <1>5 DEF SameFor

\* A step that is about another moment.
LEMMA OthersKept ==
  ASSUME NEW n, MomentOK(n), SameFor(wire, wire', n),
         local'[n] = local[n], details'[n] = details[n],
         n \in sorted' <=> n \in sorted, n \in read' <=> n \in read,
         n \in used' <=> n \in used, n \in doubtful' <=> n \in doubtful,
         n \in cancelled' <=> n \in cancelled
  PROVE  MomentOK(n)'
<1>1. Unknown(n) => Unknown(n)'
  BY DEF Unknown, SameFor
<1>2. Kept(n) => Kept(n)'
  BY DEF Kept, SameFor
<1>3. Gone(n) => Gone(n)'
  BY DEF Gone, SameFor
<1> QED
  BY <1>1, <1>2, <1>3 DEF MomentOK

LEMMA MomentScheduled ==
  ASSUME MomentInv, NEW m \in Moments, Schedule(m)
  PROVE  MomentInv'
<1>1. <<"zadd", m>> \in Command /\ <<"hset", m>> \in Command
  BY DEF Command
<1>2. wire \in Seq(Command) /\ Send(<<"zadd", "hset">>, m)
  BY DEF MomentInv, MomentTypeOK, Schedule
<1>3. /\ wire' \in Seq(Command) /\ Len(wire') =< MaxWire
      /\ Appends(wire, wire', {"zadd", "hset"}, m)
      /\ Len(wire') = Len(wire) + 2
      /\ wire'[Len(wire) + 1] = <<"zadd", m>> /\ wire'[Len(wire) + 2] = <<"hset", m>>
  BY <1>1, <1>2, Sends
<1>4. MomentTypeOK'
  BY <1>3 DEF MomentInv, MomentTypeOK, MomentStatus, Schedule
<1>5. Unknown(m) /\ m \notin read \cup doubtful \cup cancelled
  BY DEF MomentInv, MomentTypeOK, MomentOK, Schedule
<1>6. \A a : ~ Has(wire, a, m)
  BY <1>5 DEF Unknown, Has
<1>7. /\ Has(wire', "zadd", m) /\ Has(wire', "hset", m)
      /\ ~ Has(wire', "zrem", m) /\ ~ Has(wire', "hdel", m)
      /\ ~ Has(wire', "hget", m) /\ ~ Has(wire', "hset_delivered", m)
  <2>1. \A a : Has(wire', a, m) <=> a \in {"zadd", "hset"}
    BY <1>3, <1>6, AppendedHas
  <2>2. \A a : Has(wire', a, m) <=> a = "zadd" \/ a = "hset"
    BY <2>1
  <2>3. Has(wire', "zadd", m) /\ Has(wire', "hset", m)
    BY <2>2
  <2>4. ~ Has(wire', "zrem", m) /\ ~ Has(wire', "hdel", m)
    BY <2>2
  <2>5. ~ Has(wire', "hget", m) /\ ~ Has(wire', "hset_delivered", m)
    BY <2>2
  <2> QED
    BY <2>3, <2>4, <2>5
<1>8. Once(wire', "hset", m)
  <2> SUFFICES ASSUME NEW i \in 1 .. Len(wire'), wire'[i] = <<"hset", m>>
               PROVE  i = Len(wire) + 2
    BY <1>3 DEF Once, Appends
  <2>1. CASE i > Len(wire)
    BY <1>3, <2>1 DEF Appends
  <2>2. CASE ~ (i > Len(wire))
    <3>1. i \in DOMAIN wire /\ wire[i] = <<"hset", m>>
      BY <1>3, <2>2 DEF Appends
    <3> QED
      BY <1>6, <3>1 DEF Has
  <2> QED
    BY <2>1, <2>2
<1>9. Precedes(wire', "hset", "hget", m) /\ Precedes(wire', "hset", "hset_delivered", m)
  BY <1>7 DEF Precedes, Has
<1>10. local'[m] = "SCHEDULED" /\ details'[m] = "ABSENT" /\ m \notin read'
  BY <1>5 DEF Schedule, MomentInv, MomentTypeOK, Unknown
<1>11. Kept(m)'
  BY <1>7, <1>8, <1>9, <1>10 DEF Kept
<1>12. m \in used' /\ m \notin cancelled'
  BY <1>5 DEF Schedule
<1>13. ASSUME NEW n \in Moments
       PROVE  MomentOK(n)'
  <2>1. CASE n = m
    BY <1>11, <1>12, <2>1 DEF MomentOK
  <2>2. CASE n # m
    <3>1. SameFor(wire, wire', n)
      BY <1>3, <2>2, AppendedSame
    <3>2. local'[n] = local[n]
      BY <2>2 DEF Schedule, MomentInv, MomentTypeOK
    <3> QED
      BY <2>2, <3>1, <3>2, OthersKept DEF Schedule, MomentInv
  <2> QED
    BY <2>1, <2>2
<1> QED
  BY <1>4, <1>13 DEF MomentInv

LEMMA MomentCancelled ==
  ASSUME MomentInv, NEW m \in Moments, Cancel(m)
  PROVE  MomentInv'
<1>1. <<"zrem", m>> \in Command /\ <<"hdel", m>> \in Command
  BY DEF Command
<1>2. wire \in Seq(Command) /\ Send(<<"zrem", "hdel">>, m)
  BY DEF MomentInv, MomentTypeOK, Cancel, RemoveItem
<1>3. /\ wire' \in Seq(Command) /\ Len(wire') =< MaxWire
      /\ Appends(wire, wire', {"zrem", "hdel"}, m)
  BY <1>1, <1>2, Sends
<1>4. MomentTypeOK'
  BY <1>3 DEF MomentInv, MomentTypeOK, MomentStatus, Cancel
<1>5. Gone(m)' /\ m \in used' /\ m \in cancelled'
  <2>1. Has(wire', "zrem", m) /\ Has(wire', "hdel", m)
    BY <1>3, AppendedHas
  <2>2. Followed(wire', "zadd", "zrem", m)
    BY <1>3, AppendedFollowed
  <2>3. Followed(wire', "hset", "hdel", m)
    BY <1>3, AppendedFollowed
  <2>4. local'[m] = "ABSENT" /\ m \in used' /\ m \in cancelled'
    BY DEF Cancel, MomentInv, MomentTypeOK
  <2> QED
    BY <2>1, <2>2, <2>3, <2>4 DEF Gone
<1>6. ASSUME NEW n \in Moments
      PROVE  MomentOK(n)'
  <2>1. CASE n = m
    BY <1>5, <2>1 DEF MomentOK
  <2>2. CASE n # m
    <3>1. SameFor(wire, wire', n)
      BY <1>3, <2>2, AppendedSame
    <3>2. local'[n] = local[n]
      BY <2>2 DEF Cancel, MomentInv, MomentTypeOK
    <3> QED
      BY <2>2, <3>1, <3>2, OthersKept DEF Cancel, MomentInv
  <2> QED
    BY <2>1, <2>2
<1> QED
  BY <1>4, <1>6 DEF MomentInv

LEMMA MomentMarked ==
  ASSUME MomentInv, NEW m \in Moments, MarkDelivered(m)
  PROVE  MomentInv'
<1>1. <<"hget", m>> \in Command
  BY DEF Command
<1>2. wire \in Seq(Command) /\ Send(<<"hget">>, m)
  BY DEF MomentInv, MomentTypeOK, MarkDelivered
<1>3. /\ wire' \in Seq(Command) /\ Len(wire') =< MaxWire
      /\ Appends(wire, wire', {"hget"}, m)
  BY <1>1, <1>2, Sends
<1>4. MomentTypeOK'
  BY <1>3 DEF MomentInv, MomentTypeOK, MomentStatus, MarkDelivered
<1>5. \A a : Has(wire', a, m) <=> Has(wire, a, m) \/ a = "hget"
  BY <1>3, AppendedHas
<1>6. local'[m] = "DELIVERED"
  BY DEF MomentInv, MomentTypeOK, MarkDelivered
<1>7. ASSUME Kept(m)
      PROVE  Kept(m)'
  <2>1. /\ Once(wire', "hset", m) /\ Precedes(wire', "hset", "hget", m)
        /\ Precedes(wire', "hset", "hset_delivered", m)
    BY <1>3, <1>7, AppendedOnce, AppendedPrecedes DEF Kept
  <2>2. ~ Has(wire', "zrem", m) /\ ~ Has(wire', "hdel", m) /\ Has(wire', "hget", m)
    BY <1>5, <1>7 DEF Kept
  <2>3. /\ Has(wire', "hset", m) <=> Has(wire, "hset", m)
        /\ Has(wire', "zadd", m) <=> Has(wire, "zadd", m)
    BY <1>5
  <2> QED
    BY <1>6, <1>7, <2>1, <2>2, <2>3 DEF Kept, MarkDelivered
<1>8. ASSUME NEW n \in Moments
      PROVE  MomentOK(n)'
  <2>1. CASE n = m
    <3>1. m \in used \ (cancelled \ doubtful)
      BY DEF MomentInv, MomentOK, Unknown, Gone, MarkDelivered
    <3>2. m \in used \ (doubtful \cup cancelled) => Kept(m)
      BY DEF MomentInv, MomentOK
    <3> QED
      BY <1>7, <2>1, <3>1, <3>2 DEF MomentOK, MarkDelivered
  <2>2. CASE n # m
    <3>1. SameFor(wire, wire', n)
      BY <1>3, <2>2, AppendedSame
    <3>2. local'[n] = local[n]
      BY <2>2 DEF MarkDelivered, MomentInv, MomentTypeOK
    <3> QED
      BY <2>2, <3>1, <3>2, OthersKept DEF MarkDelivered, MomentInv
  <2> QED
    BY <2>1, <2>2
<1> QED
  BY <1>4, <1>8 DEF MomentInv

LEMMA MomentUpdated ==
  ASSUME MomentInv, NEW m \in Moments, UpdateItem(m)
  PROVE  MomentInv'
<1>1. <<"hset_delivered", m>> \in Command
  BY DEF Command
<1>2. wire \in Seq(Command) /\ Send(<<"hset_delivered">>, m)
  BY DEF MomentInv, MomentTypeOK, UpdateItem
<1>3. /\ wire' \in Seq(Command) /\ Len(wire') =< MaxWire
      /\ Appends(wire, wire', {"hset_delivered"}, m)
  BY <1>1, <1>2, Sends
<1>4. MomentTypeOK'
  BY <1>3 DEF MomentInv, MomentTypeOK, UpdateItem
<1>5. \A a : Has(wire', a, m) <=> Has(wire, a, m) \/ a = "hset_delivered"
  BY <1>3, AppendedHas
<1>6. m \in used /\ m \in read /\ m \notin read'
  BY DEF MomentInv, MomentTypeOK, UpdateItem
<1>7. ASSUME Kept(m)
      PROVE  Kept(m)'
  <2>1. /\ Once(wire', "hset", m) /\ Precedes(wire', "hset", "hget", m)
        /\ Precedes(wire', "hset", "hset_delivered", m)
    BY <1>3, <1>7, AppendedOnce, AppendedPrecedes DEF Kept
  <2>2. ~ Has(wire', "zrem", m) /\ ~ Has(wire', "hdel", m) /\ Has(wire', "hset_delivered", m)
    BY <1>5, <1>7 DEF Kept
  <2>3. ~ Has(wire', "hset", m) /\ (Has(wire', "zadd", m) <=> Has(wire, "zadd", m))
    BY <1>5, <1>6, <1>7 DEF Kept
  <2>4. local[m] # "SCHEDULED" /\ details[m] # "ABSENT"
    BY <1>5, <1>6, <1>7, <2>3 DEF Kept
  <2> QED
    BY <1>7, <2>1, <2>2, <2>3, <2>4 DEF Kept, UpdateItem
<1>8. ASSUME Gone(m)
      PROVE  Gone(m)'
  <2>1. Followed(wire', "zadd", "zrem", m) /\ Followed(wire', "hset", "hdel", m)
    BY <1>3, <1>8, AppendedFollowed DEF Gone
  <2> QED
    BY <1>5, <1>8, <2>1 DEF Gone, UpdateItem
<1>9. ASSUME NEW n \in Moments
      PROVE  MomentOK(n)'
  <2>1. CASE n = m
    BY <1>6, <1>7, <1>8, <2>1 DEF MomentOK, MomentInv, UpdateItem
  <2>2. CASE n # m
    <3>1. SameFor(wire, wire', n)
      BY <1>3, <2>2, AppendedSame
    <3> QED
      BY <2>2, <3>1, OthersKept DEF UpdateItem, MomentInv
  <2> QED
    BY <2>1, <2>2
<1> QED
  BY <1>4, <1>9 DEF MomentInv

LEMMA MomentFails ==
  ASSUME MomentInv, CommandFails
  PROVE  MomentInv'
<1>1. wire \in Seq(Command) /\ wire # << >> /\ wire' = Tail(wire)
  BY DEF MomentInv, MomentTypeOK, CommandFails
<1> DEFINE m == Head(wire)[2]
<1>2. /\ wire' \in Seq(Command) /\ Len(wire') =< MaxWire
      /\ m \in Moments /\ 1 \in DOMAIN wire /\ wire[1][2] = m
  <2>1. Len(wire) =< MaxWire
    BY DEF MomentInv, MomentTypeOK
  <2>2. Len(wire') = Len(wire) - 1 /\ Len(wire) \in Nat
    BY <1>1, TailOf
  <2>3. Len(wire') =< MaxWire
    BY <2>1, <2>2, MomentAssumption
  <2>4. 1 \in DOMAIN wire /\ wire[1] = Head(wire) /\ Head(wire) \in Command
    BY <1>1, TailOf
  <2>5. m \in Moments
    BY <2>4 DEF Command
  <2> QED
    BY <1>1, <2>3, <2>4, <2>5, TailOf
<1> HIDE DEF m
<1>3. m \in used
  BY <1>2 DEF MomentInv, MomentOK, Unknown
<1>4. doubtful' = doubtful \cup {m}
  BY DEF CommandFails, m
<1>5. MomentTypeOK'
  BY <1>2, <1>3, <1>4 DEF MomentInv, MomentTypeOK, CommandFails
<1>6. ASSUME NEW n \in Moments
      PROVE  MomentOK(n)'
  <2>1. CASE n = m
    BY <1>3, <1>4, <2>1 DEF MomentOK, CommandFails
  <2>2. CASE n # m
    <3>1. SameFor(wire, wire', n)
      BY <1>1, <2>2, TailSame DEF m
    <3> QED
      BY <1>4, <2>2, <3>1, OthersKept DEF CommandFails, MomentInv
  <2> QED
    BY <2>1, <2>2
<1> QED
  BY <1>5, <1>6 DEF MomentInv

LEMMA MomentRestarts ==
  ASSUME MomentInv, Restart
  PROVE  MomentInv'
<1>1. wire' = << >> /\ wire' \in Seq(Command)
  BY DEF Restart
<1>2. Len(wire') =< MaxWire
  <2>1. Len(wire) =< MaxWire /\ Len(wire) \in Nat
    BY DEF MomentInv, MomentTypeOK
  <2>2. Len(wire') = 0
    BY <1>1
  <2> QED
    BY <2>1, <2>2, MomentAssumption
<1>3. MomentTypeOK'
  BY <1>1, <1>2 DEF MomentInv, MomentTypeOK, MomentStatus, Restart
<1>4. ASSUME NEW n \in Moments
      PROVE  MomentOK(n)'
  <2>1. CASE n \in used
    BY <2>1 DEF Restart, MomentOK
  <2>2. CASE n \notin used
    <3>1. n \notin used' /\ n \notin cancelled'
      BY <2>2 DEF Restart, MomentInv, MomentTypeOK
    <3>2. details'[n] = "ABSENT" /\ local'[n] = "ABSENT"
      BY <1>4, <2>2 DEF Restart, MomentInv, MomentOK, Unknown
    <3>3. \A i \in DOMAIN wire' : FALSE
      BY <1>1
    <3>4. Unknown(n)'
      BY <3>2, <3>3 DEF Unknown
    <3> QED
      BY <3>1, <3>4 DEF MomentOK
  <2> QED
    BY <2>1, <2>2
<1> QED
  BY <1>3, <1>4 DEF MomentInv

\* Redis executes the first command, which is about m.
LEMMA MomentExecuted ==
  ASSUME MomentInv, Executes, NEW op, NEW m, Head(wire) = <<op, m>>, m \in Moments,
         Kept(m)
  PROVE  Kept(m)'
<1>1. wire \in Seq(Command) /\ wire # << >> /\ wire' = Tail(wire)
  BY DEF MomentInv, MomentTypeOK, Executes
<1>2. \A a : /\ Has(wire', a, m) => Has(wire, a, m)
             /\ a # op => (Has(wire', a, m) <=> Has(wire, a, m))
  BY <1>1, TailHas
<1>3. Has(wire, op, m)
  <2>1. 1 \in DOMAIN wire /\ wire[1] = Head(wire)
    BY <1>1, TailOf
  <2> QED
    BY <2>1 DEF Has
<1>4. /\ op = "zadd" => sorted' = sorted \cup {m}
      /\ op \notin {"zadd", "zrem"} => sorted' = sorted
      /\ op = "hset" => details'[m] = "SCHEDULED"
      /\ op = "hset_delivered" => details'[m] = "DELIVERED"
      /\ op \notin {"hset", "hset_delivered", "hdel"} => details' = details
      /\ op = "hget" => read' = IF details[m] = "ABSENT" THEN read ELSE read \cup {m}
      /\ op # "hget" => read' = read
      /\ local' = local
  BY DEF Executes, MarkRead, MomentInv, MomentTypeOK
<1>5. /\ Once(wire', "hset", m) /\ Precedes(wire', "hset", "hget", m)
      /\ Precedes(wire', "hset", "hset_delivered", m)
      /\ op = "hset" => ~ Has(wire', "hset", m)
      /\ op \in {"hget", "hset_delivered"} => ~ Has(wire, "hset", m)
  <2>1. Once(wire', "hset", m) /\ (op = "hset" => ~ Has(wire', "hset", m))
    BY <1>1, TailOnce DEF Kept
  <2>2. Precedes(wire', "hset", "hget", m) /\ (op = "hget" => ~ Has(wire, "hset", m))
    BY <1>1, TailPrecedes DEF Kept
  <2>3. /\ Precedes(wire', "hset", "hset_delivered", m)
        /\ op = "hset_delivered" => ~ Has(wire, "hset", m)
    BY <1>1, TailPrecedes DEF Kept
  <2> QED
    BY <2>1, <2>2, <2>3
<1>6. op \notin {"zrem", "hdel"}
  BY <1>3 DEF Kept
<1>7. CASE op = "zadd"
  BY <1>2, <1>4, <1>5, <1>7 DEF Kept
<1>8. CASE op = "hset"
  BY <1>2, <1>3, <1>4, <1>5, <1>8 DEF Kept
<1>9. CASE op = "hget"
  BY <1>2, <1>3, <1>4, <1>5, <1>9 DEF Kept
<1>10. CASE op = "hset_delivered"
  BY <1>2, <1>3, <1>4, <1>5, <1>10 DEF Kept
<1>11. op \in {"zadd", "hset", "zrem", "hdel", "hget", "hset_delivered"}
  BY <1>1, TailOf DEF Command
<1> QED
  BY <1>6, <1>7, <1>8, <1>9, <1>10, <1>11

LEMMA MomentRemoved ==
  ASSUME MomentInv, Executes, NEW op, NEW m, Head(wire) = <<op, m>>, m \in Moments,
         Gone(m)
  PROVE  Gone(m)'
<1>1. wire \in Seq(Command) /\ wire # << >> /\ wire' = Tail(wire)
  BY DEF MomentInv, MomentTypeOK, Executes
<1>2. \A a : a # op => (Has(wire', a, m) <=> Has(wire, a, m))
  BY <1>1, TailHas
<1>3. /\ Followed(wire', "zadd", "zrem", m) /\ Followed(wire', "hset", "hdel", m)
      /\ op = "zadd" => Has(wire', "zrem", m)
      /\ op = "hset" => Has(wire', "hdel", m)
  BY <1>1, TailFollowed DEF Gone
<1>4. local'[m] = "ABSENT"
  BY DEF Executes, Gone
<1>5. ASSUME m \in sorted'
      PROVE  Has(wire', "zrem", m)
  <2>1. op = "zadd" \/ (op # "zrem" /\ m \in sorted)
    BY <1>5 DEF Executes
  <2> QED
    BY <1>2, <1>3, <2>1 DEF Gone
<1>6. ASSUME details'[m] = "SCHEDULED"
      PROVE  Has(wire', "hdel", m)
  <2>1. op = "hset" \/ (op # "hdel" /\ details[m] = "SCHEDULED")
    BY <1>6 DEF Executes, MomentInv, MomentTypeOK
  <2> QED
    BY <1>2, <1>3, <2>1 DEF Gone
<1> QED
  BY <1>3, <1>4, <1>5, <1>6 DEF Gone

LEMMA MomentExecutes ==
  ASSUME MomentInv, Executes
  PROVE  MomentInv'
<1>1. wire \in Seq(Command) /\ wire # << >> /\ wire' = Tail(wire)
  BY DEF MomentInv, MomentTypeOK, Executes
<1>2. PICK op \in {"zadd", "hset", "zrem", "hdel", "hget", "hset_delivered"}, m \in Moments :
        Head(wire) = <<op, m>>
  BY <1>1, TailOf DEF Command
<1>3. m \in used
  BY <1>1, <1>2, TailOf DEF MomentInv, MomentOK, Unknown
<1>4. wire' \in Seq(Command) /\ Len(wire') =< MaxWire
  <2>1. Len(wire) =< MaxWire
    BY DEF MomentInv, MomentTypeOK
  <2>2. Len(wire') = Len(wire) - 1 /\ Len(wire) \in Nat
    BY <1>1, TailOf
  <2> QED
    BY <1>1, <2>1, <2>2, TailOf, MomentAssumption
<1>5. /\ sorted' \subseteq sorted \cup {m}
      /\ read' \subseteq read \cup {m}
      /\ details' \in [Moments -> MomentStatus]
  <2>1. sorted' \subseteq sorted \cup {m}
    BY <1>2 DEF Executes
  <2>2. read' \subseteq read \cup {m}
    BY <1>2 DEF Executes, MarkRead
  <2>3. details' \in [Moments -> MomentStatus]
    <3> DEFINE To(s) == [details EXCEPT ![m] = s]
    <3>1. details \in [Moments -> MomentStatus]
      BY DEF MomentInv, MomentTypeOK
    <3>2. \A s \in MomentStatus : To(s) \in [Moments -> MomentStatus]
      BY <3>1
    <3>3. details' \in {details, To("SCHEDULED"), To("DELIVERED"), To("ABSENT")}
      <4> DEFINE o == Head(wire)[1]
                 h == Head(wire)[2]
      <4>0. o = op /\ h = m
        BY <1>2
      <4>5. /\ o = "hset" => details' = [details EXCEPT ![h] = "SCHEDULED"]
            /\ o = "hset_delivered" => details' = [details EXCEPT ![h] = "DELIVERED"]
            /\ o = "hdel" => details' = [details EXCEPT ![h] = "ABSENT"]
        BY DEF Executes
      <4> HIDE DEF o, h
      <4>1. CASE op = "hset"
        BY <4>0, <4>1, <4>5
      <4>2. CASE op = "hset_delivered"
        BY <4>0, <4>2, <4>5
      <4>3. CASE op = "hdel"
        BY <4>0, <4>3, <4>5
      <4>4. CASE op \notin {"hset", "hset_delivered", "hdel"}
        BY <1>2, <4>4 DEF Executes
      <4> QED
        BY <4>1, <4>2, <4>3, <4>4
    <3> HIDE DEF To
    <3> QED
      BY <3>1, <3>2, <3>3 DEF MomentStatus
  <2> QED
    BY <2>1, <2>2, <2>3
<1>6. MomentTypeOK'
  <2>1. sorted' \cup read' \cup doubtful' \cup cancelled' \subseteq used'
    BY <1>3, <1>5 DEF MomentInv, MomentTypeOK, Executes
  <2>2. local' \in [Moments -> MomentStatus] /\ used' \subseteq Moments
    BY DEF MomentInv, MomentTypeOK, Executes
  <2> QED
    BY <1>4, <1>5, <2>1, <2>2 DEF MomentTypeOK
<1>7. ASSUME NEW n \in Moments
      PROVE  MomentOK(n)'
  <2>1. CASE n = m
    <3>1. Kept(m) => Kept(m)'
      BY <1>2, MomentExecuted
    <3>2. Gone(m) => Gone(m)'
      BY <1>2, MomentRemoved
    <3>3. MomentOK(m) /\ used' = used /\ doubtful' = doubtful /\ cancelled' = cancelled
      BY DEF MomentInv, Executes
    <3>4. /\ n \in used'
          /\ n \in used' \ (doubtful' \cup cancelled') => Kept(n)'
          /\ n \in cancelled' \ doubtful' => Gone(n)'
      BY <1>3, <2>1, <3>1, <3>2, <3>3 DEF MomentOK
    <3> QED
      BY <3>4 DEF MomentOK
  <2>2. CASE n # m
    <3>1. SameFor(wire, wire', n)
      BY <1>1, <1>2, <2>2, TailSame
    <3>2. /\ details'[n] = details[n]
          /\ n \in sorted' <=> n \in sorted
          /\ n \in read' <=> n \in read
      BY <1>2, <2>2 DEF Executes, MarkRead, MomentInv, MomentTypeOK
    <3> QED
      BY <3>1, <3>2, OthersKept DEF Executes, MomentInv
  <2> QED
    BY <2>1, <2>2
<1> QED
  BY <1>6, <1>7 DEF MomentInv

LEMMA MomentStarts == MomentInit => MomentInv
<1> SUFFICES ASSUME MomentInit
             PROVE  MomentInv
  OBVIOUS
<1>1. MomentTypeOK
  <2>1. wire \in Seq(Command) /\ Len(wire) = 0
    BY DEF MomentInit
  <2> QED
    BY <2>1, MomentAssumption DEF MomentInit, MomentTypeOK, MomentStatus
<1>2. \A m \in Moments : MomentOK(m)
  <2>1. DOMAIN wire = {}
    BY DEF MomentInit
  <2> QED
    BY <2>1 DEF MomentInit, MomentOK, Unknown
<1> QED
  BY <1>1, <1>2 DEF MomentInv

LEMMA MomentSteps == MomentInv /\ [MomentNext]_momentVars => MomentInv'
<1> SUFFICES ASSUME MomentInv, [MomentNext]_momentVars
             PROVE  MomentInv'
  OBVIOUS
<1>1. ASSUME NEW m \in Moments,
             Schedule(m) \/ Cancel(m) \/ MarkDelivered(m) \/ UpdateItem(m)
      PROVE  MomentInv'
  BY <1>1, MomentScheduled, MomentCancelled, MomentMarked, MomentUpdated
<1>2. CASE Executes
  BY <1>2, MomentExecutes
<1>3. CASE CommandFails
  BY <1>3, MomentFails
<1>4. CASE Restart
  BY <1>4, MomentRestarts
<1>5. CASE UNCHANGED momentVars
  BY <1>5 DEF momentVars, MomentInv, MomentTypeOK, MomentOK, Unknown, Kept, Gone
<1> QED
  BY <1>1, <1>2, <1>3, <1>4, <1>5 DEF MomentNext

LEMMA MomentSettles == MomentInv => MirrorSettles
<1> SUFFICES ASSUME MomentInv, wire = << >>, read = {}, NEW m \in Moments \ doubtful
             PROVE  /\ m \in sorted <=> local[m] # "ABSENT"
                    /\ local[m] # "ABSENT" => details[m] = local[m]
                    /\ local[m] = "ABSENT" => \/ details[m] = "ABSENT"
                                              \/ details[m] = "DELIVERED" /\ m \in cancelled
  BY DEF MirrorSettles
<1>1. \A a : ~ Has(wire, a, m)
  BY DEF Has
<1>2. MomentOK(m) /\ local[m] \in MomentStatus /\ details[m] \in MomentStatus
  BY DEF MomentInv, MomentTypeOK
<1>3. CASE m \notin used
  BY <1>2, <1>3 DEF MomentInv, MomentTypeOK, MomentOK, Unknown
<1>4. CASE m \in cancelled
  BY <1>1, <1>2, <1>4 DEF MomentOK, Gone, MomentStatus
<1>5. CASE m \in used \ (doubtful \cup cancelled)
  BY <1>1, <1>2, <1>5 DEF MomentOK, Kept, MomentStatus
<1> QED
  BY <1>3, <1>4, <1>5

\* When no command and no update is under way, Redis has every scheduled moment with the
\* status of the local map, unless a command about it was lost; what it has of others
\* are details of moments cancelled in the middle of an update.
THEOREM MirrorCorrect == MomentSpec => []MirrorSettles
<1>1. MomentSpec => []MomentInv
  BY MomentStarts, MomentSteps, PTL DEF MomentSpec
<1> QED
  BY <1>1, MomentSettles, PTL

\* The type invariants, for the theorem about all the parts.
LEMMA MomentTypes == MomentSpec => []MomentTypeOK
<1>1. MomentInv => MomentTypeOK
  BY DEF MomentInv
<1> QED
  BY <1>1, MomentStarts, MomentSteps, PTL DEF MomentSpec

-----------------------------------------------------------------------------
\* CompanionLife.  Functions defined by recursion first: what they are at 0 and at
\* n + 1, for those that stay in a set.

\* A set that holds 0 and with n also n + 1 holds every natural number.
LEMMA NatSteps ==
  ASSUME NEW G, 0 \in G, \A n \in Nat : n \in G => n + 1 \in G
  PROVE  \A n \in Nat : n \in G
<1> SUFFICES ASSUME NEW m \in Nat, m \notin G PROVE FALSE
  OBVIOUS
<1> DEFINE T == Nat \ G
<1>1. PICK n \in T : \A k \in T : n <= k
  <2>1. T \in SUBSET Nat /\ T # {}
    OBVIOUS
  <2> HIDE DEF T
  <2> QED
    BY <2>1, FirstExists
<1>2. n # 0 /\ n - 1 \in Nat
  BY <1>1
<1>3. n - 1 \in G
  BY <1>1, <1>2
<1> QED
  BY <1>1, <1>2, <1>3

\* A function is defined by recursion over the naturals, if every step stays in a set.
LEMMA Recursion ==
  ASSUME NEW D, NEW x0 \in D, NEW step \in [D -> D]
  PROVE  \E f \in [Nat -> D] : f[0] = x0 /\ \A n \in Nat : f[n + 1] = step[f[n]]
<1> DEFINE Upto(m) == {g \in [0 .. m -> D] :
                         g[0] = x0 /\ \A k \in 0 .. m : k # m => g[k + 1] = step[g[k]]}
           G == {m \in Nat : Upto(m) # {}}
<1>1. \A m \in Nat : m \in G
  <2>1. 0 \in G
    <3> DEFINE g == [k \in 0 .. 0 |-> x0]
    <3>1. g \in Upto(0)
      OBVIOUS
    <3> QED
      BY <3>1
  <2>2. ASSUME NEW m \in Nat, m \in G PROVE m + 1 \in G
    <3>1. PICK g \in Upto(m) : TRUE
      BY <2>2
    <3> DEFINE h == [k \in 0 .. m + 1 |-> IF k = m + 1 THEN step[g[m]] ELSE g[k]]
    <3>2. g \in [0 .. m -> D] /\ g[0] = x0 /\ \A k \in 0 .. m : k # m => g[k + 1] = step[g[k]]
      BY <3>1
    <3>3. h \in [0 .. m + 1 -> D]
      BY <3>2
    <3>4. h[0] = x0
      BY <3>2
    <3>5. ASSUME NEW k \in 0 .. m + 1, k # m + 1 PROVE h[k + 1] = step[h[k]]
      <4>1. CASE k = m
        BY <4>1, <3>2
      <4>2. CASE k # m
        <5>1. k \in 0 .. m /\ k + 1 \in 0 .. m /\ k + 1 # m + 1
          BY <3>5, <4>2
        <5> QED
          BY <5>1, <3>2, <3>5, <4>2
      <4> QED
        BY <4>1, <4>2
    <3> HIDE DEF h
    <3>6. h \in Upto(m + 1)
      BY <3>3, <3>4, <3>5
    <3> QED
      BY <3>6
  <2> HIDE DEF G
  <2> QED
    BY <2>1, <2>2, NatSteps
<1> DEFINE it == [m \in Nat |-> CHOOSE g \in Upto(m) : TRUE]
           f == [m \in Nat |-> it[m][m]]
<1>2. ASSUME NEW m \in Nat
      PROVE  /\ it[m] \in [0 .. m -> D] /\ it[m][0] = x0
             /\ \A k \in 0 .. m : k # m => it[m][k + 1] = step[it[m][k]]
  <2>1. Upto(m) # {}
    BY <1>1
  <2> HIDE DEF Upto
  <2>2. it[m] \in Upto(m)
    BY <2>1
  <2> QED
    BY <2>2 DEF Upto
<1> HIDE DEF it, G
<1>3. ASSUME NEW m \in Nat
      PROVE  \A k \in 0 .. m : it[m + 1][k] = it[m][k]
  <2> DEFINE same == {k \in Nat : k <= m => it[m + 1][k] = it[m][k]}
  <2>1. 0 \in same
    BY <1>2
  <2>2. ASSUME NEW k \in Nat, k \in same PROVE k + 1 \in same
    <3> SUFFICES ASSUME k + 1 <= m PROVE it[m + 1][k + 1] = it[m][k + 1]
      OBVIOUS
    <3>1. /\ it[m + 1][k] = it[m][k] /\ k \in 0 .. m /\ k \in 0 .. m + 1
          /\ k # m /\ k # m + 1 /\ m + 1 \in Nat
      BY <2>2
    <3> QED
      BY <3>1, <1>2
  <2>3. \A k \in Nat : k \in same
    <3> HIDE DEF same
    <3> QED
      BY <2>1, <2>2, NatSteps
  <2> QED
    BY <2>3
<1>4. f \in [Nat -> D]
  <2>1. \A m \in Nat : it[m][m] \in D
    BY <1>2
  <2> QED
    BY <2>1
<1>5. f[0] = x0
  BY <1>2
<1>6. ASSUME NEW n \in Nat PROVE f[n + 1] = step[f[n]]
  <2>1. f[n + 1] = it[n + 1][n + 1] /\ f[n] = it[n][n] /\ n + 1 \in Nat
    OBVIOUS
  <2>2. n \in 0 .. n /\ n \in 0 .. n + 1 /\ n # n + 1
    OBVIOUS
  <2>3. it[n + 1][n + 1] = step[it[n + 1][n]]
    BY <2>1, <2>2, <1>2
  <2> QED
    BY <2>1, <2>2, <2>3, <1>3
<1> HIDE DEF f
<1> QED
  BY <1>4, <1>5, <1>6

\* A round is a row and a place in it.
LEMMA RoundsType ==
  /\ \A r \in Rounds : r[1] \in 1 .. 10 /\ r[2] \in 1 .. 8 /\ r = <<r[1], r[2]>>
  /\ \A r \in Rounds : ADJACENCY[r[1]][1] \in CompanionState
  /\ \A r \in Rounds : ADJACENCY[r[1]][1] = "IDLE" <=> r[1] = 1
  /\ \A r \in Rounds : r[2] \in DOMAIN ADJACENCY[r[1]][2]
<1>1. \A i \in DOMAIN ADJACENCY : i \in 1 .. 10 /\ DOMAIN ADJACENCY[i][2] \subseteq 1 .. 8
  BY DEF ADJACENCY
<1>2. \A i \in DOMAIN ADJACENCY :
        ADJACENCY[i][1] \in CompanionState /\ (ADJACENCY[i][1] = "IDLE" <=> i = 1)
  BY DEF ADJACENCY, CompanionState
<1>3. \A r \in Rounds : \E i \in DOMAIN ADJACENCY : r \in {i} \X DOMAIN ADJACENCY[i][2]
  BY DEF Rounds
<1> QED
  BY <1>1, <1>2, <1>3

LEMMA RoundIn ==
  ASSUME NEW i \in DOMAIN ADJACENCY, NEW k \in DOMAIN ADJACENCY[i][2]
  PROVE  <<i, k>> \in Rounds
BY DEF Rounds

\* Who is next to whom, where the proofs need it.
LEMMA IdleRow ==
  ASSUME NEW s \in CompanionState \ {"IDLE", "DRIVING"}
  PROVE  \E k \in 1 .. 8 : <<1, k>> \in Rounds /\ ADJACENCY[1][2][k] = s
<1>1. 1 \in DOMAIN ADJACENCY /\ \A k \in 1 .. 8 : k \in DOMAIN ADJACENCY[1][2]
  BY DEF ADJACENCY
<1>2. \A k \in 1 .. 8 : <<1, k>> \in Rounds
  BY <1>1, RoundIn
<1>3. \E k \in 1 .. 8 : ADJACENCY[1][2][k] = s
  BY DEF ADJACENCY, CompanionState
<1> QED
  BY <1>2, <1>3

\* Neighbours are each other's.
LEMMA NeighboursType ==
  /\ Neighbours \in [CompanionState -> SUBSET CompanionState]
  /\ \A s, t \in CompanionState : t \in Neighbours[s] <=> \E r \in Rounds : Joins(r, s, t)
  /\ \A s, t \in CompanionState : t \in Neighbours[s] <=> s \in Neighbours[t]
<1>1. \A s, t \in CompanionState : t \in Neighbours[s] <=> \E r \in Rounds : Joins(r, s, t)
  BY DEF Neighbours
<1>2. \A s, t, r : Joins(r, s, t) <=> Joins(r, t, s)
  BY DEF Joins
<1> QED
  BY <1>1, <1>2 DEF Neighbours

LEMMA IdleIsNear ==
  ASSUME NEW s \in CompanionState \ {"IDLE", "DRIVING"}
  PROVE  "IDLE" \in Neighbours[s] /\ s \in Neighbours["IDLE"]
<1>1. PICK k \in 1 .. 8 : <<1, k>> \in Rounds /\ ADJACENCY[1][2][k] = s
  BY IdleRow
<1>2. ADJACENCY[1][1] = "IDLE"
  BY DEF ADJACENCY
<1>3. Joins(<<1, k>>, "IDLE", s) /\ "IDLE" \in CompanionState
  BY <1>1, <1>2 DEF Joins, CompanionState
<1> QED
  BY <1>1, <1>3, NeighboursType

LEMMA WalkingToDriving ==
  "DRIVING" \in Neighbours["WALKING"] /\ "WALKING" \in Neighbours["DRIVING"]
<1>1. 8 \in DOMAIN ADJACENCY /\ 1 \in DOMAIN ADJACENCY[8][2]
      /\ ADJACENCY[8][1] = "DRIVING" /\ ADJACENCY[8][2][1] = "WALKING"
  BY DEF ADJACENCY
<1>2. Joins(<<8, 1>>, "DRIVING", "WALKING") /\ <<8, 1>> \in Rounds
  BY <1>1, RoundIn DEF Joins
<1> QED
  BY <1>2, NeighboursType DEF CompanionState

\* Nobody comes before IDLE among the neighbours of a state that is next to it.
LEMMA IdleIsFirst ==
  ASSUME NEW s \in CompanionState \ {"IDLE", "DRIVING"}, NEW t \in CompanionState \ {"IDLE"}
  PROVE  ~ AddedBefore(s, t, "IDLE")
<1> SUFFICES ASSUME AddedBefore(s, t, "IDLE") PROVE FALSE
  OBVIOUS
<1>1. PICK k \in 1 .. 8 : <<1, k>> \in Rounds /\ ADJACENCY[1][2][k] = s
  BY IdleRow
<1>2. ADJACENCY[1][1] = "IDLE"
  BY DEF ADJACENCY
<1>3. Joins(<<1, k>>, s, "IDLE")
  BY <1>1, <1>2 DEF Joins
<1>4. PICK r \in Rounds : Joins(r, s, t) /\ Earlier(r, <<1, k>>)
  BY <1>1, <1>3 DEF AddedBefore
<1>5. r[1] = 1
  BY <1>4, RoundsType DEF Earlier
<1>6. {s, t} = {"IDLE", ADJACENCY[1][2][r[2]]}
  BY <1>2, <1>4, <1>5 DEF Joins
<1> QED
  BY <1>6

\* Of some neighbours of a state one is added first.
LEMMA FirstAdded ==
  ASSUME NEW s \in CompanionState, NEW U \in SUBSET Neighbours[s], U # {}
  PROVE  \E t \in U : \A u \in U \ {t} : AddedBefore(s, t, u)
<1> DEFINE code(r) == 10 * r[1] + r[2]
           R == {r \in Rounds : \E t \in U : Joins(r, s, t)}
           T == {code(r) : r \in R}
<1>1. \A r \in Rounds : code(r) \in Nat
  BY RoundsType
<1>2. R # {}
  BY NeighboursType
<1>3. PICK n \in T : \A k \in T : n <= k
  <2>1. T \in SUBSET Nat /\ T # {}
    BY <1>1, <1>2
  <2> HIDE DEF T
  <2> QED
    BY <2>1, FirstExists
<1>4. PICK r \in R : \A q \in R : code(r) <= code(q)
  BY <1>3
<1>5. PICK t \in U : Joins(r, s, t)
  BY <1>4
<1>6. ASSUME NEW u \in U \ {t} PROVE AddedBefore(s, t, u)
  <2>1. ASSUME NEW q \in Rounds, Joins(q, s, u) PROVE Earlier(r, q)
    <3>1. code(r) <= code(q)
      BY <1>4, <2>1
    <3>2. r \in Rounds /\ r # q
      BY <1>5, <2>1, <1>6 DEF Joins
    <3>3. r[1] \in 1 .. 10 /\ r[2] \in 1 .. 8 /\ r = <<r[1], r[2]>>
          /\ q[1] \in 1 .. 10 /\ q[2] \in 1 .. 8 /\ q = <<q[1], q[2]>>
      BY <3>2, <2>1, RoundsType
    <3>4. r[1] # q[1] \/ r[2] # q[2]
      BY <3>2, <3>3
    <3> QED
      BY <3>1, <3>3, <3>4 DEF Earlier
  <2> QED
    BY <1>5, <2>1 DEF AddedBefore
<1> QED
  BY <1>6

\* There are finitely many states, and at least three.
LEMMA StatesFinite == IsFiniteSet(CompanionState) /\ Cardinality(CompanionState) \in Nat
                      /\ Cardinality(CompanionState) >= 3
<1>1. \A S : IsFiniteSet(S) => \A x : IsFiniteSet(S \cup {x})
  BY FS_AddElement
<1> DEFINE some == {"IDLE", "WORKING"} \cup {"COOKING"} \cup {"READING"} \cup {"RELAXING"}
           all == some \cup {"GAMING"} \cup {"WALKING"} \cup {"DRIVING"} \cup {"SLEEPING"}
                    \cup {"BUSY"}
<1>3. IsFiniteSet({"IDLE", "WORKING"}) /\ Cardinality({"IDLE", "WORKING"}) = 2
  <2>1. {"IDLE", "WORKING"} = {"IDLE"} \cup {"WORKING"} /\ "WORKING" \notin {"IDLE"}
    OBVIOUS
  <2>2. IsFiniteSet({"IDLE"}) /\ Cardinality({"IDLE"}) = 1
    BY FS_Singleton
  <2>3. IsFiniteSet({"IDLE"} \cup {"WORKING"}) /\ Cardinality({"IDLE"} \cup {"WORKING"}) = 2
    BY <2>1, <2>2, FS_AddElement
  <2> QED
    BY <2>1, <2>3
<1>2. IsFiniteSet(CompanionState)
  <2>1. IsFiniteSet(some)
    BY <1>1, <1>3
  <2>2. CompanionState = all
    BY DEF CompanionState
  <2> HIDE DEF some
  <2>3. IsFiniteSet(all)
    BY <1>1, <2>1
  <2> QED
    BY <2>2, <2>3
<1>4. Cardinality({"IDLE", "WORKING", "COOKING"}) = 3
  <2>1. {"IDLE", "WORKING", "COOKING"} = {"IDLE", "WORKING"} \cup {"COOKING"}
    OBVIOUS
  <2>2. "COOKING" \notin {"IDLE", "WORKING"}
    OBVIOUS
  <2> QED
    BY <1>3, <2>1, <2>2, FS_AddElement
<1>5. {"IDLE", "WORKING", "COOKING"} \in SUBSET CompanionState
  BY DEF CompanionState
<1> QED
  BY <1>2, <1>4, <1>5, FS_Subset, FS_CardinalityType

\* What is at most n + 1 hops away is next to what is at most n hops away.
LEMMA WithinSteps ==
  ASSUME NEW from \in CompanionState
  PROVE  /\ Within(from) \in [Nat -> SUBSET CompanionState]
         /\ Within(from)[0] = {from}
         /\ \A n \in Nat : Within(from)[n + 1] =
              {s \in CompanionState : \E r \in Within(from)[n] : CanTransition(r, s)}
<1> DEFINE wider(B) == {s \in CompanionState : \E r \in B : CanTransition(r, s)}
           step == [B \in SUBSET CompanionState |-> wider(B)]
           Ball(f) == f = [n \in Nat |-> IF n = 0 THEN {from} ELSE wider(f[n - 1])]
<1>1. PICK f \in [Nat -> SUBSET CompanionState] :
        f[0] = {from} /\ \A n \in Nat : f[n + 1] = step[f[n]]
  <2> DEFINE D == SUBSET CompanionState
  <2>2. {from} \in D /\ step \in [D -> D]
    OBVIOUS
  <2> HIDE DEF step, D
  <2>3. \E f \in [Nat -> D] : f[0] = {from} /\ \A n \in Nat : f[n + 1] = step[f[n]]
    BY <2>2, Recursion
  <2> QED
    BY <2>3 DEF D
<1>2. Ball(f)
  <2>1. ASSUME NEW n \in Nat PROVE f[n] = IF n = 0 THEN {from} ELSE wider(f[n - 1])
    <3>1. CASE n = 0
      BY <1>1, <3>1
    <3>2. CASE n # 0
      <4>1. n - 1 \in Nat /\ n = (n - 1) + 1
        BY <3>2
      <4>2. f[n] = step[f[n - 1]] /\ f[n - 1] \in SUBSET CompanionState
        BY <1>1, <4>1
      <4> QED
        BY <3>2, <4>2
    <3> QED
      BY <3>1, <3>2
  <2> QED
    BY <1>1, <2>1
<1>3. Within(from) = CHOOSE g : Ball(g)
  BY DEF Within
<1>4. Ball(Within(from))
  <2> HIDE DEF Ball
  <2> QED
    BY <1>2, <1>3
<1>5. Within(from)[0] = {from}
  BY <1>4
<1>6. ASSUME NEW n \in Nat PROVE Within(from)[n + 1] = wider(Within(from)[n])
  <2>1. n + 1 \in Nat /\ n + 1 # 0 /\ (n + 1) - 1 = n
    OBVIOUS
  <2> HIDE DEF wider
  <2> QED
    BY <1>4, <2>1
<1>7. \A n \in Nat : Within(from)[n] \subseteq CompanionState
  <2> SUFFICES ASSUME NEW n \in Nat PROVE Within(from)[n] \subseteq CompanionState
    OBVIOUS
  <2> QED
    BY <1>4
<1>8. Within(from) = [n \in Nat |-> Within(from)[n]]
  BY <1>4
<1> HIDE DEF Ball
<1> QED
  BY <1>5, <1>6, <1>7, <1>8

\* By way of IDLE and WALKING, no state is further than three hops away.
LEMMA InThree ==
  ASSUME NEW from \in CompanionState, NEW to \in CompanionState
  PROVE  to \in Within(from)[3]
<1> DEFINE W == Within(from)
<1>1. /\ 1 = 0 + 1 /\ 2 = 1 + 1 /\ 3 = 2 + 1
      /\ W[1] = {s \in CompanionState : \E r \in W[0] : CanTransition(r, s)}
      /\ W[2] = {s \in CompanionState : \E r \in W[1] : CanTransition(r, s)}
      /\ W[3] = {s \in CompanionState : \E r \in W[2] : CanTransition(r, s)}
  BY WithinSteps
<1>2. W[0] = {from}
  BY WithinSteps
<1>3. {"IDLE", "WALKING", "DRIVING"} \subseteq CompanionState
  BY DEF CompanionState
<1> HIDE DEF W
<1>4. \A s \in CompanionState : CanTransition(s, s)
  BY DEF CanTransition
<1>5. \A s \in CompanionState \ {"DRIVING"} : CanTransition("IDLE", s) /\ CanTransition(s, "IDLE")
  BY IdleIsNear DEF CanTransition
<1>6. CanTransition("WALKING", "DRIVING") /\ CanTransition("DRIVING", "WALKING")
  BY WalkingToDriving DEF CanTransition
<1>7. CASE from # "DRIVING"
  <2>1. "IDLE" \in W[1]
    BY <1>1, <1>2, <1>3, <1>5, <1>7
  <2>2. CompanionState \ {"DRIVING"} \subseteq W[2]
    BY <2>1, <1>1, <1>5
  <2> QED
    BY <2>2, <1>1, <1>3, <1>4, <1>6 DEF W
<1>8. CASE from = "DRIVING"
  <2>1. "WALKING" \in W[1] /\ "DRIVING" \in W[1]
    BY <1>1, <1>2, <1>3, <1>4, <1>6, <1>8
  <2>2. "IDLE" \in W[2] /\ "DRIVING" \in W[2]
    BY <2>1, <1>1, <1>3, <1>4, <1>5
  <2> QED
    BY <2>2, <1>1, <1>4, <1>5 DEF W
<1> QED
  BY <1>7, <1>8

\* The distance is the number of hops from which on a state is within reach.
LEMMA DistanceIs ==
  ASSUME NEW from \in CompanionState, NEW to \in CompanionState
  PROVE  /\ Distances[from][to] \in 0 .. 3
         /\ \A n \in Nat : to \in Within(from)[n] <=> Distances[from][to] <= n
<1> DEFINE T == {n \in Nat : to \in Within(from)[n]}
           card == Cardinality(CompanionState)
<1>1. 3 \in T
  BY InThree
<1>2. PICK n \in T : \A k \in T : n <= k
  <2>1. T \in SUBSET Nat /\ T # {}
    BY <1>1
  <2> HIDE DEF T
  <2> QED
    BY <2>1, FirstExists
<1>3. n \in 0 .. 3
  BY <1>1, <1>2
<1>4. IsDistance(n, from, to)
  <2>1. \A k \in 0 .. n - 1 : k \in Nat /\ ~ (n <= k)
    BY <1>3
  <2> QED
    BY <1>2, <2>1 DEF IsDistance
<1>5. \A m \in Nat : IsDistance(m, from, to) => m = n
  <2> SUFFICES ASSUME NEW m \in Nat, IsDistance(m, from, to) PROVE m = n
    OBVIOUS
  <2>1. m \in T
    BY DEF IsDistance
  <2>2. n <= m
    BY <2>1, <1>2
  <2>3. n \notin 0 .. m - 1
    BY <1>2 DEF IsDistance
  <2> QED
    BY <2>2, <2>3, <1>3
<1>6. Distances[from][to] = n
  <2>1. n \in 0 .. card /\ \A m \in 0 .. card : m \in Nat
    BY <1>3, StatesFinite
  <2>2. Distances[from][to] = CHOOSE m \in 0 .. card : IsDistance(m, from, to)
    BY DEF Distances
  <2> HIDE DEF card
  <2> QED
    BY <2>1, <2>2, <1>4, <1>5
<1>7. \A k \in Nat : to \in Within(from)[n + k]
  <2> DEFINE G == {k \in Nat : to \in Within(from)[n + k]}
  <2>1. 0 \in G
    BY <1>2, <1>3
  <2>2. ASSUME NEW k \in Nat, k \in G PROVE k + 1 \in G
    <3>1. n + k \in Nat /\ n + (k + 1) = (n + k) + 1 /\ to \in Within(from)[n + k]
      BY <1>3, <2>2
    <3>2. CanTransition(to, to)
      BY DEF CanTransition
    <3>3. to \in Within(from)[(n + k) + 1]
      BY <3>1, <3>2, WithinSteps
    <3> QED
      BY <3>1, <3>3
  <2> HIDE DEF G
  <2>3. \A k \in Nat : k \in G
    BY <2>1, <2>2, NatSteps
  <2> QED
    BY <2>3 DEF G
<1>8. ASSUME NEW m \in Nat PROVE to \in Within(from)[m] <=> n <= m
  <2>1. to \in Within(from)[m] => n <= m
    BY <1>2
  <2>2. ASSUME n <= m PROVE to \in Within(from)[m]
    <3>1. m - n \in Nat /\ n + (m - n) = m
      BY <2>2, <1>3
    <3>2. to \in Within(from)[n + (m - n)]
      BY <3>1, <1>7
    <3> QED
      BY <3>1, <3>2
  <2> QED
    BY <2>1, <2>2
<1> HIDE DEF T
<1> QED
  BY <1>3, <1>6, <1>8

LEMMA DistanceZero ==
  ASSUME NEW from \in CompanionState, NEW to \in CompanionState
  PROVE  Distances[from][to] = 0 <=> to = from
<1>1. to \in Within(from)[0] <=> to = from
  BY WithinSteps
<1> QED
  BY <1>1, DistanceIs

\* One hop more leads one further at most.
LEMMA DistanceStep ==
  ASSUME NEW from \in CompanionState, NEW s \in CompanionState, NEW t \in CompanionState,
         CanTransition(s, t)
  PROVE  Distances[from][t] <= Distances[from][s] + 1
<1> DEFINE n == Distances[from][s]
<1>1. n \in Nat /\ n + 1 \in Nat
  BY DistanceIs
<1>2. s \in Within(from)[n]
  BY <1>1, DistanceIs
<1> HIDE DEF n
<1>3. t \in Within(from)[n + 1]
  BY <1>1, <1>2, WithinSteps
<1> QED
  BY <1>1, <1>3, DistanceIs DEF n

\* The state before on a shortest way is one nearer.
LEMMA DistanceBefore ==
  ASSUME NEW from \in CompanionState, NEW t \in CompanionState, t # from
  PROVE  \E s \in CompanionState : /\ t \in Neighbours[s]
                                   /\ Distances[from][t] = Distances[from][s] + 1
<1> DEFINE n == Distances[from][t] - 1
<1>1. Distances[from][t] \in Nat /\ n \in Nat /\ Distances[from][t] = n + 1
  BY DistanceIs, DistanceZero
<1> HIDE DEF n
<1>2. t \in Within(from)[n + 1] /\ t \notin Within(from)[n]
  BY <1>1, DistanceIs
<1>3. PICK s \in Within(from)[n] : CanTransition(s, t)
  BY <1>1, <1>2, WithinSteps
<1>4. s \in CompanionState /\ s # t
  BY <1>1, <1>2, <1>3, WithinSteps
<1>5. Distances[from][s] <= n /\ Distances[from][s] \in Nat
  BY <1>1, <1>4, DistanceIs
<1>6. n + 1 <= Distances[from][s] + 1
  BY <1>1, <1>3, <1>4, DistanceStep
<1> QED
  BY <1>1, <1>3, <1>4, <1>5, <1>6 DEF CanTransition

\* A hop away from a state adds at most one to every way.
LEMMA WithinShifts ==
  ASSUME NEW from \in CompanionState, NEW hop \in CompanionState, CanTransition(from, hop),
         NEW n \in Nat
  PROVE  Within(hop)[n] \subseteq Within(from)[n + 1]
<1> DEFINE G == {m \in Nat : Within(hop)[m] \subseteq Within(from)[m + 1]}
<1>1. 0 \in G
  <2>1. hop \in Within(from)[0 + 1]
    <3>1. from \in Within(from)[0]
      BY WithinSteps
    <3>2. Within(from)[0 + 1] =
            {s \in CompanionState : \E r \in Within(from)[0] : CanTransition(r, s)}
      BY WithinSteps
    <3> QED
      BY <3>1, <3>2
  <2> QED
    BY <2>1, WithinSteps
<1>2. ASSUME NEW m \in Nat, m \in G PROVE m + 1 \in G
  <2>1. Within(hop)[m] \subseteq Within(from)[m + 1] /\ m + 1 \in Nat
    BY <1>2
  <2>2. /\ Within(hop)[m + 1] =
             {s \in CompanionState : \E r \in Within(hop)[m] : CanTransition(r, s)}
        /\ Within(from)[(m + 1) + 1] =
             {s \in CompanionState : \E r \in Within(from)[m + 1] : CanTransition(r, s)}
    BY <2>1, WithinSteps
  <2> QED
    BY <2>1, <2>2
<1> HIDE DEF G
<1>3. n \in G
  BY <1>1, <1>2, NatSteps
<1> QED
  BY <1>3 DEF G

SearchState == [queue : Seq(CompanionState), visited : SUBSET CompanionState,
                cameFrom : [CompanionState -> CompanionState]]

Unseen(sr) == Neighbours[Head(sr.queue)] \ sr.visited

\* A round visits the first neighbour that is left, or is done with the head of the queue.
LEMMA VisitCases ==
  ASSUME NEW sr \in SearchState, sr.queue # << >>
  PROVE  /\ Unseen(sr) = {} =>
              /\ Visit(sr).queue = Tail(sr.queue)
              /\ Visit(sr).visited = sr.visited
              /\ Visit(sr).cameFrom = sr.cameFrom
         /\ Unseen(sr) # {} =>
              \E chosen \in Unseen(sr) :
                /\ \A u \in Unseen(sr) \ {chosen} : AddedBefore(Head(sr.queue), chosen, u)
                /\ Visit(sr).queue = Append(sr.queue, chosen)
                /\ Visit(sr).visited = sr.visited \cup {chosen}
                /\ Visit(sr).cameFrom = [sr.cameFrom EXCEPT ![chosen] = Head(sr.queue)]
         /\ Visit(sr) \in SearchState
<1> DEFINE current == Head(sr.queue)
           First(t) == \A u \in Unseen(sr) \ {t} : AddedBefore(current, t, u)
           chosen == CHOOSE t \in Unseen(sr) : First(t)
<1>1. current \in CompanionState
  BY DEF SearchState
<1>2. Unseen(sr) \in SUBSET Neighbours[current] /\ Unseen(sr) \in SUBSET CompanionState
  BY <1>1, NeighboursType DEF Unseen
<1>3. CASE Unseen(sr) = {}
  <2>1. Visit(sr) = [sr EXCEPT !.queue = Tail(@)]
    BY <1>3 DEF Visit, Unseen
  <2>2. Tail(sr.queue) \in Seq(CompanionState)
    BY DEF SearchState
  <2> QED
    BY <1>3, <2>1, <2>2 DEF SearchState
<1>4. CASE Unseen(sr) # {}
  <2>1. \E t \in Unseen(sr) : First(t)
    BY <1>1, <1>2, <1>4, FirstAdded
  <2>2. Visit(sr) = [queue    |-> Append(sr.queue, chosen),
                     visited  |-> sr.visited \cup {chosen},
                     cameFrom |-> [sr.cameFrom EXCEPT ![chosen] = current]]
    BY <1>4 DEF Visit, Unseen
  <2> HIDE DEF First
  <2>3. chosen \in Unseen(sr) /\ First(chosen)
    BY <2>1
  <2> HIDE DEF chosen
  <2>4. /\ Append(sr.queue, chosen) \in Seq(CompanionState)
        /\ sr.visited \cup {chosen} \in SUBSET CompanionState
        /\ [sr.cameFrom EXCEPT ![chosen] = current] \in [CompanionState -> CompanionState]
    BY <1>1, <1>2, <2>3 DEF SearchState
  <2>5. Visit(sr) \in SearchState
    BY <2>2, <2>4 DEF SearchState
  <2>6. /\ Visit(sr).queue = Append(sr.queue, chosen)
        /\ Visit(sr).visited = sr.visited \cup {chosen}
        /\ Visit(sr).cameFrom = [sr.cameFrom EXCEPT ![chosen] = current]
    BY <2>2
  <2>7. \A u \in Unseen(sr) \ {chosen} : AddedBefore(current, chosen, u)
    BY <2>3 DEF First
  <2> QED
    BY <1>4, <2>3, <2>5, <2>6, <2>7
<1> QED
  BY <1>3, <1>4

\* The rounds of the search, one after the other.
LEMMA StartType == ASSUME NEW from \in CompanionState PROVE Start(from) \in SearchState
BY DEF Start, SearchState

LEMMA SearchSteps ==
  ASSUME NEW from \in CompanionState
  PROVE  /\ Search(from) \in [Nat -> SearchState]
         /\ Search(from)[0] = Start(from)
         /\ \A n \in Nat : Search(from)[n + 1] =
              IF Search(from)[n].queue = << >> THEN Search(from)[n] ELSE Visit(Search(from)[n])
<1> DEFINE move(sr) == IF sr.queue = << >> THEN sr ELSE Visit(sr)
           step == [sr \in SearchState |-> move(sr)]
           Run(f) == f = [n \in Nat |-> IF n = 0 THEN Start(from) ELSE move(f[n - 1])]
<1>1. \A sr \in SearchState : move(sr) \in SearchState
  BY VisitCases
<1>2. PICK f \in [Nat -> SearchState] :
        f[0] = Start(from) /\ \A n \in Nat : f[n + 1] = step[f[n]]
  <2>1. step \in [SearchState -> SearchState]
    BY <1>1
  <2> HIDE DEF step
  <2> QED
    BY <2>1, StartType, Recursion
<1>3. Run(f)
  <2>1. ASSUME NEW n \in Nat PROVE f[n] = IF n = 0 THEN Start(from) ELSE move(f[n - 1])
    <3> HIDE DEF move
    <3>1. CASE n = 0
      BY <1>2, <3>1
    <3>2. CASE n # 0
      <4>1. n - 1 \in Nat /\ n = (n - 1) + 1
        BY <3>2
      <4>2. f[n] = step[f[n - 1]] /\ f[n - 1] \in SearchState
        BY <1>2, <4>1
      <4> QED
        BY <3>2, <4>2
    <3> QED
      BY <3>1, <3>2
  <2> HIDE DEF move
  <2> QED
    BY <1>2, <2>1
<1>4. Search(from) = CHOOSE g : Run(g)
  BY DEF Search
<1>5. Run(Search(from))
  <2> HIDE DEF Run
  <2> QED
    BY <1>3, <1>4
<1> HIDE DEF move
<1>6. Search(from)[0] = Start(from)
  BY <1>5
<1>7. ASSUME NEW n \in Nat PROVE Search(from)[n + 1] = move(Search(from)[n])
  <2>1. n + 1 \in Nat /\ n + 1 # 0 /\ (n + 1) - 1 = n
    OBVIOUS
  <2> QED
    BY <1>5, <2>1
<1>8. \A n \in Nat : Search(from)[n] \in SearchState
  <2> DEFINE G == {n \in Nat : Search(from)[n] \in SearchState}
  <2>1. 0 \in G
    BY <1>6, StartType
  <2>2. \A n \in Nat : n \in G => n + 1 \in G
    BY <1>1, <1>7
  <2> HIDE DEF G
  <2>3. \A n \in Nat : n \in G
    BY <2>1, <2>2, NatSteps
  <2> QED
    BY <2>3 DEF G
<1>9. Search(from) = [n \in Nat |-> Search(from)[n]]
  BY <1>5
<1> HIDE DEF Run
<1> QED
  BY <1>6, <1>7, <1>8, <1>9 DEF move

\* What the search has found after any number of rounds: the way it came is a shortest
\* one, and the queue is in the order of the distance, nothing nearer being left.
WaysAreShortest(from, sr) ==
  /\ from \in sr.visited /\ sr.cameFrom[from] = from
  /\ \A s \in sr.visited \ {from} :
       /\ s \in Neighbours[sr.cameFrom[s]]
       /\ Distances[from][s] = Distances[from][sr.cameFrom[s]] + 1

QueueInOrder(from, sr) ==
  \A i, j \in 1 .. Len(sr.queue) : i <= j =>
    /\ sr.queue[i] \in sr.visited
    /\ Distances[from][sr.queue[i]] <= Distances[from][sr.queue[j]]
    /\ Distances[from][sr.queue[j]] <= Distances[from][sr.queue[1]] + 1

AllNearer(from, sr) ==
  /\ \A s \in sr.visited :
       (\E i \in 1 .. Len(sr.queue) : sr.queue[i] = s) \/ Neighbours[s] \subseteq sr.visited
  /\ sr.queue # << >> =>
       \A s \in CompanionState :
         Distances[from][s] <= Distances[from][sr.queue[1]] => s \in sr.visited

SearchInv(from, sr) ==
  sr \in SearchState /\ WaysAreShortest(from, sr) /\ QueueInOrder(from, sr) /\ AllNearer(from, sr)

\* It holds when only the first state is visited.
LEMMA SearchStarts ==
  ASSUME NEW from \in CompanionState
  PROVE  SearchInv(from, Start(from))
<1> DEFINE sr == Start(from)
<1>1. /\ sr.queue = << from >> /\ sr.visited = {from} /\ sr.cameFrom[from] = from
      /\ Len(sr.queue) = 1 /\ sr.queue[1] = from
  BY DEF Start
<1>2. sr \in SearchState
  BY StartType
<1> HIDE DEF sr
<1>3. WaysAreShortest(from, sr)
  BY <1>1 DEF WaysAreShortest
<1>4. QueueInOrder(from, sr)
  <2>1. Distances[from][from] = 0
    BY DistanceZero
  <2> QED
    BY <1>1, <2>1 DEF QueueInOrder
<1>5. AllNearer(from, sr)
  <2>1. Distances[from][from] = 0
    BY DistanceZero
  <2>2. \A s \in CompanionState : Distances[from][s] <= 0 => s = from
    BY DistanceZero, DistanceIs
  <2> QED
    BY <1>1, <2>1, <2>2 DEF AllNearer
<1> QED
  BY <1>2, <1>3, <1>4, <1>5 DEF SearchInv, sr

\* A round keeps it: the neighbour visited is one further than the head of the queue, and
\* what is as far as the next head was found from a state already done with.
LEMMA SearchGoesOn ==
  ASSUME NEW from \in CompanionState, NEW sr, SearchInv(from, sr), sr.queue # << >>
  PROVE  SearchInv(from, Visit(sr))
<1> DEFINE d(s) == Distances[from][s]
           q == sr.queue
           to == Visit(sr)
<1>1. /\ sr \in SearchState /\ WaysAreShortest(from, sr)
      /\ QueueInOrder(from, sr) /\ AllNearer(from, sr)
  BY DEF SearchInv
<1>2. /\ q \in Seq(CompanionState) /\ Len(q) \in Nat \ {0} /\ Head(q) = q[1]
      /\ \A i \in 1 .. Len(q) : q[i] \in CompanionState
      /\ sr.visited \subseteq CompanionState
      /\ sr.cameFrom \in [CompanionState -> CompanionState]
  BY <1>1 DEF SearchState
<1>3. to \in SearchState
  BY <1>1, VisitCases
<1>4. \A s \in CompanionState : d(s) \in Nat
  BY DistanceIs
<1>5. CASE Unseen(sr) = {}
  <2>1. to.queue = Tail(q) /\ to.visited = sr.visited /\ to.cameFrom = sr.cameFrom
    BY <1>1, <1>5, VisitCases
  <2>2. Neighbours[q[1]] \subseteq sr.visited
    BY <1>2, <1>5 DEF Unseen
  <2>3. Len(to.queue) = Len(q) - 1 /\ \A i \in 1 .. Len(to.queue) : to.queue[i] = q[i + 1]
    BY <1>2, <2>1
  <2> HIDE DEF q, to
  <2>4. WaysAreShortest(from, to)
    BY <1>1, <2>1 DEF WaysAreShortest
  <2>5. QueueInOrder(from, to)
    <3> SUFFICES ASSUME NEW i \in 1 .. Len(to.queue), NEW j \in 1 .. Len(to.queue), i <= j
                 PROVE  /\ to.queue[i] \in to.visited
                        /\ d(to.queue[i]) <= d(to.queue[j])
                        /\ d(to.queue[j]) <= d(to.queue[1]) + 1
      BY DEF QueueInOrder
    <3>1. /\ i + 1 \in 1 .. Len(q) /\ j + 1 \in 1 .. Len(q) /\ 2 \in 1 .. Len(q)
          /\ i + 1 <= j + 1 /\ 1 \in 1 .. Len(q) /\ 1 <= 2 /\ 1 \in 1 .. Len(to.queue)
      BY <1>2, <2>3
    <3>2. to.queue[i] = q[i + 1] /\ to.queue[j] = q[j + 1] /\ to.queue[1] = q[2]
      BY <2>3, <3>1
    <3>3. /\ q[i + 1] \in sr.visited /\ d(q[i + 1]) <= d(q[j + 1])
          /\ d(q[j + 1]) <= d(q[1]) + 1 /\ d(q[1]) <= d(q[2])
      BY <1>1, <3>1 DEF QueueInOrder, q
    <3>4. d(q[1]) \in Nat /\ d(q[2]) \in Nat /\ d(q[j + 1]) \in Nat
      BY <1>2, <1>4, <3>1
    <3> HIDE DEF d
    <3>5. d(q[j + 1]) <= d(q[2]) + 1
      BY <3>3, <3>4
    <3> QED
      BY <2>1, <3>2, <3>3, <3>5
  <2>6. AllNearer(from, to)
    <3>1. ASSUME NEW s \in to.visited
          PROVE  \/ \E i \in 1 .. Len(to.queue) : to.queue[i] = s
                 \/ Neighbours[s] \subseteq to.visited
      <4>1. CASE Neighbours[s] \subseteq sr.visited
        BY <2>1, <4>1
      <4>2. CASE \E i \in 1 .. Len(q) : q[i] = s
        <5>1. PICK i \in 1 .. Len(q) : q[i] = s
          BY <4>2
        <5>2. CASE i = 1
          BY <2>1, <2>2, <5>1, <5>2
        <5>3. CASE i # 1
          <6>1. i - 1 \in 1 .. Len(to.queue) /\ (i - 1) + 1 = i
            BY <1>2, <2>3, <5>1, <5>3
          <6> QED
            BY <2>3, <5>1, <6>1
        <5> QED
          BY <5>2, <5>3
      <4> QED
        BY <1>1, <2>1, <4>1, <4>2 DEF AllNearer, q
    <3>2. ASSUME to.queue # << >>, NEW s \in CompanionState, d(s) <= d(to.queue[1])
          PROVE  s \in to.visited
      <4>1. Len(to.queue) # 0
        BY <1>3, <3>2 DEF SearchState
      <4>2. 1 \in 1 .. Len(to.queue) /\ 1 \in 1 .. Len(q) /\ 2 \in 1 .. Len(q)
        <5>1. /\ Len(to.queue) = Len(q) - 1 /\ Len(q) \in Nat \ {0}
              /\ Len(to.queue) # 0
          BY <4>1, <2>3, <1>2
        <5>2. \A m, n \in Int : m = n - 1 /\ n \in Nat \ {0} /\ m # 0 =>
                1 \in 1 .. m /\ 1 \in 1 .. n /\ 2 \in 1 .. n
          OBVIOUS
        <5>3. Len(q) \in Int /\ Len(to.queue) \in Int
          BY <5>1
        <5> QED
          BY <5>1, <5>2, <5>3
      <4>3. to.queue[1] = q[2]
        BY <2>3, <4>2
      <4>4. d(q[2]) <= d(q[1]) + 1 /\ d(q[1]) \in Nat /\ d(q[2]) \in Nat /\ d(s) \in Nat
        BY <1>1, <1>2, <1>4, <4>2 DEF QueueInOrder, q
      <4>5. CASE d(s) <= d(q[1])
        <5>1. q # << >>
          BY DEF q
        <5> QED
          BY <1>1, <2>1, <4>5, <5>1 DEF AllNearer, q
      <4>6. CASE d(s) = d(q[1]) + 1
        <5>1. s # from
          BY <4>4, <4>6, DistanceZero
        <5>2. PICK t \in CompanionState : s \in Neighbours[t] /\ d(s) = d(t) + 1
          BY <5>1, DistanceBefore
        <5>3. d(t) = d(q[1])
          BY <1>4, <4>4, <4>6, <5>2
        <5>4. t \in sr.visited
          <6>1. q # << >>
            BY DEF q
          <6> QED
            BY <1>1, <4>4, <5>3, <6>1 DEF AllNearer, q
        <5>5. CASE Neighbours[t] \subseteq sr.visited
          BY <2>1, <5>2, <5>5
        <5>6. CASE \E i \in 1 .. Len(q) : q[i] = t
          <6>1. PICK i \in 1 .. Len(q) : q[i] = t
            BY <5>6
          <6>2. CASE i = 1
            BY <2>1, <2>2, <5>2, <6>1, <6>2
          <6>3. CASE i # 1
            <7>1. 2 <= i /\ i \in 1 .. Len(q)
              BY <6>1, <6>3
            <7>2. d(q[2]) <= d(q[i])
              BY <1>1, <4>2, <7>1 DEF QueueInOrder, q
            <7> QED
              BY <3>2, <4>3, <4>4, <4>6, <5>3, <6>1, <7>2
          <6> QED
            BY <6>2, <6>3
        <5> QED
          BY <1>1, <5>4, <5>5, <5>6 DEF AllNearer, q
      <4>7. d(s) <= d(q[1]) \/ d(s) = d(q[1]) + 1
        BY <3>2, <4>3, <4>4
      <4> QED
        BY <4>5, <4>6, <4>7
    <3> QED
      BY <3>1, <3>2 DEF AllNearer
  <2> QED
    BY <1>3, <2>4, <2>5, <2>6 DEF SearchInv, to
<1>6. CASE Unseen(sr) # {}
  <2>1. PICK t \in Unseen(sr) :
          /\ to.queue = Append(q, t) /\ to.visited = sr.visited \cup {t}
          /\ to.cameFrom = [sr.cameFrom EXCEPT ![t] = Head(q)]
    BY <1>1, <1>6, VisitCases
  <2>2. /\ Len(to.queue) = Len(q) + 1 /\ to.queue[Len(q) + 1] = t
        /\ \A i \in 1 .. Len(q) : to.queue[i] = q[i]
    BY <1>2, <2>1, <1>3 DEF SearchState
  <2>3. t \in Neighbours[q[1]] /\ t \notin sr.visited /\ q[1] \in CompanionState /\ q # << >>
    BY <1>2, <2>1 DEF Unseen
  <2>4. t \in CompanionState /\ 1 \in 1 .. Len(q)
    BY <1>2, <2>3, NeighboursType
  <2> HIDE DEF to
  <2>5. d(t) = d(q[1]) + 1
    <3>1. d(t) <= d(q[1]) + 1
      BY <2>3, <2>4, DistanceStep DEF CanTransition
    <3>2. ~ (d(t) <= d(q[1]))
      BY <1>1, <2>3, <2>4 DEF AllNearer
    <3> QED
      BY <1>4, <2>3, <2>4, <3>1, <3>2
  <2>6. WaysAreShortest(from, to)
    <3>1. from \in to.visited /\ from # t
      BY <1>1, <2>1, <2>3 DEF WaysAreShortest
    <3>2. to.cameFrom[from] = from
      BY <1>1, <1>2, <2>1, <3>1 DEF WaysAreShortest
    <3>3. ASSUME NEW s \in to.visited \ {from}
          PROVE  s \in Neighbours[to.cameFrom[s]] /\ d(s) = d(to.cameFrom[s]) + 1
      <4>1. CASE s = t
        <5>1. to.cameFrom[s] = q[1]
          BY <1>2, <2>1, <2>4, <4>1
        <5> QED
          BY <2>3, <2>5, <4>1, <5>1
      <4>2. CASE s # t
        <5>1. s \in sr.visited \ {from} /\ to.cameFrom[s] = sr.cameFrom[s]
          BY <1>2, <2>1, <3>3, <4>2
        <5> QED
          BY <1>1, <5>1 DEF WaysAreShortest
      <4> QED
        BY <4>1, <4>2
    <3> QED
      BY <3>1, <3>2, <3>3 DEF WaysAreShortest
  <2>7. QueueInOrder(from, to)
    <3> SUFFICES ASSUME NEW i \in 1 .. Len(to.queue), NEW j \in 1 .. Len(to.queue), i <= j
                 PROVE  /\ to.queue[i] \in to.visited
                        /\ d(to.queue[i]) <= d(to.queue[j])
                        /\ d(to.queue[j]) <= d(to.queue[1]) + 1
      BY DEF QueueInOrder
    <3>1. to.queue[1] = q[1] /\ d(q[1]) \in Nat /\ d(t) \in Nat
      BY <1>4, <2>2, <2>3, <2>4
    <3>2. \A k \in 1 .. Len(q) : /\ q[k] \in sr.visited
                                 /\ d(q[k]) <= d(q[1]) + 1 /\ d(q[k]) \in Nat
      <4>1. ASSUME NEW k \in 1 .. Len(q)
            PROVE  /\ q[k] \in sr.visited /\ d(q[k]) <= d(q[1]) + 1 /\ d(q[k]) \in Nat
        <5>1. k <= k
          OBVIOUS
        <5> QED
          BY <1>1, <1>2, <1>4, <5>1 DEF QueueInOrder
      <4> QED
        BY <4>1
    <3>3. CASE j \in 1 .. Len(q)
      <4>1. i \in 1 .. Len(q)
        BY <1>2, <3>3
      <4>2. q[i] \in sr.visited /\ d(q[i]) <= d(q[j]) /\ d(q[j]) <= d(q[1]) + 1
        BY <1>1, <3>3, <4>1 DEF QueueInOrder
      <4> QED
        BY <2>1, <2>2, <3>1, <3>3, <4>1, <4>2
    <3>4. CASE j = Len(q) + 1
      <4>1. to.queue[j] = t
        BY <2>2, <3>4
      <4>2. CASE i \in 1 .. Len(q)
        BY <2>1, <2>2, <2>5, <3>1, <3>2, <4>1, <4>2
      <4>3. CASE i = Len(q) + 1
        BY <2>1, <2>2, <2>5, <3>1, <4>1, <4>3
      <4> QED
        BY <1>2, <2>2, <4>2, <4>3
    <3> QED
      BY <1>2, <2>2, <3>3, <3>4
  <2>8. AllNearer(from, to)
    <3>1. ASSUME NEW s \in to.visited
          PROVE  \/ \E i \in 1 .. Len(to.queue) : to.queue[i] = s
                 \/ Neighbours[s] \subseteq to.visited
      <4>1. CASE s = t
        <5>1. Len(q) + 1 \in 1 .. Len(to.queue)
          BY <1>2, <2>2
        <5> QED
          BY <2>2, <4>1, <5>1
      <4>2. CASE s # t
        <5>1. s \in sr.visited
          BY <2>1, <3>1, <4>2
        <5>2. CASE Neighbours[s] \subseteq sr.visited
          BY <2>1, <5>2
        <5>3. CASE \E i \in 1 .. Len(q) : q[i] = s
          <6>1. PICK i \in 1 .. Len(q) : q[i] = s
            BY <5>3
          <6>2. i \in 1 .. Len(to.queue) /\ to.queue[i] = s
            BY <1>2, <2>2, <6>1
          <6> QED
            BY <6>2
        <5> QED
          BY <1>1, <5>1, <5>2, <5>3 DEF AllNearer
      <4> QED
        BY <4>1, <4>2
    <3>2. ASSUME NEW s \in CompanionState, d(s) <= d(to.queue[1])
          PROVE  s \in to.visited
      <4>1. to.queue[1] = q[1]
        BY <2>2, <2>4
      <4>2. s \in sr.visited
        BY <1>1, <2>3, <3>2, <4>1 DEF AllNearer
      <4> QED
        BY <2>1, <4>2
    <3> QED
      BY <3>1, <3>2 DEF AllNearer
  <2> QED
    BY <1>3, <2>6, <2>7, <2>8 DEF SearchInv, to
<1> QED
  BY <1>5, <1>6

\* Every state enters the queue once and leaves it once, so that the rounds suffice.
RoundsLeft(sr) == 2 * Cardinality(CompanionState \ sr.visited) + Len(sr.queue)

SearchLasts(n, sr) == sr.queue # << >> => n + RoundsLeft(sr) = 2 * Cardinality(CompanionState) - 1

\* A round takes one from what is left to do.
LEMMA VisitShortens ==
  ASSUME NEW from \in CompanionState, NEW sr, SearchInv(from, sr), sr.queue # << >>
  PROVE  RoundsLeft(Visit(sr)) = RoundsLeft(sr) - 1
<1> DEFINE rest == CompanionState \ sr.visited
           to == Visit(sr)
<1>1. sr \in SearchState /\ sr.queue \in Seq(CompanionState) /\ Len(sr.queue) \in Nat \ {0}
  BY DEF SearchInv, SearchState
<1>2. IsFiniteSet(rest) /\ Cardinality(rest) \in Nat
  BY StatesFinite, FS_Subset, FS_CardinalityType
<1>3. CASE Unseen(sr) = {}
  <2>1. to.queue = Tail(sr.queue) /\ to.visited = sr.visited
    BY <1>1, <1>3, VisitCases
  <2>2. Len(to.queue) = Len(sr.queue) - 1
    BY <1>1, <2>1
  <2>3. Cardinality(CompanionState \ to.visited) = Cardinality(rest)
    BY <2>1
  <2> HIDE DEF to, rest
  <2> QED
    BY <1>1, <1>2, <2>2, <2>3 DEF RoundsLeft, to, rest
<1>4. CASE Unseen(sr) # {}
  <2>1. PICK t \in Unseen(sr) : to.queue = Append(sr.queue, t) /\ to.visited = sr.visited \cup {t}
    BY <1>1, <1>4, VisitCases
  <2>2. t \in rest
    BY <1>1, <2>1, NeighboursType DEF Unseen, SearchState
  <2>3. CompanionState \ to.visited = rest \ {t}
    BY <2>1
  <2>4. Cardinality(CompanionState \ to.visited) = Cardinality(rest) - 1
    <3> HIDE DEF rest
    <3>1. Cardinality(rest \ {t}) = Cardinality(rest) - 1
      BY <1>2, <2>2, FS_RemoveElement
    <3> QED
      BY <2>3, <3>1
  <2>5. Len(to.queue) = Len(sr.queue) + 1
    <3>1. t \in CompanionState
      BY <2>2
    <3> QED
      BY <1>1, <2>1, <3>1
  <2> HIDE DEF to, rest
  <2> QED
    BY <1>1, <1>2, <2>4, <2>5 DEF RoundsLeft, to, rest
<1> QED
  BY <1>3, <1>4

\* Where the first edges listed make it so: the neighbours that a state indoors shares
\* with no one but IDLE are found from IDLE.
ByIdle(from, sr) ==
  /\ \A t \in sr.visited \cap Neighbours["IDLE"] :
       t = from \/ t \in Neighbours[from] \/ sr.cameFrom[t] = "IDLE"
  /\ \/ sr.queue = << from >> /\ sr.visited = {from}
     \/ /\ Len(sr.queue) > 1 /\ sr.queue[1] = from /\ sr.queue[2] = "IDLE"
        /\ sr.visited \subseteq {from} \cup Neighbours[from]
     \/ Len(sr.queue) > 0 /\ sr.queue[1] = "IDLE"
     \/ Neighbours["IDLE"] \subseteq sr.visited

\* A round keeps that, because IDLE is the first neighbour visited.
LEMMA VisitByIdle ==
  ASSUME NEW from \in CompanionState \ {"IDLE", "DRIVING"}, NEW sr,
         SearchInv(from, sr), sr.queue # << >>, ByIdle(from, sr)
  PROVE  ByIdle(from, Visit(sr))
<1> DEFINE q == sr.queue
           to == Visit(sr)
<1>1. sr \in SearchState /\ q \in Seq(CompanionState) /\ Len(q) \in Nat \ {0} /\ Head(q) = q[1]
      /\ sr.cameFrom \in [CompanionState -> CompanionState]
  BY DEF SearchInv, SearchState
<1>2. "IDLE" \in Neighbours[from] /\ "IDLE" # from /\ "IDLE" \in CompanionState
  BY IdleIsNear DEF CompanionState
<1>3. CASE Unseen(sr) = {}
  <2>1. to.queue = Tail(q) /\ to.visited = sr.visited /\ to.cameFrom = sr.cameFrom
    BY <1>1, <1>3, VisitCases
  <2>2. Neighbours[q[1]] \subseteq sr.visited
    BY <1>1, <1>3 DEF Unseen
  <2>3. Len(to.queue) = Len(q) - 1 /\ (Len(q) > 1 => to.queue[1] = q[2])
    BY <1>1, <2>1
  <2>4. ~ (q = << from >> /\ sr.visited = {from})
    <3> SUFFICES ASSUME q = << from >>, sr.visited = {from} PROVE FALSE
      OBVIOUS
    <3> HIDE DEF to
    <3>1. q[1] = from
      OBVIOUS
    <3> HIDE DEF q
    <3>2. Neighbours[from] \subseteq {from}
      BY <2>2, <3>1
    <3> QED
      BY <1>2, <3>2
  <2> HIDE DEF to, q
  <2>5. CASE Len(q) > 1 /\ q[2] = "IDLE"
    <3>1. Len(to.queue) > 0
      BY <1>1, <2>3, <2>5
    <3> QED
      BY <2>1, <2>3, <2>5, <3>1 DEF ByIdle, to
  <2>6. CASE q[1] = "IDLE"
    BY <2>1, <2>2, <2>6 DEF ByIdle, to
  <2>7. CASE Neighbours["IDLE"] \subseteq sr.visited
    BY <2>1, <2>7 DEF ByIdle, to
  <2> QED
    BY <2>4, <2>5, <2>6, <2>7 DEF ByIdle, to, q
<1>4. CASE Unseen(sr) # {}
  <2>1. PICK t \in Unseen(sr) :
          /\ \A u \in Unseen(sr) \ {t} : AddedBefore(Head(q), t, u)
          /\ to.queue = Append(q, t) /\ to.visited = sr.visited \cup {t}
          /\ to.cameFrom = [sr.cameFrom EXCEPT ![t] = Head(q)]
    BY <1>1, <1>4, VisitCases
  <2>2. t \in Neighbours[q[1]] /\ t \notin sr.visited /\ q[1] \in CompanionState
    BY <1>1, <2>1 DEF Unseen
  <2>3. t \in CompanionState
    BY <2>2, NeighboursType
  <2>4. /\ Len(to.queue) = Len(q) + 1 /\ to.queue[1] = q[1] /\ to.queue[Len(q) + 1] = t
        /\ Len(q) > 1 => to.queue[2] = q[2]
    BY <1>1, <2>1, <2>3
  <2>5. to.cameFrom[t] = q[1] /\ \A u \in sr.visited : to.cameFrom[u] = sr.cameFrom[u]
    <3>1. sr.visited \subseteq CompanionState
      BY <1>1 DEF SearchState
    <3> QED
      BY <1>1, <2>1, <2>2, <2>3, <3>1
  <2>6. CASE q = << from >> /\ sr.visited = {from}
    <3>1. q[1] = from /\ Head(q) = from /\ Len(q) = 1
      BY <2>6
    <3>2. "IDLE" \in Unseen(sr)
      BY <1>2, <2>6, <3>1 DEF Unseen
    <3>3. t = "IDLE"
      <4> SUFFICES ASSUME t # "IDLE" PROVE FALSE
        OBVIOUS
      <4>1. AddedBefore(from, t, "IDLE")
        BY <2>1, <3>1, <3>2
      <4> QED
        BY <2>3, <4>1, IdleIsFirst
    <3> HIDE DEF to, q
    <3>4. to.queue[1] = from /\ to.queue[2] = "IDLE" /\ Len(to.queue) = 2
      BY <2>4, <3>1, <3>3
    <3>5. to.visited \subseteq {from} \cup Neighbours[from]
      BY <1>2, <2>1, <2>6, <3>3
    <3> QED
      BY <3>4, <3>5 DEF ByIdle, to
  <2> HIDE DEF to, q
  <2>7. CASE /\ Len(q) > 1 /\ q[1] = from /\ q[2] = "IDLE"
             /\ sr.visited \subseteq {from} \cup Neighbours[from]
    <3>1. to.visited \subseteq {from} \cup Neighbours[from]
      BY <2>1, <2>2, <2>7
    <3>2. Len(to.queue) > 1 /\ to.queue[1] = from /\ to.queue[2] = "IDLE"
      BY <1>1, <2>4, <2>7
    <3> QED
      BY <3>1, <3>2 DEF ByIdle, to
  <2>8. ASSUME q[1] = "IDLE" \/ Neighbours["IDLE"] \subseteq sr.visited
        PROVE  ByIdle(from, to)
    <3>1. ASSUME NEW u \in to.visited \cap Neighbours["IDLE"]
          PROVE  u = from \/ u \in Neighbours[from] \/ to.cameFrom[u] = "IDLE"
      <4>1. CASE u = t
        BY <2>2, <2>5, <2>8, <3>1, <4>1
      <4>2. CASE u # t
        <5>1. u \in sr.visited \cap Neighbours["IDLE"]
          BY <2>1, <3>1, <4>2
        <5> QED
          BY <2>5, <5>1 DEF ByIdle
      <4> QED
        BY <4>1, <4>2
    <3>2. Len(to.queue) > 0
      BY <1>1, <2>4
    <3>3. \/ Len(to.queue) > 0 /\ to.queue[1] = "IDLE"
          \/ Neighbours["IDLE"] \subseteq to.visited
      BY <2>1, <2>4, <2>8, <3>2
    <3> QED
      BY <3>1, <3>3 DEF ByIdle
  <2> QED
    BY <2>6, <2>7, <2>8 DEF ByIdle, to, q
<1> QED
  BY <1>3, <1>4 DEF to

SearchHolds(from, n) ==
  LET sr == Search(from)[n]
  IN  /\ SearchInv(from, sr) /\ SearchLasts(n, sr)
      /\ from \notin {"IDLE", "DRIVING"} => ByIdle(from, sr)

\* By induction, all of this holds after any number of rounds.
LEMMA SearchAlways ==
  ASSUME NEW from \in CompanionState, NEW n \in Nat
  PROVE  SearchHolds(from, n)
<1> DEFINE G == {m \in Nat : SearchHolds(from, m)}
<1>1. 0 \in G
  <2> DEFINE sr == Start(from)
  <2>1. Search(from)[0] = sr /\ SearchInv(from, sr)
    BY SearchSteps, SearchStarts
  <2>2. sr.queue = << from >> /\ sr.visited = {from}
    BY DEF Start
  <2> HIDE DEF sr
  <2>3. SearchLasts(0, sr)
    <3>1. Cardinality(CompanionState \ {from}) = Cardinality(CompanionState) - 1
      BY StatesFinite, FS_RemoveElement
    <3>2. Len(sr.queue) = 1
      BY <2>2
    <3> QED
      BY <2>2, <3>1, <3>2, StatesFinite DEF SearchLasts, RoundsLeft
  <2>4. from \notin {"IDLE", "DRIVING"} => ByIdle(from, sr)
    BY <2>2 DEF ByIdle
  <2> QED
    BY <2>1, <2>3, <2>4 DEF SearchHolds
<1>2. ASSUME NEW m \in Nat, m \in G PROVE m + 1 \in G
  <2> DEFINE sr == Search(from)[m]
             to == Search(from)[m + 1]
  <2>1. /\ SearchInv(from, sr) /\ SearchLasts(m, sr)
        /\ from \notin {"IDLE", "DRIVING"} => ByIdle(from, sr)
    BY <1>2 DEF SearchHolds
  <2>2. to = IF sr.queue = << >> THEN sr ELSE Visit(sr)
    BY SearchSteps
  <2>3. SearchHolds(from, m + 1) <=>
          /\ SearchInv(from, to) /\ SearchLasts(m + 1, to)
          /\ from \notin {"IDLE", "DRIVING"} => ByIdle(from, to)
    BY DEF SearchHolds
  <2> HIDE DEF sr, to
  <2>4. CASE sr.queue = << >>
    BY <2>1, <2>2, <2>3, <2>4 DEF SearchLasts
  <2>5. CASE sr.queue # << >>
    <3>1. SearchInv(from, to)
      BY <2>1, <2>2, <2>5, SearchGoesOn
    <3>2. from \notin {"IDLE", "DRIVING"} => ByIdle(from, to)
      BY <2>1, <2>2, <2>5, VisitByIdle
    <3>3. SearchLasts(m + 1, to)
      <4>1. RoundsLeft(to) = RoundsLeft(sr) - 1
        BY <2>1, <2>2, <2>5, VisitShortens
      <4>2. m + RoundsLeft(sr) = 2 * Cardinality(CompanionState) - 1
        BY <2>1, <2>5 DEF SearchLasts
      <4>3. RoundsLeft(sr) \in Int
        <5>1. sr \in SearchState /\ Len(sr.queue) \in Nat
          BY <2>1 DEF SearchInv, SearchState
        <5>2. Cardinality(CompanionState \ sr.visited) \in Nat
          BY StatesFinite, FS_Subset, FS_CardinalityType
        <5> QED
          BY <5>1, <5>2 DEF RoundsLeft
      <4> QED
        BY <4>1, <4>2, <4>3, StatesFinite DEF SearchLasts
    <3> QED
      BY <2>3, <3>1, <3>2, <3>3
  <2> QED
    BY <2>4, <2>5
<1>3. n \in G
  <2> HIDE DEF G
  <2> QED
    BY <1>1, <1>2, NatSteps
<1> QED
  BY <1>3

\* When the queue is empty every state was visited.
LEMMA SearchEnds ==
  ASSUME NEW from \in CompanionState
  PROVE  LET sr == Search(from)[2 * Cardinality(CompanionState)]
         IN  /\ SearchInv(from, sr) /\ sr.visited = CompanionState
             /\ from \notin {"IDLE", "DRIVING"} => ByIdle(from, sr)
<1> DEFINE n == 2 * Cardinality(CompanionState)
           sr == Search(from)[n]
<1>1. n \in Nat
  BY StatesFinite
<1>2. /\ SearchInv(from, sr) /\ SearchLasts(n, sr)
      /\ from \notin {"IDLE", "DRIVING"} => ByIdle(from, sr)
  BY <1>1, SearchAlways DEF SearchHolds
<1> HIDE DEF sr
<1>3. sr \in SearchState /\ WaysAreShortest(from, sr) /\ AllNearer(from, sr)
  BY <1>2 DEF SearchInv
<1>4. sr.queue = << >>
  <2> SUFFICES ASSUME sr.queue # << >> PROVE FALSE
    OBVIOUS
  <2>1. n + RoundsLeft(sr) = n - 1
    BY <1>2 DEF SearchLasts
  <2>2. Len(sr.queue) \in Nat /\ Cardinality(CompanionState \ sr.visited) \in Nat
    BY <1>3, StatesFinite, FS_Subset, FS_CardinalityType DEF SearchState
  <2>3. RoundsLeft(sr) \in Nat
    BY <2>2 DEF RoundsLeft
  <2> HIDE DEF n
  <2> QED
    BY <1>1, <2>1, <2>3
<1>5. \A s \in sr.visited : Neighbours[s] \subseteq sr.visited
  <2>1. Len(sr.queue) = 0
    BY <1>4
  <2> QED
    BY <1>3, <2>1 DEF AllNearer
<1>6. from \in sr.visited /\ sr.visited \subseteq CompanionState
  BY <1>3 DEF WaysAreShortest, SearchState
<1>7. "IDLE" \in sr.visited
  <2>1. CASE from = "DRIVING"
    <3>1. "WALKING" \in sr.visited
      BY <1>5, <1>6, <2>1, WalkingToDriving
    <3>2. "IDLE" \in Neighbours["WALKING"]
      BY IdleIsNear DEF CompanionState
    <3> QED
      BY <1>5, <3>1, <3>2
  <2>2. CASE from # "DRIVING"
    BY <1>5, <1>6, <2>2, IdleIsNear
  <2> QED
    BY <2>1, <2>2
<1>8. \A s \in CompanionState \ {"IDLE", "DRIVING"} : s \in sr.visited
  BY <1>5, <1>7, IdleIsNear
<1>9. "DRIVING" \in sr.visited
  BY <1>5, <1>8, WalkingToDriving DEF CompanionState
<1>10. sr.visited = CompanionState
  BY <1>6, <1>7, <1>8, <1>9
<1> QED
  BY <1>2, <1>10 DEF sr

\* What the search from a state leaves in cameFrom.
LEMMA WaysFound ==
  ASSUME NEW from \in CompanionState
  PROVE  /\ Ways[from] \in [CompanionState -> CompanionState]
         /\ Ways[from][from] = from
         /\ \A s \in CompanionState \ {from} :
              /\ s \in Neighbours[Ways[from][s]]
              /\ Distances[from][s] = Distances[from][Ways[from][s]] + 1
         /\ from \notin {"IDLE", "DRIVING"} =>
              \A t \in Neighbours["IDLE"] :
                t = from \/ t \in Neighbours[from] \/ Ways[from][t] = "IDLE"
<1> DEFINE sr == Search(from)[2 * Cardinality(CompanionState)]
<1>1. Ways[from] = sr.cameFrom
  BY DEF Ways
<1>2. /\ SearchInv(from, sr) /\ sr.visited = CompanionState
      /\ from \notin {"IDLE", "DRIVING"} => ByIdle(from, sr)
  BY SearchEnds
<1>3. Neighbours["IDLE"] \subseteq CompanionState
  BY NeighboursType DEF CompanionState
<1> HIDE DEF sr
<1> QED
  BY <1>1, <1>2, <1>3 DEF SearchInv, SearchState, WaysAreShortest, ByIdle

\* The cursor goes back along those ways.
LEMMA BackSteps ==
  ASSUME NEW way \in [CompanionState -> CompanionState], NEW to \in CompanionState
  PROVE  /\ Back(way, to) \in [Nat -> CompanionState]
         /\ Back(way, to)[0] = to
         /\ \A n \in Nat : Back(way, to)[n + 1] = way[Back(way, to)[n]]
<1> DEFINE Run(f) == f = [n \in Nat |-> IF n = 0 THEN to ELSE way[f[n - 1]]]
<1>1. PICK f \in [Nat -> CompanionState] :
        f[0] = to /\ \A n \in Nat : f[n + 1] = way[f[n]]
  BY Recursion
<1>2. Run(f)
  <2>1. ASSUME NEW n \in Nat PROVE f[n] = IF n = 0 THEN to ELSE way[f[n - 1]]
    <3>1. CASE n = 0
      BY <1>1, <3>1
    <3>2. CASE n # 0
      <4>1. n - 1 \in Nat /\ n = (n - 1) + 1
        BY <3>2
      <4> QED
        BY <1>1, <3>2, <4>1
    <3> QED
      BY <3>1, <3>2
  <2> QED
    BY <1>1, <2>1
<1>3. Back(way, to) = CHOOSE g : Run(g)
  BY DEF Back
<1>4. Run(Back(way, to))
  <2> HIDE DEF Run
  <2> QED
    BY <1>2, <1>3
<1>5. Back(way, to)[0] = to
  BY <1>4
<1>6. ASSUME NEW n \in Nat PROVE Back(way, to)[n + 1] = way[Back(way, to)[n]]
  <2>1. n + 1 \in Nat /\ n + 1 # 0 /\ (n + 1) - 1 = n
    OBVIOUS
  <2> QED
    BY <1>4, <2>1
<1>7. \A n \in Nat : Back(way, to)[n] \in CompanionState
  <2> DEFINE G == {n \in Nat : Back(way, to)[n] \in CompanionState}
  <2>1. 0 \in G
    BY <1>5
  <2>2. \A n \in Nat : n \in G => n + 1 \in G
    BY <1>6
  <2> HIDE DEF G
  <2>3. \A n \in Nat : n \in G
    BY <2>1, <2>2, NatSteps
  <2> QED
    BY <2>3 DEF G
<1>8. Back(way, to) = [n \in Nat |-> Back(way, to)[n]]
  BY <1>4
<1> HIDE DEF Run
<1> QED
  BY <1>5, <1>6, <1>7, <1>8

\* The way back to from gets one nearer to it with every state, and ends there.
LEMMA BackIsShortest ==
  ASSUME NEW from \in CompanionState, NEW to \in CompanionState, NEW n \in Nat
  PROVE  LET cursor == Back(Ways[from], to)
             away == Distances[from][to]
         IN  /\ n <= away => /\ Distances[from][cursor[n]] = away - n
                             /\ to \in Within(cursor[n])[n]
             /\ n >= away => cursor[n] = from
<1> DEFINE way == Ways[from]
           cursor == Back(way, to)
           away == Distances[from][to]
           G == {m \in Nat : m <= away => /\ Distances[from][cursor[m]] = away - m
                                          /\ to \in Within(cursor[m])[m]}
           H == {m \in Nat : m >= away => cursor[m] = from}
<1>1. /\ way \in [CompanionState -> CompanionState] /\ way[from] = from
      /\ \A s \in CompanionState \ {from} :
           s \in Neighbours[way[s]] /\ Distances[from][s] = Distances[from][way[s]] + 1
  BY WaysFound
<1>2. /\ \A m \in Nat : cursor[m] \in CompanionState /\ cursor[m + 1] = way[cursor[m]]
      /\ cursor[0] = to
  <2> HIDE DEF way
  <2>1. way \in [CompanionState -> CompanionState]
    BY <1>1
  <2>2. /\ cursor \in [Nat -> CompanionState] /\ cursor[0] = to
        /\ \A m \in Nat : cursor[m + 1] = way[cursor[m]]
    BY <2>1, BackSteps
  <2> HIDE DEF cursor
  <2> QED
    BY <2>2
<1>3. away \in Nat /\ \A s \in CompanionState : Distances[from][s] \in Nat
  BY DistanceIs
<1> HIDE DEF way, cursor, away
<1>4. 0 \in G
  <2>1. Distances[from][cursor[0]] = away
    BY <1>2 DEF away
  <2>2. to \in Within(cursor[0])[0]
    BY <1>2, WithinSteps
  <2> QED
    BY <1>3, <2>1, <2>2
<1>5. ASSUME NEW m \in Nat, m \in G PROVE m + 1 \in G
  <2> SUFFICES ASSUME m + 1 <= away
               PROVE  /\ Distances[from][cursor[m + 1]] = away - (m + 1)
                      /\ to \in Within(cursor[m + 1])[m + 1]
    OBVIOUS
  <2>1. Distances[from][cursor[m]] = away - m /\ to \in Within(cursor[m])[m]
    BY <1>3, <1>5
  <2>2. cursor[m] # from /\ cursor[m] \in CompanionState
    <3>1. Distances[from][cursor[m]] # 0
      BY <1>3, <2>1
    <3> QED
      BY <1>2, <3>1, DistanceZero
  <2>3. /\ cursor[m] \in Neighbours[cursor[m + 1]] /\ cursor[m + 1] \in CompanionState
        /\ Distances[from][cursor[m]] = Distances[from][cursor[m + 1]] + 1
    BY <1>1, <1>2, <2>2
  <2>4. Distances[from][cursor[m + 1]] = away - (m + 1)
    BY <1>3, <2>1, <2>3
  <2>5. to \in Within(cursor[m + 1])[m + 1]
    BY <2>1, <2>2, <2>3, WithinShifts DEF CanTransition
  <2> QED
    BY <2>4, <2>5
<1>6. \A m \in Nat : m \in G
  <2> HIDE DEF G
  <2> QED
    BY <1>4, <1>5, NatSteps
<1>7. \A m \in Nat : m \in H
  <2>1. cursor[away] = from
    <3>1. Distances[from][cursor[away]] = 0
      BY <1>3, <1>6
    <3> QED
      BY <1>2, <1>3, <3>1, DistanceZero
  <2>2. 0 \in H
    BY <1>3, <2>1
  <2>3. ASSUME NEW m \in Nat, m \in H PROVE m + 1 \in H
    <3> SUFFICES ASSUME m + 1 >= away PROVE cursor[m + 1] = from
      OBVIOUS
    <3>1. CASE m >= away
      BY <1>1, <1>2, <2>3, <3>1
    <3>2. CASE m + 1 = away
      BY <2>1, <3>2
    <3> QED
      BY <1>3, <3>1, <3>2
  <2> HIDE DEF H
  <2> QED
    BY <2>2, <2>3, NatSteps
<1> QED
  BY <1>6, <1>7 DEF way, cursor, away

\* The first hop leaves from, leads one nearer to the target, and from one state indoors
\* to another that is not next to it, is IDLE.
LEMMA FirstHopIs ==
  ASSUME NEW from \in CompanionState, NEW to \in CompanionState, from # to
  PROVE  /\ FirstHop(from, to) \in Neighbours[from]
         /\ Distances[FirstHop(from, to)][to] = Distances[from][to] - 1
         /\ from \notin {"IDLE", "DRIVING"} /\ to \in Neighbours["IDLE"] \ Neighbours[from]
              => FirstHop(from, to) = "IDLE"
<1> DEFINE way == Ways[from]
           cursor == Back(way, to)
           away == Distances[from][to]
           card == Cardinality(CompanionState)
           Last(n) == cursor[n] # from /\ cursor[n + 1] = from
           last == CHOOSE n \in 0 .. card : Last(n)
           hop == cursor[away - 1]
<1>1. /\ way \in [CompanionState -> CompanionState] /\ way[from] = from
      /\ \A s \in CompanionState \ {from} : s \in Neighbours[way[s]]
      /\ from \notin {"IDLE", "DRIVING"} =>
           \A t \in Neighbours["IDLE"] : t = from \/ t \in Neighbours[from] \/ way[t] = "IDLE"
  BY WaysFound
<1>2. /\ \A m \in Nat : cursor[m] \in CompanionState /\ cursor[m + 1] = way[cursor[m]]
      /\ cursor[0] = to
  <2> HIDE DEF way
  <2>1. way \in [CompanionState -> CompanionState]
    BY <1>1
  <2>2. /\ cursor \in [Nat -> CompanionState] /\ cursor[0] = to
        /\ \A m \in Nat : cursor[m + 1] = way[cursor[m]]
    BY <2>1, BackSteps
  <2> HIDE DEF cursor
  <2> QED
    BY <2>2
<1>3. /\ away \in 1 .. 3 /\ away - 1 \in Nat /\ away - 1 \in 0 .. card
      /\ (away - 1) + 1 = away /\ away \in Nat
  <2>1. away \in 0 .. 3 /\ away # 0
    BY DistanceIs, DistanceZero
  <2>2. card \in Nat /\ card >= 3
    BY StatesFinite
  <2> HIDE DEF away, card
  <2> QED
    BY <2>1, <2>2
<1>4. \A m \in Nat : /\ m <= away => /\ Distances[from][cursor[m]] = away - m
                                     /\ to \in Within(cursor[m])[m]
                     /\ m >= away => cursor[m] = from
  BY BackIsShortest
<1>5. FirstHop(from, to) = cursor[last]
  BY DEF FirstHop
<1> HIDE DEF way, cursor, away, card
<1>6. Distances[from][from] = 0
  BY DistanceZero
<1>7. Last(away - 1)
  <2>1. Distances[from][cursor[away - 1]] = 1
    BY <1>3, <1>4
  <2>2. cursor[(away - 1) + 1] = from
    BY <1>3, <1>4
  <2> QED
    BY <1>6, <2>1, <2>2
<1>8. ASSUME NEW n \in 0 .. card, Last(n) PROVE n = away - 1
  <2>1. n \in Nat /\ n + 1 \in Nat
    BY <1>8
  <2>2. ~ (n >= away)
    BY <1>4, <1>8, <2>1
  <2>3. n + 1 <= away
    BY <1>3, <2>1, <2>2
  <2>4. Distances[from][cursor[n + 1]] = away - (n + 1)
    BY <1>4, <2>1, <2>3
  <2>5. away - (n + 1) = 0
    BY <1>6, <1>8, <2>4
  <2> QED
    BY <1>3, <2>1, <2>5
<1>9. last = away - 1
  <2> HIDE DEF Last
  <2> QED
    BY <1>3, <1>7, <1>8
<1>10. FirstHop(from, to) = hop
  BY <1>5, <1>9
<1>11. hop \in CompanionState \ {from} /\ way[hop] = from
  BY <1>2, <1>3, <1>7
<1>12. hop \in Neighbours[from]
  BY <1>1, <1>11
<1>13. Distances[hop][to] = away - 1
  <2>1. to \in Within(hop)[away - 1]
    BY <1>3, <1>4
  <2> HIDE DEF hop
  <2>2. Distances[hop][to] <= away - 1 /\ Distances[hop][to] \in Nat
    BY <1>3, <1>11, <2>1, DistanceIs
  <2> DEFINE n == Distances[hop][to]
  <2>3. to \in Within(hop)[n]
    BY <1>11, <2>2, DistanceIs
  <2> HIDE DEF n
  <2>4. n \in Nat /\ n + 1 \in Nat
    BY <2>2 DEF n
  <2>5. to \in Within(from)[n + 1]
    BY <1>11, <1>12, <2>3, <2>4, WithinShifts DEF CanTransition
  <2>6. away <= n + 1
    BY <2>4, <2>5, DistanceIs DEF away
  <2> QED
    BY <1>3, <2>2, <2>4, <2>6 DEF n
<1>14. ASSUME from \notin {"IDLE", "DRIVING"}, to \in Neighbours["IDLE"] \ Neighbours[from]
       PROVE  hop = "IDLE"
  <2>1. way[to] = "IDLE"
    BY <1>1, <1>14
  <2>2. away <= 2
    <3>1. "IDLE" \in CompanionState /\ CanTransition(from, "IDLE") /\ CanTransition("IDLE", to)
          /\ CanTransition(from, from)
      BY <1>14, IdleIsNear DEF CanTransition, CompanionState
    <3>2. Distances[from]["IDLE"] <= 0 + 1
      BY <1>6, <3>1, DistanceStep
    <3>3. away <= Distances[from]["IDLE"] + 1
      BY <3>1, DistanceStep DEF away
    <3>4. Distances[from]["IDLE"] \in Nat
      BY <3>1, DistanceIs
    <3> QED
      BY <1>3, <3>2, <3>3, <3>4
  <2>3. away # 1
    <3> SUFFICES ASSUME away = 1 PROVE FALSE
      OBVIOUS
    <3>1. hop = to
      BY <1>2, <3>1
    <3> QED
      BY <1>12, <1>14, <3>1
  <2>4. away - 1 = 0 + 1
    BY <1>3, <2>2, <2>3
  <2> QED
    BY <1>2, <2>1, <2>4
<1> QED
  BY <1>10, <1>12, <1>13, <1>14 DEF away

\* What the plan's next is, if the target is next to the state or not.
LEMMA NextHopIs ==
  ASSUME NEW from \in CompanionState, NEW to \in CompanionState
  PROVE  /\ NextHop(from, to) \in CompanionState
         /\ CanTransition(from, NextHop(from, to))
         /\ from # to => Distances[NextHop(from, to)][to] = Distances[from][to] - 1
         /\ from \notin OUTDOOR_STATES /\ to \notin OUTDOOR_STATES =>
              NextHop(from, to) \notin OUTDOOR_STATES
<1>1. CASE CanTransition(from, to)
  <2>1. NextHop(from, to) = to
    BY <1>1 DEF NextHop
  <2>2. ASSUME from # to PROVE Distances[to][to] = Distances[from][to] - 1
    <3>1. Distances[to][to] = 0 /\ Distances[from][from] = 0 /\ Distances[from][to] # 0
      BY <2>2, DistanceZero
    <3>2. Distances[from][to] <= 0 + 1
      BY <1>1, <3>1, DistanceStep
    <3>3. Distances[from][to] \in Nat
      BY DistanceIs
    <3> QED
      BY <3>1, <3>2, <3>3
  <2> QED
    BY <1>1, <2>1, <2>2
<1>2. CASE ~ CanTransition(from, to)
  <2>1. NextHop(from, to) = FirstHop(from, to) /\ from # to
    BY <1>2 DEF NextHop, CanTransition
  <2>2. FirstHop(from, to) \in Neighbours[from] /\ FirstHop(from, to) \in CompanionState
    BY <2>1, FirstHopIs, NeighboursType
  <2>3. Distances[FirstHop(from, to)][to] = Distances[from][to] - 1
    BY <2>1, FirstHopIs
  <2>4. ASSUME from \notin OUTDOOR_STATES, to \notin OUTDOOR_STATES
        PROVE  FirstHop(from, to) \notin OUTDOOR_STATES
    <3>1. from # "DRIVING" /\ to # "DRIVING"
      BY <2>4 DEF OUTDOOR_STATES
    <3>2. from # "IDLE"
      BY <1>2, <2>1, <3>1, IdleIsNear DEF CanTransition
    <3>3. to # "IDLE"
      BY <1>2, <3>1, <3>2, IdleIsNear DEF CanTransition
    <3>4. to \in Neighbours["IDLE"] \ Neighbours[from]
      BY <1>2, <3>1, <3>3, IdleIsNear DEF CanTransition
    <3>5. FirstHop(from, to) = "IDLE"
      BY <2>1, <3>1, <3>2, <3>4, FirstHopIs
    <3> QED
      BY <3>5 DEF OUTDOOR_STATES
  <2> QED
    BY <2>1, <2>2, <2>3, <2>4 DEF CanTransition
<1> QED
  BY <1>1, <1>2

\* What the engine resolves to is a state, and one indoors when the weather confines.
LEMMA BlockType ==
  ASSUME schedule \in Schedules, NEW h
  PROVE  ResolveBlock(h) \subseteq CompanionState
<1>1. schedule \in Seq([start : 0 .. Hours, end : 0 .. Hours, state : CompanionState])
  BY LifeAssumption
<1>2. \A i \in DOMAIN schedule :
        schedule[i] \in [start : 0 .. Hours, end : 0 .. Hours, state : CompanionState]
  <2> DEFINE Block == [start : 0 .. Hours, end : 0 .. Hours, state : CompanionState]
  <2>1. schedule \in Seq(Block)
    BY <1>1
  <2> HIDE DEF Block
  <2>2. \A i \in DOMAIN schedule : schedule[i] \in Block
    BY <2>1
  <2> QED
    BY <2>2 DEF Block
<1> QED
  BY <1>2 DEF ResolveBlock

LEMMA ResolveIs ==
  ASSUME NEW block \in SUBSET CompanionState, NEW activity \in Activities,
         NEW busy \in BOOLEAN, NEW confining \in BOOLEAN, NEW sleepsAtNight \in BOOLEAN
  PROVE  /\ ResolveState(block, activity, busy, confining, sleepsAtNight) \in CompanionState
         /\ confining =>
              ResolveState(block, activity, busy, confining, sleepsAtNight) \notin OUTDOOR_STATES
<1> DEFINE intended == IF block = {} THEN activity ELSE CHOOSE s \in block : TRUE
<1>1. intended \in CompanionState
  BY LifeAssumption
<1>2. ResolveState(block, activity, busy, confining, sleepsAtNight) =
        IF busy THEN "BUSY"
        ELSE IF block = {"SLEEPING"} THEN "SLEEPING"
        ELSE IF intended \in OUTDOOR_STATES /\ confining THEN "RELAXING"
        ELSE IF block = {} /\ sleepsAtNight THEN "SLEEPING"
        ELSE intended
  BY DEF ResolveState
<1>3. /\ {"BUSY", "SLEEPING", "RELAXING"} \subseteq CompanionState
      /\ {"BUSY", "SLEEPING", "RELAXING"} \cap OUTDOOR_STATES = {}
  BY DEF CompanionState, OUTDOOR_STATES
<1> HIDE DEF intended
<1> QED
  BY <1>1, <1>2, <1>3

LifeInv == schedule \in Schedules /\ LifeTypeOK /\ HopsGetThere

LEMMA LifeInitInv == LifeInit => LifeInv
<1> SUFFICES ASSUME LifeInit PROVE LifeInv
  OBVIOUS
<1>1. schedule \in Schedules /\ LifeTypeOK
  BY LifeAssumption DEF LifeInit, LifeTypeOK, CompanionState
<1>2. HopsGetThere
  BY DEF LifeInit, HopsGetThere, CanTransition
<1> QED
  BY <1>1, <1>2 DEF LifeInv

LEMMA PlanTransitionInv == ASSUME LifeInv, PlanTransition PROVE LifeInv'
<1>1. PICK activity \in Activities, busy \in BOOLEAN, confining \in BOOLEAN,
           sleepsAtNight \in BOOLEAN :
        LET to == ResolveState(ResolveBlock(hour), activity, busy, confining, sleepsAtNight)
        IN  /\ plan' = [from |-> doing, to |-> to, confined |-> confining]
            /\ doing' = NextHop(doing, to)
  BY DEF PlanTransition
<1> DEFINE to == ResolveState(ResolveBlock(hour), activity, busy, confining, sleepsAtNight)
<1>2. /\ plan' = [from |-> doing, to |-> to, confined |-> confining]
      /\ doing' = NextHop(doing, to)
      /\ schedule' = schedule /\ hour' = hour
  BY <1>1 DEF PlanTransition
<1>3. /\ schedule \in Schedules /\ hour \in 0 .. Hours - 1 /\ doing \in CompanionState
  BY DEF LifeInv, LifeTypeOK
<1>4. to \in CompanionState /\ (confining => to \notin OUTDOOR_STATES)
  BY <1>3, BlockType, ResolveIs
<1> HIDE DEF to
<1>5. /\ doing' \in CompanionState
      /\ CanTransition(doing, doing')
      /\ doing # to => Distances[doing'][to] = Distances[doing][to] - 1
      /\ doing \notin OUTDOOR_STATES /\ to \notin OUTDOOR_STATES => doing' \notin OUTDOOR_STATES
  BY <1>2, <1>3, <1>4, NextHopIs
<1>6. schedule' \in Schedules /\ LifeTypeOK'
  BY <1>2, <1>3, <1>4, <1>5 DEF LifeTypeOK
<1>7. HopsGetThere'
  <2>1. plan'.from = doing /\ plan'.to = to /\ plan'.confined = confining
    BY <1>2
  <2>2. CanTransition(plan'.from, doing')
    BY <1>5, <2>1
  <2>3. plan'.from # plan'.to =>
          Distances[doing'][plan'.to] = Distances[plan'.from][plan'.to] - 1
    BY <1>5, <2>1
  <2>4. plan'.confined /\ plan'.from \notin OUTDOOR_STATES => doing' \notin OUTDOOR_STATES
    BY <1>4, <1>5, <2>1
  <2> QED
    BY <2>2, <2>3, <2>4 DEF HopsGetThere
<1> QED
  BY <1>6, <1>7 DEF LifeInv

LEMMA LifeStepInv == LifeInv /\ [LifeNext]_lifeVars => LifeInv'
<1> SUFFICES ASSUME LifeInv, [LifeNext]_lifeVars PROVE LifeInv'
  OBVIOUS
<1>1. CASE PlanTransition
  BY <1>1, PlanTransitionInv
<1>2. CASE HourPasses
  <2>1. hour' = (hour + 1) % Hours /\ schedule' = schedule /\ doing' = doing /\ plan' = plan
    BY <1>2 DEF HourPasses
  <2>2. hour' \in 0 .. Hours - 1
    BY <2>1, LifeAssumption DEF LifeInv, LifeTypeOK
  <2> QED
    BY <2>1, <2>2 DEF LifeInv, LifeTypeOK, HopsGetThere
<1>3. CASE UNCHANGED lifeVars
  BY <1>3 DEF lifeVars, LifeInv, LifeTypeOK, HopsGetThere
<1> QED
  BY <1>1, <1>2, <1>3 DEF LifeNext

\* A companion who is asked for again and again gets where the engine wants it, by
\* legal hops on a shortest way that stays indoors when it can (HopsGetThere).
THEOREM HopsCorrect == LifeSpec => []HopsGetThere
<1>1. LifeSpec => []LifeInv
  BY LifeInitInv, LifeStepInv, PTL DEF LifeSpec
<1>2. LifeInv => HopsGetThere
  BY DEF LifeInv
<1> QED
  BY <1>1, <1>2, PTL

\* From whatever a companion does now, the third call for the same state has it there,
\* and further calls keep it there: no shortest way through the states is longer, and
\* the transition manager takes no other.
THEOREM ArrivesInThree ==
  \A from, to \in CompanionState :
    /\ NextHop(NextHop(NextHop(from, to), to), to) = to
    /\ NextHop(to, to) = to
<1> SUFFICES ASSUME NEW from \in CompanionState, NEW to \in CompanionState
             PROVE  /\ NextHop(NextHop(NextHop(from, to), to), to) = to
                    /\ NextHop(to, to) = to
  OBVIOUS
<1>1. NextHop(to, to) = to
  BY DEF NextHop, CanTransition
<1>2. ASSUME NEW s \in CompanionState, NEW n \in Nat, Distances[s][to] <= n + 1
      PROVE  NextHop(s, to) \in CompanionState /\ Distances[NextHop(s, to)][to] <= n
  <2>1. CASE s = to
    <3>1. NextHop(s, to) = to /\ Distances[to][to] = 0
      BY <1>1, <2>1, DistanceZero
    <3> QED
      BY <3>1
  <2>2. CASE s # to
    <3>1. NextHop(s, to) \in CompanionState /\ Distances[NextHop(s, to)][to] = Distances[s][to] - 1
      BY <1>2, <2>2, NextHopIs
    <3>2. Distances[s][to] \in Nat
      BY DistanceIs
    <3> QED
      BY <1>2, <3>1, <3>2
  <2> QED
    BY <2>1, <2>2
<1> DEFINE first  == NextHop(from, to)
           second == NextHop(first, to)
           third  == NextHop(second, to)
<1>3. Distances[from][to] <= 2 + 1
  BY DistanceIs
<1>4. first \in CompanionState /\ Distances[first][to] <= 1 + 1
  BY <1>2, <1>3
<1>5. second \in CompanionState /\ Distances[second][to] <= 0 + 1
  BY <1>2, <1>4
<1>6. third \in CompanionState /\ Distances[third][to] <= 0
  BY <1>2, <1>5
<1>7. Distances[third][to] = 0
  BY <1>6, DistanceIs
<1> QED
  BY <1>1, <1>6, <1>7, DistanceZero

LEMMA LifeTypes == LifeSpec => []LifeTypeOK
<1>1. LifeInv => LifeTypeOK
  BY DEF LifeInv
<1> QED
  BY <1>1, LifeInitInv, LifeStepInv, PTL DEF LifeSpec

=============================================================================
