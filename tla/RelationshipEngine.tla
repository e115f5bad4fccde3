------------------------- MODULE RelationshipEngine -------------------------
(***************************************************************************)
(* One relationship: a database row with three scores, from which the      *)
(* engine derives twelve dimensions, and callers that read the row, apply  *)
(* an event or a growth strategy to the dimensions and write back the      *)
(* scores that changed.  There is no lock and no transaction between the   *)
(* read and the write.  Scores and dimensions are thousandths of a point.  *)
(***************************************************************************)
EXTENDS Integers, Sequences, FiniteSets

CONSTANTS Callers,
          Happenings,   \* the events recorded: SUBSET (event type \X quality)
          StartRows     \* SUBSET Row: the row before the calls

VARIABLES
  row,         \* Row
  caller,      \* [Callers -> Caller]
  lifecycle,   \* history: the status the last lifecycle call set
  ledger,      \* history: the scores when each stored change counts in full
  raced        \* history: SUBSET Scores, changed from an outdated read

relationshipVars == <<row, caller, lifecycle, ledger, raced>>

RelationshipStatus == {"ACTIVE", "PAUSED", "ENDED"}
Top == 100000
Scores == {"TRUST", "EMOTIONAL_DEPTH", "FAMILIARITY"}

Row == [score : [Scores -> 0 .. Top], interactions : Nat, status : RelationshipStatus]

EventTypes == <<"CONVERSATION", "SHARED_MOMENT", "MEMORY_CREATED", "MILESTONE_REACHED",
  "CONFLICT", "REPAIR", "RITUAL_ESTABLISHED", "JOKE_SHARED", "BOUNDARY_SET",
  "CONSISTENCY_MAINTAINED">>
Qualities == <<"SUPERFICIAL", "CASUAL", "ENGAGED", "MEANINGFUL", "PROFOUND">>

\* eventImpacts, in the order of EventTypes, and qualityMultipliers in hundredths.
RULES == [
  TRUST               |-> << <<1, 2, 1, 3, -3, 4, 1, 0, 2, 2>>,  <<50, 75, 100, 150, 200>> >>,
  COMFORT             |-> << <<1, 2, 1, 2, -2, 2, 2, 1, 1, 1>>,  <<50, 80, 100, 140, 180>> >>,
  PLAYFULNESS         |-> << <<0, 1, 0, 1, -2, 1, 1, 3, -1, 0>>, <<30, 80, 100, 120, 130>> >>,
  EMOTIONAL_DEPTH     |-> << <<2, 3, 2, 3, -2, 3, 1, 0, 2, 1>>,  <<20, 50, 100, 180, 250>> >>,
  COMMUNICATION_STYLE |-> << <<2, 1, 1, 1, -1, 2, 0, 1, 1, 1>>,  <<30, 70, 100, 150, 200>> >>,
  SHARED_RITUALS      |-> << <<0, 1, 1, 2, -2, 1, 5, 0, 0, 2>>,  <<50, 80, 100, 130, 150>> >>,
  SHARED_MEMORIES     |-> << <<0, 3, 5, 3, -1, 2, 1, 1, 1, 1>>,  <<30, 60, 100, 160, 220>> >>,
  BOUNDARIES          |-> << <<0, 0, 0, 0, 1, 2, 0, 0, 4, 1>>,   <<50, 70, 100, 140, 180>> >>,
  FAMILIARITY         |-> << <<1, 2, 1, 2, 0, 1, 1, 1, 1, 3>>,   <<40, 80, 100, 130, 150>> >>,
  RELIABILITY         |-> << <<1, 1, 0, 1, -2, 2, 1, 0, 1, 4>>,  <<50, 80, 100, 130, 160>> >>,
  SUPPORTIVENESS      |-> << <<1, 2, 1, 3, -2, 3, 1, 0, 1, 2>>,  <<30, 60, 100, 170, 230>> >>,
  RESPECT             |-> << <<1, 1, 0, 2, -3, 2, 1, 0, 2, 2>>,  <<40, 70, 100, 150, 200>> >>]

Dimensions == DOMAIN RULES

Place(s, x) == CHOOSE i \in DOMAIN s : s[i] = x

\* calculateDimensionImpact: base times multiplier, rounded to a tenth, half up.
Impact(happening) ==
  [d \in Dimensions |->
     LET base == RULES[d][1][Place(EventTypes, happening[1])]
         multiplier == RULES[d][2][Place(Qualities, happening[2])]
     IN  100 * ((base * multiplier + 5) \div 10)]

\* A mutant: the score has no upper end.
Clamp_NoTop(x) == IF x < 0 THEN 0 ELSE x

Clamp(x) == IF x < 0 THEN 0 ELSE IF x > Top THEN Top ELSE x

\* roundScore: to hundredths of a point.
RoundScore(x) == 10 * ((x + 5) \div 10)

\* A row is created with scores of 0, and only rounded scores are written to it.
ASSUME RelationshipAssumption ==
  /\ StartRows \subseteq Row
  /\ \A r \in StartRows, s \in Scores : RoundScore(r.score[s]) = r.score[s]
  /\ \A h \in Happenings : /\ \E i \in DOMAIN EventTypes : EventTypes[i] = h[1]
                           /\ \E i \in DOMAIN Qualities : Qualities[i] = h[2]

\* hydrateSnapshotFromDto: the dimensions of a row.
Hydrate(r) ==
  LET trust == r.score["TRUST"]
      depth == r.score["EMOTIONAL_DEPTH"]
      close == r.score["FAMILIARITY"]
      saturation == Clamp(2000 * r.interactions)
  IN  [TRUST |-> trust, FAMILIARITY |-> close, EMOTIONAL_DEPTH |-> depth,
       COMFORT |-> (depth + close) \div 2,
       RESPECT |-> (6 * trust + 4 * depth) \div 10,
       SUPPORTIVENESS |-> (depth + trust) \div 2,
       RELIABILITY |-> (7 * trust + 3 * saturation) \div 10,
       COMMUNICATION_STYLE |-> (close + saturation) \div 2,
       SHARED_MEMORIES |-> Clamp(5000 * r.interactions),
       SHARED_RITUALS |-> saturation,
       BOUNDARIES |-> (trust + close) \div 2,
       PLAYFULNESS |-> (5 * depth + 3 * close + 2 * saturation) \div 10]

\* applyEvent and, for each dimension, applyImpact.
ApplyEvent(snapshot, impact) == [d \in Dimensions |-> Clamp(snapshot[d] + impact[d])]

Changed(previous, next) ==
  {d \in Dimensions : RoundScore(previous[d]) # RoundScore(next[d])}

\* The three weakest dimensions; among equals, floating point decides.
Weakest(snapshot) ==
  {T \in SUBSET Dimensions : Cardinality(T) = 3 /\
     \A d \in T, e \in Dimensions \ T : snapshot[d] =< snapshot[e]}

\* DefaultEvolutionStrategy.execute: five points each for the weakest.
Growth(targets, snapshot) ==
  [d \in Dimensions |-> IF d \notin targets THEN 0
                        ELSE IF Top - snapshot[d] < 5000 THEN Top - snapshot[d] ELSE 5000]

NoImpact == [d \in Dimensions |-> 0]

\* read holds the row a call has read, impact what it applies to the dimensions.
CallerState == {"new", "apply", "grow", "bump", "done", "failed"}
Caller == [pc : CallerState, read : SUBSET Row, impact : [Dimensions -> Int]]
Idle == [pc |-> "new", read |-> {}, impact |-> NoImpact]

RelationshipInit ==
  /\ row \in StartRows
  /\ caller = [c \in Callers |-> Idle]
  /\ lifecycle = row.status
  /\ ledger = row.score
  /\ raced = {}

Read(c) == CHOOSE r \in caller[c].read : TRUE
Applied(c) == ApplyEvent(Hydrate(Read(c)), caller[c].impact)

\* The call needs no longer what it has read.
Releases(c, pc) == caller' = [caller EXCEPT ![c] = [Idle EXCEPT !.pc = pc]]

-----------------------------------------------------------------------------
\* recordEvent: the row is read; applyEvent follows without another access.
ReadForEvent(c) ==
  /\ caller[c].pc = "new"
  /\ \E h \in Happenings :
       caller' = [caller EXCEPT ![c].pc = "apply", ![c].read = {row}, ![c].impact = Impact(h)]
  /\ UNCHANGED <<row, lifecycle, ledger, raced>>

\* evolveRelationship: the row is read and the strategy executed.
ReadForEvolution(c) ==
  /\ caller[c].pc = "new"
  /\ \E T \in Weakest(Hydrate(row)) :
       caller' = [caller EXCEPT ![c].pc = "grow", ![c].read = {row}, ![c].impact = Growth(T, Hydrate(row))]
  /\ UNCHANGED <<row, lifecycle, ledger, raced>>

\* A read, an apply or a persist that fails is thrown on.
Fails(c) ==
  /\ caller[c].pc \in {"new", "apply", "grow"}
  /\ Releases(c, "failed")
  /\ UNCHANGED <<row, lifecycle, ledger, raced>>

\* A mutant: the patch holds every score and the status, changed or not.
ProjectSnapshotToUpdate_All(read, next) ==
  [score |-> [s \in Scores |-> RoundScore(next[s])], status |-> {read.status}]

\* projectSnapshotToUpdate: the scores that changed; the status never does.
ProjectSnapshotToUpdate(read, next) ==
  [score |-> [s \in Scores \cap Changed(Hydrate(read), next) |-> RoundScore(next[s])],
   status |-> {}]

\* updateRelationship writes the patch, when there is something in it.
Persist(c) ==
  /\ caller[c].pc \in {"apply", "grow"}
  /\ LET patch == ProjectSnapshotToUpdate(Read(c), Applied(c))
         meant == {s \in Scores : caller[c].impact[s] # 0}
     IN  /\ row' = [row EXCEPT
              !.score = [s \in Scores |-> IF s \in DOMAIN patch.score
                                          THEN patch.score[s] ELSE @[s]],
              !.status = IF patch.status = {} THEN @ ELSE CHOOSE x \in patch.status : TRUE]
         /\ ledger' = [s \in Scores |-> Clamp(ledger[s] + caller[c].impact[s])]
         /\ raced' = raced \cup {s \in meant : Read(c).score[s] # row.score[s]}
  /\ Releases(c, IF caller[c].pc = "grow" THEN "done" ELSE "bump")
  /\ UNCHANGED lifecycle

\* updateLastInteraction increments in the database; its failure is logged only.
UpdateLastInteraction(c) ==
  /\ caller[c].pc = "bump"
  /\ \/ row' = [row EXCEPT !.interactions = @ + 1]
     \/ row' = row
  /\ Releases(c, "done")
  /\ UNCHANGED <<lifecycle, ledger, raced>>

\* pauseRelationship, resumeRelationship, endRelationship.
SetStatus ==
  /\ \E status \in RelationshipStatus \ {row.status} :
       row' = [row EXCEPT !.status = status] /\ lifecycle' = status
  /\ UNCHANGED <<caller, ledger, raced>>

RelationshipNext ==
  \/ \E c \in Callers :
       \/ ReadForEvent(c) \/ ReadForEvolution(c) \/ Fails(c) \/ Persist(c)
       \/ UpdateLastInteraction(c)
  \/ SetStatus

RelationshipSpec == RelationshipInit /\ [][RelationshipNext]_relationshipVars

-----------------------------------------------------------------------------
RelationshipTypeOK ==
  /\ row \in Row
  /\ caller \in [Callers -> Caller]
  /\ \A c \in Callers : caller[c].read # {} <=> caller[c].pc \in {"apply", "grow"}
  /\ lifecycle \in RelationshipStatus
  /\ ledger \in [Scores -> 0 .. Top]
  /\ raced \subseteq Scores

\* Calls that overlap do not undo each other's work on a score or on the status
\* they did not mean to change: a score that no call has changed from an outdated
\* read is the sum of everything recorded, and the status is what the last
\* lifecycle call has set, as the updater's header demands.
ScoresAreTheLedger ==
  /\ \A s \in Scores \ raced : row.score[s] = ledger[s]
  /\ row.status = lifecycle

=============================================================================
