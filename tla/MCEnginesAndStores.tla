------------------------- MODULE MCEnginesAndStores -------------------------
(***************************************************************************)
(* Engines and stores that share nothing: part, which never changes, says  *)
(* which one moves, so that one run checks each of them by itself and the  *)
(* state space is their sum.                                               *)
(***************************************************************************)
EXTENDS EnginesAndStores, TLC

CONSTANTS a, b, c, i1, i2, m1, m2, m3

CONSTANT MaxCalls    \* bound on the memories made and the changes to memories

VARIABLES part, changes

MCCallers == {a, b}
MCHappenings == {<<"CONFLICT", "PROFOUND">>, <<"JOKE_SHARED", "CASUAL">>, <<"REPAIR", "ENGAGED">>}

\* A new acquaintance in the middle, and one near both ends of the scale.
MCStartRows ==
  {[score |-> [s \in Scores |-> 50000], interactions |-> 2, status |-> "ACTIVE"],
   [score |-> [s \in Scores |-> IF s = "TRUST" THEN 97500 ELSE 3000],
    interactions |-> 30, status |-> "ACTIVE"]}

MCMoments == {m1, m2}
MCInstances == {i1, i2}
MCGets == {a, b, c}
MCTtls == {3}
MCTurns == {a, b, c}
MCMemories == {m1, m2, m3}
MCRelations == {"rel-1"}
MCRequests == {a, b, c}
MCLimiters == {i1, i2}
MCMaxRequests == (i1 :> 1) @@ (i2 :> 2)
MCQueuedEvents == {a}
MCSubscribers == {1, 2, 3}

\* A day in sixths with a drive, overlapping and empty blocks, and no blocks at all.
MCBlock(start, end, state) == [start |-> start, end |-> end, state |-> state]
MCSchedules ==
  {<<MCBlock(2, 3, "DRIVING"), MCBlock(3, 4, "WORKING"), MCBlock(4, 5, "COOKING"),
     MCBlock(5, 2, "SLEEPING")>>,
   <<MCBlock(1, 4, "READING"), MCBlock(4, 4, "BUSY"), MCBlock(3, 1, "GAMING")>>, << >>}
MCActivities == {"READING", "COOKING", "WORKING", "GAMING", "RELAXING", "WALKING", "BUSY", "IDLE"}

\* The memories' calls are bounded by their ids, but for those that neither create nor
\* delete a memory.
MCMemoryNext ==
  /\ MemoryNext
  /\ changes' = IF issued' = issued /\ Stored' = Stored THEN changes + 1 ELSE changes
  /\ changes' + Cardinality(issued') <= MaxCalls

MCInit ==
  /\ changes = 0
  /\ part \in {"relationship", "moments", "cache", "consent", "memories", "limit", "queue", "companion"}
  /\ RelationshipInit /\ MomentInit /\ CacheInit /\ MemoryInit /\ QueueInit
  /\ LifeInit
  /\ part # "companion" => schedule = CHOOSE s \in Schedules : TRUE
  /\ part # "relationship" => row = CHOOSE r \in StartRows : TRUE
  /\ IF part = "consent" THEN ConsentInit
     ELSE /\ pending = {} /\ saved = {} /\ next = [t \in Turns |-> {}]
          /\ heard = [t \in Turns |-> {}]
          /\ turn = [t \in Turns |-> [pc |-> "unsent", yes |-> FALSE, flagged |-> FALSE,
                                      holds |-> {}, asks |-> FALSE]]
  /\ IF part = "limit" THEN LimitInit
     ELSE /\ count = 0 /\ expiring = FALSE /\ stuck = FALSE
          /\ request = [r \in Requests |-> [pc |-> "new", limiter |-> i1, current |-> 0]]

MCNext ==
  /\ UNCHANGED part
  /\ part = "relationship" \/ UNCHANGED relationshipVars
  /\ part = "moments" \/ UNCHANGED momentVars
  /\ part = "cache" \/ UNCHANGED cacheVars
  /\ part = "consent" \/ UNCHANGED consentVars
  /\ part = "memories" \/ UNCHANGED <<memoryVars, changes>>
  /\ part = "limit" \/ UNCHANGED limitVars
  /\ part = "queue" \/ UNCHANGED queueVars
  /\ part = "companion" \/ UNCHANGED lifeVars
  /\ \/ part = "relationship" /\ RelationshipNext
     \/ part = "moments" /\ MomentNext
     \/ part = "cache" /\ CacheNext
     \/ part = "consent" /\ ConsentNext
     \/ part = "memories" /\ MCMemoryNext
     \/ part = "limit" /\ LimitNext
     \/ part = "queue" /\ QueueNext
     \/ part = "companion" /\ LifeNext

engineVars == <<part, changes, relationshipVars, momentVars, cacheVars, consentVars, memoryVars, limitVars,
                queueVars, lifeVars>>

MCSpec == MCInit /\ [][MCNext]_engineVars

=============================================================================
