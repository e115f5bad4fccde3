---------------------------- MODULE CompanionLife ----------------------------
(***************************************************************************)
(* What a companion is doing: the engine resolves a state from schedule,   *)
(* world and signals, and plans one legal hop from the state it was seen   *)
(* in towards that, found by a search through the graph of the states.     *)
(* The engine keeps nothing; a caller hands the previous state back.       *)
(***************************************************************************)
EXTENDS Naturals, FiniteSets, Sequences

CONSTANTS Hours,         \* of a day
          Schedules,     \* of the companions: sequences of [start, end, state]
          Activities     \* the states that activities of the world map to

CompanionState == {"IDLE", "WORKING", "COOKING", "READING", "RELAXING", "GAMING", "WALKING",
                   "DRIVING", "SLEEPING", "BUSY"}
OUTDOOR_STATES == {"WALKING", "DRIVING"}

ASSUME LifeAssumption ==
  /\ Hours \in Nat \ {0}
  /\ Schedules \subseteq Seq([start : 0 .. Hours, end : 0 .. Hours, state : CompanionState])
  /\ Activities \subseteq CompanionState

VARIABLES
  schedule,    \* the companion's
  hour,        \* 0 .. Hours - 1: localHour
  doing,       \* CompanionState: previousState
  plan         \* the last transition: [from, to, confined]

lifeVars == <<schedule, hour, doing, plan>>

\* ADJACENCY, in its order.
ADJACENCY == <<
  <<"IDLE", <<"WORKING", "COOKING", "READING", "RELAXING", "GAMING", "WALKING", "BUSY", "SLEEPING">> >>,
  <<"WORKING", <<"IDLE", "WALKING">> >>,
  <<"COOKING", <<"IDLE", "WALKING">> >>,
  <<"READING", <<"IDLE", "RELAXING">> >>,
  <<"RELAXING", <<"IDLE", "READING", "GAMING">> >>,
  <<"GAMING", <<"IDLE", "RELAXING">> >>,
  <<"WALKING", <<"IDLE", "DRIVING", "WORKING", "COOKING", "BUSY">> >>,
  <<"DRIVING", <<"WALKING">> >>,
  <<"SLEEPING", <<"IDLE">> >>,
  <<"BUSY", <<"IDLE", "WALKING">> >> >>

\* The rounds of the constructor's loops, row by row.  Each joins two states.
Rounds == UNION {{i} \X (DOMAIN ADJACENCY[i][2]) : i \in DOMAIN ADJACENCY}
Joins(r, s, t) == {s, t} = {ADJACENCY[r[1]][1], ADJACENCY[r[1]][2][r[2]]}
Earlier(r, q) == r[1] < q[1] \/ (r[1] = q[1] /\ r[2] < q[2])

Neighbours ==
  [s \in CompanionState |-> {t \in CompanionState : \E r \in Rounds : Joins(r, s, t)}]

\* The sets the constructor fills keep the order in which a neighbour is first added,
\* by an edge of the state itself or by one that leads to it.
AddedBefore(s, t, u) ==
  \E r \in Rounds : Joins(r, s, t) /\ \A q \in Rounds : Joins(q, s, u) => Earlier(r, q)

CanTransition(from, to) == from = to \/ to \in Neighbours[from]

-----------------------------------------------------------------------------
\* shortestPath.
Start(from) == [queue |-> << from >>, visited |-> {from},
                cameFrom |-> [s \in CompanionState |-> s]]

\* A mutant: the newest state of the queue is taken first.
Visit_Newest(search) ==
  LET current == search.queue[Len(search.queue)]
      unseen == Neighbours[current] \ search.visited
      next == CHOOSE t \in unseen : \A u \in unseen \ {t} : AddedBefore(current, t, u)
  IN  IF unseen = {} THEN [search EXCEPT !.queue = SubSeq(@, 1, Len(@) - 1)]
      ELSE [queue    |-> Append(search.queue, next),
            visited  |-> search.visited \cup {next},
            cameFrom |-> [search.cameFrom EXCEPT ![next] = current]]

\* One round of the loops: the next neighbour that was not visited, or the next state of
\* the queue.  The early return changes no way that is found already.
Visit(search) ==
  LET current == Head(search.queue)
      unseen == Neighbours[current] \ search.visited
      next == CHOOSE t \in unseen : \A u \in unseen \ {t} : AddedBefore(current, t, u)
  IN  IF unseen = {} THEN [search EXCEPT !.queue = Tail(@)]
      ELSE [queue    |-> Append(search.queue, next),
            visited  |-> search.visited \cup {next},
            cameFrom |-> [search.cameFrom EXCEPT ![next] = current]]

\* The search after each number of rounds.  A state enters and leaves the queue once.
Search(from) ==
  LET search[n \in Nat] ==
        IF n = 0 THEN Start(from)
        ELSE LET before == search[n - 1]
             IN  IF before.queue = << >> THEN before ELSE Visit(before)
  IN  search

Ways == [from \in CompanionState |-> Search(from)[2 * Cardinality(CompanionState)].cameFrom]

\* reconstruct, as far as it is looked at: the cursor's last state before from.
Back(way, to) == LET cursor[n \in Nat] == IF n = 0 THEN to ELSE way[cursor[n - 1]] IN cursor

FirstHop(from, to) ==
  LET cursor == Back(Ways[from], to)
      last == CHOOSE n \in 0 .. Cardinality(CompanionState) :
                cursor[n] # from /\ cursor[n + 1] = from
  IN  cursor[last]

\* CompanionTransitionManager.plan: what next is.
NextHop(from, to) == IF CanTransition(from, to) THEN to ELSE FirstHop(from, to)

-----------------------------------------------------------------------------
\* A block is half open and may wrap past midnight; one that ends where it starts
\* is empty.
Covers(block, h) ==
  /\ block.start # block.end
  /\ IF block.start < block.end THEN h >= block.start /\ h < block.end
                                ELSE h >= block.start \/ h < block.end

\* resolveBlock: the state of the first block that covers the hour.
ResolveBlock(h) ==
  {schedule[i].state : i \in {i \in DOMAIN schedule :
     Covers(schedule[i], h) /\ \A j \in 1 .. i - 1 : ~ Covers(schedule[j], h)}}

\* resolveState, from the state of the block if there is one.
ResolveState(block, activity, busy, confining, sleepsAtNight) ==
  LET intended == IF block = {} THEN activity ELSE CHOOSE s \in block : TRUE
  IN  IF busy THEN "BUSY"
      ELSE IF block = {"SLEEPING"} THEN "SLEEPING"
      ELSE IF intended \in OUTDOOR_STATES /\ confining THEN "RELAXING"
      ELSE IF block = {} /\ sleepsAtNight THEN "SLEEPING"
      ELSE intended

LifeInit ==
  /\ schedule \in Schedules
  /\ hour = 0
  /\ doing = "IDLE"
  /\ plan = [from |-> doing, to |-> doing, confined |-> FALSE]

\* planTransition: the override, the weather, and whether it is a night for a companion
\* who is no night owl, come with the call; the caller goes where next leads.
PlanTransition ==
  /\ \E activity \in Activities, busy, confining, sleepsAtNight \in BOOLEAN :
       LET to == ResolveState(ResolveBlock(hour), activity, busy, confining, sleepsAtNight)
       IN  /\ plan' = [from |-> doing, to |-> to, confined |-> confining]
           /\ doing' = NextHop(doing, to)
  /\ UNCHANGED <<schedule, hour>>

HourPasses ==
  /\ hour' = (hour + 1) % Hours
  /\ UNCHANGED <<schedule, doing, plan>>

LifeNext == PlanTransition \/ HourPasses

LifeSpec == LifeInit /\ [][LifeNext]_lifeVars

-----------------------------------------------------------------------------
LifeTypeOK ==
  /\ hour \in 0 .. Hours - 1
  /\ doing \in CompanionState
  /\ plan \in [from : CompanionState, to : CompanionState, confined : BOOLEAN]

\* The states that are at most n hops away, by the graph alone.
Within(from) ==
  LET ball[n \in Nat] ==
        IF n = 0 THEN {from}
        ELSE LET inner == ball[n - 1]
             IN  {s \in CompanionState : \E r \in inner : CanTransition(r, s)}
  IN  ball

IsDistance(n, from, to) == to \in Within(from)[n] /\ \A k \in 0 .. n - 1 : to \notin Within(from)[k]

Distances ==
  [from \in CompanionState |-> [to \in CompanionState |->
     CHOOSE n \in 0 .. Cardinality(CompanionState) : IsDistance(n, from, to)]]

\* A companion who is asked for again and again gets where the engine wants it: each
\* hop is legal and brings it one closer, whatever plans changed on the way.  And
\* where the first edges listed make it so: in confining weather the way from one
\* state indoors to another does not lead outdoors.
HopsGetThere ==
  /\ CanTransition(plan.from, doing)
  /\ plan.from # plan.to => Distances[doing][plan.to] = Distances[plan.from][plan.to] - 1
  /\ plan.confined /\ plan.from \notin OUTDOOR_STATES => doing \notin OUTDOOR_STATES

=============================================================================
