----------------------------- MODULE MemoryStore -----------------------------
(***************************************************************************)
(* The in-process memory engine: a repository of memories, an index and a  *)
(* timeline.  The engine is synchronous, so each operation is one step;    *)
(* what is hard is the sequence of the calls, the order of the writes      *)
(* within one, and that callers keep the objects they were given and       *)
(* assign to them.  A memory's content is the set of the accounts it       *)
(* holds, each named by the memory it was first told in.                   *)
(***************************************************************************)
EXTENDS Naturals, FiniteSets

CONSTANTS Memories,    \* the ids: a uuid for each memory, used once
          Relations,   \* the relationshipIds of a memory's user
          NoMemory

\* getKey: the user's list of the relationship, or the "global" one of memories without.
Lists == Relations \cup {"global"}

MemoryStatus == {"ACTIVE", "EXPIRED", "ARCHIVED", "CONFLICTED"}
Memory == [status : MemoryStatus, content : SUBSET Memories, relation : Lists]

ASSUME MemoryAssumption == NoMemory \notin Memory

VARIABLES
  store,       \* [Memories -> Memory or NoMemory]: MemoryRepository
  index,       \* [Memories -> SUBSET Memories]: the content the id is indexed under
  timeline,    \* [Lists -> [Memories -> Memory or NoMemory]]: MemoryTimeline, its
               \* entry for an id in each list
  shared,      \* SUBSET Memories: the stored object is the "global" list's entry itself
  issued,      \* SUBSET Memories: ids given out
  touched,     \* history: SUBSET Memories, assigned to since the engine last listed them
  closed       \* history: SUBSET Memories, expired or archived by the engine

listVars == <<index, timeline>>
memoryVars == <<store, listVars, shared, issued, touched, closed>>

MemoryInit ==
  /\ store = [m \in Memories |-> NoMemory]
  /\ timeline = [k \in Lists |-> [m \in Memories |-> NoMemory]]
  /\ index = [m \in Memories |-> {}]
  /\ shared = {} /\ issued = {} /\ touched = {} /\ closed = {}

Stored == {m \in Memories : store[m] # NoMemory}

\* A mutant: a list that has an entry of the id keeps it.
IndexAndTimeline_KeepsEntry(m, memory) ==
  /\ index' = [index EXCEPT ![m] = @ \cup memory.content]
  /\ timeline' = [timeline EXCEPT ![memory.relation][m] = IF @ = NoMemory THEN memory ELSE @]

\* Indexer.index adds and never removes; addEntry replaces the id's entry in the
\* memory's own list and looks at no other list.
IndexAndTimeline(m, memory) ==
  /\ index' = [index EXCEPT ![m] = @ \cup memory.content]
  /\ timeline' = [timeline EXCEPT ![memory.relation][m] = memory]

Without(map, gone) == [m \in Memories |-> IF m \in gone THEN NoMemory ELSE map[m]]

\* The repository becomes this map; of these ids it holds another object now, or none.
Keeps(map, others) ==
  /\ store' = map
  /\ shared' = shared \ others

-----------------------------------------------------------------------------
\* save returns the stored object itself: store, timeline and caller share it.
Create ==
  /\ \E m \in Memories \ issued :
       LET memory == [status |-> "ACTIVE", content |-> {m}, relation |-> "global"] IN
       /\ issued' = issued \cup {m}
       /\ store' = [store EXCEPT ![m] = memory]
       /\ shared' = shared \cup {m}
       /\ IndexAndTimeline(m, memory)
  /\ UNCHANGED <<touched, closed>>

Updatable(m) == store[m].status \notin {"EXPIRED", "ARCHIVED"}

\* update takes what the caller hands in, whatever its status, content and relationship;
\* the repository stores a copy of the object that goes to timeline and caller.
Update ==
  /\ \E m \in Stored :
     \E memory \in [status : MemoryStatus, content : SUBSET issued, relation : Lists] :
       /\ Updatable(m)
       /\ Keeps([store EXCEPT ![m] = memory], {m})
       /\ IndexAndTimeline(m, memory)
       /\ touched' = touched \ {m}
  /\ UNCHANGED <<issued, closed>>

\* merge of one memory returns that memory itself, under its own id; of a longer list,
\* an ACTIVE one under a new id, in the relationship of the most important.  It is saved
\* first, then the given ids are deleted.
Merge ==
  /\ \/ \E m \in Stored :
          /\ Keeps(Without(store, {m}), {m})
          /\ IndexAndTimeline(m, store[m])
          /\ UNCHANGED issued
     \/ \E M \in SUBSET Stored \ {{}}, m \in Memories \ issued : \E primary \in M :
          LET memory == [status |-> "ACTIVE", content |-> UNION {store[x].content : x \in M},
                         relation |-> store[primary].relation] IN
          /\ issued' = issued \cup {m}
          /\ Keeps(Without([store EXCEPT ![m] = memory], M), M)
          /\ IndexAndTimeline(m, memory)
  /\ UNCHANGED <<touched, closed>>

\* ConflictResolver.mergeMemories keeps the existing memory's id, status and relationship.
MergeMemories(old, new) == [store[old] EXCEPT !.content = @ \cup store[new].content]

\* resolveConflict as MERGE: saved under the old id, which is deleted with the new.
ResolveByMerge ==
  /\ \E old, new \in Stored :
       /\ old # new
       /\ Keeps(Without([store EXCEPT ![old] = MergeMemories(old, new)], {old, new}), {old, new})
       /\ IndexAndTimeline(old, MergeMemories(old, new))
  /\ UNCHANGED <<issued, touched, closed>>

\* resolveConflict as KEEP_NEW or KEEP_EXISTING deletes the other one; as
\* MARK_CONFLICT it changes nothing.
ResolveByKeeping ==
  /\ \E gone \in Stored : Keeps(Without(store, {gone}), {gone})
  /\ UNCHANGED <<listVars, issued, touched, closed>>

\* A mutant: findById returns the stored object, and the status is assigned to it.
Closes_InPlace(m, status) ==
  /\ store' = [store EXCEPT ![m].status = status]
  /\ timeline' = IF m \in shared THEN [timeline EXCEPT !["global"][m].status = status] ELSE timeline
  /\ closed' = closed \cup {m}
  /\ UNCHANGED <<index, shared, issued, touched>>

\* A changed copy of the memory takes its place; index and timeline are not told.
Closes(m, status) ==
  /\ Keeps([store EXCEPT ![m].status = status], {m})
  /\ closed' = closed \cup {m}
  /\ UNCHANGED <<listVars, issued, touched>>

Expire == \E m \in Stored :
  /\ store[m].status \notin {"EXPIRED", "ARCHIVED"}
  /\ Closes(m, "EXPIRED")

Archive == \E m \in Stored :
  /\ store[m].status # "ARCHIVED"
  /\ Closes(m, "ARCHIVED")

-----------------------------------------------------------------------------
\* A caller assigns to a field of an object it was given.
Assigned(memory) ==
  {[memory EXCEPT !.status = s] : s \in MemoryStatus} \cup
  {[memory EXCEPT !.content = c] : c \in SUBSET issued} \cup
  {[memory EXCEPT !.relation = k] : k \in Lists}

\* The entry of list k is the stored object itself; the timeline shows the memory by it.
IsStored(k, m) == k = "global" /\ m \in shared
Shows(k, m) == IsStored(k, m) \/ (m \in Stored /\ store[m].relation = k)

\* The object that the caller had from the engine is the entry of a list, and it may be
\* the stored one as well.  Nothing is indexed, and the entry stays in its list.
CallerAssigns ==
  /\ \E k \in Lists, m \in issued :
       /\ timeline[k][m] # NoMemory
       /\ \E memory \in Assigned(timeline[k][m]) :
            /\ timeline' = [timeline EXCEPT ![k][m] = memory]
            /\ store' = IF IsStored(k, m) THEN [store EXCEPT ![m] = memory] ELSE store
            /\ touched' = IF Shows(k, m) THEN touched \cup {m} ELSE touched
  /\ UNCHANGED <<index, shared, issued, closed>>

MemoryNext == \/ Create \/ Update \/ Merge \/ ResolveByMerge \/ ResolveByKeeping
              \/ Expire \/ Archive \/ CallerAssigns

MemorySpec == MemoryInit /\ [][MemoryNext]_memoryVars

-----------------------------------------------------------------------------
MemoryTypeOK ==
  /\ store \in [Memories -> Memory \cup {NoMemory}]
  /\ timeline \in [Lists -> [Memories -> Memory \cup {NoMemory}]]
  /\ index \in [Memories -> SUBSET issued]
  /\ shared \subseteq Stored
  /\ Stored \cup touched \cup closed \subseteq issued /\ issued \subseteq Memories

\* Through any sequence of calls, with old objects handed in and memories moved from one
\* relationship to another: a memory that no caller has assigned to since the engine last
\* listed it is found by all it holds, and while it is ACTIVE its relationship's timeline
\* shows it as it is stored (update, memory.engine.ts:126-164).
MemoriesConsistent ==
  \A m \in Stored \ touched :
    /\ store[m].content \subseteq index[m]
    /\ store[m].status = "ACTIVE" => timeline[store[m].relation][m] = store[m]

\* "Enforce immutability: prevent updates to expired or archived memories"
\* (memory.engine.ts:134): what expire or archive has closed is archived or deleted, but
\* never changed, neither by a call nor by an assignment to an object given out earlier.
ClosedIsImmutable ==
  [][\A m \in closed :
       \/ store'[m] \in {store[m], NoMemory}
       \/ m \in Stored /\ store'[m] = [store[m] EXCEPT !.status = "ARCHIVED"]]_memoryVars

\* What resolveConflict says is "Safe to merge" is still there when it has merged:
\* every account that was stored is stored afterwards.
SafeToMerge ==
  [][ResolveByMerge =>
       \A m \in Stored, a \in Memories :
         a \in store[m].content =>
           \E x \in Memories : store'[x] # NoMemory /\ a \in store'[x].content]_memoryVars

=============================================================================
