---------------------------- MODULE Stores_proofs ----------------------------
(***************************************************************************)
(* What the stores promise, for any number of processes, calls, memories   *)
(* and requests: the two-level cache answers with recent values only, the  *)
(* memory engine's repository, index and timeline agree, and the rate      *)
(* limiter's counter gets its time to live.                                *)
(***************************************************************************)
EXTENDS EnginesAndStores, Engines_proofs

-----------------------------------------------------------------------------
\* RateLimit: a counter above zero that nobody gave a time to live belongs to a
\* request that is about to.

LEMMA LimitInitInv == LimitInit => LimitTypeOK /\ CounterExpires
<1> SUFFICES ASSUME LimitInit PROVE LimitTypeOK /\ CounterExpires
  OBVIOUS
<1>1. \A l \in Limiters : [pc |-> "new", limiter |-> l, current |-> 0]
                            \in [pc : RequestState, limiter : Limiters, current : Nat]
  BY DEF RequestState
<1>2. request \in [Requests -> [pc : RequestState, limiter : Limiters, current : Nat]]
  BY <1>1 DEF LimitInit
<1>3. count = 0 /\ expiring = FALSE /\ stuck = FALSE
  BY DEF LimitInit
<1>4. LimitTypeOK
  BY <1>2, <1>3 DEF LimitTypeOK
<1>5. CounterExpires
  BY <1>3 DEF CounterExpires
<1> QED
  BY <1>4, <1>5

LEMMA IncrInv ==
  ASSUME LimitTypeOK, CounterExpires, NEW r \in Requests, Incr(r)
  PROVE  LimitTypeOK' /\ CounterExpires'
<1>1. /\ request[r].pc = "new" /\ count' = count + 1 /\ count \in Nat
      /\ expiring' = expiring /\ stuck' = stuck
  BY DEF Incr, LimitTypeOK
<1>2. request'[r].pc = IF count + 1 = 1 THEN "expire" ELSE "decide"
  BY DEF Incr, SetsExpiry, LimitTypeOK
<1>3. \A x \in Requests : x # r => request'[x] = request[x]
  BY DEF Incr, LimitTypeOK
<1>4. request' \in [Requests -> [pc : RequestState, limiter : Limiters, current : Nat]]
  <2>1. request'[r] \in [pc : RequestState, limiter : Limiters, current : Nat]
    <3> DEFINE pc == IF SetsExpiry(r, count + 1) THEN "expire" ELSE "decide"
    <3>1. request'[r] = [request[r] EXCEPT !.current = count + 1, !.pc = pc]
      BY DEF Incr, LimitTypeOK
    <3>2. pc \in RequestState /\ count + 1 \in Nat
      BY <1>1 DEF RequestState
    <3> HIDE DEF pc
    <3> QED
      BY <3>1, <3>2 DEF LimitTypeOK
  <2>2. request' = [request EXCEPT ![r] = request'[r]]
    BY DEF Incr, LimitTypeOK
  <2> QED
    BY <2>1, <2>2 DEF LimitTypeOK
<1>5. LimitTypeOK'
  BY <1>1, <1>4 DEF LimitTypeOK
<1>6. CounterExpires'
  <2>1. CASE count = 0
    BY <1>2, <2>1 DEF CounterExpires
  <2>2. CASE count # 0
    BY <1>1, <1>3, <2>2 DEF CounterExpires
  <2> QED
    BY <2>1, <2>2
<1> QED
  BY <1>5, <1>6

LEMMA LimitStepInv == LimitTypeOK /\ CounterExpires /\ [LimitNext]_limitVars
                        => LimitTypeOK' /\ CounterExpires'
<1> SUFFICES ASSUME LimitTypeOK, CounterExpires, [LimitNext]_limitVars
             PROVE  LimitTypeOK' /\ CounterExpires'
  OBVIOUS
<1> DEFINE R == [pc : RequestState, limiter : Limiters, current : Nat]
<1>0. ASSUME NEW r \in Requests, NEW pc \in RequestState, Moves(r, pc)
      PROVE  /\ request' \in [Requests -> R]
             /\ \A x \in Requests : x # r => request'[x] = request[x]
  BY <1>0 DEF Moves, LimitTypeOK
<1>1. ASSUME NEW r \in Requests, ExpireKey(r)
      PROVE  LimitTypeOK' /\ CounterExpires'
  <2>1. /\ Moves(r, "decide") /\ count' = count /\ stuck' = stuck
        /\ expiring' = (count > 0)
    BY <1>1 DEF ExpireKey
  <2>2. request' \in [Requests -> R]
    BY <1>0, <2>1 DEF RequestState
  <2>3. (count > 0) \in BOOLEAN
    OBVIOUS
  <2>4. LimitTypeOK'
    BY <2>1, <2>2, <2>3 DEF LimitTypeOK
  <2>5. CounterExpires'
    BY <2>1 DEF CounterExpires
  <2> QED
    BY <2>4, <2>5
<1>2. ASSUME NEW r \in Requests, Decide(r)
      PROVE  LimitTypeOK' /\ CounterExpires'
  <2>1. PICK pc \in {"refused", "let through"} : Moves(r, pc)
    BY <1>2 DEF Decide
  <2>2. request[r].pc = "decide" /\ UNCHANGED <<count, expiring, stuck>>
    BY <1>2 DEF Decide
  <2>3. /\ request' \in [Requests -> R]
        /\ \A x \in Requests : x # r => request'[x] = request[x]
    BY <1>0, <2>1 DEF RequestState
  <2>4. LimitTypeOK'
    BY <2>2, <2>3 DEF LimitTypeOK
  <2>5. CounterExpires'
    BY <2>2, <2>3 DEF CounterExpires
  <2> QED
    BY <2>4, <2>5
<1>3. ASSUME NEW r \in Requests, RedisError(r)
      PROVE  LimitTypeOK' /\ CounterExpires'
  <2>1. /\ Moves(r, "uncounted") /\ count' = count /\ expiring' = expiring
        /\ stuck' = (stuck \/ request[r].pc = "expire")
    BY <1>3 DEF RedisError
  <2>2. /\ request' \in [Requests -> R]
        /\ \A x \in Requests : x # r => request'[x] = request[x]
    BY <1>0, <2>1 DEF RequestState
  <2>3. stuck' \in BOOLEAN
    BY <2>1
  <2>4. LimitTypeOK'
    BY <2>1, <2>2, <2>3 DEF LimitTypeOK
  <2>5. CounterExpires'
    BY <2>1, <2>2 DEF CounterExpires
  <2> QED
    BY <2>4, <2>5
<1>4. CASE WindowEnds
  <2>1. count' = 0 /\ expiring' = FALSE /\ request' = request /\ stuck' = stuck
    BY <1>4 DEF WindowEnds
  <2>2. LimitTypeOK'
    BY <2>1 DEF LimitTypeOK
  <2>3. ~(count' > 0)
    BY <2>1
  <2>4. CounterExpires'
    BY <2>3 DEF CounterExpires
  <2> QED
    BY <2>2, <2>4
<1>5. CASE UNCHANGED limitVars
  BY <1>5 DEF limitVars, LimitTypeOK, CounterExpires
<1> QED
  BY <1>1, <1>2, <1>3, <1>4, <1>5, IncrInv DEF LimitNext

\* However many requests of a client overlap, and whatever the limits of the limiters
\* that share its key, a counter without a time to live is about to get one, unless
\* the request that created it failed between incr and expire (rateLimit.ts:49-53).
THEOREM ExpiryCorrect == LimitSpec => []CounterExpires
BY LimitInitInv, LimitStepInv, PTL DEF LimitSpec

LEMMA LimitTypes == LimitSpec => []LimitTypeOK
BY LimitInitInv, LimitStepInv, PTL DEF LimitSpec

-----------------------------------------------------------------------------
\* MemoryStore.  A stored memory is in order when what the timeline, the index and the
\* callers have of it fits: unless it was assigned to, it is indexed and listed as it is;
\* the object that callers and timeline share with the repository is not closed.

Closed == {"EXPIRED", "ARCHIVED"}

MemoryInOrder(m) ==
  /\ m \in issued /\ store[m].content \subseteq issued
  /\ m \notin touched => /\ store[m].content \subseteq index[m]
                         /\ store[m].status = "ACTIVE" => timeline[store[m].relation][m] = store[m]
  /\ m \in shared => m \notin closed /\ timeline["global"][m] = store[m]
  /\ m \in closed => store[m].status \in Closed

MemoryInv == MemoryTypeOK /\ \A m \in Stored : MemoryInOrder(m)

\* Nothing that bears on m is changed, but that its object may be shared no more.
Unmoved(m) ==
  /\ store'[m] = store[m] /\ index'[m] = index[m]
  /\ \A k \in Lists : timeline'[k][m] = timeline[k][m]
  /\ m \in touched' <=> m \in touched
  /\ m \in closed' <=> m \in closed
  /\ m \in shared' => m \in shared

ListTypes == /\ index' \in [Memories -> SUBSET issued']
             /\ timeline' \in [Lists -> [Memories -> Memory \cup {NoMemory}]]
             /\ issued \subseteq issued' /\ issued' \subseteq Memories

LEMMA StoredType ==
  ASSUME MemoryInv, NEW m \in Stored
  PROVE  /\ m \in Memories /\ m \in issued /\ store[m] # NoMemory
         /\ store[m] \in Memory /\ store[m].content \subseteq issued
BY DEF MemoryInv, MemoryTypeOK, MemoryInOrder, Stored

LEMMA UnmovedInOrder ==
  ASSUME MemoryInv, NEW m \in Stored, Unmoved(m), issued \subseteq issued'
  PROVE  MemoryInOrder(m)'
<1>1. MemoryInOrder(m) /\ store[m].relation \in Lists /\ "global" \in Lists
  BY StoredType DEF MemoryInv, Memory, Lists
<1> QED
  BY <1>1 DEF MemoryInOrder, Unmoved

\* A step is right when it leaves the memory m that it moves in order, and moves no other
\* that it keeps.
LEMMA OneMoved ==
  ASSUME MemoryInv, ListTypes, NEW m \in Memories,
         store' \in [Memories -> Memory \cup {NoMemory}],
         shared' \subseteq Stored', touched' \cup closed' \subseteq issued',
         \A x \in Stored' \ {m} : x \in Stored /\ Unmoved(x),
         m \in Stored' => MemoryInOrder(m)'
  PROVE  MemoryInv'
<1>1. \A x \in Stored' : MemoryInOrder(x)'
  BY UnmovedInOrder DEF ListTypes
<1>2. Stored' \subseteq issued'
  BY <1>1 DEF MemoryInOrder
<1>3. MemoryTypeOK'
  BY <1>2 DEF MemoryTypeOK, ListTypes
<1> QED
  BY <1>1, <1>3 DEF MemoryInv

\* Listing a memory adds to its id's words and replaces its entry in its own list only.
LEMMA Listed ==
  ASSUME MemoryInv, NEW m \in Memories, NEW memory \in Memory,
         IndexAndTimeline(m, memory), issued \subseteq issued', issued' \subseteq Memories,
         memory.content \subseteq issued'
  PROVE  /\ ListTypes
         /\ memory.content \subseteq index'[m] /\ timeline'[memory.relation][m] = memory
         /\ \A x \in Memories \ {m} :
              index'[x] = index[x] /\ \A k \in Lists : timeline'[k][x] = timeline[k][x]
<1>1. /\ index \in [Memories -> SUBSET issued]
      /\ timeline \in [Lists -> [Memories -> Memory \cup {NoMemory}]]
  BY DEF MemoryInv, MemoryTypeOK
<1>2. memory.relation \in Lists
  BY DEF Memory
<1> DEFINE k == memory.relation
<1>3. /\ index' = [index EXCEPT ![m] = index[m] \cup memory.content]
      /\ timeline' = [timeline EXCEPT ![k] = [timeline[k] EXCEPT ![m] = memory]]
  BY DEF IndexAndTimeline
<1> HIDE DEF k
<1>4. index[m] \cup memory.content \subseteq issued'
  BY <1>1
<1>5. index' \in [Memories -> SUBSET issued'] /\ memory.content \subseteq index'[m]
  BY <1>1, <1>3, <1>4
<1>6. [timeline[k] EXCEPT ![m] = memory] \in [Memories -> Memory \cup {NoMemory}]
  BY <1>1, <1>2 DEF k
<1>7. /\ timeline' \in [Lists -> [Memories -> Memory \cup {NoMemory}]]
      /\ timeline'[k] = [timeline[k] EXCEPT ![m] = memory]
      /\ \A l \in Lists \ {k} : timeline'[l] = timeline[l]
  BY <1>1, <1>2, <1>3, <1>6 DEF k
<1>8. timeline'[k][m] = memory /\ \A x \in Memories \ {m} : timeline'[k][x] = timeline[k][x]
  BY <1>1, <1>2, <1>7 DEF k
<1>9. \A x \in Memories \ {m} : index'[x] = index[x]
  BY <1>1, <1>3
<1>10. \A x \in Memories \ {m}, l \in Lists : timeline'[l][x] = timeline[l][x]
  BY <1>7, <1>8
<1> QED
  BY <1>5, <1>7, <1>8, <1>9, <1>10 DEF ListTypes, k

LEMMA NothingListed ==
  ASSUME MemoryInv, UNCHANGED <<listVars, issued>>
  PROVE  ListTypes
BY DEF listVars, ListTypes, MemoryInv, MemoryTypeOK

LEMMA MemoryInitInv == MemoryInit => MemoryInv
BY DEF MemoryInit, MemoryInv, MemoryTypeOK, Stored, Lists

LEMMA CreateInv == ASSUME MemoryInv, Create PROVE MemoryInv'
<1>1. PICK m \in Memories \ issued :
        LET memory == [status |-> "ACTIVE", content |-> {m}, relation |-> "global"] IN
        /\ issued' = issued \cup {m}
        /\ store' = [store EXCEPT ![m] = memory]
        /\ shared' = shared \cup {m}
        /\ IndexAndTimeline(m, memory)
  BY DEF Create
<1> DEFINE memory == [status |-> "ACTIVE", content |-> {m}, relation |-> "global"]
<1>2. /\ store \in [Memories -> Memory \cup {NoMemory}]
      /\ shared \subseteq Stored /\ issued \subseteq Memories
      /\ touched \cup closed \cup Stored \subseteq issued
  BY DEF MemoryInv, MemoryTypeOK
<1>3. /\ memory \in Memory /\ memory.content \subseteq issued' /\ memory.relation = "global"
      /\ issued \subseteq issued' /\ issued' \subseteq Memories /\ m \in issued'
  BY <1>1, <1>2 DEF Memory, MemoryStatus, Lists
<1>4. /\ store' = [store EXCEPT ![m] = memory] /\ shared' = shared \cup {m}
      /\ IndexAndTimeline(m, memory) /\ touched' = touched /\ closed' = closed
  BY <1>1 DEF Create
<1> HIDE DEF memory
<1>5. /\ ListTypes
      /\ memory.content \subseteq index'[m] /\ timeline'["global"][m] = memory
      /\ \A x \in Memories \ {m} :
           index'[x] = index[x] /\ \A k \in Lists : timeline'[k][x] = timeline[k][x]
  BY <1>3, <1>4, Listed
<1>6. /\ store' \in [Memories -> Memory \cup {NoMemory}] /\ store'[m] = memory
      /\ memory # NoMemory
      /\ \A x \in Memories \ {m} : store'[x] = store[x]
  BY <1>2, <1>3, <1>4, MemoryAssumption
<1>7. Stored' = Stored \cup {m}
  BY <1>2, <1>6 DEF Stored
<1>8. MemoryInOrder(m)'
  BY <1>1, <1>2, <1>3, <1>4, <1>5, <1>6 DEF MemoryInOrder
<1>9. \A x \in Stored' \ {m} : x \in Stored /\ Unmoved(x)
  BY <1>2, <1>4, <1>5, <1>6, <1>7 DEF Unmoved, Stored
<1>10. shared' \subseteq Stored' /\ touched' \cup closed' \subseteq issued'
  BY <1>1, <1>2, <1>4, <1>7
<1> QED
  BY <1>5, <1>6, <1>8, <1>9, <1>10, OneMoved

LEMMA UpdateInv == ASSUME MemoryInv, Update PROVE MemoryInv'
<1>1. PICK m \in Stored :
        \E memory \in [status : MemoryStatus, content : SUBSET issued, relation : Lists] :
          /\ Updatable(m)
          /\ Keeps([store EXCEPT ![m] = memory], {m})
          /\ IndexAndTimeline(m, memory)
          /\ touched' = touched \ {m}
  BY DEF Update
<1>2. PICK memory \in [status : MemoryStatus, content : SUBSET issued, relation : Lists] :
        /\ Updatable(m)
        /\ Keeps([store EXCEPT ![m] = memory], {m})
        /\ IndexAndTimeline(m, memory)
        /\ touched' = touched \ {m}
  BY <1>1
<1>3. /\ store \in [Memories -> Memory \cup {NoMemory}]
      /\ shared \subseteq Stored /\ issued \subseteq Memories
      /\ touched \cup closed \cup Stored \subseteq issued
      /\ issued' = issued /\ closed' = closed
  BY DEF MemoryInv, MemoryTypeOK, Update
<1>4. m \in Memories /\ m \in issued /\ m \notin closed
  BY <1>2, StoredType DEF MemoryInv, MemoryInOrder, Closed, Updatable
<1>5. memory \in Memory /\ memory.content \subseteq issued'
  BY <1>3 DEF Memory
<1>6. /\ ListTypes
      /\ memory.content \subseteq index'[m] /\ timeline'[memory.relation][m] = memory
      /\ \A x \in Memories \ {m} :
           index'[x] = index[x] /\ \A k \in Lists : timeline'[k][x] = timeline[k][x]
  BY <1>2, <1>3, <1>4, <1>5, Listed
<1>7. /\ store' \in [Memories -> Memory \cup {NoMemory}] /\ store'[m] = memory
      /\ shared' = shared \ {m} /\ memory # NoMemory
      /\ \A x \in Memories \ {m} : store'[x] = store[x]
  BY <1>2, <1>3, <1>4, <1>5, MemoryAssumption DEF Keeps
<1>8. Stored' = Stored
  BY <1>4, <1>7 DEF Stored
<1>9. MemoryInOrder(m)'
  BY <1>3, <1>4, <1>5, <1>6, <1>7 DEF MemoryInOrder
<1>10. \A x \in Stored' \ {m} : x \in Stored /\ Unmoved(x)
  BY <1>2, <1>3, <1>6, <1>7, <1>8 DEF Unmoved, Stored
<1>11. shared' \subseteq Stored' /\ touched' \cup closed' \subseteq issued'
  BY <1>2, <1>3, <1>7, <1>8
<1> QED
  BY <1>4, <1>6, <1>7, <1>9, <1>10, <1>11, OneMoved

\* What is listed once more and then deleted, with others: merge of one memory, and merging
\* a conflict's two.
LEMMA ListedAndGoneInv ==
  ASSUME MemoryInv, NEW m \in Stored, NEW M, m \in M, NEW memory \in Memory,
         NEW old \in [Memories -> Memory \cup {NoMemory}],
         \A x \in Memories \ {m} : old[x] = store[x],
         memory.content \subseteq issued,
         Keeps(Without(old, M), M), IndexAndTimeline(m, memory),
         UNCHANGED <<issued, touched, closed>>
  PROVE  MemoryInv'
<1>1. /\ m \in Memories /\ issued \subseteq Memories
      /\ shared \subseteq Stored /\ touched \cup closed \subseteq issued
  BY StoredType DEF MemoryInv, MemoryTypeOK
<1>2. /\ ListTypes
      /\ \A x \in Memories \ {m} :
           index'[x] = index[x] /\ \A k \in Lists : timeline'[k][x] = timeline[k][x]
  BY <1>1, Listed
<1>3. /\ store' \in [Memories -> Memory \cup {NoMemory}] /\ shared' = shared \ M
      /\ \A x \in Memories : store'[x] = IF x \in M THEN NoMemory ELSE store[x]
  BY DEF Keeps, Without
<1>4. Stored' = Stored \ M
  BY <1>3 DEF Stored
<1>5. \A x \in Stored' \ {m} : x \in Stored /\ Unmoved(x)
  BY <1>2, <1>3, <1>4 DEF Unmoved, Stored
<1> QED
  BY <1>1, <1>2, <1>3, <1>4, <1>5, OneMoved

LEMMA MergeInv == ASSUME MemoryInv, Merge PROVE MemoryInv'
<1>0. /\ store \in [Memories -> Memory \cup {NoMemory}]
      /\ shared \subseteq Stored /\ issued \subseteq Memories
      /\ touched \cup closed \cup Stored \subseteq issued
      /\ touched' = touched /\ closed' = closed
  BY DEF MemoryInv, MemoryTypeOK, Merge
<1>1. ASSUME NEW m \in Stored, Keeps(Without(store, {m}), {m}), IndexAndTimeline(m, store[m]),
             issued' = issued
      PROVE  MemoryInv'
  <2>1. store[m] \in Memory /\ store[m].content \subseteq issued
    BY StoredType
  <2> QED
    BY <1>0, <1>1, <2>1, ListedAndGoneInv
<1>2. ASSUME NEW M \in SUBSET Stored \ {{}}, NEW m \in Memories \ issued, NEW primary \in M,
             LET memory == [status |-> "ACTIVE", content |-> UNION {store[x].content : x \in M},
                            relation |-> store[primary].relation] IN
             /\ issued' = issued \cup {m}
             /\ Keeps(Without([store EXCEPT ![m] = memory], M), M)
             /\ IndexAndTimeline(m, memory)
      PROVE  MemoryInv'
  <2> DEFINE content == UNION {store[x].content : x \in M}
             memory == [status |-> "ACTIVE", content |-> content,
                        relation |-> store[primary].relation]
  <2>1. \A x \in M : store[x].content \subseteq issued
    BY StoredType
  <2>2. content \subseteq issued
    BY <2>1
  <2>3. primary \in Stored
    OBVIOUS
  <2>4. store[primary].relation \in Lists
    BY <2>3, StoredType DEF Memory
  <2> HIDE DEF content
  <2>5. memory \in Memory /\ memory.content \subseteq issued /\ memory.status = "ACTIVE"
    BY <1>0, <2>2, <2>4 DEF Memory, MemoryStatus
  <2>6. /\ issued' = issued \cup {m} /\ m \notin M
        /\ Keeps(Without([store EXCEPT ![m] = memory], M), M)
        /\ IndexAndTimeline(m, memory)
    BY <1>0, <1>2 DEF content
  <2> HIDE DEF memory
  <2>7. /\ ListTypes
        /\ memory.content \subseteq index'[m] /\ timeline'[memory.relation][m] = memory
        /\ \A x \in Memories \ {m} :
             index'[x] = index[x] /\ \A k \in Lists : timeline'[k][x] = timeline[k][x]
    BY <1>0, <2>5, <2>6, Listed
  <2>8. /\ store' \in [Memories -> Memory \cup {NoMemory}] /\ store'[m] = memory
        /\ shared' = shared \ M /\ memory # NoMemory
        /\ \A x \in Memories \ {m} : store'[x] = IF x \in M THEN NoMemory ELSE store[x]
    BY <1>0, <2>5, <2>6, MemoryAssumption DEF Keeps, Without
  <2>9. Stored' = (Stored \ M) \cup {m}
    BY <1>0, <2>6, <2>8 DEF Stored
  <2>10. MemoryInOrder(m)'
    BY <1>0, <1>2, <2>5, <2>6, <2>7, <2>8 DEF MemoryInOrder
  <2>11. \A x \in Stored' \ {m} : x \in Stored /\ Unmoved(x)
    BY <1>0, <2>7, <2>8, <2>9 DEF Unmoved, Stored
  <2>12. shared' \subseteq Stored' /\ touched' \cup closed' \subseteq issued'
    BY <1>0, <2>6, <2>8, <2>9
  <2> QED
    BY <2>7, <2>8, <2>10, <2>11, <2>12, OneMoved
<1> QED
  BY <1>1, <1>2 DEF Merge

LEMMA ResolveByMergeInv == ASSUME MemoryInv, ResolveByMerge PROVE MemoryInv'
<1>1. PICK old \in Stored, new \in Stored :
        /\ old # new
        /\ Keeps(Without([store EXCEPT ![old] = MergeMemories(old, new)], {old, new}), {old, new})
        /\ IndexAndTimeline(old, MergeMemories(old, new))
  BY DEF ResolveByMerge
<1>2. /\ store[old] \in Memory /\ store[old].content \subseteq issued
      /\ store[new] \in Memory /\ store[new].content \subseteq issued
  BY StoredType
<1>3. MergeMemories(old, new) \in Memory /\ MergeMemories(old, new).content \subseteq issued
  BY <1>2 DEF MergeMemories, Memory
<1> DEFINE map == [store EXCEPT ![old] = MergeMemories(old, new)]
<1>4. /\ map \in [Memories -> Memory \cup {NoMemory}]
      /\ \A x \in Memories \ {old} : map[x] = store[x]
  BY <1>3 DEF MemoryInv, MemoryTypeOK
<1>5. Keeps(Without(map, {old, new}), {old, new}) /\ UNCHANGED <<issued, touched, closed>>
  BY <1>1 DEF ResolveByMerge
<1> HIDE DEF map
<1> QED
  BY <1>1, <1>3, <1>4, <1>5, ListedAndGoneInv

LEMMA ResolveByKeepingInv == ASSUME MemoryInv, ResolveByKeeping PROVE MemoryInv'
<1>1. PICK gone \in Stored : Keeps(Without(store, {gone}), {gone})
  BY DEF ResolveByKeeping
<1>2. /\ UNCHANGED <<listVars, issued, touched, closed>>
      /\ store \in [Memories -> Memory \cup {NoMemory}]
      /\ shared \subseteq Stored /\ touched \cup closed \subseteq issued /\ gone \in Memories
  BY DEF ResolveByKeeping, MemoryInv, MemoryTypeOK, Stored
<1>3. /\ store' \in [Memories -> Memory \cup {NoMemory}] /\ shared' = shared \ {gone}
      /\ \A x \in Memories : store'[x] = IF x = gone THEN NoMemory ELSE store[x]
  BY <1>1, <1>2 DEF Keeps, Without
<1>4. Stored' = Stored \ {gone}
  BY <1>3 DEF Stored
<1>5. \A x \in Stored' \ {gone} : x \in Stored /\ Unmoved(x)
  BY <1>2, <1>3, <1>4 DEF Unmoved, Stored, listVars
<1>6. ListTypes
  BY <1>2, NothingListed
<1>7. shared' \subseteq Stored' /\ touched' \cup closed' \subseteq issued'
  BY <1>2, <1>3, <1>4
<1> QED
  BY <1>2, <1>3, <1>4, <1>5, <1>6, <1>7, OneMoved

\* expire and archive: a copy takes the memory's place, and nobody else holds it.
LEMMA ClosesInv ==
  ASSUME MemoryInv, NEW m \in Stored, NEW status \in Closed, Closes(m, status)
  PROVE  MemoryInv'
<1>1. /\ UNCHANGED <<listVars, issued, touched>> /\ closed' = closed \cup {m}
      /\ store \in [Memories -> Memory \cup {NoMemory}]
      /\ shared \subseteq Stored /\ touched \cup closed \subseteq issued
      /\ store' = [store EXCEPT ![m].status = status] /\ shared' = shared \ {m}
  BY DEF Closes, Keeps, MemoryInv, MemoryTypeOK
<1>2. m \in Memories /\ m \in issued /\ store[m] \in Memory
  BY StoredType
<1>3. [store[m] EXCEPT !.status = status] \in Memory /\ status # "ACTIVE"
  BY <1>2 DEF Memory, MemoryStatus, Closed
<1>4. /\ store' \in [Memories -> Memory \cup {NoMemory}]
      /\ store'[m] = [store[m] EXCEPT !.status = status] /\ store'[m] # NoMemory
      /\ \A x \in Memories \ {m} : store'[x] = store[x]
  BY <1>1, <1>2, <1>3, MemoryAssumption
<1>5. Stored' = Stored
  BY <1>2, <1>4 DEF Stored
<1>6. store'[m].status = status /\ store'[m].content = store[m].content
  BY <1>2, <1>4 DEF Memory
<1>7. MemoryInOrder(m)'
  BY <1>1, <1>2, <1>3, <1>6 DEF MemoryInOrder, MemoryInv, listVars
<1>8. \A x \in Stored' \ {m} : x \in Stored /\ Unmoved(x)
  BY <1>1, <1>4, <1>5 DEF Unmoved, Stored, listVars
<1>9. ListTypes
  BY <1>1, NothingListed
<1>10. shared' \subseteq Stored' /\ touched' \cup closed' \subseteq issued'
  BY <1>1, <1>2, <1>5
<1> QED
  BY <1>2, <1>4, <1>7, <1>8, <1>9, <1>10, OneMoved

LEMMA CallerAssignsInv == ASSUME MemoryInv, CallerAssigns PROVE MemoryInv'
<1>1. PICK k \in Lists, m \in issued :
        /\ timeline[k][m] # NoMemory
        /\ \E memory \in Assigned(timeline[k][m]) :
             /\ timeline' = [timeline EXCEPT ![k][m] = memory]
             /\ store' = IF IsStored(k, m) THEN [store EXCEPT ![m] = memory] ELSE store
             /\ touched' = IF Shows(k, m) THEN touched \cup {m} ELSE touched
  BY DEF CallerAssigns
<1>2. PICK memory \in Assigned(timeline[k][m]) :
        /\ timeline' = [timeline EXCEPT ![k][m] = memory]
        /\ store' = IF IsStored(k, m) THEN [store EXCEPT ![m] = memory] ELSE store
        /\ touched' = IF Shows(k, m) THEN touched \cup {m} ELSE touched
  BY <1>1
<1>3. /\ UNCHANGED <<index, shared, issued, closed>>
      /\ store \in [Memories -> Memory \cup {NoMemory}]
      /\ timeline \in [Lists -> [Memories -> Memory \cup {NoMemory}]]
      /\ index \in [Memories -> SUBSET issued]
      /\ shared \subseteq Stored /\ touched \cup closed \subseteq issued /\ issued \subseteq Memories
  BY DEF CallerAssigns, MemoryInv, MemoryTypeOK
<1>4. m \in Memories /\ timeline[k][m] \in Memory
  BY <1>1, <1>3
<1>5. memory \in Memory
  BY <1>2, <1>3, <1>4 DEF Assigned, Memory
<1>6. /\ timeline' \in [Lists -> [Memories -> Memory \cup {NoMemory}]]
      /\ timeline'[k][m] = memory
      /\ \A l \in Lists, x \in Memories : l # k \/ x # m => timeline'[l][x] = timeline[l][x]
  <2>1. [timeline[k] EXCEPT ![m] = memory] \in [Memories -> Memory \cup {NoMemory}]
    BY <1>3, <1>5
  <2>2. /\ timeline' \in [Lists -> [Memories -> Memory \cup {NoMemory}]]
        /\ timeline'[k] = [timeline[k] EXCEPT ![m] = memory]
        /\ \A l \in Lists \ {k} : timeline'[l] = timeline[l]
    BY <1>2, <1>3, <2>1
  <2> QED
    BY <1>3, <1>4, <2>2
<1>7. ListTypes
  BY <1>3, <1>6 DEF ListTypes
<1>8. /\ store' \in [Memories -> Memory \cup {NoMemory}] /\ Stored' = Stored
      /\ \A x \in Memories \ {m} : store'[x] = store[x]
  <2>1. CASE IsStored(k, m)
    <3>1. m \in Stored /\ memory # NoMemory /\ store' = [store EXCEPT ![m] = memory]
      BY <1>2, <1>3, <1>5, <2>1, MemoryAssumption DEF IsStored
    <3> QED
      BY <1>3, <1>4, <1>5, <3>1 DEF Stored
  <2>2. CASE ~ IsStored(k, m)
    BY <1>2, <1>3, <2>2 DEF Stored
  <2> QED
    BY <2>1, <2>2
<1>9. \A x \in Stored' \ {m} : x \in Stored /\ Unmoved(x)
  BY <1>2, <1>3, <1>6, <1>8 DEF Unmoved, Stored
<1>10. shared' \subseteq Stored' /\ touched' \cup closed' \subseteq issued'
  BY <1>2, <1>3, <1>8
<1>11. ASSUME m \in Stored PROVE MemoryInOrder(m)'
  <2>1. MemoryInOrder(m)
    BY <1>11 DEF MemoryInv
  <2>2. CASE IsStored(k, m)
    <3>1. m \in shared /\ k = "global" /\ m \notin closed /\ timeline["global"][m] = store[m]
      BY <2>1, <2>2 DEF IsStored, MemoryInOrder
    <3>2. memory.content \subseteq issued
      BY <1>2, <1>4, <2>1, <3>1 DEF Assigned, MemoryInOrder, Memory
    <3>3. store'[m] = memory /\ m \in touched'
      BY <1>2, <1>3, <1>4, <2>2 DEF Shows
    <3> QED
      BY <1>3, <1>6, <3>1, <3>2, <3>3 DEF MemoryInOrder
  <2>3. CASE ~ IsStored(k, m)
    <3>1. store'[m] = store[m] /\ (m \in shared => k # "global")
      BY <1>2, <2>3 DEF IsStored
    <3>2. m \in shared => timeline'["global"][m] = timeline["global"][m]
      BY <1>4, <1>6, <3>1 DEF Lists
    <3>3. /\ store[m].relation \in Lists
          /\ m \notin touched' => m \notin touched /\ store[m].relation # k
      BY <1>2, <1>11, StoredType DEF Shows, Memory
    <3>4. m \notin touched' =>
            timeline'[store[m].relation][m] = timeline[store[m].relation][m]
      BY <1>4, <1>6, <3>3
    <3> QED
      BY <1>3, <2>1, <3>1, <3>2, <3>3, <3>4 DEF MemoryInOrder
  <2> QED
    BY <2>2, <2>3
<1> QED
  BY <1>4, <1>7, <1>8, <1>9, <1>10, <1>11, OneMoved

LEMMA MemoryStepInv == MemoryInv /\ [MemoryNext]_memoryVars => MemoryInv'
<1> SUFFICES ASSUME MemoryInv, [MemoryNext]_memoryVars PROVE MemoryInv'
  OBVIOUS
<1>1. CASE Expire \/ Archive
  BY <1>1, ClosesInv DEF Expire, Archive, Closed
<1>2. CASE UNCHANGED memoryVars
  BY <1>2 DEF memoryVars, listVars, MemoryInv, MemoryTypeOK, MemoryInOrder, Stored
<1> QED
  BY <1>1, <1>2, CreateInv, UpdateInv, MergeInv, ResolveByMergeInv, ResolveByKeepingInv,
     CallerAssignsInv DEF MemoryNext

\* Through any sequence of calls and of assignments to the objects that were given out:
\* what no caller has assigned to since the engine last listed it is found by all it holds,
\* and shown as it is stored by the timeline of its relationship (MemoryEngine.update and
\* its companions, memory.engine.ts:55-303).
THEOREM MemoriesCorrect == MemorySpec => []MemoriesConsistent
<1>1. MemoryInv => MemoriesConsistent
  BY DEF MemoryInv, MemoryInOrder, MemoriesConsistent
<1> QED
  BY <1>1, MemoryInitInv, MemoryStepInv, PTL DEF MemorySpec

\* A step changes of what is closed at most the status, to ARCHIVED.
LEMMA ClosedStep ==
  ASSUME MemoryInv, [MemoryNext]_memoryVars, NEW m \in closed
  PROVE  \/ store'[m] \in {store[m], NoMemory}
         \/ m \in Stored /\ store'[m] = [store[m] EXCEPT !.status = "ARCHIVED"]
<1>1. /\ m \in issued /\ m \in Memories
      /\ m \in Stored => store[m].status \in Closed /\ m \notin shared
      /\ store \in [Memories -> Memory \cup {NoMemory}]
  BY DEF MemoryInv, MemoryTypeOK, MemoryInOrder
<1>2. CASE Create
  BY <1>1, <1>2 DEF Create
<1>3. CASE Update
  BY <1>1, <1>3 DEF Update, Updatable, Keeps, Closed
<1>4. CASE Merge
  BY <1>1, <1>4 DEF Merge, Keeps, Without
<1>5. CASE ResolveByMerge \/ ResolveByKeeping
  BY <1>1, <1>5 DEF ResolveByMerge, ResolveByKeeping, Keeps, Without
<1>6. CASE Expire
  BY <1>1, <1>6 DEF Expire, Closes, Keeps, Closed
<1>7. CASE Archive
  BY <1>1, <1>7 DEF Archive, Closes, Keeps
<1>8. CASE CallerAssigns
  <2>1. m \notin shared
    BY <1>1 DEF MemoryInv, MemoryTypeOK
  <2> QED
    BY <1>1, <1>8, <2>1 DEF CallerAssigns, IsStored
<1>9. CASE UNCHANGED memoryVars
  BY <1>9 DEF memoryVars
<1> QED
  BY <1>2, <1>3, <1>4, <1>5, <1>6, <1>7, <1>8, <1>9 DEF MemoryNext

\* What expire or archive has closed is archived or deleted, but never changed, whatever
\* callers hand to update or assign to the objects they hold (memory.engine.ts:134-140,
\* 266-272, 291-297).
THEOREM ClosedCorrect == MemorySpec => ClosedIsImmutable
<1>1. MemoryInv /\ [MemoryNext]_memoryVars =>
        [\A m \in closed :
           \/ store'[m] \in {store[m], NoMemory}
           \/ m \in Stored /\ store'[m] = [store[m] EXCEPT !.status = "ARCHIVED"]]_memoryVars
  BY ClosedStep
<1> QED
  BY <1>1, MemoryInitInv, MemoryStepInv, PTL DEF MemorySpec, ClosedIsImmutable

LEMMA MemoryTypes == MemorySpec => []MemoryTypeOK
<1>1. MemoryInv => MemoryTypeOK
  BY DEF MemoryInv
<1> QED
  BY <1>1, MemoryInitInv, MemoryStepInv, PTL DEF MemorySpec

-----------------------------------------------------------------------------
\* TwoLevelCache.  The time an entry has left and the time since its value was last
\* known to be good add up to at most L1MaxTtl; so do, for a value on its way from
\* Redis into the map, that time and what its entry will get.

Fresh(i, v, left) == InL2(v) \/ age[i][v] + left =< L1MaxTtl

CacheShape ==
  /\ l1 \in [Instances -> SUBSET Entry]
  /\ l2 \subseteq Entry
  /\ access \in [Gets -> Access]
  /\ age \in [Instances -> [Gets -> 0 .. L1MaxTtl]]

CachedIsFresh ==
  \A i \in Instances : \A e \in l1[i] :
    e.left =< L1MaxTtl /\ (e.left > 0 => Fresh(i, e.value, e.left))

FetchedIsFresh ==
  \A g \in Gets : access[g].pc = "ttl" =>
    \A i \in Instances : \A v \in access[g].value :
      Fresh(i, v, L1MaxTtl - access[g].waited)

CacheInv == CacheShape /\ CachedIsFresh /\ FetchedIsFresh

\* Least and Minus do what their names say.
LEMMA LeastIsLeast ==
  ASSUME NEW x \in Nat, NEW y \in Nat
  PROVE  Least(x, y) \in Nat /\ Least(x, y) =< x /\ Least(x, y) =< y
                             /\ (Least(x, y) = x \/ Least(x, y) = y)
BY DEF Least

LEMMA MinusIsMinus ==
  ASSUME NEW x \in Nat, NEW y \in Nat
  PROVE  Minus(x, y) \in Nat /\ Minus(x, y) =< x
                             /\ (Minus(x, y) > 0 => Minus(x, y) = x - y)
BY DEF Minus

\* A step other than the passing of time leaves fresh what was fresh: a value is
\* younger than before, or has been in Redis until now.
Rejuvenates ==
  /\ age' \in [Instances -> [Gets -> 0 .. L1MaxTtl]]
  /\ \A i \in Instances, v \in Gets :
       \/ InL2(v)'
       \/ age'[i][v] = 0
       \/ ~InL2(v) /\ age'[i][v] =< age[i][v]

LEMMA StaysFresh ==
  ASSUME CacheShape, Rejuvenates, NEW i \in Instances, NEW v \in Gets,
         NEW left \in 0 .. L1MaxTtl, Fresh(i, v, left)
  PROVE  Fresh(i, v, left)'
BY CacheAssumption DEF Rejuvenates, Fresh, CacheShape

LEMMA WriteL2Rejuvenates ==
  ASSUME CacheShape, NEW entries, WriteL2(entries)
  PROVE  Rejuvenates
<1>1. age' = [i \in Instances |-> [g \in Gets |-> IF InL2(g) THEN 0 ELSE age[i][g]]]
  BY DEF WriteL2
<1>2. age' \in [Instances -> [Gets -> 0 .. L1MaxTtl]]
  BY <1>1, CacheAssumption DEF CacheShape
<1> QED
  BY <1>1, <1>2 DEF Rejuvenates, CacheShape

LEMMA SameL2Rejuvenates ==
  ASSUME CacheShape, UNCHANGED <<l2, age>>
  PROVE  Rejuvenates
BY DEF Rejuvenates, CacheShape, InL2

\* A step is right when what it puts into a map or takes on its way is fresh.
LEMMA CacheStepKeeps ==
  ASSUME CacheInv, Rejuvenates, l2' \subseteq Entry, access' \in [Gets -> Access],
         l1' \in [Instances -> SUBSET Entry],
         \A i \in Instances : \A e \in l1'[i] \ l1[i] :
           e.left =< L1MaxTtl /\ (e.left > 0 => Fresh(i, e.value, e.left)'),
         \A g \in Gets : access'[g].pc = "ttl" =>
           \/ access'[g] = access[g]
           \/ \A v \in access'[g].value : v \in Gets /\ InL2(v)'
  PROVE  CacheInv'
<1>1. CacheShape /\ CachedIsFresh /\ FetchedIsFresh
  BY DEF CacheInv
<1>2. CacheShape'
  BY DEF CacheShape, Rejuvenates
<1>3. CachedIsFresh'
  <2> SUFFICES ASSUME NEW i \in Instances, NEW e \in l1'[i]
               PROVE  e.left =< L1MaxTtl /\ (e.left > 0 => Fresh(i, e.value, e.left)')
    BY DEF CachedIsFresh, Fresh, InL2
  <2>1. CASE e \in l1[i]
    <3>1. e.left =< L1MaxTtl /\ (e.left > 0 => Fresh(i, e.value, e.left))
      BY <1>1, <2>1 DEF CachedIsFresh
    <3>2. e.value \in Gets /\ e.left \in Nat
      BY <1>1, <2>1 DEF CacheShape, Entry
    <3>3. e.left \in 0 .. L1MaxTtl
      BY <3>1, <3>2, CacheAssumption
    <3> QED
      BY <1>1, <3>1, <3>2, <3>3, StaysFresh
  <2> QED
    BY <2>1
<1>4. FetchedIsFresh'
  <2> SUFFICES ASSUME NEW g \in Gets, access'[g].pc = "ttl", NEW i \in Instances,
                      NEW v \in access'[g].value
               PROVE  InL2(v)' \/ age'[i][v] + (L1MaxTtl - access'[g].waited) =< L1MaxTtl
    BY DEF FetchedIsFresh, Fresh
  <2>1. CASE access'[g] = access[g]
    <3>1. Fresh(i, v, L1MaxTtl - access[g].waited)
      BY <1>1, <2>1 DEF FetchedIsFresh
    <3>2. v \in Gets /\ access[g].waited \in 0 .. L1MaxTtl
      BY <1>1, <2>1 DEF CacheShape, Access
    <3>3. L1MaxTtl - access[g].waited \in 0 .. L1MaxTtl
      BY <3>2, CacheAssumption
    <3>4. PICK left \in 0 .. L1MaxTtl : left = L1MaxTtl - access[g].waited
      BY <3>3
    <3>5. Fresh(i, v, left)'
      BY <1>1, <3>1, <3>2, <3>4, StaysFresh
    <3> QED
      BY <2>1, <3>4, <3>5 DEF Fresh
  <2> QED
    BY <2>1
<1> QED
  BY <1>2, <1>3, <1>4 DEF CacheInv

\* How the calls move.
LEMMA DoneType ==
  ASSUME CacheShape, NEW g \in Gets, Done(g)
  PROVE  /\ access' \in [Gets -> Access] /\ access'[g].pc = "done"
         /\ \A x \in Gets : x # g => access'[x] = access[x]
<1>1. [Unused EXCEPT !.pc = "done"] \in Access
  BY CacheAssumption DEF Unused, Access
<1>2. [Unused EXCEPT !.pc = "done"].pc = "done"
  BY DEF Unused
<1> QED
  BY <1>1, <1>2 DEF Done, CacheShape

LEMMA CacheInitInv == CacheInit => CacheInv
<1> SUFFICES ASSUME CacheInit PROVE CacheInv
  OBVIOUS
<1>1. Unused \in Access /\ Unused.pc = "new"
  BY CacheAssumption DEF Unused, Access
<1>2. CacheShape
  BY <1>1, CacheAssumption DEF CacheInit, CacheShape
<1> QED
  BY <1>1, <1>2 DEF CacheInit, CacheInv, CachedIsFresh, FetchedIsFresh

LEMMA GetInv == ASSUME CacheInv, NEW g \in Gets, Get(g) PROVE CacheInv'
<1>1. CacheShape /\ Rejuvenates
  BY SameL2Rejuvenates DEF CacheInv, Get
<1>2. l1' \in [Instances -> SUBSET Entry] /\ \A i \in Instances : l1'[i] \subseteq l1[i]
  BY <1>1 DEF Get, CacheShape
<1>3. PICK i \in Instances :
        Done(g) \/ Begins(g, i, "get")
  BY DEF Get
<1>4. /\ access' \in [Gets -> Access] /\ access'[g].pc \in {"done", "get"}
      /\ \A x \in Gets : x # g => access'[x] = access[x]
  <2>1. CASE Done(g)
    BY <1>1, <2>1, DoneType
  <2>2. CASE Begins(g, i, "get")
    <3>1. access[g] \in Access
      BY <1>1 DEF CacheShape
    <3>2. [access[g] EXCEPT !.pc = "get", !.at = {i}] \in Access
      BY <3>1 DEF Access
    <3> QED
      BY <1>1, <2>2, <3>1, <3>2 DEF Begins, CacheShape, Access
  <2> QED
    BY <1>3, <2>1, <2>2
<1>5. l2' \subseteq Entry
  BY <1>1 DEF Get, CacheShape
<1> QED
  BY <1>1, <1>2, <1>4, <1>5, CacheStepKeeps

LEMMA ReadL2Inv == ASSUME CacheInv, NEW g \in Gets, ReadL2(g) PROVE CacheInv'
<1>1. CacheShape /\ Rejuvenates /\ l1' = l1 /\ l2' = l2
  BY SameL2Rejuvenates DEF CacheInv, ReadL2
<1>2. /\ access' \in [Gets -> Access]
      /\ \A x \in Gets : x # g => access'[x] = access[x]
      /\ access'[g].pc = "ttl" => access'[g].value = {e.value : e \in l2}
  <2>1. CASE l2 = {}
    BY <1>1, <2>1, DoneType DEF ReadL2
  <2>2. CASE l2 # {}
    <3>1. {e.value : e \in l2} \subseteq Gets
      BY <1>1 DEF CacheShape, Entry
    <3>2. access' = [access EXCEPT ![g].pc = "ttl", ![g].value = {e.value : e \in l2}]
      BY <2>2 DEF ReadL2
    <3>3. access[g] \in Access
      BY <1>1 DEF CacheShape
    <3>4. [access[g] EXCEPT !.pc = "ttl", !.value = {e.value : e \in l2}] \in Access
      BY <3>1, <3>3 DEF Access
    <3> QED
      BY <1>1, <3>2, <3>3, <3>4 DEF CacheShape, Access
  <2> QED
    BY <2>1, <2>2
<1>3. \A v \in {e.value : e \in l2} : v \in Gets /\ InL2(v)'
  BY <1>1 DEF InL2, CacheShape, Entry
<1>4. CacheShape => l1' \in [Instances -> SUBSET Entry] /\ l2' \subseteq Entry
  BY <1>1 DEF CacheShape
<1> QED
  BY <1>1, <1>2, <1>3, <1>4, CacheStepKeeps

\* The value that goes into the map is as fresh as the time since the call began says.
LEMMA ReadTtlInv == ASSUME CacheInv, NEW g \in Gets, ReadTtl(g) PROVE CacheInv'
<1>1. CacheShape /\ Rejuvenates /\ l2' = l2 /\ age' = age /\ access[g].pc = "ttl"
  BY SameL2Rejuvenates DEF CacheInv, ReadTtl
<1>2. /\ access' \in [Gets -> Access] /\ access'[g].pc = "done"
      /\ \A x \in Gets : x # g => access'[x] = access[x]
  BY <1>1, DoneType DEF ReadTtl
<1> DEFINE left == TimeLeft(g, {e.left : e \in l2})
<1>3. /\ access[g].waited \in 0 .. L1MaxTtl /\ access[g].value \subseteq Gets
  BY <1>1 DEF CacheShape, Access
<1>4. /\ left \in Nat /\ left =< L1MaxTtl
      /\ left > 0 => left =< L1MaxTtl - access[g].waited
  <2> DEFINE lefts == {e.left : e \in l2}
             ttl == L1Ttl(lefts)
  <2>1. lefts \subseteq Nat
    BY <1>1 DEF CacheShape, Entry
  <2>2. ttl \in Nat /\ ttl =< L1MaxTtl
    <3>1. CASE lefts = {}
      BY <3>1, CacheAssumption DEF L1Ttl
    <3>2. CASE lefts # {}
      <4>1. (CHOOSE x \in lefts : TRUE) \in Nat
        BY <2>1, <3>2
      <4> QED
        BY <3>2, <4>1, LeastIsLeast, CacheAssumption DEF L1Ttl
    <3> QED
      BY <3>1, <3>2
  <2>3. left = Minus(ttl, access[g].waited)
    BY DEF TimeLeft
  <2> HIDE DEF ttl, lefts, left
  <2>4. left \in Nat /\ left =< ttl /\ (left > 0 => left = ttl - access[g].waited)
    <3>1. access[g].waited \in Nat
      BY <1>3, CacheAssumption
    <3> QED
      BY <2>2, <2>3, <3>1, MinusIsMinus
  <2> QED
    BY <1>3, <2>2, <2>4, CacheAssumption
<1> HIDE DEF left
<1>5. \A i \in Instances : l1'[i] =
        IF i \in access[g].at THEN {[value |-> v, left |-> left] : v \in access[g].value} ELSE l1[i]
  BY DEF ReadTtl, left
<1>6. l1' \in [Instances -> SUBSET Entry]
  <2>1. \A v \in access[g].value : [value |-> v, left |-> left] \in Entry
    BY <1>3, <1>4 DEF Entry
  <2>2. l1' = [i \in Instances |->
          IF i \in access[g].at THEN {[value |-> v, left |-> left] : v \in access[g].value} ELSE l1[i]]
    BY DEF ReadTtl, left
  <2> QED
    BY <1>1, <2>1, <2>2 DEF CacheShape
<1>7. ASSUME NEW i \in Instances, NEW e \in l1'[i] \ l1[i]
      PROVE  e.left =< L1MaxTtl /\ (e.left > 0 => Fresh(i, e.value, e.left)')
  <2>1. PICK v \in access[g].value : e = [value |-> v, left |-> left]
    BY <1>5, <1>7
  <2>2. e.value = v /\ e.left = left
    BY <2>1
  <2>3. Fresh(i, v, L1MaxTtl - access[g].waited)
    BY <1>1 DEF CacheInv, FetchedIsFresh
  <2>4. age[i][v] \in 0 .. L1MaxTtl
    BY <1>1, <1>3 DEF CacheShape
  <2>5. left > 0 => InL2(v) \/ age[i][v] + left =< L1MaxTtl
    BY <1>3, <1>4, <2>3, <2>4, CacheAssumption DEF Fresh
  <2>6. left > 0 => InL2(v)' \/ age'[i][v] + left =< L1MaxTtl
    BY <1>1, <2>5 DEF InL2
  <2> QED
    BY <1>4, <2>2, <2>6 DEF Fresh
<1>8. l2' \subseteq Entry
  BY <1>1 DEF CacheShape
<1> QED
  BY <1>1, <1>2, <1>6, <1>7, <1>8, CacheStepKeeps

LEMMA SetInv == ASSUME CacheInv, NEW g \in Gets, Set(g) PROVE CacheInv'
<1>1. CacheShape /\ l2' = l2
  BY DEF CacheInv, Set
<1>2. PICK i \in Instances, ttl \in Ttls :
        /\ l1' = [l1 EXCEPT ![i] = {[value |-> g, left |-> Least(ttl, L1MaxTtl)]}]
        /\ access' = [access EXCEPT ![g].pc = "setex", ![g].at = {i}, ![g].ttl = ttl]
        /\ age' = [age EXCEPT ![i][g] = 0]
  BY DEF Set
<1>3. Rejuvenates
  BY <1>1, <1>2, CacheAssumption DEF Rejuvenates, CacheShape, InL2
<1>4. /\ access' \in [Gets -> Access] /\ access'[g].pc = "setex"
      /\ \A x \in Gets : x # g => access'[x] = access[x]
  <2>1. access[g] \in Access
    BY <1>1 DEF CacheShape
  <2>2. [access[g] EXCEPT !.pc = "setex", !.at = {i}, !.ttl = ttl] \in Access
    BY <2>1 DEF Access
  <2> QED
    BY <1>1, <1>2, <2>1, <2>2 DEF CacheShape, Access
<1>5. Least(ttl, L1MaxTtl) \in Nat /\ Least(ttl, L1MaxTtl) =< L1MaxTtl
  BY LeastIsLeast, CacheAssumption
<1>6. l1' \in [Instances -> SUBSET Entry]
  BY <1>1, <1>2, <1>5 DEF CacheShape, Entry
<1>7. ASSUME NEW x \in Instances, NEW e \in l1'[x] \ l1[x]
      PROVE  e.left =< L1MaxTtl /\ (e.left > 0 => Fresh(x, e.value, e.left)')
  <2>1. x = i /\ e = [value |-> g, left |-> Least(ttl, L1MaxTtl)]
    BY <1>1, <1>2, <1>7 DEF CacheShape
  <2>2. age'[i][g] = 0
    BY <1>1, <1>2 DEF CacheShape
  <2> QED
    BY <1>5, <2>1, <2>2, CacheAssumption DEF Fresh
<1>8. l2' \subseteq Entry
  BY <1>1 DEF CacheShape
<1> QED
  BY <1>1, <1>3, <1>4, <1>6, <1>7, <1>8, CacheStepKeeps

LEMMA SetexInv == ASSUME CacheInv, NEW g \in Gets, Setex(g) PROVE CacheInv'
<1>1. CacheShape /\ l1' = l1 /\ WriteL2({[value |-> g, left |-> access[g].ttl]})
  BY DEF CacheInv, Setex
<1>2. l2' \subseteq Entry
  <2>1. access[g] \in Access
    BY <1>1 DEF CacheShape
  <2>2. access[g].ttl \in Nat
    <3>1. access[g].ttl \in {0} \cup Ttls
      BY <2>1 DEF Access
    <3>2. \A t \in Ttls : t \in Nat
      BY CacheAssumption
    <3> QED
      BY <3>1, <3>2
  <2> QED
    BY <1>1, <2>2 DEF WriteL2, Entry
<1>3. /\ access' \in [Gets -> Access] /\ access'[g].pc = "done"
      /\ \A x \in Gets : x # g => access'[x] = access[x]
  BY <1>1, DoneType DEF Setex
<1>4. Rejuvenates /\ l1' \in [Instances -> SUBSET Entry]
  BY <1>1, WriteL2Rejuvenates DEF CacheShape
<1> QED
  BY <1>1, <1>2, <1>3, <1>4, CacheStepKeeps

LEMMA DelInv == ASSUME CacheInv, NEW g \in Gets, Del(g) PROVE CacheInv'
<1>1. CacheShape /\ l1' = l1 /\ WriteL2({})
  BY DEF CacheInv, Del
<1>2. l2' \subseteq Entry
  BY <1>1 DEF WriteL2
<1>3. /\ access' \in [Gets -> Access] /\ access'[g].pc = "done"
      /\ \A x \in Gets : x # g => access'[x] = access[x]
  BY <1>1, DoneType DEF Del
<1>4. Rejuvenates /\ l1' \in [Instances -> SUBSET Entry]
  BY <1>1, WriteL2Rejuvenates DEF CacheShape
<1> QED
  BY <1>1, <1>2, <1>3, <1>4, CacheStepKeeps

\* The steps that put nothing anywhere: what they leave is as fresh as before.
LEMMA DropsInv ==
  ASSUME CacheInv, UNCHANGED <<l2, age>>, access' \in [Gets -> Access],
         l1' \in [Instances -> SUBSET Entry], \A i \in Instances : l1'[i] \subseteq l1[i],
         \A g \in Gets : access'[g].pc = "ttl" => access'[g] = access[g]
  PROVE  CacheInv'
<1>1. CacheShape /\ Rejuvenates
  BY SameL2Rejuvenates DEF CacheInv
<1>2. l2' \subseteq Entry
  BY <1>1 DEF CacheShape
<1> QED
  BY <1>1, <1>2, CacheStepKeeps

LEMMA DeleteInv == ASSUME CacheInv, NEW g \in Gets, Delete(g) PROVE CacheInv'
<1>1. CacheShape
  BY DEF CacheInv
<1>2. PICK i \in Instances, pc \in {"del", "keys"} :
        Begins(g, i, pc) /\ l1' = [l1 EXCEPT ![i] = {}]
  BY DEF Delete
<1>3. access[g] \in Access
  BY <1>1 DEF CacheShape
<1>4. [access[g] EXCEPT !.pc = pc, !.at = {i}] \in Access
  BY <1>3 DEF Access
<1>5. /\ access' \in [Gets -> Access] /\ access'[g].pc = pc
      /\ \A x \in Gets : x # g => access'[x] = access[x]
  BY <1>1, <1>2, <1>3, <1>4 DEF Begins, CacheShape, Access
<1>6. l1' \in [Instances -> SUBSET Entry] /\ \A x \in Instances : l1'[x] \subseteq l1[x]
  BY <1>1, <1>2 DEF CacheShape
<1> QED
  BY <1>5, <1>6, DropsInv DEF Delete

LEMMA KeysInv == ASSUME CacheInv, NEW g \in Gets, Keys(g) PROVE CacheInv'
<1>1. CacheShape
  BY DEF CacheInv
<1>2. /\ access' \in [Gets -> Access] /\ access'[g].pc \in {"done", "del"}
      /\ \A x \in Gets : x # g => access'[x] = access[x]
  <2>1. CASE l2 = {}
    BY <1>1, <2>1, DoneType DEF Keys
  <2>2. CASE l2 # {}
    <3>1. access' = [access EXCEPT ![g].pc = "del"] /\ access[g] \in Access
      BY <1>1, <2>2 DEF Keys, Becomes, CacheShape
    <3>2. [access[g] EXCEPT !.pc = "del"] \in Access
      BY <3>1 DEF Access
    <3> QED
      BY <1>1, <3>1, <3>2 DEF CacheShape, Access
  <2> QED
    BY <2>1, <2>2
<1> QED
  BY <1>1, <1>2, DropsInv DEF Keys, CacheShape

LEMMA RedisFailsInv == ASSUME CacheInv, NEW g \in Gets, RedisFails(g) PROVE CacheInv'
<1>1. CacheShape
  BY DEF CacheInv
<1>2. /\ access' \in [Gets -> Access] /\ access'[g].pc = "done"
      /\ \A x \in Gets : x # g => access'[x] = access[x]
  BY <1>1, DoneType DEF RedisFails
<1> QED
  BY <1>1, <1>2, DropsInv DEF RedisFails, CacheShape

LEMMA EvictInv == ASSUME CacheInv, NEW i \in Instances, Evict(i) PROVE CacheInv'
<1>1. CacheShape
  BY DEF CacheInv
<1>2. l1' \in [Instances -> SUBSET Entry] /\ \A x \in Instances : l1'[x] \subseteq l1[x]
  BY <1>1 DEF Evict, CacheShape
<1> QED
  BY <1>1, <1>2, DropsInv DEF Evict, CacheShape

\* Time passes: what an entry loses, the age of its value gains; a value that Redis
\* drops now is as good as new.
LEMMA ElapseInv == ASSUME CacheInv, Elapse PROVE CacheInv'
<1>1. CacheShape /\ CachedIsFresh /\ FetchedIsFresh
  BY DEF CacheInv
<1>2. /\ l1' = [i \in Instances |-> {[e EXCEPT !.left = Minus(@, 1)] : e \in l1[i]}]
      /\ l2' = {[e EXCEPT !.left = @ - 1] : e \in {f \in l2 : f.left > 1}}
      /\ access' = [g \in Gets |->
           IF access[g].pc \in {"get", "ttl"}
           THEN [access[g] EXCEPT !.waited = Least(@ + 1, L1MaxTtl)] ELSE access[g]]
      /\ age' = [i \in Instances |-> [g \in Gets |->
           IF InL2(g) THEN 0 ELSE Least(age[i][g] + 1, L1MaxTtl)]]
  BY DEF Elapse
<1>3. l1' \in [Instances -> SUBSET Entry]
  <2>1. \A i \in Instances : \A e \in l1[i] :
          e \in Entry /\ [e EXCEPT !.left = Minus(@, 1)] \in Entry
    BY <1>1, MinusIsMinus DEF CacheShape, Entry
  <2> QED
    BY <1>2, <2>1
<1>4. l2' \subseteq Entry
  <2>1. \A e \in l2 : e.left > 1 => [e EXCEPT !.left = @ - 1] \in Entry
    BY <1>1 DEF CacheShape, Entry
  <2> QED
    BY <1>2, <2>1
<1>5. ASSUME NEW g \in Gets
      PROVE  /\ access'[g] \in Access /\ access'[g].pc = access[g].pc
             /\ access'[g].value = access[g].value
             /\ access[g].pc = "ttl" => access'[g].waited = Least(access[g].waited + 1, L1MaxTtl)
  <2>1. access[g] \in Access
    BY <1>1 DEF CacheShape
  <2>2. access[g].waited + 1 \in Nat /\ access[g].waited \in 0 .. L1MaxTtl
    BY <2>1, CacheAssumption DEF Access
  <2>3. Least(access[g].waited + 1, L1MaxTtl) \in 0 .. L1MaxTtl
    BY <2>2, CacheAssumption DEF Least
  <2>4. [access[g] EXCEPT !.waited = Least(@ + 1, L1MaxTtl)] \in Access
    BY <2>1, <2>3 DEF Access
  <2> QED
    BY <1>2, <2>1, <2>4 DEF Access
<1>6. ASSUME NEW i \in Instances, NEW v \in Gets
      PROVE  /\ age'[i][v] \in 0 .. L1MaxTtl
             /\ age'[i][v] = 0 \/ (~InL2(v) /\ age'[i][v] =< age[i][v] + 1)
  <2>1. age[i][v] \in 0 .. L1MaxTtl /\ age[i][v] + 1 \in Nat
    BY <1>1, CacheAssumption DEF CacheShape
  <2>2. /\ Least(age[i][v] + 1, L1MaxTtl) \in 0 .. L1MaxTtl
        /\ Least(age[i][v] + 1, L1MaxTtl) =< age[i][v] + 1
    BY <2>1, CacheAssumption DEF Least
  <2>3. age'[i][v] = IF InL2(v) THEN 0 ELSE Least(age[i][v] + 1, L1MaxTtl)
    BY <1>2
  <2> QED
    BY <2>2, <2>3, CacheAssumption
<1>7. CacheShape'
  <2>1. access' \in [Gets -> Access]
    BY <1>2, <1>5
  <2>2. age' \in [Instances -> [Gets -> 0 .. L1MaxTtl]]
    BY <1>2, <1>6
  <2> QED
    BY <1>3, <1>4, <2>1, <2>2 DEF CacheShape
<1>8. CachedIsFresh'
  <2> SUFFICES ASSUME NEW i \in Instances, NEW e \in l1'[i]
               PROVE  /\ e.left =< L1MaxTtl
                      /\ e.left > 0 => InL2(e.value)' \/ age'[i][e.value] + e.left =< L1MaxTtl
    BY DEF CachedIsFresh, Fresh
  <2>1. PICK f \in l1[i] : e = [f EXCEPT !.left = Minus(@, 1)]
    BY <1>2
  <2>2. f \in Entry
    BY <1>1 DEF CacheShape
  <2>3. e.value = f.value /\ e.left = Minus(f.left, 1) /\ f.value \in Gets /\ f.left \in Nat
    BY <2>1, <2>2 DEF Entry
  <2>4. /\ e.left \in Nat /\ e.left =< f.left
        /\ e.left > 0 => e.left = f.left - 1
    BY <2>3, MinusIsMinus
  <2>5. f.left =< L1MaxTtl /\ (f.left > 0 => InL2(f.value) \/ age[i][f.value] + f.left =< L1MaxTtl)
    BY <1>1 DEF CachedIsFresh, Fresh
  <2>6. age[i][f.value] \in 0 .. L1MaxTtl
    BY <1>1, <2>3 DEF CacheShape
  <2>7. /\ age'[i][f.value] \in 0 .. L1MaxTtl
        /\ age'[i][f.value] = 0 \/ (~InL2(f.value) /\ age'[i][f.value] =< age[i][f.value] + 1)
    BY <1>6, <2>3
  <2> QED
    BY <2>3, <2>4, <2>5, <2>6, <2>7, CacheAssumption
<1>9. FetchedIsFresh'
  <2> SUFFICES ASSUME NEW g \in Gets, access'[g].pc = "ttl", NEW i \in Instances,
                      NEW v \in access'[g].value
               PROVE  InL2(v)' \/ age'[i][v] + (L1MaxTtl - access'[g].waited) =< L1MaxTtl
    BY DEF FetchedIsFresh, Fresh
  <2>1. /\ access[g].pc = "ttl" /\ v \in access[g].value
        /\ access'[g].waited = Least(access[g].waited + 1, L1MaxTtl)
    BY <1>5
  <2>2. access[g] \in Access
    BY <1>1 DEF CacheShape
  <2>3. access[g].waited \in 0 .. L1MaxTtl /\ v \in Gets
    BY <2>1, <2>2 DEF Access
  <2>4. InL2(v) \/ age[i][v] + (L1MaxTtl - access[g].waited) =< L1MaxTtl
    BY <1>1, <2>1 DEF FetchedIsFresh, Fresh
  <2>5. /\ age'[i][v] \in 0 .. L1MaxTtl
        /\ age'[i][v] = 0 \/ (~InL2(v) /\ age'[i][v] =< age[i][v] + 1)
    BY <1>6, <2>3
  <2>6. /\ access'[g].waited \in Nat /\ access'[g].waited =< L1MaxTtl
        /\ access'[g].waited = access[g].waited + 1 \/ access'[g].waited = L1MaxTtl
    BY <2>1, <2>3, CacheAssumption DEF Least
  <2>7. age[i][v] \in 0 .. L1MaxTtl
    BY <1>1, <2>3 DEF CacheShape
  <2> QED
    BY <2>3, <2>4, <2>5, <2>6, <2>7, CacheAssumption
<1> QED
  BY <1>7, <1>8, <1>9 DEF CacheInv

LEMMA CacheStepInv == CacheInv /\ [CacheNext]_cacheVars => CacheInv'
<1> SUFFICES ASSUME CacheInv, [CacheNext]_cacheVars PROVE CacheInv'
  OBVIOUS
<1>1. CASE UNCHANGED cacheVars
  BY <1>1 DEF cacheVars, CacheInv, CacheShape, CachedIsFresh, FetchedIsFresh, Fresh, InL2
<1>2. CASE CacheNext
  <2>1. CASE \E g \in Gets : \/ Get(g) \/ ReadL2(g) \/ ReadTtl(g) \/ Set(g) \/ Setex(g)
                             \/ Delete(g) \/ Keys(g) \/ Del(g) \/ RedisFails(g)
    BY <2>1, GetInv, ReadL2Inv, ReadTtlInv, SetInv, SetexInv, DeleteInv, KeysInv, DelInv,
       RedisFailsInv
  <2>2. CASE (\E i \in Instances : Evict(i)) \/ Elapse
    BY <2>2, EvictInv, ElapseInv
  <2> QED
    BY <1>2, <2>1, <2>2 DEF CacheNext
<1> QED
  BY <1>1, <1>2

\* However calls of any number of processes interleave, and however late Redis answers,
\* a process does not answer from its map with a value that has been out of Redis for
\* l1MaxTtl (redis-l1-cache.base.ts:50-131).
THEOREM RecencyCorrect == CacheSpec => []ServedIsRecent
<1>1. CacheInv => ServedIsRecent
  <2> SUFFICES ASSUME CacheInv, NEW i \in Instances, NEW e \in l1[i], e.left > 0
               PROVE  InL2(e.value) \/ age[i][e.value] < L1MaxTtl
    BY DEF ServedIsRecent
  <2>1. e.value \in Gets /\ e.left \in Nat
    BY DEF CacheInv, CacheShape, Entry
  <2>2. age[i][e.value] \in 0 .. L1MaxTtl
    BY <2>1 DEF CacheInv, CacheShape
  <2>3. InL2(e.value) \/ age[i][e.value] + e.left =< L1MaxTtl
    BY DEF CacheInv, CachedIsFresh, Fresh
  <2> QED
    BY <2>1, <2>2, <2>3, CacheAssumption
<1> QED
  BY <1>1, CacheInitInv, CacheStepInv, PTL DEF CacheSpec

\* TwoLevelCache: one key is looked at, so that a map, Redis and an answer of Redis
\* have one entry of it at most, and Redis none whose time is over.
OneEntry ==
  /\ \A i \in Instances : Lone(l1[i])
  /\ Lone(l2) /\ \A e \in l2 : e.left > 0
  /\ \A g \in Gets : /\ Lone(access[g].value)
                     /\ access[g].pc = "setex" => access[g].ttl \in Ttls

LEMMA OneEntryStarts == CacheInit => OneEntry
BY DEF CacheInit, OneEntry, Lone, Unused

\* A call that is over has no answer and no time to live.
LEMMA DoneIsOne ==
  ASSUME CacheShape, OneEntry, NEW g \in Gets, Done(g)
  PROVE  \A f \in Gets : /\ Lone(access'[f].value)
                         /\ access'[f].pc = "setex" => access'[f].ttl \in Ttls
<1>1. /\ access'[g].value = {} /\ access'[g].pc = "done"
      /\ \A f \in Gets : f # g => access'[f] = access[f]
  BY DEF CacheShape, Done, Unused
<1> QED
  BY <1>1 DEF OneEntry, Lone

LEMMA BeginsIsOne ==
  ASSUME CacheShape, OneEntry, NEW g \in Gets, NEW pc \in {"get", "del", "keys"},
         Becomes(g, pc) \/ \E i \in Instances : Begins(g, i, pc)
  PROVE  \A f \in Gets : /\ Lone(access'[f].value)
                         /\ access'[f].pc = "setex" => access'[f].ttl \in Ttls
<1>1. /\ access'[g].value = access[g].value /\ access'[g].pc = pc
      /\ \A f \in Gets : f # g => access'[f] = access[f]
  BY DEF CacheShape, Access, Begins, Becomes
<1> QED
  BY <1>1 DEF OneEntry

LEMMA OneEntryStep == CacheShape /\ OneEntry /\ [CacheNext]_cacheVars => OneEntry'
<1> SUFFICES ASSUME CacheShape, OneEntry, [CacheNext]_cacheVars PROVE OneEntry'
  OBVIOUS
<1> DEFINE Calls == \A f \in Gets : /\ Lone(access'[f].value)
                                    /\ access'[f].pc = "setex" => access'[f].ttl \in Ttls
           Maps == \A i \in Instances : Lone(l1'[i])
           Redis == Lone(l2') /\ \A e \in l2' : e.left > 0
<1>1. Calls /\ Maps /\ Redis => OneEntry'
  BY DEF OneEntry, Lone
<1>2. /\ UNCHANGED access => Calls
      /\ UNCHANGED l1 => Maps
      /\ UNCHANGED l2 => Redis
  BY DEF OneEntry
<1>3. /\ l1 \in [Instances -> SUBSET Entry] /\ access \in [Gets -> Access]
      /\ \A e \in l2 : e.left \in Nat
  BY DEF CacheShape, Entry
<1>4. \A i \in Instances : l1' = [l1 EXCEPT ![i] = {}] => Maps
  BY <1>3 DEF OneEntry, Lone
<1>5. \A g \in Gets : Done(g) => Calls
  BY DoneIsOne
<1>6. ASSUME NEW g \in Gets, NEW pc \in {"get", "del", "keys"},
             Becomes(g, pc) \/ \E i \in Instances : Begins(g, i, pc)
      PROVE  Calls
  BY <1>6, BeginsIsOne
<1> HIDE DEF Calls
<1>7. ASSUME NEW g \in Gets, Get(g) PROVE OneEntry'
  BY <1>1, <1>2, <1>4, <1>5, <1>6, <1>7 DEF Get
<1>8. ASSUME NEW g \in Gets, ReadL2(g) PROVE OneEntry'
  <2>1. CASE l2 = {}
    BY <1>1, <1>2, <1>5, <1>8, <2>1 DEF ReadL2
  <2>2. CASE l2 # {}
    <3>1. /\ access' = [access EXCEPT ![g].pc = "ttl", ![g].value = {e.value : e \in l2}]
          /\ l1' = l1 /\ l2' = l2
      BY <1>8, <2>2 DEF ReadL2
    <3>2. /\ access'[g].value = {e.value : e \in l2} /\ access'[g].pc = "ttl"
          /\ \A f \in Gets : f # g => access'[f] = access[f]
      BY <1>3, <3>1 DEF Access
    <3>3. Lone({e.value : e \in l2})
      BY DEF OneEntry, Lone
    <3>4. Calls
      BY <3>2, <3>3 DEF Calls, OneEntry
    <3> QED
      BY <1>1, <1>2, <3>1, <3>4
  <2> QED
    BY <2>1, <2>2
<1>9. ASSUME NEW g \in Gets, ReadTtl(g) PROVE OneEntry'
  <2>1. Lone(access[g].value)
    BY DEF OneEntry
  <2>2. Lone({[value |-> v, left |-> TimeLeft(g, {e.left : e \in l2})] : v \in access[g].value})
    BY <2>1 DEF Lone
  <2>3. Maps
    BY <1>9, <2>2 DEF ReadTtl, OneEntry
  <2> QED
    BY <1>1, <1>2, <1>5, <1>9, <2>3 DEF ReadTtl
<1>10. ASSUME NEW g \in Gets, Set(g) PROVE OneEntry'
  <2>1. PICK i \in Instances, ttl \in Ttls :
          /\ l1' = [l1 EXCEPT ![i] = {[value |-> g, left |-> Least(ttl, L1MaxTtl)]}]
          /\ access' = [access EXCEPT ![g].pc = "setex", ![g].at = {i}, ![g].ttl = ttl]
    BY <1>10 DEF Set
  <2>2. Maps
    <3>1. Lone({[value |-> g, left |-> Least(ttl, L1MaxTtl)]})
      BY DEF Lone
    <3> QED
      BY <1>3, <2>1, <3>1 DEF OneEntry
  <2>3. /\ access'[g].ttl = ttl /\ access'[g].value = access[g].value
        /\ \A f \in Gets : f # g => access'[f] = access[f]
    BY <1>3, <2>1 DEF Access
  <2>4. Calls
    BY <2>3 DEF Calls, OneEntry
  <2> QED
    BY <1>1, <1>2, <1>10, <2>2, <2>4 DEF Set
<1>11. ASSUME NEW g \in Gets, Setex(g) PROVE OneEntry'
  <2>1. l2' = {[value |-> g, left |-> access[g].ttl]} /\ access[g].ttl \in Ttls
    BY <1>11 DEF Setex, WriteL2, OneEntry
  <2>2. access[g].ttl > 0
    <3> DEFINE t == access[g].ttl
    <3>1. t \in Nat \ {0}
      BY <2>1, CacheAssumption
    <3> HIDE DEF t
    <3>2. t > 0
      BY <3>1
    <3> QED
      BY <3>2 DEF t
  <2>3. Redis
    BY <2>1, <2>2 DEF Lone
  <2> QED
    BY <1>1, <1>2, <1>5, <1>11, <2>3 DEF Setex
<1>12. ASSUME NEW g \in Gets, Delete(g) PROVE OneEntry'
  BY <1>1, <1>2, <1>4, <1>6, <1>12 DEF Delete
<1>13. ASSUME NEW g \in Gets, Keys(g) PROVE OneEntry'
  BY <1>1, <1>2, <1>5, <1>6, <1>13 DEF Keys
<1>14. ASSUME NEW g \in Gets, Del(g) PROVE OneEntry'
  <2>1. Redis
    BY <1>14 DEF Del, WriteL2, Lone
  <2> QED
    BY <1>1, <1>2, <1>5, <1>14, <2>1 DEF Del
<1>15. ASSUME NEW g \in Gets, RedisFails(g) PROVE OneEntry'
  BY <1>1, <1>2, <1>5, <1>15 DEF RedisFails
<1>16. ASSUME NEW i \in Instances, Evict(i) PROVE OneEntry'
  BY <1>1, <1>2, <1>4, <1>16 DEF Evict
<1>17. CASE Elapse
  <2>1. Maps
    <3>1. ASSUME NEW i \in Instances PROVE Lone(l1'[i])
      <4>1. l1'[i] = {[e EXCEPT !.left = Minus(@, 1)] : e \in l1[i]}
        BY <1>17 DEF Elapse
      <4>2. Lone(l1[i])
        BY DEF OneEntry
      <4> QED
        BY <4>1, <4>2 DEF Lone
    <3> QED
      BY <3>1
  <2>2. Redis
    <3>1. l2' = {[e EXCEPT !.left = @ - 1] : e \in {f \in l2 : f.left > 1}}
      BY <1>17 DEF Elapse
    <3>2. Lone(l2')
      BY <3>1 DEF OneEntry, Lone
    <3>3. ASSUME NEW e \in l2' PROVE e.left > 0
      <4>1. PICK f \in l2 : f.left > 1 /\ e = [f EXCEPT !.left = @ - 1]
        BY <3>1, <3>3
      <4>2. f \in Entry
        BY DEF CacheShape
      <4>3. e.left = f.left - 1 /\ f.left \in Nat
        BY <4>1, <4>2 DEF Entry
      <4> QED
        BY <4>1, <4>3
    <3> QED
      BY <3>2, <3>3
  <2>3. Calls
    <3>1. ASSUME NEW f \in Gets
          PROVE  /\ access'[f].value = access[f].value /\ access'[f].pc = access[f].pc
                 /\ access'[f].ttl = access[f].ttl
      BY <1>3, <1>17 DEF Elapse, Access
    <3> QED
      BY <3>1 DEF Calls, OneEntry
  <2> QED
    BY <1>1, <2>1, <2>2, <2>3
<1>18. CASE UNCHANGED cacheVars
  BY <1>1, <1>2, <1>18 DEF cacheVars
<1> QED
  BY <1>7, <1>8, <1>9, <1>10, <1>11, <1>12, <1>13, <1>14, <1>15, <1>16, <1>17, <1>18 DEF CacheNext

LEMMA CacheTypes == CacheSpec => []CacheTypeOK
<1>1. CacheInv => CacheShape
  BY DEF CacheInv
<1>2. CacheShape /\ OneEntry => CacheTypeOK
  BY LoneCardinality DEF CacheShape, OneEntry, CacheTypeOK
<1> QED
  BY <1>1, <1>2, OneEntryStarts, OneEntryStep, CacheInitInv, CacheStepInv, PTL DEF CacheSpec

\* Whatever the engines and stores do, their state has its types (EnginesTypesOK).
THEOREM TypesCorrect == EnginesSpec => []EnginesTypesOK
<1>1. EnginesSpec => /\ RelationshipSpec /\ MomentSpec /\ CacheSpec /\ ConsentSpec
                     /\ MemorySpec /\ LimitSpec /\ QueueSpec /\ LifeSpec
  BY DEF EnginesSpec
<1>2. (/\ RelationshipTypeOK /\ MomentTypeOK /\ CacheTypeOK /\ ConsentTypeOK
       /\ MemoryTypeOK /\ LimitTypeOK /\ QueueTypeOK /\ LifeTypeOK) => EnginesTypesOK
  BY DEF EnginesTypesOK
<1> QED
  BY <1>1, <1>2, RelationshipTypes, MomentTypes, CacheTypes, ConsentTypes, MemoryTypes,
     LimitTypes, QueueTypes, LifeTypes, PTL

=============================================================================
