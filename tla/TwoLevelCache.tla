---------------------------- MODULE TwoLevelCache ----------------------------
(***************************************************************************)
(* The cache behind the LLM and prompt caches: a map in each process (L1)  *)
(* over Redis (L2), for one key.  No operation holds anything while it     *)
(* waits for Redis, so calls of one process interleave, and the processes  *)
(* know of each other's writes only through Redis.                         *)
(***************************************************************************)
EXTENDS Integers, FiniteSets

CONSTANTS Instances,     \* the processes that share Redis
          Gets,          \* the calls: a set's value is named by the call
          L1MaxTtl,      \* l1MaxTtlMs, in ticks
          Ttls           \* ttlSeconds of the sets, in ticks

ASSUME CacheAssumption == L1MaxTtl \in Nat \ {0} /\ Ttls \subseteq Nat \ {0}

VARIABLES
  l1,         \* [Instances -> SUBSET Entry]: at most one entry
  l2,         \* SUBSET Entry: at most one entry
  access,     \* [Gets -> Access]: the calls
  age         \* history: [Instances -> [Gets -> 0 .. L1MaxTtl]]: how long ago the
              \* value was last in Redis, or given by a call of that process

cacheVars == <<l1, l2, access, age>>

\* left is the time until expiresAt, or until Redis drops the key.
Entry == [value : Gets, left : Nat]

\* waited is the time since the call has read the clock; times above L1MaxTtl tell
\* nothing more.
Access == [pc : {"new", "get", "ttl", "setex", "del", "keys", "done"},
           at : SUBSET Instances, waited : 0 .. L1MaxTtl, ttl : {0} \cup Ttls,
           value : SUBSET Gets]

Least(x, y) == IF x < y THEN x ELSE y
Minus(x, y) == IF x > y THEN x - y ELSE 0

Unused == [pc |-> "new", at |-> {}, waited |-> 0, ttl |-> 0, value |-> {}]

CacheInit ==
  /\ l1 = [i \in Instances |-> {}]
  /\ l2 = {}
  /\ access = [g \in Gets |-> Unused]
  /\ age = [i \in Instances |-> [g \in Gets |-> L1MaxTtl]]

InL2(g) == \E e \in l2 : e.value = g

Begins(g, i, pc) == access' = [access EXCEPT ![g].pc = pc, ![g].at = {i}]
Becomes(g, pc) == access' = [access EXCEPT ![g].pc = pc]
Done(g) == access' = [access EXCEPT ![g] = [Unused EXCEPT !.pc = "done"]]

\* Redis gets other content; what it had was in it until now.
WriteL2(entries) ==
  /\ l2' = entries
  /\ age' = [i \in Instances |-> [g \in Gets |-> IF InL2(g) THEN 0 ELSE age[i][g]]]

-----------------------------------------------------------------------------
\* getFromCache: a live L1 entry is the answer; an expired one is dropped.
Get(g) ==
  /\ access[g].pc = "new"
  /\ \E i \in Instances :
       IF \E e \in l1[i] : e.left > 0
       THEN Done(g) /\ UNCHANGED l1
       ELSE Begins(g, i, "get") /\ l1' = [l1 EXCEPT ![i] = {}]
  /\ UNCHANGED <<l2, age>>

ReadL2(g) ==
  /\ access[g].pc = "get"
  /\ IF l2 = {} THEN Done(g)
     ELSE access' = [access EXCEPT ![g].pc = "ttl", ![g].value = {e.value : e \in l2}]
  /\ UNCHANGED <<l1, l2, age>>

\* The L1 time of a key with this answer to ttl: none of it when the key is gone.
L1Ttl(lefts) == IF lefts = {} THEN L1MaxTtl ELSE Least(CHOOSE x \in lefts : TRUE, L1MaxTtl)

\* A mutant: the entry's time begins when the answers are there.
TimeLeft_FromNow(g, lefts) == L1Ttl(lefts)

\* expiresAt counts from the start of the call.
TimeLeft(g, lefts) == Minus(L1Ttl(lefts), access[g].waited)

\* The value goes into L1 whatever has happened to it since it was read.
ReadTtl(g) ==
  /\ access[g].pc = "ttl"
  /\ l1' = [i \in Instances |->
       IF i \in access[g].at
       THEN {[value |-> v, left |-> TimeLeft(g, {e.left : e \in l2})] : v \in access[g].value}
       ELSE l1[i]]
  /\ Done(g)
  /\ UNCHANGED <<l2, age>>

\* setInCache: L1 at once, Redis when it answers.
Set(g) ==
  /\ access[g].pc = "new"
  /\ \E i \in Instances, ttl \in Ttls :
       /\ l1' = [l1 EXCEPT ![i] = {[value |-> g, left |-> Least(ttl, L1MaxTtl)]}]
       /\ access' = [access EXCEPT ![g].pc = "setex", ![g].at = {i}, ![g].ttl = ttl]
       /\ age' = [age EXCEPT ![i][g] = 0]
  /\ UNCHANGED l2

Setex(g) ==
  /\ access[g].pc = "setex"
  /\ WriteL2({[value |-> g, left |-> access[g].ttl]})
  /\ Done(g)
  /\ UNCHANGED l1

\* deleteFromCache and clearAllCache, which asks for the keys first.
Delete(g) ==
  /\ access[g].pc = "new"
  /\ \E i \in Instances, pc \in {"del", "keys"} :
       Begins(g, i, pc) /\ l1' = [l1 EXCEPT ![i] = {}]
  /\ UNCHANGED <<l2, age>>

Keys(g) ==
  /\ access[g].pc = "keys"
  /\ IF l2 = {} THEN Done(g) ELSE Becomes(g, "del")
  /\ UNCHANGED <<l1, l2, age>>

Del(g) ==
  /\ access[g].pc = "del"
  /\ WriteL2({})
  /\ Done(g)
  /\ UNCHANGED l1

\* A call of Redis that fails is logged; L1 keeps what it has.
RedisFails(g) ==
  /\ access[g].pc \in {"get", "ttl", "setex", "keys", "del"}
  /\ Done(g)
  /\ UNCHANGED <<l1, l2, age>>

\* The LRU map makes room for other keys.
Evict(i) ==
  /\ l1[i] # {}
  /\ l1' = [l1 EXCEPT ![i] = {}]
  /\ UNCHANGED <<l2, access, age>>

\* Time passes; Redis drops a key whose time is over.
Elapse ==
  /\ l1' = [i \in Instances |-> {[e EXCEPT !.left = Minus(@, 1)] : e \in l1[i]}]
  /\ l2' = {[e EXCEPT !.left = @ - 1] : e \in {f \in l2 : f.left > 1}}
  /\ access' = [g \in Gets |->
       IF access[g].pc \in {"get", "ttl"}
       THEN [access[g] EXCEPT !.waited = Least(@ + 1, L1MaxTtl)] ELSE access[g]]
  /\ age' = [i \in Instances |-> [g \in Gets |->
       IF InL2(g) THEN 0 ELSE Least(age[i][g] + 1, L1MaxTtl)]]

CacheNext ==
  \/ \E g \in Gets : \/ Get(g) \/ ReadL2(g) \/ ReadTtl(g) \/ Set(g) \/ Setex(g)
                     \/ Delete(g) \/ Keys(g) \/ Del(g) \/ RedisFails(g)
  \/ \E i \in Instances : Evict(i)
  \/ Elapse

CacheSpec == CacheInit /\ [][CacheNext]_cacheVars

-----------------------------------------------------------------------------
CacheTypeOK ==
  /\ l1 \in [Instances -> SUBSET Entry] /\ \A i \in Instances : Cardinality(l1[i]) =< 1
  /\ l2 \subseteq Entry /\ Cardinality(l2) =< 1
  /\ \A e \in l2 : e.left > 0
  /\ access \in [Gets -> Access]
  /\ age \in [Instances -> [Gets -> 0 .. L1MaxTtl]]

\* A process never answers from its own map with a value that left Redis, or was
\* given to this process, l1MaxTtl ago or earlier, however late the answers of
\* Redis were and whatever was deleted or overwritten meanwhile.
ServedIsRecent ==
  \A i \in Instances : \A e \in l1[i] :
    e.left > 0 => InL2(e.value) \/ age[i][e.value] < L1MaxTtl

=============================================================================
