------------------------ MODULE Notification_proofs ------------------------
(* Proofs about Notification: type correctness, the bound on the throttle, *)
(* that a pass dispatches a notification at most once, that cancellations  *)
(* hold, and that one of a key waits.                                      *)
EXTENDS Notification, FiniteSetTheorems, TLAPS

Ledger == [start : Int, count : Nat]

-----------------------------------------------------------------------------
\* The helpers.

LEMMA RotateType ==
  ASSUME NEW l \in Ledger, NEW ts \in Nat
  PROVE  Rotate(l, ts) \in Ledger /\ Rotate(l, ts).count <= l.count
BY DEF Rotate, Ledger

LEMMA RotateForType ==
  ASSUME NEW led \in [Users -> Ledger], NEW U \in SUBSET Users, NEW ts \in Nat
  PROVE  /\ RotateFor(led, U, ts) \in [Users -> Ledger]
         /\ \A u \in Users : RotateFor(led, U, ts)[u].count <= led[u].count
<1>1. ASSUME NEW u \in Users
      PROVE  /\ RotateFor(led, U, ts)[u] \in Ledger
             /\ RotateFor(led, U, ts)[u].count <= led[u].count
  <2>1. led[u] \in Ledger /\ led[u].count <= led[u].count
    BY DEF Ledger
  <2>2. Rotate(led[u], ts) \in Ledger /\ Rotate(led[u], ts).count <= led[u].count
    BY <2>1, RotateType
  <2>3. RotateFor(led, U, ts)[u] = IF u \in U THEN Rotate(led[u], ts) ELSE led[u]
    BY DEF RotateFor
  <2> QED
    BY <2>1, <2>2, <2>3
<1> QED
  BY <1>1 DEF RotateFor

LEMMA RecordSendType ==
  ASSUME NEW led \in [Users -> Ledger], NEW u \in Users, NEW ts \in Nat
  PROVE  /\ RecordSend(led, u, ts) \in [Users -> Ledger]
         /\ RecordSend(led, u, ts)[u].count <= led[u].count + 1
         /\ \A x \in Users \ {u} : RecordSend(led, u, ts)[x] = led[x]
<1>1. led[u] \in Ledger
  OBVIOUS
<1>2. Rotate(led[u], ts) \in Ledger /\ Rotate(led[u], ts).count <= led[u].count
  BY <1>1, RotateType
<1>3. [start |-> Rotate(led[u], ts).start, count |-> Rotate(led[u], ts).count + 1] \in Ledger
  BY <1>2 DEF Ledger
<1>4. RecordSend(led, u, ts) =
        [led EXCEPT ![u] = [start |-> Rotate(led[u], ts).start,
                            count |-> Rotate(led[u], ts).count + 1]]
  BY DEF RecordSend
<1> QED
  BY <1>1, <1>2, <1>3, <1>4 DEF Ledger

\* The skipped notifications end FAILED or THROTTLED.
LEMMA SkippedType ==
  ASSUME NEW st \in [Notifications -> Status], NEW S, NEW ts
  PROVE  /\ Skipped(st, S, ts) \in [Notifications -> Status]
         /\ \A n \in Notifications :
              /\ Skipped(st, S, ts)[n] = "SCHEDULED" => st[n] = "SCHEDULED"
              /\ Skipped(st, S, ts)[n] = "unknown" => st[n] = "unknown"
              /\ n \notin S => Skipped(st, S, ts)[n] = st[n]
BY DEF Skipped, Status

-----------------------------------------------------------------------------
\* Type correctness.

LEMMA ProceedType ==
  ASSUME TypeOK, NEW p \in Passes, NEW q \in SUBSET Notifications,
         NEW st \in [Notifications -> Status], NEW led \in [Users -> Ledger],
         NEW ts \in Nat, Proceed(p, q, st, led, ts)
  PROVE  /\ ledger' \in [Users -> Ledger]
         /\ status' \in [Notifications -> Status]
         /\ listed' \in [Passes -> SUBSET Notifications]
         /\ current' \in [Passes -> SUBSET Notifications]
         /\ now' \in [Passes -> Nat]
         /\ channel' \in [Passes -> 1..NumChannels]
         /\ attempt' \in [Passes -> 1..MaxAttempts]
         /\ anySuccess' \in [Passes -> BOOLEAN]
         /\ dispatchedBy' \in [Notifications -> SUBSET Passes]
<1> USE NotificationAssumption
<1>1. PICK S \in SUBSET Notifications, U \in SUBSET Users :
        status' = Skipped(st, S, ts) /\ ledger' = RotateFor(led, U, ts)
  <2> DEFINE candidates == {n \in q : Sendable(n, led, ts)}
             next == {n \in candidates : \A m \in candidates : n <= m}
             skipped == {n \in q : \A m \in next : n < m}
             asked == {userId[n] : n \in {m \in skipped \cup next : ~Expired(m, ts)}}
  <2>1. status' = Skipped(st, skipped, ts) /\ ledger' = RotateFor(led, asked, ts)
    BY DEF Proceed
  <2>2. skipped \in SUBSET Notifications /\ asked \in SUBSET Users
    BY DEF TypeOK
  <2> QED
    BY <2>1, <2>2
<1>2. ledger' \in [Users -> Ledger] /\ status' \in [Notifications -> Status]
  BY <1>1, RotateForType, SkippedType
<1>3. /\ listed' \in [Passes -> SUBSET Notifications]
      /\ current' \in [Passes -> SUBSET Notifications]
  BY DEF TypeOK, Proceed
<1>4. /\ now' \in [Passes -> Nat]
      /\ channel' \in [Passes -> 1..NumChannels]
      /\ attempt' \in [Passes -> 1..MaxAttempts]
  BY DEF TypeOK, Proceed
<1>5. anySuccess' \in [Passes -> BOOLEAN]
  BY DEF TypeOK, Proceed
<1>6. dispatchedBy' \in [Notifications -> SUBSET Passes]
  BY DEF TypeOK, Proceed
<1> QED
  BY <1>2, <1>3, <1>4, <1>5, <1>6

\* What Finish hands to Proceed.
LEMMA FinishArguments ==
  ASSUME TypeOK, NEW p \in Passes, NEW success \in BOOLEAN, NEW n \in current[p]
  PROVE  /\ listed[p] \in SUBSET Notifications /\ n \in Notifications
         /\ userId[n] \in Users /\ now[p] \in Nat
         /\ [status EXCEPT ![n] = IF success THEN "DELIVERED" ELSE "FAILED"]
              \in [Notifications -> Status]
         /\ (IF success THEN RecordSend(ledger, userId[n], now[p]) ELSE ledger)
              \in [Users -> Ledger]
<1>1. n \in Notifications /\ userId[n] \in Users /\ now[p] \in Nat
      /\ ledger \in [Users -> Ledger]
  BY DEF TypeOK, Ledger
<1>2. RecordSend(ledger, userId[n], now[p]) \in [Users -> Ledger]
  BY <1>1, RecordSendType
<1> QED
  BY <1>1, <1>2 DEF TypeOK, Status

LEMMA EndChannelType ==
  ASSUME TypeOK, NEW p \in Passes, NEW success \in BOOLEAN, EndChannel(p, success)
  PROVE  /\ ledger' \in [Users -> Ledger]
         /\ status' \in [Notifications -> Status]
         /\ listed' \in [Passes -> SUBSET Notifications]
         /\ current' \in [Passes -> SUBSET Notifications]
         /\ now' \in [Passes -> Nat]
         /\ channel' \in [Passes -> 1..NumChannels]
         /\ attempt' \in [Passes -> 1..MaxAttempts]
         /\ anySuccess' \in [Passes -> BOOLEAN]
         /\ dispatchedBy' \in [Notifications -> SUBSET Passes]
<1>1. CASE channel[p] < NumChannels
  <2>1. 1 \in 1..MaxAttempts
    BY NotificationAssumption
  <2>2. channel[p] + 1 \in 1..NumChannels
    BY <1>1, NotificationAssumption DEF TypeOK
  <2>3. channel' \in [Passes -> 1..NumChannels] /\ attempt' \in [Passes -> 1..MaxAttempts]
    BY <1>1, <2>1, <2>2 DEF TypeOK, EndChannel
  <2>4. anySuccess' \in [Passes -> BOOLEAN]
    BY <1>1 DEF TypeOK, EndChannel
  <2> QED
    BY <1>1, <2>3, <2>4 DEF TypeOK, EndChannel, Ledger
<1>2. CASE ~(channel[p] < NumChannels)
  <2>1. Finish(p, success)
    BY <1>2 DEF EndChannel
  <2> QED
    BY <2>1, FinishArguments, ProceedType DEF Finish
<1> QED
  BY <1>1, <1>2

LEMMA InitType == Init => TypeOK
BY NotificationAssumption DEF Init, TypeOK, Status

LEMMA ScheduleType ==
  ASSUME TypeOK, NEW n \in Notifications, NEW u \in Users, NEW k \in Keys \cup {NoKey},
         Schedule(n, u, k)
  PROVE  TypeOK'
<1>1. ledger' \in [Users -> Ledger]
  BY RotateForType DEF TypeOK, Schedule, Ledger
<1>2. /\ status' \in [Notifications -> Status]
      /\ userId' \in [Notifications -> Users]
      /\ dedupeKey' \in [Notifications -> Keys \cup {NoKey}]
  BY DEF TypeOK, Schedule, Status
<1>3. byDedupe' \in [Keys -> SUBSET Notifications]
  BY DEF TypeOK, Schedule
<1>4. scheduledFor' \in [Notifications -> Nat]
  BY NotificationAssumption DEF TypeOK, Schedule
<1>5. expiresAt' \in [Notifications -> Nat]
  BY NotificationAssumption DEF TypeOK, Schedule
<1> QED
  BY <1>1, <1>2, <1>3, <1>4, <1>5 DEF TypeOK, Schedule, Ledger, passVars

LEMMA StepType == TypeOK /\ [Next]_vars => TypeOK'
<1> SUFFICES ASSUME TypeOK, [Next]_vars
             PROVE  TypeOK'
  OBVIOUS
<1> USE DEF requestVars
<1>1. ASSUME Tick
      PROVE  TypeOK'
  BY <1>1 DEF TypeOK, Tick, passVars
<1>2. ASSUME NEW u \in Users, NEW k \in Keys \cup {NoKey}, RequestIgnored(u, k)
      PROVE  TypeOK'
  <2>1. ledger' \in [Users -> Ledger]
    BY <1>2, RotateForType DEF TypeOK, RequestIgnored, Ledger
  <2> QED
    BY <1>2, <2>1 DEF TypeOK, RequestIgnored, Ledger, passVars
<1>3. ASSUME NEW u \in Users, NEW k \in Keys \cup {NoKey}, NEW n \in Notifications,
             Schedule(n, u, k)
      PROVE  TypeOK'
  BY <1>3, ScheduleType
<1>4. ASSUME NEW n \in Notifications, Cancel(n)
      PROVE  TypeOK'
  BY <1>4 DEF TypeOK, Cancel, Status, passVars
<1>5. ASSUME NEW p \in Passes, Begin(p)
      PROVE  TypeOK'
  <2>1. /\ Due(clock) \in SUBSET Notifications /\ clock \in Nat
        /\ ledger \in [Users -> Ledger] /\ status \in [Notifications -> Status]
    BY DEF TypeOK, Due, Ledger
  <2>2. Proceed(p, Due(clock), status, ledger, clock)
    BY <1>5 DEF Begin
  <2> QED
    BY <1>5, <2>1, <2>2, ProceedType DEF TypeOK, Begin, Ledger
<1>6. ASSUME NEW p \in Passes, SendReturns(p)
      PROVE  TypeOK'
  <2>1. EndChannel(p, TRUE)
    BY <1>6 DEF TypeOK, SendReturns
  <2> QED
    BY <1>6, <2>1, EndChannelType DEF TypeOK, SendReturns, Ledger
<1>7. ASSUME NEW p \in Passes, SendThrowsAgain(p)
      PROVE  TypeOK'
  <2>1. attempt[p] + 1 \in 1..MaxAttempts
    BY <1>7, NotificationAssumption DEF TypeOK, SendThrowsAgain
  <2>2. attempt' \in [Passes -> 1..MaxAttempts]
    BY <1>7, <2>1 DEF TypeOK, SendThrowsAgain
  <2> QED
    BY <1>7, <2>2 DEF TypeOK, SendThrowsAgain
<1>8. ASSUME NEW p \in Passes, SendThrowsLast(p)
      PROVE  TypeOK'
  <2>1. EndChannel(p, anySuccess[p]) /\ anySuccess[p] \in BOOLEAN
    BY <1>8 DEF TypeOK, SendThrowsLast
  <2> QED
    BY <1>8, <2>1, EndChannelType DEF TypeOK, SendThrowsLast, Ledger
<1>9. CASE UNCHANGED vars
  BY <1>9 DEF TypeOK, vars, passVars
<1> QED
  BY <1>1, <1>2, <1>3, <1>4, <1>5, <1>6, <1>7, <1>8, <1>9 DEF Next, PassStep

\* Every reachable state of the notification engine is well typed, for any
\* notifications, users, passes, limits and delays.
THEOREM TypeCorrect == Spec => []TypeOK
<1>1. Init => TypeOK
  BY InitType
<1>2. TypeOK /\ [Next]_vars => TypeOK'
  BY StepType
<1> QED
  BY <1>1, <1>2, PTL DEF Spec

-----------------------------------------------------------------------------
\* What Proceed does, read off its definition once.

ProceedOutcome(p, q, st, led, ts) ==
  /\ \A n \in current'[p] : /\ n \in q /\ Sendable(n, led, ts)
                            /\ ledger'[userId[n]] = Rotate(led[userId[n]], ts)
  /\ \A m, n \in current'[p] : m = n
  /\ listed'[p] \subseteq q \ current'[p]
  /\ \A x \in Passes \ {p} : current'[x] = current[x] /\ listed'[x] = listed[x]
  /\ \A u \in Users : ledger'[u].count <= led[u].count
  /\ \A n \in Notifications :
       /\ status'[n] = "SCHEDULED" => st[n] = "SCHEDULED"
       /\ status'[n] = "unknown" => st[n] = "unknown"
       /\ n \notin q => status'[n] = st[n]
       /\ dispatchedBy'[n] = IF n \in current'[p] THEN dispatchedBy[n] \cup {p}
                                                  ELSE dispatchedBy[n]

LEMMA ProceedFacts ==
  ASSUME TypeOK, NEW p \in Passes, NEW q \in SUBSET Notifications,
         NEW st \in [Notifications -> Status], NEW led \in [Users -> Ledger],
         NEW ts \in Nat, Proceed(p, q, st, led, ts)
  PROVE  ProceedOutcome(p, q, st, led, ts)
<1> DEFINE candidates == {n \in q : Sendable(n, led, ts)}
           next == {n \in candidates : \A m \in candidates : n <= m}
           skipped == {n \in q : \A m \in next : n < m}
           asked == {userId[n] : n \in {m \in skipped \cup next : ~Expired(m, ts)}}
<1>1. /\ status' = Skipped(st, skipped, ts) /\ ledger' = RotateFor(led, asked, ts)
      /\ listed' = [listed EXCEPT ![p] = q \ (skipped \cup next)]
      /\ current' = [current EXCEPT ![p] = next]
      /\ dispatchedBy' = [n \in Notifications |->
           IF n \in next THEN dispatchedBy[n] \cup {p} ELSE dispatchedBy[n]]
  BY DEF Proceed
<1>2. current'[p] = next /\ listed'[p] = q \ (skipped \cup next)
  BY <1>1 DEF TypeOK
<1>3. \A x \in Passes \ {p} : current'[x] = current[x] /\ listed'[x] = listed[x]
  BY <1>1 DEF TypeOK
<1>4. \A n \in next : /\ n \in q /\ Sendable(n, led, ts)
                      /\ ledger'[userId[n]] = Rotate(led[userId[n]], ts)
  <2> TAKE n \in next
  <2>1. n \in q /\ Sendable(n, led, ts)
    OBVIOUS
  <2>2. userId[n] \in asked /\ userId[n] \in Users
    BY <2>1 DEF Sendable, TypeOK
  <2> HIDE DEF asked
  <2>3. ledger'[userId[n]] = Rotate(led[userId[n]], ts)
    BY <1>1, <2>2 DEF RotateFor
  <2> QED
    BY <2>1, <2>3
<1>5. \A m, n \in next : m = n
  <2>1. next \subseteq Nat
    BY NotificationAssumption
  <2>2. \A m, n \in next : m <= n /\ n <= m
    OBVIOUS
  <2> HIDE DEF next
  <2> QED
    BY <2>1, <2>2
<1>6. asked \in SUBSET Users
  BY DEF TypeOK
<1> HIDE DEF next, skipped, asked
<1>7. \A u \in Users : ledger'[u].count <= led[u].count
  BY <1>1, <1>6, RotateForType
<1>8. \A n \in Notifications :
        /\ status'[n] = "SCHEDULED" => st[n] = "SCHEDULED"
        /\ status'[n] = "unknown" => st[n] = "unknown"
        /\ n \notin q => status'[n] = st[n]
  <2>1. \A n \in Notifications : n \notin q => n \notin skipped
    BY DEF skipped
  <2> QED
    BY <1>1, <2>1, SkippedType
<1>9. \A n \in Notifications :
        dispatchedBy'[n] = IF n \in current'[p] THEN dispatchedBy[n] \cup {p}
                                                ELSE dispatchedBy[n]
  BY <1>1, <1>2
<1> QED
  BY <1>2, <1>3, <1>4, <1>5, <1>7, <1>8, <1>9 DEF ProceedOutcome

-----------------------------------------------------------------------------
\* The bound on the throttle.

\* Whatever a pass has in hand has been stored.
InHand == \A p \in Passes : \A n \in listed[p] \cup current[p] : status[n] # "unknown"

ThrottleInv == TypeOK /\ InHand /\ ThrottleBounded

\* The passes that send to a user, p put aside.
LEMMA WithoutPass ==
  ASSUME NEW u, NEW p \in Passes
  PROVE  /\ IsFiniteSet(Sending(u)) /\ Cardinality(Sending(u)) \in Nat
         /\ Cardinality(Sending(u)) <= Cardinality(Passes)
         /\ Cardinality(Passes) \in Nat
         /\ Cardinality(Sending(u) \ {p}) \in Nat
         /\ Cardinality(Sending(u) \ {p}) =
              IF p \in Sending(u) THEN Cardinality(Sending(u)) - 1 ELSE Cardinality(Sending(u))
         /\ Cardinality(Sending(u) \ {p}) <= Cardinality(Sending(u))
<1>1. Sending(u) \subseteq Passes /\ IsFiniteSet(Passes)
  BY NotificationAssumption DEF Sending
<1> HIDE DEF Sending
<1>2. IsFiniteSet(Sending(u)) /\ Cardinality(Sending(u)) <= Cardinality(Passes)
  BY <1>1, FS_Subset
<1>3. Cardinality(Sending(u)) \in Nat /\ Cardinality(Passes) \in Nat
  BY <1>1, <1>2, FS_CardinalityType
<1>4. /\ IsFiniteSet(Sending(u) \ {p})
      /\ Cardinality(Sending(u) \ {p}) =
           IF p \in Sending(u) THEN Cardinality(Sending(u)) - 1 ELSE Cardinality(Sending(u))
  BY <1>2, FS_RemoveElement
<1>5. Cardinality(Sending(u) \ {p}) \in Nat
  BY <1>4, FS_CardinalityType
<1> QED
  BY <1>2, <1>3, <1>4, <1>5

LEMMA ProceedThrottle ==
  ASSUME TypeOK, InHand, NEW p \in Passes, NEW q \in SUBSET Notifications,
         NEW st \in [Notifications -> Status], NEW led \in [Users -> Ledger],
         NEW ts \in Nat, Proceed(p, q, st, led, ts), UNCHANGED userId,
         \A u \in Users :
           led[u].count + Cardinality(Sending(u) \ {p}) < Limit + Cardinality(Passes),
         \A n \in q : st[n] # "unknown",
         \A n \in Notifications : st[n] = "unknown" => status[n] = "unknown"
  PROVE  InHand' /\ ThrottleBounded'
<1>0. ProceedOutcome(p, q, st, led, ts)
  BY ProceedFacts
<1>1. InHand'
  <2> SUFFICES ASSUME NEW x \in Passes, NEW n \in listed'[x] \cup current'[x]
               PROVE  status'[n] # "unknown"
    BY DEF InHand
  <2>1. n \in Notifications /\ st[n] # "unknown"
    <3>1. CASE x = p
      <4>1. n \in q
        BY <1>0, <3>1 DEF ProceedOutcome
      <4> QED
        BY <4>1
    <3>2. CASE x # p
      <4>1. n \in listed[x] \cup current[x]
        BY <1>0, <3>2 DEF ProceedOutcome
      <4> QED
        BY <4>1 DEF InHand, TypeOK
    <3> QED
      BY <3>1, <3>2
  <2>2. \A m \in Notifications : status'[m] = "unknown" => st[m] = "unknown"
    BY <1>0 DEF ProceedOutcome
  <2> QED
    BY <2>1, <2>2
<1>2. ASSUME NEW u \in Users
      PROVE  ledger'[u].count + Cardinality(Sending(u)') < Limit + Cardinality(Passes)
  <2>1. /\ Sending(u)' \subseteq Passes /\ IsFiniteSet(Passes)
        /\ ledger'[u].count <= led[u].count
        /\ ledger'[u].count \in Nat /\ led[u].count \in Nat /\ Limit \in Nat
    BY <1>0, NotificationAssumption, ProceedType DEF ProceedOutcome, Sending, Ledger
  <2>2. /\ Cardinality(Sending(u)') <= Cardinality(Passes)
        /\ Cardinality(Sending(u)') \in Nat /\ Cardinality(Passes) \in Nat
    <3> DEFINE S == Sending(u)'
    <3>1. S \subseteq Passes /\ IsFiniteSet(Passes)
      BY <2>1
    <3> HIDE DEF S
    <3>2. IsFiniteSet(S) /\ Cardinality(S) <= Cardinality(Passes)
      BY <3>1, FS_Subset
    <3>3. Cardinality(S) \in Nat /\ Cardinality(Passes) \in Nat
      BY <3>1, <3>2, FS_CardinalityType
    <3> QED
      BY <3>2, <3>3 DEF S
  <2>3. CASE \E n \in current'[p] : userId[n] = u
    <3>1. ledger'[u] = Rotate(led[u], ts) /\ Rotate(led[u], ts).count < Limit
      BY <1>0, <2>3 DEF ProceedOutcome, Sendable, Allows
    <3> QED
      BY <2>1, <2>2, <3>1
  <2>4. CASE ~ \E n \in current'[p] : userId[n] = u
    <3>1. Sending(u)' \subseteq Sending(u) \ {p}
      BY <1>0, <2>4 DEF ProceedOutcome, Sending
    <3>2. /\ Cardinality(Sending(u)') <= Cardinality(Sending(u) \ {p})
          /\ Cardinality(Sending(u) \ {p}) \in Nat
      <4> DEFINE S == Sending(u)'
                 T == Sending(u) \ {p}
      <4>1. S \subseteq T
        BY <3>1
      <4>2. IsFiniteSet(T) /\ Cardinality(T) \in Nat
        <5>1. T \subseteq Passes
          BY DEF Sending
        <5> HIDE DEF T
        <5> QED
          BY <5>1, <2>1, FS_Subset, FS_CardinalityType
      <4> HIDE DEF S, T
      <4>3. Cardinality(S) <= Cardinality(T)
        BY <4>1, <4>2, FS_Subset
      <4> QED
        BY <4>2, <4>3 DEF S, T
    <3>3. led[u].count + Cardinality(Sending(u) \ {p}) < Limit + Cardinality(Passes)
      OBVIOUS
    <3> QED
      BY <2>1, <2>2, <3>2, <3>3
  <2> QED
    BY <2>3, <2>4
<1> QED
  BY <1>1, <1>2 DEF ThrottleBounded

\* A step that leaves the passes alone and charges nobody.
LEMMA QuietThrottle ==
  ASSUME ThrottleInv, TypeOK', UNCHANGED <<listed, current>>,
         \A p \in Passes : \A n \in current[p] : userId'[n] = userId[n],
         \A n \in Notifications : status'[n] = "unknown" => status[n] = "unknown",
         \A u \in Users : ledger'[u].count <= ledger[u].count
  PROVE  InHand' /\ ThrottleBounded'
<1>1. InHand'
  BY DEF ThrottleInv, InHand, TypeOK
<1>2. \A u : Sending(u)' = Sending(u)
  BY DEF Sending
<1>3. ASSUME NEW u \in Users
      PROVE  ledger'[u].count + Cardinality(Sending(u)') < Limit + Cardinality(Passes)
  <2>1. /\ ledger'[u].count \in Nat /\ ledger[u].count \in Nat /\ Limit \in Nat
        /\ ledger'[u].count <= ledger[u].count
        /\ ledger[u].count + Cardinality(Sending(u)) < Limit + Cardinality(Passes)
    BY NotificationAssumption DEF ThrottleInv, TypeOK, ThrottleBounded
  <2>2. Cardinality(Sending(u)) \in Nat /\ Cardinality(Passes) \in Nat
    <3>1. Sending(u) \subseteq Passes /\ IsFiniteSet(Passes)
      BY NotificationAssumption DEF Sending
    <3> HIDE DEF Sending
    <3> QED
      BY <3>1, FS_Subset, FS_CardinalityType
  <2>3. Sending(u)' = Sending(u)
    BY <1>2
  <2> HIDE DEF Sending
  <2> QED
    BY <2>1, <2>2, <2>3
<1> QED
  BY <1>1, <1>3 DEF ThrottleBounded

LEMMA BeginThrottle ==
  ASSUME ThrottleInv, NEW p \in Passes, Begin(p)
  PROVE  InHand' /\ ThrottleBounded'
<1>1. /\ Due(clock) \in SUBSET Notifications /\ clock \in Nat
      /\ ledger \in [Users -> Ledger] /\ status \in [Notifications -> Status]
      /\ \A n \in Due(clock) : status[n] # "unknown"
  BY DEF ThrottleInv, TypeOK, Due, Ledger
<1>2. Proceed(p, Due(clock), status, ledger, clock) /\ UNCHANGED userId
  BY DEF Begin, requestVars
<1>3. ASSUME NEW u \in Users
      PROVE  ledger[u].count + Cardinality(Sending(u) \ {p}) < Limit + Cardinality(Passes)
  <2>1. /\ ledger[u].count \in Nat /\ Limit \in Nat
        /\ ledger[u].count + Cardinality(Sending(u)) < Limit + Cardinality(Passes)
    BY NotificationAssumption DEF ThrottleInv, TypeOK, ThrottleBounded
  <2>2. /\ Cardinality(Sending(u)) \in Nat /\ Cardinality(Passes) \in Nat
        /\ Cardinality(Sending(u) \ {p}) \in Nat
        /\ Cardinality(Sending(u) \ {p}) <= Cardinality(Sending(u))
    BY WithoutPass
  <2> QED
    BY <2>1, <2>2
<1> QED
  BY <1>1, <1>2, <1>3, ProceedThrottle DEF ThrottleInv

LEMMA FinishThrottle ==
  ASSUME ThrottleInv, NEW p \in Passes, NEW success \in BOOLEAN, Finish(p, success),
         UNCHANGED userId
  PROVE  InHand' /\ ThrottleBounded'
<1> DEFINE st(n) == [status EXCEPT ![n] = IF success THEN "DELIVERED" ELSE "FAILED"]
           led(n) == IF success THEN RecordSend(ledger, userId[n], now[p]) ELSE ledger
<1>1. PICK n \in current[p] : Proceed(p, listed[p], st(n), led(n), now[p])
  BY DEF Finish
<1>2. /\ listed[p] \in SUBSET Notifications /\ n \in Notifications
      /\ userId[n] \in Users /\ now[p] \in Nat
      /\ st(n) \in [Notifications -> Status] /\ led(n) \in [Users -> Ledger]
  BY FinishArguments DEF ThrottleInv
<1>3. /\ \A m \in listed[p] : st(n)[m] # "unknown"
      /\ \A m \in Notifications : st(n)[m] = "unknown" => status[m] = "unknown"
  BY <1>2 DEF ThrottleInv, InHand, TypeOK
<1>4. ASSUME NEW u \in Users
      PROVE  led(n)[u].count + Cardinality(Sending(u) \ {p}) < Limit + Cardinality(Passes)
  <2>1. /\ ledger[u].count \in Nat /\ Limit \in Nat /\ led(n)[u].count \in Nat
        /\ ledger[u].count + Cardinality(Sending(u)) < Limit + Cardinality(Passes)
    BY <1>2, NotificationAssumption DEF ThrottleInv, TypeOK, ThrottleBounded, Ledger
  <2>2. /\ Cardinality(Sending(u)) \in Nat /\ Cardinality(Passes) \in Nat
        /\ Cardinality(Sending(u) \ {p}) \in Nat
        /\ Cardinality(Sending(u) \ {p}) =
             IF p \in Sending(u) THEN Cardinality(Sending(u)) - 1 ELSE Cardinality(Sending(u))
    BY WithoutPass
  <2>3. ledger \in [Users -> Ledger]
    BY DEF ThrottleInv, TypeOK, Ledger
  <2>4. CASE u = userId[n]
    <3>1. p \in Sending(u)
      BY <2>4 DEF Sending
    <3>2. RecordSend(ledger, u, now[p])[u].count <= ledger[u].count + 1
      BY <1>2, <2>3, RecordSendType
    <3>3. led(n)[u].count <= ledger[u].count + 1
      BY <2>1, <2>4, <3>2
    <3> QED
      BY <2>1, <2>2, <3>1, <3>3
  <2>5. CASE u # userId[n]
    <3>1. RecordSend(ledger, userId[n], now[p])[u] = ledger[u]
      BY <1>2, <2>3, <2>5, RecordSendType
    <3>2. led(n)[u].count = ledger[u].count
      BY <3>1
    <3> QED
      BY <2>1, <2>2, <3>2
  <2> QED
    BY <2>4, <2>5
<1> HIDE DEF st, led
<1> QED
  BY <1>1, <1>2, <1>3, <1>4, ProceedThrottle DEF ThrottleInv

LEMMA EndChannelThrottle ==
  ASSUME ThrottleInv, TypeOK', NEW p \in Passes, NEW success \in BOOLEAN,
         EndChannel(p, success), UNCHANGED userId
  PROVE  InHand' /\ ThrottleBounded'
<1>1. CASE channel[p] < NumChannels
  <2>1. UNCHANGED <<ledger, status, listed, current, userId>>
    BY <1>1 DEF EndChannel
  <2>2. \A u \in Users : ledger'[u].count <= ledger[u].count
    BY <2>1 DEF ThrottleInv, TypeOK
  <2> QED
    BY <2>1, <2>2, QuietThrottle
<1>2. CASE ~(channel[p] < NumChannels)
  BY <1>2, FinishThrottle DEF EndChannel
<1> QED
  BY <1>1, <1>2

LEMMA InitThrottle == Init => ThrottleInv
<1> SUFFICES ASSUME Init
             PROVE  InHand /\ ThrottleBounded
  BY InitType DEF ThrottleInv
<1>1. InHand
  BY DEF Init, InHand
<1>2. \A u : Sending(u) = {}
  BY DEF Init, Sending
<1>3. Cardinality({}) = 0 /\ Cardinality(Passes) \in Nat
  BY FS_EmptySet, FS_CardinalityType, NotificationAssumption
<1>4. \A u \in Users : ledger[u].count = 0
  BY DEF Init
<1> QED
  BY <1>1, <1>2, <1>3, <1>4, NotificationAssumption DEF ThrottleBounded

LEMMA StepThrottle == ThrottleInv /\ [Next]_vars => ThrottleInv'
<1> SUFFICES ASSUME ThrottleInv, [Next]_vars
             PROVE  InHand' /\ ThrottleBounded'
  BY StepType DEF ThrottleInv
<1>0. /\ TypeOK' /\ TypeOK
      /\ \A u \in Users : ledger[u].count <= ledger[u].count
  BY StepType DEF ThrottleInv, TypeOK
<1>1. ASSUME Tick
      PROVE  InHand' /\ ThrottleBounded'
  BY <1>0, <1>1, QuietThrottle DEF Tick, requestVars, passVars
<1>2. ASSUME NEW u \in Users, NEW k \in Keys \cup {NoKey}, RequestIgnored(u, k)
      PROVE  InHand' /\ ThrottleBounded'
  <2>1. ledger' = RotateFor(ledger, {u}, clock) /\ UNCHANGED <<status, userId, listed, current>>
    BY <1>2 DEF RequestIgnored, requestVars, passVars
  <2>2. \A x \in Users : ledger'[x].count <= ledger[x].count
    BY <1>0, <2>1, RotateForType DEF TypeOK, Ledger
  <2> QED
    BY <1>0, <2>1, <2>2, QuietThrottle
<1>3. ASSUME NEW u \in Users, NEW k \in Keys \cup {NoKey}, NEW n \in Notifications,
             Schedule(n, u, k)
      PROVE  InHand' /\ ThrottleBounded'
  <2>1. /\ ledger' = RotateFor(ledger, {u}, clock) /\ UNCHANGED <<listed, current>>
        /\ status[n] = "unknown" /\ status' = [status EXCEPT ![n] = "SCHEDULED"]
        /\ userId' = [userId EXCEPT ![n] = u]
    BY <1>3 DEF Schedule, passVars
  <2>2. \A x \in Users : ledger'[x].count <= ledger[x].count
    BY <1>0, <2>1, RotateForType DEF TypeOK, Ledger
  <2>3. \A p \in Passes : \A m \in current[p] : userId'[m] = userId[m]
    BY <2>1 DEF ThrottleInv, InHand, TypeOK
  <2>4. \A m \in Notifications : status'[m] = "unknown" => status[m] = "unknown"
    BY <2>1 DEF ThrottleInv, TypeOK
  <2> QED
    BY <1>0, <2>1, <2>2, <2>3, <2>4, QuietThrottle
<1>4. ASSUME NEW n \in Notifications, Cancel(n)
      PROVE  InHand' /\ ThrottleBounded'
  <2>1. UNCHANGED <<ledger, userId, listed, current>>
    BY <1>4 DEF Cancel, requestVars, passVars
  <2>2. \A m \in Notifications : status'[m] = "unknown" => status[m] = "unknown"
    BY <1>0, <1>4 DEF Cancel, TypeOK
  <2> QED
    BY <1>0, <2>1, <2>2, QuietThrottle
<1>5. ASSUME NEW p \in Passes, Begin(p)
      PROVE  InHand' /\ ThrottleBounded'
  BY <1>5, BeginThrottle
<1>6. ASSUME NEW p \in Passes, SendReturns(p)
      PROVE  InHand' /\ ThrottleBounded'
  BY <1>0, <1>6, EndChannelThrottle DEF SendReturns, requestVars
<1>7. ASSUME NEW p \in Passes, SendThrowsAgain(p)
      PROVE  InHand' /\ ThrottleBounded'
  BY <1>0, <1>7, QuietThrottle DEF SendThrowsAgain, requestVars
<1>8. ASSUME NEW p \in Passes, SendThrowsLast(p)
      PROVE  InHand' /\ ThrottleBounded'
  <2>1. EndChannel(p, anySuccess[p]) /\ anySuccess[p] \in BOOLEAN /\ UNCHANGED userId
    BY <1>0, <1>8 DEF TypeOK, SendThrowsLast, requestVars
  <2> QED
    BY <1>0, <2>1, EndChannelThrottle
<1>9. CASE UNCHANGED vars
  BY <1>0, <1>9, QuietThrottle DEF vars, requestVars, passVars
<1> QED
  BY <1>1, <1>2, <1>3, <1>4, <1>5, <1>6, <1>7, <1>8, <1>9 DEF Next, PassStep

\* However many passes overlap, a window's count exceeds the user's limit by at
\* most the passes under way, less the one that last saw the count below it.
THEOREM ThrottleCorrect == Spec => []ThrottleBounded
<1>1. Init => ThrottleInv
  BY InitThrottle
<1>2. ThrottleInv /\ [Next]_vars => ThrottleInv'
  BY StepThrottle
<1>3. ThrottleInv => ThrottleBounded
  BY DEF ThrottleInv
<1> QED
  BY <1>1, <1>2, <1>3, PTL DEF Spec

-----------------------------------------------------------------------------
\* A pass dispatches a notification at most once.

\* What a pass is sending it has entered in the history, and it sends one thing.
OneInHand ==
  \A p \in Passes : \A n \in current[p] :
    p \in dispatchedBy[n] /\ \A m \in current[p] : m = n

\* What a pass has dispatched and let go of is not SCHEDULED any more.
Settled ==
  \A n \in Notifications : \A p \in dispatchedBy[n] :
    status[n] # "unknown" /\ (n \notin current[p] => status[n] # "SCHEDULED")

DispatchInv == TypeOK /\ InHand /\ OncePerPass /\ OneInHand /\ Settled

LEMMA ProceedOnce ==
  ASSUME DispatchInv, NEW p \in Passes, NEW q \in SUBSET Notifications,
         NEW st \in [Notifications -> Status], NEW led \in [Users -> Ledger],
         NEW ts \in Nat, Proceed(p, q, st, led, ts),
         \A n \in q : st[n] # "unknown" /\ p \notin dispatchedBy[n],
         \A n \in Notifications :
           /\ st[n] = "SCHEDULED" => status[n] = "SCHEDULED"
           /\ st[n] = "unknown" => status[n] = "unknown"
           /\ p \in dispatchedBy[n] => st[n] # "SCHEDULED"
  PROVE  OncePerPass' /\ OneInHand' /\ Settled'
<1>1. TypeOK
  BY DEF DispatchInv
<1>2. ProceedOutcome(p, q, st, led, ts)
  BY <1>1, ProceedFacts
<1>3. ASSUME NEW n \in Notifications
      PROVE  dispatchedBy'[n] = IF n \in current'[p] THEN dispatchedBy[n] \cup {p}
                                                     ELSE dispatchedBy[n]
  BY <1>2 DEF ProceedOutcome
<1>4. \A x \in Passes : listed'[x] \subseteq Notifications /\ current'[x] \subseteq Notifications
  BY <1>1, <1>2, ProceedType
<1>5. OncePerPass'
  <2> SUFFICES ASSUME NEW x \in Passes, NEW n \in Notifications, n \in listed'[x]
               PROVE  x \notin dispatchedBy'[n]
    BY DEF OncePerPass
  <2>1. CASE x = p
    <3>1. n \in q /\ n \notin current'[p]
      BY <1>2, <2>1 DEF ProceedOutcome
    <3> QED
      BY <1>3, <2>1, <3>1
  <2>2. CASE x # p
    <3>1. n \in listed[x]
      BY <1>2, <2>2 DEF ProceedOutcome
    <3>2. x \notin dispatchedBy[n]
      BY <3>1 DEF DispatchInv, OncePerPass
    <3> QED
      BY <1>3, <2>2, <3>2
  <2> QED
    BY <2>1, <2>2
<1>6. OneInHand'
  <2> SUFFICES ASSUME NEW x \in Passes, NEW n \in current'[x]
               PROVE  x \in dispatchedBy'[n] /\ \A m \in current'[x] : m = n
    BY DEF OneInHand
  <2>1. n \in Notifications
    BY <1>4
  <2>2. CASE x = p
    BY <1>2, <1>3, <2>1, <2>2 DEF ProceedOutcome
  <2>3. CASE x # p
    <3>1. current'[x] = current[x]
      BY <1>2, <2>3 DEF ProceedOutcome
    <3>2. x \in dispatchedBy[n] /\ \A m \in current[x] : m = n
      BY <3>1 DEF DispatchInv, OneInHand
    <3> QED
      BY <1>3, <2>1, <3>1, <3>2
  <2> QED
    BY <2>2, <2>3
<1>7. Settled'
  <2> SUFFICES ASSUME NEW n \in Notifications, NEW x \in dispatchedBy'[n]
               PROVE  /\ status'[n] # "unknown"
                      /\ n \notin current'[x] => status'[n] # "SCHEDULED"
    BY DEF Settled
  <2>1. /\ status'[n] = "SCHEDULED" => st[n] = "SCHEDULED"
        /\ status'[n] = "unknown" => st[n] = "unknown"
    BY <1>2 DEF ProceedOutcome
  <2>2. CASE n \in current'[p] /\ x = p
    BY <1>2, <2>1, <2>2 DEF ProceedOutcome
  <2>3. CASE ~(n \in current'[p] /\ x = p)
    <3>1. x \in dispatchedBy[n] /\ x \in Passes
      BY <1>1, <1>3, <2>3 DEF TypeOK
    <3>2. status[n] # "unknown" /\ (n \notin current[x] => status[n] # "SCHEDULED")
      BY <3>1 DEF DispatchInv, Settled
    <3>3. x # p => current'[x] = current[x]
      BY <1>2, <3>1 DEF ProceedOutcome
    <3> QED
      BY <2>1, <3>1, <3>2, <3>3
  <2> QED
    BY <2>2, <2>3
<1> QED
  BY <1>5, <1>6, <1>7

\* A step that leaves the passes and their history alone.
LEMMA QuietOnce ==
  ASSUME DispatchInv, UNCHANGED <<listed, current, dispatchedBy>>,
         \A n \in Notifications :
           /\ status'[n] = "SCHEDULED" => status[n] \in {"SCHEDULED", "unknown"}
           /\ status'[n] = "unknown" => status[n] = "unknown"
  PROVE  OncePerPass' /\ OneInHand' /\ Settled'
<1>1. OncePerPass' /\ OneInHand'
  BY DEF DispatchInv, OncePerPass, OneInHand
<1>2. Settled'
  BY DEF DispatchInv, Settled
<1> QED
  BY <1>1, <1>2

LEMMA BeginOnce ==
  ASSUME DispatchInv, NEW p \in Passes, Begin(p)
  PROVE  OncePerPass' /\ OneInHand' /\ Settled'
<1>1. /\ Due(clock) \in SUBSET Notifications /\ clock \in Nat
      /\ ledger \in [Users -> Ledger] /\ status \in [Notifications -> Status]
      /\ \A n \in Due(clock) : status[n] = "SCHEDULED"
  BY DEF DispatchInv, TypeOK, Due, Ledger
<1>2. Proceed(p, Due(clock), status, ledger, clock) /\ current[p] = {}
  BY DEF Begin
<1>3. \A n \in Notifications : p \in dispatchedBy[n] => status[n] # "SCHEDULED"
  BY <1>2 DEF DispatchInv, Settled
<1> QED
  BY <1>1, <1>2, <1>3, ProceedOnce

LEMMA FinishOnce ==
  ASSUME DispatchInv, NEW p \in Passes, NEW success \in BOOLEAN, Finish(p, success)
  PROVE  OncePerPass' /\ OneInHand' /\ Settled'
<1> DEFINE st(n) == [status EXCEPT ![n] = IF success THEN "DELIVERED" ELSE "FAILED"]
           led(n) == IF success THEN RecordSend(ledger, userId[n], now[p]) ELSE ledger
<1>1. PICK n \in current[p] : Proceed(p, listed[p], st(n), led(n), now[p])
  BY DEF Finish
<1>2. /\ listed[p] \in SUBSET Notifications /\ n \in Notifications /\ now[p] \in Nat
      /\ st(n) \in [Notifications -> Status] /\ led(n) \in [Users -> Ledger]
  BY FinishArguments DEF DispatchInv
<1>3. current[p] = {n} /\ p \in dispatchedBy[n]
  BY DEF DispatchInv, OneInHand
<1>4. \A m \in listed[p] : st(n)[m] # "unknown" /\ p \notin dispatchedBy[m]
  BY <1>2 DEF DispatchInv, InHand, OncePerPass, TypeOK
<1>5. \A m \in Notifications :
        /\ st(n)[m] = "SCHEDULED" => status[m] = "SCHEDULED"
        /\ st(n)[m] = "unknown" => status[m] = "unknown"
        /\ p \in dispatchedBy[m] => st(n)[m] # "SCHEDULED"
  BY <1>2, <1>3 DEF DispatchInv, Settled, TypeOK
<1> HIDE DEF st, led
<1> QED
  BY <1>1, <1>2, <1>4, <1>5, ProceedOnce

LEMMA EndChannelOnce ==
  ASSUME DispatchInv, NEW p \in Passes, NEW success \in BOOLEAN, EndChannel(p, success)
  PROVE  OncePerPass' /\ OneInHand' /\ Settled'
<1>1. CASE channel[p] < NumChannels
  BY <1>1, QuietOnce DEF EndChannel
<1>2. CASE ~(channel[p] < NumChannels)
  BY <1>2, FinishOnce DEF EndChannel
<1> QED
  BY <1>1, <1>2

LEMMA InitOnce == Init => OncePerPass /\ OneInHand /\ Settled
BY DEF Init, OncePerPass, OneInHand, Settled

LEMMA StepOnce == DispatchInv /\ [Next]_vars => OncePerPass' /\ OneInHand' /\ Settled'
<1> SUFFICES ASSUME DispatchInv, [Next]_vars
             PROVE  OncePerPass' /\ OneInHand' /\ Settled'
  OBVIOUS
<1>0. TypeOK
  BY DEF DispatchInv
<1>1. ASSUME Tick
      PROVE  OncePerPass' /\ OneInHand' /\ Settled'
  BY <1>1, QuietOnce DEF Tick, passVars
<1>2. ASSUME NEW u \in Users, NEW k \in Keys \cup {NoKey}, RequestIgnored(u, k)
      PROVE  OncePerPass' /\ OneInHand' /\ Settled'
  BY <1>2, QuietOnce DEF RequestIgnored, passVars
<1>3. ASSUME NEW u \in Users, NEW k \in Keys \cup {NoKey}, NEW n \in Notifications,
             Schedule(n, u, k)
      PROVE  OncePerPass' /\ OneInHand' /\ Settled'
  <2>1. /\ UNCHANGED <<listed, current, dispatchedBy>>
        /\ status[n] = "unknown" /\ status' = [status EXCEPT ![n] = "SCHEDULED"]
    BY <1>3 DEF Schedule, passVars
  <2>2. \A m \in Notifications :
          /\ status'[m] = "SCHEDULED" => status[m] \in {"SCHEDULED", "unknown"}
          /\ status'[m] = "unknown" => status[m] = "unknown"
    BY <1>0, <2>1 DEF TypeOK
  <2> QED
    BY <2>1, <2>2, QuietOnce
<1>4. ASSUME NEW n \in Notifications, Cancel(n)
      PROVE  OncePerPass' /\ OneInHand' /\ Settled'
  <2>1. /\ UNCHANGED <<listed, current, dispatchedBy>>
        /\ status' = [status EXCEPT ![n] = "CANCELLED"]
    BY <1>4 DEF Cancel, passVars
  <2>2. \A m \in Notifications :
          /\ status'[m] = "SCHEDULED" => status[m] = "SCHEDULED"
          /\ status'[m] = "unknown" => status[m] = "unknown"
    BY <1>0, <2>1 DEF TypeOK
  <2> QED
    BY <2>1, <2>2, QuietOnce
<1>5. ASSUME NEW p \in Passes, Begin(p)
      PROVE  OncePerPass' /\ OneInHand' /\ Settled'
  BY <1>5, BeginOnce
<1>6. ASSUME NEW p \in Passes, SendReturns(p)
      PROVE  OncePerPass' /\ OneInHand' /\ Settled'
  BY <1>6, EndChannelOnce DEF SendReturns
<1>7. ASSUME NEW p \in Passes, SendThrowsAgain(p)
      PROVE  OncePerPass' /\ OneInHand' /\ Settled'
  BY <1>7, QuietOnce DEF SendThrowsAgain
<1>8. ASSUME NEW p \in Passes, SendThrowsLast(p)
      PROVE  OncePerPass' /\ OneInHand' /\ Settled'
  <2>1. EndChannel(p, anySuccess[p]) /\ anySuccess[p] \in BOOLEAN
    BY <1>0, <1>8 DEF TypeOK, SendThrowsLast
  <2> QED
    BY <2>1, EndChannelOnce
<1>9. CASE UNCHANGED vars
  BY <1>9, QuietOnce DEF vars, passVars
<1> QED
  BY <1>1, <1>2, <1>3, <1>4, <1>5, <1>6, <1>7, <1>8, <1>9 DEF Next, PassStep

\* No pass has on its list what it has dispatched already, whatever the calls of
\* the others did to the status meanwhile: each pass sends a notification once.
THEOREM OncePerPassCorrect == Spec => []OncePerPass
<1> DEFINE Inv == ThrottleInv /\ DispatchInv
<1>1. Init => Inv
  BY InitThrottle, InitOnce DEF ThrottleInv, DispatchInv
<1>2. Inv /\ [Next]_vars => Inv'
  <2>1. ThrottleInv /\ [Next]_vars => TypeOK' /\ InHand' /\ ThrottleInv'
    BY StepThrottle DEF ThrottleInv
  <2>2. DispatchInv /\ [Next]_vars => OncePerPass' /\ OneInHand' /\ Settled'
    BY StepOnce
  <2> QED
    BY <2>1, <2>2 DEF DispatchInv
<1>3. Inv => OncePerPass
  BY DEF DispatchInv
<1> HIDE DEF Inv
<1> QED
  BY <1>1, <1>2, <1>3, PTL DEF Spec

-----------------------------------------------------------------------------
\* Deduplication.  The scheduler knows one id of each key.  That is enough because it is the
\* id of the one that waits, if one does: a request replaces it only when its status is no
\* longer SCHEDULED, and no status ever becomes SCHEDULED again.

KeyInv ==
  \A n \in Notifications :
    status[n] = "SCHEDULED" /\ dedupeKey[n] # NoKey => byDedupe[dedupeKey[n]] = {n}

\* A step that stores no request.
LEMMA QuietKeys ==
  ASSUME KeyInv, UNCHANGED requestVars,
         \A n \in Notifications : status'[n] = "SCHEDULED" => status[n] = "SCHEDULED"
  PROVE  KeyInv'
BY DEF KeyInv, requestVars

LEMMA ProceedKeys ==
  ASSUME KeyInv, UNCHANGED requestVars, NEW p, NEW q, NEW st, NEW led, NEW ts,
         Proceed(p, q, st, led, ts),
         \A n \in Notifications : st[n] = "SCHEDULED" => status[n] = "SCHEDULED"
  PROVE  KeyInv'
<1>1. PICK S : status' = Skipped(st, S, ts)
  BY DEF Proceed
<1>2. \A n \in Notifications : status'[n] = "SCHEDULED" => st[n] = "SCHEDULED"
  BY <1>1 DEF Skipped
<1> QED
  BY <1>2, QuietKeys

LEMMA EndChannelKeys ==
  ASSUME TypeOK, KeyInv, UNCHANGED requestVars, NEW p \in Passes, NEW success \in BOOLEAN,
         EndChannel(p, success)
  PROVE  KeyInv'
<1>1. CASE channel[p] < NumChannels
  BY <1>1, QuietKeys DEF EndChannel
<1>2. CASE ~ (channel[p] < NumChannels)
  <2>1. Finish(p, success)
    BY <1>2 DEF EndChannel
  <2> DEFINE ended == IF success THEN "DELIVERED" ELSE "FAILED"
  <2>2. PICK n \in current[p] : \E led :
          Proceed(p, listed[p], [status EXCEPT ![n] = ended], led, now[p])
    BY <2>1 DEF Finish
  <2>3. ended # "SCHEDULED"
    OBVIOUS
  <2> HIDE DEF ended
  <2>4. \A m \in Notifications :
          [status EXCEPT ![n] = ended][m] = "SCHEDULED" => status[m] = "SCHEDULED"
    BY <2>3 DEF TypeOK
  <2> QED
    BY <2>2, <2>4, ProceedKeys
<1> QED
  BY <1>1, <1>2

LEMMA ScheduleKeys ==
  ASSUME TypeOK, KeyInv, NEW n \in Notifications, NEW u \in Users, NEW k \in Keys \cup {NoKey},
         Schedule(n, u, k)
  PROVE  KeyInv'
<1>1. /\ status' = [status EXCEPT ![n] = "SCHEDULED"]
      /\ dedupeKey' = [dedupeKey EXCEPT ![n] = k]
      /\ byDedupe' = [x \in Keys |-> IF x = k THEN {n} ELSE byDedupe[x]]
      /\ k # NoKey => \A m \in byDedupe[k] : status[m] # "SCHEDULED"
  BY DEF Schedule, Duplicate
<1> SUFFICES ASSUME NEW m \in Notifications, status'[m] = "SCHEDULED", dedupeKey'[m] # NoKey
             PROVE  byDedupe'[dedupeKey'[m]] = {m}
  BY DEF KeyInv
<1>2. CASE m = n
  <2>1. dedupeKey'[m] = k /\ k \in Keys
    BY <1>1, <1>2 DEF TypeOK
  <2> QED
    BY <1>1, <1>2, <2>1
<1>3. CASE m # n
  <2>1. status[m] = "SCHEDULED" /\ dedupeKey'[m] = dedupeKey[m] /\ dedupeKey[m] \in Keys
    BY <1>1, <1>3 DEF TypeOK
  <2>2. byDedupe[dedupeKey[m]] = {m}
    BY <2>1, NotificationAssumption DEF KeyInv
  <2>3. dedupeKey[m] # k
    BY <1>1, <2>1, <2>2, NotificationAssumption
  <2> QED
    BY <1>1, <2>1, <2>2, <2>3
<1> QED
  BY <1>2, <1>3

LEMMA StepKeys == TypeOK /\ KeyInv /\ [Next]_vars => KeyInv'
<1> SUFFICES ASSUME TypeOK, KeyInv, [Next]_vars
             PROVE  KeyInv'
  OBVIOUS
<1>1. ASSUME UNCHANGED <<status, requestVars>>
      PROVE  KeyInv'
  BY <1>1, QuietKeys
<1>2. CASE Tick \/ UNCHANGED vars
  BY <1>1, <1>2 DEF Tick, vars
<1>3. ASSUME NEW u \in Users, NEW k \in Keys \cup {NoKey},
             RequestIgnored(u, k) \/ \E n \in Notifications : Schedule(n, u, k)
      PROVE  KeyInv'
  BY <1>1, <1>3, ScheduleKeys DEF RequestIgnored
<1>4. ASSUME NEW n \in Notifications, Cancel(n)
      PROVE  KeyInv'
  BY <1>4, QuietKeys DEF Cancel, TypeOK
<1>5. ASSUME NEW p \in Passes, Begin(p)
      PROVE  KeyInv'
  BY <1>5, ProceedKeys DEF Begin
<1>6. ASSUME NEW p \in Passes, PassStep(p)
      PROVE  KeyInv'
  <2>1. CASE SendReturns(p)
    BY <2>1, EndChannelKeys DEF SendReturns
  <2>2. CASE SendThrowsAgain(p)
    BY <1>1, <2>2 DEF SendThrowsAgain
  <2>3. CASE SendThrowsLast(p)
    BY <2>3, EndChannelKeys DEF SendThrowsLast, TypeOK
  <2> QED
    BY <1>6, <2>1, <2>2, <2>3 DEF PassStep
<1> QED
  BY <1>2, <1>3, <1>4, <1>5, <1>6 DEF Next

\* However requests, cancellations and passes overlap, two notifications with one key never
\* wait together (RedisNotificationScheduler.schedule looks only at the last id of the key).
THEOREM DedupeCorrect == Spec => []OneScheduledPerKey
<1>1. Init => KeyInv
  BY DEF Init, KeyInv
<1>2. TypeOK /\ KeyInv => OneScheduledPerKey
  <2> SUFFICES ASSUME TypeOK, KeyInv, NEW m \in Notifications, NEW n \in Notifications,
                      status[m] = "SCHEDULED", status[n] = "SCHEDULED",
                      dedupeKey[m] = dedupeKey[n], dedupeKey[m] # NoKey
               PROVE  m = n
    BY DEF OneScheduledPerKey
  <2>1. {m} = {n}
    BY DEF KeyInv
  <2> QED
    BY <2>1
<1> QED
  BY <1>1, <1>2, StepKeys, TypeCorrect, PTL DEF Spec

-----------------------------------------------------------------------------
\* Cancellations.

\* What a step may not do to a notification that is cancelled and listed by no pass.
Left(n) == status[n] = "CANCELLED" /\ (\A p \in Passes : n \notin listed[p] \cup current[p])
             => status'[n] = "CANCELLED" /\ dispatchedBy'[n] = dispatchedBy[n]

\* A pass changes only what it has listed.
LEMMA ProceedLeaves ==
  ASSUME TypeOK, NEW p \in Passes, NEW q \in SUBSET Notifications,
         NEW st \in [Notifications -> Status], NEW led \in [Users -> Ledger],
         NEW ts \in Nat, Proceed(p, q, st, led, ts), NEW n \in Notifications,
         n \notin q, st[n] = status[n]
  PROVE  Left(n)
<1>1. ProceedOutcome(p, q, st, led, ts)
  BY ProceedFacts
<1>2. status'[n] = status[n] /\ n \notin current'[p]
  BY <1>1 DEF ProceedOutcome
<1>3. dispatchedBy'[n] = dispatchedBy[n]
  BY <1>1, <1>2 DEF ProceedOutcome
<1> QED
  BY <1>2, <1>3 DEF Left

LEMMA EndChannelLeaves ==
  ASSUME TypeOK, NEW p \in Passes, NEW success \in BOOLEAN, EndChannel(p, success),
         NEW n \in Notifications
  PROVE  Left(n)
<1>1. CASE channel[p] < NumChannels
  BY <1>1 DEF EndChannel, Left
<1>2. CASE ~(channel[p] < NumChannels) /\ n \notin listed[p] \cup current[p]
  <2>1. PICK m \in current[p] :
          Proceed(p, listed[p],
                  [status EXCEPT ![m] = IF success THEN "DELIVERED" ELSE "FAILED"],
                  IF success THEN RecordSend(ledger, userId[m], now[p]) ELSE ledger,
                  now[p])
    BY <1>2 DEF EndChannel, Finish
  <2> DEFINE st == [status EXCEPT ![m] = IF success THEN "DELIVERED" ELSE "FAILED"]
             led == IF success THEN RecordSend(ledger, userId[m], now[p]) ELSE ledger
  <2>2. /\ listed[p] \in SUBSET Notifications /\ now[p] \in Nat
        /\ st \in [Notifications -> Status] /\ led \in [Users -> Ledger]
    BY FinishArguments
  <2>3. n \notin listed[p] /\ st[n] = status[n]
    BY <1>2 DEF TypeOK
  <2>4. Proceed(p, listed[p], st, led, now[p])
    BY <2>1
  <2> HIDE DEF st, led
  <2> QED
    BY <2>2, <2>3, <2>4, ProceedLeaves
<1>3. CASE n \in listed[p] \cup current[p]
  BY <1>3 DEF Left
<1> QED
  BY <1>1, <1>2, <1>3

LEMMA StepLeaves ==
  ASSUME TypeOK, [Next]_vars, NEW n \in Notifications
  PROVE  Left(n)
<1> USE DEF Left
<1>1. ASSUME Tick
      PROVE  Left(n)
  BY <1>1 DEF Tick
<1>2. ASSUME NEW u \in Users, NEW k \in Keys \cup {NoKey}, RequestIgnored(u, k)
      PROVE  Left(n)
  BY <1>2 DEF RequestIgnored
<1>3. ASSUME NEW u \in Users, NEW k \in Keys \cup {NoKey}, NEW m \in Notifications,
             Schedule(m, u, k)
      PROVE  Left(n)
  BY <1>3 DEF Schedule, TypeOK
<1>4. ASSUME NEW m \in Notifications, Cancel(m)
      PROVE  Left(n)
  BY <1>4 DEF Cancel, TypeOK
<1>5. ASSUME NEW p \in Passes, Begin(p)
      PROVE  Left(n)
  <2>1. CASE n \in Due(clock)
    BY <2>1 DEF Due
  <2>2. CASE n \notin Due(clock)
    <3>1. /\ Due(clock) \in SUBSET Notifications /\ clock \in Nat
          /\ ledger \in [Users -> Ledger] /\ status \in [Notifications -> Status]
      BY DEF TypeOK, Due, Ledger
    <3>2. Proceed(p, Due(clock), status, ledger, clock)
      BY <1>5 DEF Begin
    <3> QED
      BY <2>2, <3>1, <3>2, ProceedLeaves
  <2> QED
    BY <2>1, <2>2
<1>6. ASSUME NEW p \in Passes, SendReturns(p)
      PROVE  Left(n)
  <2>1. EndChannel(p, TRUE)
    BY <1>6 DEF SendReturns
  <2> QED
    BY <2>1, EndChannelLeaves
<1>7. ASSUME NEW p \in Passes, SendThrowsAgain(p)
      PROVE  Left(n)
  BY <1>7 DEF SendThrowsAgain
<1>8. ASSUME NEW p \in Passes, SendThrowsLast(p)
      PROVE  Left(n)
  <2>1. EndChannel(p, anySuccess[p]) /\ anySuccess[p] \in BOOLEAN
    BY <1>8 DEF TypeOK, SendThrowsLast
  <2> QED
    BY <2>1, EndChannelLeaves
<1>9. CASE UNCHANGED vars
  BY <1>9 DEF vars
<1> QED
  BY <1>1, <1>2, <1>3, <1>4, <1>5, <1>6, <1>7, <1>8, <1>9 DEF Next, PassStep

\* For any notifications, passes and limits, a cancelled notification that no pass has
\* listed is not sent any more and stays cancelled.
THEOREM CancelledCorrect == Spec => CancelledStays
<1>1. Init => TypeOK
  BY InitType
<1>2. TypeOK /\ [Next]_vars => TypeOK'
  BY StepType
<1>3. TypeOK /\ [Next]_vars =>
        [\A n \in Notifications :
           status[n] = "CANCELLED" /\ (\A p \in Passes : n \notin listed[p] \cup current[p])
             => status'[n] = "CANCELLED" /\ dispatchedBy'[n] = dispatchedBy[n]]_vars
  BY StepLeaves DEF Left
<1> QED
  BY <1>1, <1>2, <1>3, PTL DEF Spec, CancelledStays

=============================================================================
