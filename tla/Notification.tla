---------------------------- MODULE Notification ----------------------------
(***************************************************************************)
(* The notification engine: scheduleNotification, cancelNotification, and  *)
(* passes of dispatchDue that overlap at their awaits of the channels,     *)
(* over the scheduler's map and the throttler's ledgers.  Both are in      *)
(* memory; the copies written to Redis are never read and left out.        *)
(* One throttle window stands for minute, hour and day.                    *)
(***************************************************************************)
EXTENDS Integers, FiniteSets

CONSTANTS Notifications,   \* ids, as numbers in the order of the map's insertions
          Users,
          Keys, NoKey,     \* dedupe keys
          Passes,          \* calls of dispatchDue that may be under way at once
          Limit, Window,   \* sends per user and window
          NumChannels, MaxAttempts,
          Delays, Ttls,    \* ticks from a request to scheduledFor and to expiresAt
          MaxTime          \* bound on the clock

ASSUME NotificationAssumption ==
  /\ Notifications \subseteq Nat
  /\ NoKey \notin Keys
  /\ IsFiniteSet(Passes)
  /\ Limit \in Nat \ {0} /\ Window \in Nat \ {0}
  /\ NumChannels \in Nat \ {0} /\ MaxAttempts \in Nat \ {0}
  /\ Delays \subseteq Nat /\ Ttls \subseteq Nat
  /\ MaxTime \in Nat

VARIABLES
  clock,
  ledger,        \* [Users -> [start, count]]: the throttler's window of each user
  status,        \* [Notifications -> Status]: "unknown" is not in the map
  userId, scheduledFor, expiresAt, dedupeKey,   \* what was requested
  byDedupe,      \* [Keys -> SUBSET Notifications]: the id last stored for a key
  listed,        \* [Passes -> SUBSET Notifications]: due, not yet looked at
  current,       \* [Passes -> SUBSET Notifications]: the one being dispatched
  now,           \* [Passes -> Nat]: the time the pass was given, 0 when it has ended
  channel, attempt,   \* [Passes -> Nat]: channel in use, and its attempt
  anySuccess,    \* [Passes -> BOOLEAN]
  dispatchedBy   \* [Notifications -> SUBSET Passes]: history, who has dispatched it

requestVars == <<userId, scheduledFor, expiresAt, dedupeKey, byDedupe>>
passVars == <<listed, current, now, channel, attempt, anySuccess>>
vars == <<clock, ledger, status, requestVars, passVars, dispatchedBy>>

Status == {"unknown", "SCHEDULED", "DELIVERED", "FAILED", "THROTTLED", "CANCELLED"}

\* A user without a ledger is one whose window has long passed.
Init ==
  /\ clock = 0
  /\ ledger = [u \in Users |-> [start |-> -Window, count |-> 0]]
  /\ status = [n \in Notifications |-> "unknown"]
  /\ userId \in [Notifications -> Users]
  /\ scheduledFor = [n \in Notifications |-> 0]
  /\ expiresAt = [n \in Notifications |-> 0]
  /\ dedupeKey = [n \in Notifications |-> NoKey]
  /\ byDedupe = [k \in Keys |-> {}]
  /\ listed = [p \in Passes |-> {}]
  /\ current = [p \in Passes |-> {}]
  /\ now = [p \in Passes |-> 0]
  /\ channel = [p \in Passes |-> 1]
  /\ attempt = [p \in Passes |-> 1]
  /\ anySuccess = [p \in Passes |-> FALSE]
  /\ dispatchedBy = [n \in Notifications |-> {}]

Tick ==
  /\ clock < MaxTime
  /\ clock' = clock + 1
  /\ UNCHANGED <<ledger, status, requestVars, passVars, dispatchedBy>>

-----------------------------------------------------------------------------
\* RedisNotificationThrottler.

\* rotate: a new window begins at ts when the old one is over.
Rotate(l, ts) == IF ts - l.start >= Window THEN [start |-> ts, count |-> 0] ELSE l

\* A mutant: the comparison lets one more send through.
Allows_OneMore(l, ts) == Rotate(l, ts).count <= Limit

Allows(l, ts) == Rotate(l, ts).count < Limit

RotateFor(led, U, ts) == [u \in Users |-> IF u \in U THEN Rotate(led[u], ts) ELSE led[u]]

\* recordSend, with the time the pass was given, which may be long ago.
RecordSend(led, u, ts) ==
  [led EXCEPT ![u] = [start |-> Rotate(@, ts).start, count |-> Rotate(@, ts).count + 1]]

-----------------------------------------------------------------------------
\* scheduleNotification.  Ids are taken in the order of the requests stored.

\* A mutant: a notification that is already due no longer counts.
Duplicate_NotYetDue(k) ==
  k # NoKey /\ \E m \in byDedupe[k] : status[m] = "SCHEDULED" /\ scheduledFor[m] > clock

\* RedisNotificationScheduler.schedule finds the key's notification still SCHEDULED.
Duplicate(k) == k # NoKey /\ \E m \in byDedupe[k] : status[m] = "SCHEDULED"

\* The request is throttled or a duplicate: nothing is stored, but the throttle
\* check may have begun a new window.
RequestIgnored(u, k) ==
  /\ ~Allows(ledger[u], clock) \/ Duplicate(k)
  /\ ledger' = RotateFor(ledger, {u}, clock)
  /\ UNCHANGED <<clock, status, requestVars, passVars, dispatchedBy>>

Schedule(n, u, k) ==
  /\ status[n] = "unknown"
  /\ \A m \in Notifications : m < n => status[m] # "unknown"
  /\ Allows(ledger[u], clock)
  /\ ~Duplicate(k)
  /\ ledger' = RotateFor(ledger, {u}, clock)
  /\ status' = [status EXCEPT ![n] = "SCHEDULED"]
  /\ userId' = [userId EXCEPT ![n] = u]
  /\ dedupeKey' = [dedupeKey EXCEPT ![n] = k]
  /\ byDedupe' = [x \in Keys |-> IF x = k THEN {n} ELSE byDedupe[x]]
  /\ \E delay \in Delays : scheduledFor' = [scheduledFor EXCEPT ![n] = clock + delay]
  /\ \E ttl \in Ttls : expiresAt' = [expiresAt EXCEPT ![n] = clock + ttl]
  /\ UNCHANGED <<clock, passVars, dispatchedBy>>

\* Whatever the status is, it becomes CANCELLED.
Cancel(n) ==
  /\ status[n] # "unknown"
  /\ status' = [status EXCEPT ![n] = "CANCELLED"]
  /\ UNCHANGED <<clock, ledger, requestVars, passVars, dispatchedBy>>

-----------------------------------------------------------------------------
\* dispatchDue.  From one await to the next a pass settles the notification it
\* was sending, skips those it may not send, and starts on the first it may.

Expired(n, ts) == expiresAt[n] < ts

\* The throttle is looked at with the ledgers as they are at that moment.
Sendable(n, led, ts) == ~Expired(n, ts) /\ Allows(led[userId[n]], ts)

\* What the pass makes of the notifications S it skips: no status is read again.
Skipped(st, S, ts) ==
  [n \in Notifications |-> IF n \notin S THEN st[n]
                           ELSE IF Expired(n, ts) THEN "FAILED" ELSE "THROTTLED"]

\* The pass p, at time ts, with the list q, the statuses st and the ledgers led.
Proceed(p, q, st, led, ts) ==
  LET candidates == {n \in q : Sendable(n, led, ts)}
      next == {n \in candidates : \A m \in candidates : n <= m}
      skipped == {n \in q : \A m \in next : n < m}
      asked == {userId[n] : n \in {m \in skipped \cup next : ~Expired(m, ts)}}
  IN /\ status' = Skipped(st, skipped, ts)
     /\ ledger' = RotateFor(led, asked, ts)
     /\ listed' = [listed EXCEPT ![p] = q \ (skipped \cup next)]
     /\ current' = [current EXCEPT ![p] = next]
     /\ dispatchedBy' = [n \in Notifications |->
          IF n \in next THEN dispatchedBy[n] \cup {p} ELSE dispatchedBy[n]]
     /\ now' = [now EXCEPT ![p] = IF next = {} THEN 0 ELSE ts]
     /\ channel' = [channel EXCEPT ![p] = 1]
     /\ attempt' = [attempt EXCEPT ![p] = 1]
     /\ anySuccess' = [anySuccess EXCEPT ![p] = FALSE]

\* A mutant: the status is not looked at.
Due_AnyStatus(ts) == {n \in Notifications : status[n] # "unknown" /\ scheduledFor[n] <= ts}

Due(ts) == {n \in Notifications : status[n] = "SCHEDULED" /\ scheduledFor[n] <= ts}

Begin(p) ==
  /\ current[p] = {}
  /\ Due(clock) # {}
  /\ Proceed(p, Due(clock), status, ledger, clock)
  /\ UNCHANGED <<clock, requestVars>>

\* After the last channel the status is overwritten, and a success is charged to
\* the user.
Finish(p, success) ==
  \E n \in current[p] :
    Proceed(p, listed[p],
            [status EXCEPT ![n] = IF success THEN "DELIVERED" ELSE "FAILED"],
            IF success THEN RecordSend(ledger, userId[n], now[p]) ELSE ledger,
            now[p])

\* A mutant: the loop over the channels stays with the first.
EndChannel_SameChannel(p, success) ==
  /\ UNCHANGED channel
  /\ attempt' = [attempt EXCEPT ![p] = 1]
  /\ anySuccess' = [anySuccess EXCEPT ![p] = success]
  /\ UNCHANGED <<ledger, status, listed, current, now, dispatchedBy>>

\* The channel is done: the next one, or the end of this notification.
EndChannel(p, success) ==
  IF channel[p] < NumChannels
    THEN /\ channel' = [channel EXCEPT ![p] = @ + 1]
         /\ attempt' = [attempt EXCEPT ![p] = 1]
         /\ anySuccess' = [anySuccess EXCEPT ![p] = success]
         /\ UNCHANGED <<ledger, status, listed, current, now, dispatchedBy>>
    ELSE Finish(p, success)

SendReturns(p) ==
  /\ current[p] # {}
  /\ EndChannel(p, TRUE)
  /\ UNCHANGED <<clock, requestVars>>

\* A mutant: one attempt too many.
SendThrowsAgain_OneTooMany(p) ==
  /\ current[p] # {}
  /\ attempt[p] <= MaxAttempts
  /\ attempt' = [attempt EXCEPT ![p] = @ + 1]
  /\ UNCHANGED <<clock, ledger, status, requestVars, dispatchedBy>>
  /\ UNCHANGED <<listed, current, now, channel, anySuccess>>

SendThrowsAgain(p) ==
  /\ current[p] # {}
  /\ attempt[p] < MaxAttempts
  /\ attempt' = [attempt EXCEPT ![p] = @ + 1]
  /\ UNCHANGED <<clock, ledger, status, requestVars, dispatchedBy>>
  /\ UNCHANGED <<listed, current, now, channel, anySuccess>>

SendThrowsLast(p) ==
  /\ current[p] # {}
  /\ attempt[p] = MaxAttempts
  /\ EndChannel(p, anySuccess[p])
  /\ UNCHANGED <<clock, requestVars>>

PassStep(p) == SendReturns(p) \/ SendThrowsAgain(p) \/ SendThrowsLast(p)

Next ==
  \/ Tick
  \/ \E u \in Users, k \in Keys \cup {NoKey} :
       \/ RequestIgnored(u, k)
       \/ \E n \in Notifications : Schedule(n, u, k)
  \/ \E n \in Notifications : Cancel(n)
  \/ \E p \in Passes : Begin(p) \/ PassStep(p)

Spec == Init /\ [][Next]_vars

\* A channel answers, and the event loop resumes the pass that waits for it.
LiveSpec == Spec /\ \A p \in Passes : WF_vars(PassStep(p))

-----------------------------------------------------------------------------
\* Properties.

TypeOK ==
  /\ clock \in Nat
  /\ ledger \in [Users -> [start : Int, count : Nat]]
  /\ status \in [Notifications -> Status]
  /\ userId \in [Notifications -> Users]
  /\ scheduledFor \in [Notifications -> Nat]
  /\ expiresAt \in [Notifications -> Nat]
  /\ dedupeKey \in [Notifications -> Keys \cup {NoKey}]
  /\ byDedupe \in [Keys -> SUBSET Notifications]
  /\ listed \in [Passes -> SUBSET Notifications]
  /\ current \in [Passes -> SUBSET Notifications]
  /\ now \in [Passes -> Nat]
  /\ channel \in [Passes -> 1..NumChannels]
  /\ attempt \in [Passes -> 1..MaxAttempts]
  /\ anySuccess \in [Passes -> BOOLEAN]
  /\ dispatchedBy \in [Notifications -> SUBSET Passes]

\* The throttle is checked before the channels are awaited and charged after: a
\* window's count exceeds the limit by no more than the other passes under way.
Sending(u) == {p \in Passes : \E n \in current[p] : userId[n] = u}

ThrottleBounded ==
  \A u \in Users : ledger[u].count + Cardinality(Sending(u)) < Limit + Cardinality(Passes)

\* A pass never dispatches a notification it has dispatched before, however often
\* it is called and whatever other passes and cancellations do to the status: a
\* notification is sent at most once by each of the passes that overlap.
OncePerPass ==
  \A p \in Passes, n \in Notifications : n \in listed[p] => p \notin dispatchedBy[n]

\* A cancellation holds: a notification that is cancelled while no pass has listed
\* it is never sent after that, and its status stays, whatever passes begin later.
\* (One that a pass has listed is another matter: the pass does not read the status
\* again, sends it, and overwrites the cancellation.)
CancelledStays ==
  [][\A n \in Notifications :
       status[n] = "CANCELLED" /\ (\A p \in Passes : n \notin listed[p] \cup current[p])
         => status'[n] = "CANCELLED" /\ dispatchedBy'[n] = dispatchedBy[n]]_vars

\* Deduplication: at most one notification with a given key waits to be sent,
\* although the scheduler remembers only the last id it stored for the key.
OneScheduledPerKey ==
  \A m, n \in Notifications :
    ( /\ status[m] = "SCHEDULED" /\ status[n] = "SCHEDULED"
      /\ dedupeKey[m] = dedupeKey[n] /\ dedupeKey[m] # NoKey )
    => m = n

\* A pass settles all it has listed: retries and channels come to an end, and no
\* notification is passed over.
PassSettles ==
  \A p \in Passes, n \in Notifications :
    n \in listed[p] \cup current[p] ~> status[n] # "SCHEDULED"
=============================================================================
