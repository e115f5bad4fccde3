------------------------------ MODULE RateLimit ------------------------------
(***************************************************************************)
(* The rate limiting middleware for one key: a counter in Redis that is    *)
(* created by the first request of a window, which then gives it its time  *)
(* to live in a second command.  All limiters of a client count with the   *)
(* same key, each against its own maximum.                                 *)
(***************************************************************************)
EXTENDS Naturals, FiniteSets

CONSTANTS Requests,
          Limiters,
          MaxRequests    \* [Limiters -> Nat]

ASSUME LimitAssumption == MaxRequests \in [Limiters -> Nat \ {0}]

VARIABLES
  count,       \* Nat: the counter, 0 when the key is absent
  expiring,    \* BOOLEAN: the key has a time to live
  request,     \* [Requests -> [pc, limiter, current]]
  stuck        \* history: BOOLEAN: the counter's first request never set its time

limitVars == <<count, expiring, request, stuck>>

RequestState == {"new", "expire", "decide", "let through", "refused", "uncounted"}

LimitInit ==
  /\ count = 0 /\ expiring = FALSE /\ stuck = FALSE
  /\ request \in [Requests -> {[pc |-> "new", limiter |-> l, current |-> 0] : l \in Limiters}]

Moves(r, pc) == request' = [request EXCEPT ![r].pc = pc]

\* A mutant: the time to live is set when the counter is full.
SetsExpiry_WhenFull(r, current) == current = MaxRequests[request[r].limiter]

SetsExpiry(r, current) == current = 1

\* incr
Incr(r) ==
  /\ request[r].pc = "new"
  /\ count' = count + 1
  /\ request' = [request EXCEPT ![r] = [@ EXCEPT !.current = count + 1,
                   !.pc = IF SetsExpiry(r, count + 1) THEN "expire" ELSE "decide"]]
  /\ UNCHANGED <<expiring, stuck>>

ExpireKey(r) ==
  /\ request[r].pc = "expire"
  /\ expiring' = (count > 0)
  /\ Moves(r, "decide")
  /\ UNCHANGED <<count, stuck>>

\* A request over the maximum is refused.
Decide(r) ==
  /\ request[r].pc = "decide"
  /\ IF request[r].current > MaxRequests[request[r].limiter]
     THEN Moves(r, "refused")
     ELSE Moves(r, "let through")
  /\ UNCHANGED <<count, expiring, stuck>>

\* Redis fails: the request is let through.  So does the process, with its request.
RedisError(r) ==
  /\ request[r].pc \in {"new", "expire"}
  /\ stuck' = (stuck \/ request[r].pc = "expire")
  /\ Moves(r, "uncounted")
  /\ UNCHANGED <<count, expiring>>

\* The window is over.
WindowEnds ==
  /\ expiring
  /\ count' = 0 /\ expiring' = FALSE
  /\ UNCHANGED <<request, stuck>>

LimitNext ==
  \/ \E r \in Requests : Incr(r) \/ ExpireKey(r) \/ Decide(r) \/ RedisError(r)
  \/ WindowEnds

LimitSpec == LimitInit /\ [][LimitNext]_limitVars

-----------------------------------------------------------------------------
LimitTypeOK ==
  /\ count \in Nat /\ expiring \in BOOLEAN /\ stuck \in BOOLEAN
  /\ request \in [Requests -> [pc : RequestState, limiter : Limiters, current : Nat]]

\* A client is not shut out for good: a counter that has no time to live is about
\* to get one from the request that created it, unless that request failed, or its
\* process ended, between the two commands.
CounterExpires ==
  count > 0 /\ ~expiring => stuck \/ \E r \in Requests : request[r].pc = "expire"

============================================================================
