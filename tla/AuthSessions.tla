---------------------------- MODULE AuthSessions ----------------------------
(***************************************************************************)
(* Sessions of the authentication engine: requests that interleave at      *)
(* their awaits over a repository that hands out references to its         *)
(* objects.  updateSession puts a copy in an object's place, so that a     *)
(* request may hold an object that is no longer the session; a change of   *)
(* status writes to the object the repository holds then.                  *)
(***************************************************************************)
EXTENDS Naturals, Sequences, SequencesExt

CONSTANTS Calls,         \* requests to the authentication engine
          SessionIds,
          Accounts,      \* the users
          NoSession

ASSUME AuthAssumption == NoSession \notin SessionIds

VARIABLES
  objects,  \* [SessionIds -> Seq(SessionStatus)]: the objects that have stood for
            \* a session, the last one in the repository; empty before it is created
  owner,    \* [SessionIds -> SUBSET Accounts]: the session's userId
  overdue,  \* SUBSET SessionIds: expiresAt is past
  idle,     \* SUBSET SessionIds: lastActiveAt is more than idleTimeout ago
  call      \* [Calls -> Call]

sessionVars == <<objects, owner, overdue, idle, call>>

SessionStatus == {"ACTIVE", "EXPIRED", "REVOKED"}

CallState == {"new", "creating", "fetched", "refresh", "rotated", "touch", "expire",
              "logoutFetched", "revoke", "revokeAll", "listing", "done",
              "refreshed", "loggedOut", "loggedOutAll"}

\* held is the object a request works with; list and listed are of a request for
\* all sessions of a user; late is history: the session had ended at the start.
Call == [pc : CallState, session : SessionIds \cup {NoSession}, held : Nat,
         list : SUBSET (SessionIds \X Nat), listed : SUBSET SessionIds,
         late : BOOLEAN]

Fresh == [pc |-> "new", session |-> NoSession, held |-> 0, list |-> {},
          listed |-> {}, late |-> FALSE]

AuthInit ==
  /\ objects = [s \in SessionIds |-> << >>]
  /\ owner = [s \in SessionIds |-> {}]
  /\ overdue = {}
  /\ idle = {}
  /\ call = [c \in Calls |-> Fresh]

Created == {s \in SessionIds : objects[s] # << >>}
StatusOf(s) == Last(objects[s])

\* isSessionExpired, of the n-th object of session s.
Ended(s, n) == objects[s][n] # "ACTIVE" \/ s \in overdue

Goes(c, pc) == call' = [call EXCEPT ![c].pc = pc]

-----------------------------------------------------------------------------
\* SessionRepository.

\* A mutant: the copy is of the object the request read before its await.
UpdateSession_Stale(c, s) ==
  objects' = [objects EXCEPT ![s] = Append(@, @[call[c].held])]

UpdateSession(c, s) == objects' = [objects EXCEPT ![s] = Append(@, Last(@))]

\* A mutant: the status is written to the object the request has listed.
UpdateSessionStatus_OfListed(s, n, status) ==
  objects' = [objects EXCEPT ![s][n] = status]

UpdateSessionStatus(s, n, status) ==
  objects' = [objects EXCEPT ![s][Len(objects[s])] = status]

-----------------------------------------------------------------------------
\* AuthenticationEngine.authenticate: the user is known, the device registered.
Authenticate(c) ==
  /\ call[c].pc = "new"
  /\ Goes(c, "creating")
  /\ UNCHANGED <<objects, owner, overdue, idle>>

CreateSession(c) ==
  /\ call[c].pc = "creating"
  /\ \E s \in SessionIds \ Created, u \in Accounts :
       /\ objects' = [objects EXCEPT ![s] = <<"ACTIVE">>]
       /\ owner' = [owner EXCEPT ![s] = {u}]
  /\ Goes(c, "done")
  /\ UNCHANGED <<overdue, idle>>

\* getSession of a refresh or a logout: the object is read, then checked.
Fetch(c) ==
  /\ call[c].pc = "new"
  /\ \E s \in Created, pc \in {"fetched", "logoutFetched"} :
       call' = [call EXCEPT ![c] = [Fresh EXCEPT !.pc = pc, !.session = s,
                  !.held = Len(objects[s]), !.late = Ended(s, Len(objects[s]))]]
  /\ UNCHANGED <<objects, owner, overdue, idle>>

\* A mutant: a revoked session is taken for a live one.
FetchedNext_IgnoresRevoked(c, s, n, next) ==
  IF objects[s][n] = "EXPIRED" \/ s \in overdue THEN {"expire"} ELSE next

FetchedNext(c, s, n, next) == IF Ended(s, n) THEN {"expire"} ELSE next

\* A refresh ends too when its token is not valid.
CheckFetched(c) ==
  /\ call[c].pc \in {"fetched", "logoutFetched"}
  /\ \E pc \in FetchedNext(c, call[c].session, call[c].held,
                 IF call[c].pc = "fetched" THEN {"refresh", "done"} ELSE {"revoke"}) :
       Goes(c, pc)
  /\ UNCHANGED <<objects, owner, overdue, idle>>

\* expireSession, whatever the session's status has become.
Expire(c) ==
  /\ call[c].pc = "expire"
  /\ UpdateSessionStatus(call[c].session, call[c].held, "EXPIRED")
  /\ Goes(c, "done")
  /\ UNCHANGED <<owner, overdue, idle>>

\* rotateSessionToken: the session is read once more, for its existence only.
RotateSessionToken(c) ==
  /\ call[c].pc = "refresh"
  /\ UpdateSession(c, call[c].session)
  /\ Goes(c, "rotated")
  /\ UNCHANGED <<owner, overdue, idle>>

\* updateSessionActivity reads the session, checks what it has read, and writes.
UpdateSessionActivity(c) ==
  /\ call[c].pc = "rotated"
  /\ call' = [call EXCEPT ![c].pc = "touch", ![c].held = Len(objects[call[c].session])]
  /\ UNCHANGED <<objects, owner, overdue, idle>>

\* The refresh is answered in either case: the result is not looked at.
Touch(c) ==
  /\ call[c].pc = "touch"
  /\ IF Ended(call[c].session, call[c].held)
       THEN /\ UpdateSessionStatus(call[c].session, call[c].held, "EXPIRED")
            /\ UNCHANGED idle
       ELSE /\ UpdateSession(c, call[c].session)
            /\ idle' = idle \ {call[c].session}
  /\ Goes(c, "refreshed")
  /\ UNCHANGED <<owner, overdue>>

Revoke(c) ==
  /\ call[c].pc = "revoke"
  /\ UpdateSessionStatus(call[c].session, call[c].held, "REVOKED")
  /\ Goes(c, "loggedOut")
  /\ UNCHANGED <<owner, overdue, idle>>

ActiveOf(u) == {s \in Created : owner[s] = {u} /\ StatusOf(s) = "ACTIVE"}

\* getSessionsByUserId, for logoutAllDevices and for getUserSessions.
List(c) ==
  /\ call[c].pc = "new"
  /\ \E u \in Accounts, pc \in {"revokeAll", "listing"} :
       call' = [call EXCEPT ![c] = [Fresh EXCEPT !.pc = pc, !.listed = ActiveOf(u),
                  !.list = {<<s, Len(objects[s])>> : s \in ActiveOf(u)}]]
  /\ UNCHANGED <<objects, owner, overdue, idle>>

\* One session at a time, with an await each; their order makes no difference.
RevokeNext(c) ==
  /\ call[c].pc = "revokeAll"
  /\ \/ \E entry \in call[c].list :
          /\ UpdateSessionStatus(entry[1], entry[2], "REVOKED")
          /\ call' = [call EXCEPT ![c].list = @ \ {entry}]
     \/ call[c].list = {} /\ Goes(c, "loggedOutAll") /\ UNCHANGED objects
  /\ UNCHANGED <<owner, overdue, idle>>

ExpireNext(c) ==
  /\ call[c].pc = "listing"
  /\ \/ \E entry \in call[c].list :
          /\ IF Ended(entry[1], entry[2])
               THEN UpdateSessionStatus(entry[1], entry[2], "EXPIRED")
               ELSE UNCHANGED objects
          /\ call' = [call EXCEPT ![c].list = @ \ {entry}]
     \/ call[c].list = {} /\ Goes(c, "done") /\ UNCHANGED objects
  /\ UNCHANGED <<owner, overdue, idle>>

\* One loop of cleanupExpiredSessions, over what is past its time.
ExpireAll(S) ==
  /\ \E s \in S \cap Created : StatusOf(s) = "ACTIVE"
  /\ objects' = [s \in SessionIds |->
       IF s \in S \cap Created /\ StatusOf(s) = "ACTIVE"
         THEN [objects[s] EXCEPT ![Len(objects[s])] = "EXPIRED"] ELSE objects[s]]
  /\ UNCHANGED <<owner, overdue, idle, call>>

CleanupExpiredSessions == ExpireAll(overdue) \/ ExpireAll(idle)

TimePasses ==
  /\ \E s \in Created :
       \/ overdue' = overdue \cup {s} /\ UNCHANGED idle
       \/ idle' = idle \cup {s} /\ UNCHANGED overdue
  /\ UNCHANGED <<objects, owner, call>>

RefreshStep(c) == \/ CheckFetched(c) \/ Expire(c) \/ RotateSessionToken(c)
                  \/ UpdateSessionActivity(c) \/ Touch(c)
LogoutStep(c) == Revoke(c) \/ RevokeNext(c) \/ ExpireNext(c)

AuthNext ==
  \/ \E c \in Calls : \/ Authenticate(c) \/ CreateSession(c) \/ Fetch(c) \/ List(c)
                      \/ RefreshStep(c) \/ LogoutStep(c)
  \/ CleanupExpiredSessions
  \/ TimePasses

AuthSpec == AuthInit /\ [][AuthNext]_sessionVars

-----------------------------------------------------------------------------
\* Properties.

AuthTypeOK ==
  /\ objects \in [SessionIds -> Seq(SessionStatus)]
  /\ owner \in [SessionIds -> SUBSET Accounts]
  /\ overdue \subseteq SessionIds /\ idle \subseteq SessionIds
  /\ call \in [Calls -> Call]

\* A session that was revoked or has expired never becomes active again, although
\* a refresh that read it before writes a new object afterwards.
EndedStaysEnded ==
  [][\A s \in Created : StatusOf(s) # "ACTIVE" => Last(objects'[s]) # "ACTIVE"]_sessionVars

\* When logoutAllDevices or logout returns, every session that it found active has
\* ended, although refreshes may have replaced the objects it listed.
LogoutReachesAll ==
  \A c \in Calls :
    /\ call[c].pc = "loggedOutAll" => \A s \in call[c].listed : StatusOf(s) # "ACTIVE"
    /\ call[c].pc = "loggedOut" => StatusOf(call[c].session) # "ACTIVE"

\* A refresh that began after its session had ended is not answered with tokens.
RefreshedWasLive == \A c \in Calls : call[c].pc = "refreshed" => ~call[c].late
=============================================================================
