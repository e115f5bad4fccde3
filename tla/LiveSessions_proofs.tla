------------------------- MODULE LiveSessions_proofs -------------------------
(***************************************************************************)
(* What revocation is worth, and what the realtime layer keeps, for any    *)
(* number of sessions, requests, sockets, users, rooms, interactions,      *)
(* streams and voice sessions: ended sessions stay ended, the registries   *)
(* agree, and the pools stay within their bounds.  The last theorems put   *)
(* the parts of a live session together.                                   *)
(***************************************************************************)
EXTENDS LiveSessions, FiniteSetTheorems, SequenceTheorems, TLAPS

-----------------------------------------------------------------------------
\* AuthSessions.

\* A request that works with a session holds one of the objects that stood for it.
Holds(c) ==
  call[c].pc \in {"fetched", "refresh", "rotated", "touch", "expire", "refreshed",
                  "logoutFetched", "revoke", "loggedOut"}
    => /\ call[c].session \in Created
       /\ call[c].held \in 1 .. Len(objects[call[c].session])

Lists(c) ==
  /\ \A entry \in call[c].list : entry[1] \in Created
  /\ call[c].pc \in {"revokeAll", "loggedOutAll"} =>
       \A s \in call[c].listed : /\ s \in Created
                                 /\ StatusOf(s) # "ACTIVE" \/ \E n \in Nat : <<s, n>> \in call[c].list
  /\ call[c].pc = "loggedOutAll" => call[c].list = {}
  /\ call[c].pc = "loggedOut" => StatusOf(call[c].session) # "ACTIVE"

\* A late refresh is still to find out, from the object it holds.
Late(c) ==
  call[c].late => /\ call[c].pc = "fetched" => Ended(call[c].session, call[c].held)
                  /\ call[c].pc \notin {"refresh", "rotated", "touch", "refreshed"}

CallInv(c) == Holds(c) /\ Lists(c) /\ Late(c)

AuthInv == AuthTypeOK /\ \A c \in Calls : CallInv(c)

-----------------------------------------------------------------------------
\* What a step may do to the objects of a session: nothing, put a copy of the last one
\* after them, or end the last one.
Evolves(o, p) ==
  \/ p = o
  \/ p = Append(o, Last(o))
  \/ \E status \in {"EXPIRED", "REVOKED"} : p = [o EXCEPT ![Len(o)] = status]

Keeps(o, p) ==
  /\ p \in Seq(SessionStatus) /\ p # << >>
  /\ Len(o) =< Len(p)
  /\ \A n \in 1 .. Len(o) : o[n] # "ACTIVE" => p[n] # "ACTIVE"
  /\ Last(o) # "ACTIVE" => Last(p) # "ACTIVE"

\* In each case what has ended stays ended.
LEMMA EvolvesKeeps ==
  ASSUME NEW o \in Seq(SessionStatus), o # << >>, NEW p, Evolves(o, p)
  PROVE  Keeps(o, p)
<1>1. Len(o) \in Nat \ {0} /\ o[Len(o)] \in SessionStatus
  OBVIOUS
<1>2. CASE p = o
  BY <1>1, <1>2 DEF Keeps
<1>3. CASE p = Append(o, Last(o))
  <2>1. /\ p \in Seq(SessionStatus) /\ Len(p) = Len(o) + 1 /\ p[Len(p)] = o[Len(o)]
        /\ \A n \in 1 .. Len(o) : p[n] = o[n]
    BY <1>1, <1>3 DEF Last
  <2> QED
    BY <1>1, <2>1 DEF Keeps, Last
<1>4. ASSUME NEW status \in {"EXPIRED", "REVOKED"}, p = [o EXCEPT ![Len(o)] = status]
      PROVE  Keeps(o, p)
  <2>1. /\ p \in Seq(SessionStatus) /\ Len(p) = Len(o) /\ p[Len(o)] = status
        /\ \A n \in 1 .. Len(o) : p[n] = IF n = Len(o) THEN status ELSE o[n]
    BY <1>1, <1>4 DEF SessionStatus
  <2> QED
    BY <1>1, <2>1 DEF Keeps, Last
<1> QED
  BY <1>2, <1>3, <1>4 DEF Evolves

\* What a step that leaves a request alone keeps of it.
ObjectsKept ==
  /\ objects' \in [SessionIds -> Seq(SessionStatus)]
  /\ \A s \in Created : Keeps(objects[s], objects'[s])
  /\ overdue \subseteq overdue'

LEMMA CallUntouched ==
  ASSUME AuthTypeOK, ObjectsKept, NEW c \in Calls, CallInv(c), call'[c] = call[c]
  PROVE  CallInv(c)'
<1>1. \A s \in Created : s \in Created' /\ (StatusOf(s) # "ACTIVE" => StatusOf(s)' # "ACTIVE")
  BY DEF ObjectsKept, Created, Keeps, StatusOf
<1>2. Holds(c)'
  BY <1>1 DEF AuthTypeOK, CallInv, Holds, ObjectsKept, Keeps, Created
<1>3. Lists(c)'
  <2>1. call[c].pc = "loggedOut" => call[c].session \in Created
    BY DEF CallInv, Holds
  <2> QED
    BY <1>1, <2>1 DEF CallInv, Lists
<1>4. Late(c)'
  BY DEF CallInv, Late, Holds, Ended, ObjectsKept, Keeps
<1> QED
  BY <1>2, <1>3, <1>4 DEF CallInv

\* A step that evolves objects.
LEMMA EvolvingKept ==
  ASSUME AuthTypeOK, objects' \in [SessionIds -> Seq(SessionStatus)], overdue \subseteq overdue',
         \A s \in Created : Evolves(objects[s], objects'[s])
  PROVE  ObjectsKept
<1>1. ASSUME NEW s \in Created PROVE Keeps(objects[s], objects'[s])
  BY <1>1, EvolvesKeeps DEF AuthTypeOK, Created
<1> QED
  BY <1>1 DEF ObjectsKept

LEMMA UnchangedKept ==
  ASSUME AuthTypeOK, objects' = objects, overdue \subseteq overdue'
  PROVE  ObjectsKept
BY EvolvingKept DEF AuthTypeOK, Evolves

\* updateSession puts a copy after the object; a change of status writes to the last.
LEMMA UpdateKept ==
  ASSUME AuthTypeOK, NEW c \in Calls, NEW s \in Created, UpdateSession(c, s), overdue' = overdue
  PROVE  ObjectsKept
<1>1. objects[s] \in Seq(SessionStatus) /\ objects[s] # << >>
  BY DEF AuthTypeOK, Created
<1>2. objects' = [objects EXCEPT ![s] = Append(objects[s], Last(objects[s]))]
  BY DEF UpdateSession
<1>3. Append(objects[s], Last(objects[s])) \in Seq(SessionStatus)
  BY <1>1 DEF Last
<1>4. objects' \in [SessionIds -> Seq(SessionStatus)]
  BY <1>2, <1>3 DEF AuthTypeOK
<1>5. \A x \in Created : Evolves(objects[x], objects'[x])
  BY <1>2 DEF AuthTypeOK, Created, Evolves
<1> QED
  BY <1>4, <1>5, EvolvingKept

LEMMA StatusKept ==
  ASSUME AuthTypeOK, NEW s \in Created, NEW n, NEW status \in {"EXPIRED", "REVOKED"},
         UpdateSessionStatus(s, n, status), overdue' = overdue
  PROVE  ObjectsKept /\ StatusOf(s)' # "ACTIVE"
<1> DEFINE o == objects[s]
           p == [o EXCEPT ![Len(o)] = status]
<1>1. o \in Seq(SessionStatus) /\ o # << >> /\ s \in SessionIds
  BY DEF AuthTypeOK, Created
<1>2. objects' = [objects EXCEPT ![s] = p]
  BY DEF UpdateSessionStatus
<1>3. p \in Seq(SessionStatus) /\ Len(p) = Len(o) /\ p[Len(o)] = status
  BY <1>1 DEF SessionStatus
<1>4. objects' \in [SessionIds -> Seq(SessionStatus)]
  BY <1>2, <1>3 DEF AuthTypeOK
<1>5. \A x \in Created : Evolves(objects[x], objects'[x])
  BY <1>1, <1>2 DEF AuthTypeOK, Created, Evolves
<1>6. objects'[s] = p
  BY <1>1, <1>2 DEF AuthTypeOK
<1>7. StatusOf(s)' # "ACTIVE"
  BY <1>3, <1>6 DEF StatusOf, Last
<1> QED
  BY <1>4, <1>5, <1>7, EvolvingKept

-----------------------------------------------------------------------------
\* A step of one request.
LEMMA OneCall ==
  ASSUME AuthInv, ObjectsKept, AuthTypeOK', NEW c \in Calls,
         \A x \in Calls : x # c => call'[x] = call[x], CallInv(c)'
  PROVE  AuthInv'
BY CallUntouched DEF AuthInv

LEMMA CallGoes ==
  ASSUME AuthTypeOK, NEW c \in Calls, NEW p \in CallState, Goes(c, p)
  PROVE  /\ call' \in [Calls -> Call]
         /\ call'[c] = [call[c] EXCEPT !.pc = p]
         /\ call'[c].pc = p /\ call'[c].session = call[c].session /\ call'[c].held = call[c].held
         /\ call'[c].list = call[c].list /\ call'[c].listed = call[c].listed
         /\ call'[c].late = call[c].late
         /\ \A x \in Calls : x # c => call'[x] = call[x]
<1>1. call[c] \in Call
  BY DEF AuthTypeOK
<1>2. [call[c] EXCEPT !.pc = p] \in Call
  BY <1>1 DEF Call
<1>3. call' = [call EXCEPT ![c] = [call[c] EXCEPT !.pc = p]]
  BY <1>1 DEF Goes, AuthTypeOK
<1>4. call' \in [Calls -> Call] /\ call'[c] = [call[c] EXCEPT !.pc = p]
  BY <1>2, <1>3 DEF AuthTypeOK
<1>5. \A x \in Calls : x # c => call'[x] = call[x]
  BY <1>3 DEF AuthTypeOK
<1> QED
  BY <1>1, <1>4, <1>5 DEF Call

WithSession == {"fetched", "refresh", "rotated", "touch", "expire", "refreshed",
                "logoutFetched", "revoke", "loggedOut"}

\* A request that goes on to another await with what it holds.
LEMMA GoingOn ==
  ASSUME AuthInv, ObjectsKept, NEW c \in Calls, NEW p \in CallState, Goes(c, p),
         owner' \in [SessionIds -> SUBSET Accounts],
         overdue' \subseteq SessionIds, idle' \subseteq SessionIds,
         p \notin {"fetched", "revokeAll", "loggedOutAll"},
         p \in WithSession => call[c].pc \in WithSession,
         p \in {"refresh", "rotated", "touch", "refreshed"} => ~call[c].late,
         p = "loggedOut" => Last(objects'[call[c].session]) # "ACTIVE"
  PROVE  AuthInv'
<1>1. AuthTypeOK /\ CallInv(c) /\ call[c] \in Call
  BY DEF AuthInv, AuthTypeOK
<1>2. AuthTypeOK'
  BY <1>1, CallGoes DEF AuthTypeOK, ObjectsKept
<1>3. /\ call'[c].pc = p /\ call'[c].session = call[c].session /\ call'[c].held = call[c].held
      /\ call'[c].list = call[c].list /\ call'[c].late = call[c].late
      /\ \A x \in Calls : x # c => call'[x] = call[x]
  BY <1>1, CallGoes
<1>4. \A s \in Created : s \in Created' /\ Len(objects[s]) =< Len(objects'[s])
  BY DEF ObjectsKept, Keeps, Created
<1>5. Holds(c)'
  <2> SUFFICES ASSUME p \in WithSession
               PROVE  /\ call[c].session \in Created'
                      /\ call[c].held \in 1 .. Len(objects'[call[c].session])
    BY <1>3 DEF Holds, WithSession
  <2>1. call[c].session \in Created /\ call[c].held \in 1 .. Len(objects[call[c].session])
    BY <1>1 DEF CallInv, Holds, WithSession
  <2>2. objects[call[c].session] \in Seq(SessionStatus) /\ objects'[call[c].session] \in Seq(SessionStatus)
    BY <1>1, <2>1 DEF AuthTypeOK, ObjectsKept, Created
  <2> QED
    BY <1>4, <2>1, <2>2
<1>6. Lists(c)'
  BY <1>1, <1>3, <1>4 DEF CallInv, Lists, StatusOf
<1>7. Late(c)'
  BY <1>3 DEF Late
<1> QED
  BY <1>2, <1>3, <1>5, <1>6, <1>7, OneCall DEF CallInv

-----------------------------------------------------------------------------
LEMMA AuthenticateInv ==
  ASSUME AuthInv, NEW c \in Calls, Authenticate(c)
  PROVE  ObjectsKept /\ AuthInv'
<1>1. ObjectsKept
  BY UnchangedKept DEF AuthInv, Authenticate
<1>2. "creating" \in CallState
  BY DEF CallState
<1> QED
  BY <1>1, <1>2, GoingOn DEF AuthInv, AuthTypeOK, Authenticate, WithSession

LEMMA CreateInv ==
  ASSUME AuthInv, NEW c \in Calls, CreateSession(c)
  PROVE  ObjectsKept /\ AuthInv'
<1>1. PICK s \in SessionIds \ Created, u \in Accounts :
        /\ objects' = [objects EXCEPT ![s] = <<"ACTIVE">>]
        /\ owner' = [owner EXCEPT ![s] = {u}]
  BY DEF CreateSession
<1>2. <<"ACTIVE">> \in Seq(SessionStatus)
  BY DEF SessionStatus
<1>3. objects' \in [SessionIds -> Seq(SessionStatus)] /\ owner' \in [SessionIds -> SUBSET Accounts]
  BY <1>1, <1>2 DEF AuthInv, AuthTypeOK
<1>4. \A x \in Created : Evolves(objects[x], objects'[x])
  BY <1>1 DEF AuthInv, AuthTypeOK, Created, Evolves
<1>5. ObjectsKept
  BY <1>3, <1>4, EvolvingKept DEF AuthInv, CreateSession
<1>6. "done" \in CallState
  BY DEF CallState
<1> QED
  BY <1>3, <1>5, <1>6, GoingOn DEF AuthInv, AuthTypeOK, CreateSession, WithSession

LEMMA CheckInv ==
  ASSUME AuthInv, NEW c \in Calls, CheckFetched(c)
  PROVE  ObjectsKept /\ AuthInv'
<1>1. ObjectsKept
  BY UnchangedKept DEF AuthInv, CheckFetched
<1>2. PICK p \in {"expire", "refresh", "done", "revoke"} :
        /\ Goes(c, p)
        /\ Ended(call[c].session, call[c].held) => p = "expire"
        /\ p = "refresh" => call[c].pc = "fetched"
  BY DEF CheckFetched, FetchedNext
<1>3. p \in CallState /\ call[c].pc \in WithSession
  BY DEF CallState, WithSession, CheckFetched
<1>4. p = "refresh" => ~call[c].late
  BY <1>2 DEF AuthInv, CallInv, Late
<1> QED
  BY <1>1, <1>2, <1>3, <1>4, GoingOn DEF AuthInv, AuthTypeOK, CheckFetched, WithSession

\* The writes of a refresh and of a logout.
LEMMA HeldSession ==
  ASSUME AuthInv, NEW c \in Calls, call[c].pc \in WithSession
  PROVE  /\ call[c].session \in Created
         /\ call[c].pc \in {"refresh", "rotated", "touch", "refreshed"} => ~call[c].late
BY DEF AuthInv, CallInv, Holds, Late, WithSession

LEMMA ExpireInv ==
  ASSUME AuthInv, NEW c \in Calls, Expire(c)
  PROVE  ObjectsKept /\ AuthInv'
<1>1. call[c].pc \in WithSession /\ "done" \in CallState /\ "done" \notin WithSession
  BY DEF Expire, WithSession, CallState
<1>2. ObjectsKept
  BY <1>1, HeldSession, StatusKept DEF AuthInv, Expire
<1> QED
  BY <1>1, <1>2, GoingOn DEF AuthInv, AuthTypeOK, Expire

LEMMA RotateInv ==
  ASSUME AuthInv, NEW c \in Calls, RotateSessionToken(c)
  PROVE  ObjectsKept /\ AuthInv'
<1>1. call[c].pc = "refresh" /\ call[c].pc \in WithSession /\ "rotated" \in CallState
  BY DEF RotateSessionToken, WithSession, CallState
<1>2. ObjectsKept
  BY <1>1, HeldSession, UpdateKept DEF AuthInv, RotateSessionToken
<1> QED
  BY <1>1, <1>2, HeldSession, GoingOn DEF AuthInv, AuthTypeOK, RotateSessionToken

LEMMA TouchInv ==
  ASSUME AuthInv, NEW c \in Calls, Touch(c)
  PROVE  ObjectsKept /\ AuthInv'
<1>1. call[c].pc = "touch" /\ call[c].pc \in WithSession /\ "refreshed" \in CallState
  BY DEF Touch, WithSession, CallState
<1>2. ObjectsKept
  BY <1>1, HeldSession, UpdateKept, StatusKept DEF AuthInv, Touch
<1>3. owner' = owner /\ overdue' = overdue /\ idle' \subseteq idle /\ Goes(c, "refreshed")
  BY DEF Touch
<1> QED
  BY <1>1, <1>2, <1>3, HeldSession, GoingOn DEF AuthInv, AuthTypeOK

LEMMA RevokeInv ==
  ASSUME AuthInv, NEW c \in Calls, Revoke(c)
  PROVE  ObjectsKept /\ AuthInv'
<1>1. call[c].pc \in WithSession /\ "loggedOut" \in CallState
  BY DEF Revoke, WithSession, CallState
<1>2. ObjectsKept /\ Last(objects'[call[c].session]) # "ACTIVE"
  <2>1. AuthTypeOK /\ call[c].session \in Created
    BY <1>1, HeldSession DEF AuthInv
  <2>2. UpdateSessionStatus(call[c].session, call[c].held, "REVOKED") /\ overdue' = overdue
    BY DEF Revoke
  <2>3. \A s \in Created : UpdateSessionStatus(s, call[c].held, "REVOKED") =>
          ObjectsKept /\ Last(objects'[s]) # "ACTIVE"
    BY <2>1, <2>2, StatusKept DEF StatusOf
  <2> QED
    BY <2>1, <2>2, <2>3
<1> QED
  BY <1>1, <1>2, GoingOn DEF AuthInv, AuthTypeOK, Revoke

\* A request that reads anew: it takes the object that is the session now.
LEMMA FetchInv ==
  ASSUME AuthInv, NEW c \in Calls, Fetch(c)
  PROVE  ObjectsKept /\ AuthInv'
<1>1. ObjectsKept
  BY UnchangedKept DEF AuthInv, Fetch
<1>2. PICK s \in Created, p \in {"fetched", "logoutFetched"} :
        call' = [call EXCEPT ![c] = [Fresh EXCEPT !.pc = p, !.session = s,
                   !.held = Len(objects[s]), !.late = Ended(s, Len(objects[s]))]]
  BY DEF Fetch
<1> DEFINE k == [Fresh EXCEPT !.pc = p, !.session = s, !.held = Len(objects[s]),
                              !.late = Ended(s, Len(objects[s]))]
<1>3. s \in SessionIds /\ objects[s] \in Seq(SessionStatus) /\ objects[s] # << >>
  BY DEF AuthInv, AuthTypeOK, Created
<1>4. Len(objects[s]) \in Nat \ {0} /\ Ended(s, Len(objects[s])) \in BOOLEAN
  BY <1>3 DEF Ended
<1>5. k \in Call /\ k.pc = p /\ k.session = s /\ k.held = Len(objects[s]) /\ k.list = {}
      /\ k.late = Ended(s, Len(objects[s]))
  BY <1>3, <1>4 DEF Call, Fresh, CallState
<1>6. call' = [call EXCEPT ![c] = k]
  BY <1>2
<1> HIDE DEF k
<1>7. call' \in [Calls -> Call] /\ call'[c] = k /\ \A x \in Calls : x # c => call'[x] = call[x]
  BY <1>5, <1>6 DEF AuthInv, AuthTypeOK
<1>8. UNCHANGED <<objects, owner, overdue, idle>>
  BY DEF Fetch
<1>9. Holds(c)' /\ Lists(c)'
  BY <1>3, <1>4, <1>5, <1>7, <1>8 DEF Holds, Lists, Created
<1>10. Late(c)'
  <2>1. Ended(s, Len(objects[s]))' = Ended(s, Len(objects[s]))
    BY <1>8 DEF Ended
  <2> QED
    BY <1>5, <1>7, <1>8, <2>1 DEF Late
<1> QED
  BY <1>1, <1>7, <1>8, <1>9, <1>10, OneCall DEF AuthInv, AuthTypeOK, CallInv

LEMMA ActivityInv ==
  ASSUME AuthInv, NEW c \in Calls, UpdateSessionActivity(c)
  PROVE  ObjectsKept /\ AuthInv'
<1> DEFINE s == call[c].session
           k == [call[c] EXCEPT !.pc = "touch", !.held = Len(objects[s])]
<1>1. ObjectsKept
  BY UnchangedKept DEF AuthInv, UpdateSessionActivity
<1>2. call[c] \in Call /\ call[c].pc = "rotated" /\ s \in Created /\ ~call[c].late
  BY HeldSession DEF AuthInv, AuthTypeOK, UpdateSessionActivity, WithSession
<1>3. objects[s] \in Seq(SessionStatus) /\ objects[s] # << >>
  BY <1>2 DEF AuthInv, AuthTypeOK, Created
<1>4. Len(objects[s]) \in Nat \ {0}
  BY <1>3
<1>5. /\ k \in Call /\ k.pc = "touch" /\ k.session = s /\ k.held = Len(objects[s])
      /\ k.list = call[c].list /\ k.late = call[c].late
  BY <1>2, <1>4 DEF Call, CallState
<1>6. call' = [call EXCEPT ![c] = k]
  BY <1>2 DEF AuthInv, AuthTypeOK, UpdateSessionActivity
<1> HIDE DEF k
<1>7. call' \in [Calls -> Call] /\ call'[c] = k /\ \A x \in Calls : x # c => call'[x] = call[x]
  BY <1>5, <1>6 DEF AuthInv, AuthTypeOK
<1>8. UNCHANGED <<objects, owner, overdue, idle>>
  BY DEF UpdateSessionActivity
<1>9. Holds(c)' /\ Lists(c)' /\ Late(c)'
  BY <1>2, <1>3, <1>4, <1>5, <1>7, <1>8 DEF Holds, Lists, Late, Created, AuthInv, CallInv
<1> QED
  BY <1>1, <1>7, <1>8, <1>9, OneCall DEF AuthInv, AuthTypeOK, CallInv

-----------------------------------------------------------------------------
\* All sessions of a user.
LEMMA ListInv ==
  ASSUME AuthInv, NEW c \in Calls, List(c)
  PROVE  ObjectsKept /\ AuthInv'
<1>1. ObjectsKept
  BY UnchangedKept DEF AuthInv, List
<1>2. PICK u \in Accounts, p \in {"revokeAll", "listing"} :
        call' = [call EXCEPT ![c] = [Fresh EXCEPT !.pc = p, !.listed = ActiveOf(u),
                   !.list = {<<s, Len(objects[s])>> : s \in ActiveOf(u)}]]
  BY DEF List
<1> DEFINE list == {<<s, Len(objects[s])>> : s \in ActiveOf(u)}
           k == [Fresh EXCEPT !.pc = p, !.listed = ActiveOf(u), !.list = list]
<1>3. /\ ActiveOf(u) \subseteq Created /\ Created \subseteq SessionIds
      /\ \A s \in Created : Len(objects[s]) \in Nat
  BY DEF ActiveOf, Created, AuthInv, AuthTypeOK
<1>4. /\ list \subseteq SessionIds \X Nat
      /\ \A entry \in list : entry[1] \in Created
      /\ \A s \in ActiveOf(u) : \E n \in Nat : <<s, n>> \in list
  BY <1>3
<1>5. call' = [call EXCEPT ![c] = k]
  BY <1>2
<1> HIDE DEF list
<1>6. k \in Call /\ k.pc = p /\ k.listed = ActiveOf(u) /\ k.list = list /\ k.late = FALSE
  BY <1>3, <1>4 DEF Call, Fresh, CallState
<1> HIDE DEF k
<1>7. call' \in [Calls -> Call] /\ call'[c] = k /\ \A x \in Calls : x # c => call'[x] = call[x]
  BY <1>5, <1>6 DEF AuthInv, AuthTypeOK
<1>8. UNCHANGED <<objects, owner, overdue, idle>>
  BY DEF List
<1>9. Holds(c)' /\ Lists(c)' /\ Late(c)'
  BY <1>3, <1>4, <1>6, <1>7, <1>8 DEF Holds, Lists, Late, Created
<1> QED
  BY <1>1, <1>7, <1>8, <1>9, OneCall DEF AuthInv, AuthTypeOK, CallInv

\* One entry of the list is done with, and its session is not active.
LEMMA EntryDone ==
  ASSUME AuthInv, ObjectsKept, NEW c \in Calls, NEW entry \in call[c].list,
         UNCHANGED <<owner, overdue, idle>>,
         call[c].pc \in {"revokeAll", "listing"},
         call[c].pc = "revokeAll" => Last(objects'[entry[1]]) # "ACTIVE",
         call' = [call EXCEPT ![c].list = @ \ {entry}]
  PROVE  AuthInv'
<1> DEFINE k == [call[c] EXCEPT !.list = call[c].list \ {entry}]
<1>1. call[c] \in Call /\ AuthTypeOK
  BY DEF AuthInv, AuthTypeOK
<1>2. /\ k \in Call /\ k.pc = call[c].pc /\ k.list = call[c].list \ {entry}
      /\ k.listed = call[c].listed /\ k.late = call[c].late
  BY <1>1 DEF Call
<1>3. call' = [call EXCEPT ![c] = k]
  BY <1>1 DEF AuthTypeOK
<1> HIDE DEF k
<1>4. call' \in [Calls -> Call] /\ call'[c] = k /\ \A x \in Calls : x # c => call'[x] = call[x]
  BY <1>1, <1>2, <1>3 DEF AuthTypeOK
<1>5. \A s \in Created : s \in Created' /\ (StatusOf(s) # "ACTIVE" => StatusOf(s)' # "ACTIVE")
  BY DEF ObjectsKept, Created, Keeps, StatusOf
<1>6. Lists(c)
  BY DEF AuthInv, CallInv
<1>7. ASSUME NEW s \in call[c].listed, call[c].pc = "revokeAll"
      PROVE  /\ s \in Created'
             /\ StatusOf(s)' # "ACTIVE" \/ \E n \in Nat : <<s, n>> \in call[c].list \ {entry}
  <2>1. s \in Created /\ (StatusOf(s) # "ACTIVE" \/ \E n \in Nat : <<s, n>> \in call[c].list)
    BY <1>6, <1>7 DEF Lists
  <2>2. CASE StatusOf(s) # "ACTIVE"
    BY <1>5, <2>1, <2>2
  <2>3. ASSUME NEW n \in Nat, <<s, n>> \in call[c].list, <<s, n>> = entry PROVE StatusOf(s)' # "ACTIVE"
    BY <1>7, <2>3 DEF StatusOf
  <2> QED
    BY <1>5, <2>1, <2>2, <2>3
<1>8. Lists(c)'
  BY <1>2, <1>4, <1>5, <1>6, <1>7 DEF Lists
<1>9. Holds(c)' /\ Late(c)'
  BY <1>2, <1>4 DEF Holds, Late
<1>10. AuthTypeOK'
  BY <1>1, <1>4 DEF AuthTypeOK, ObjectsKept
<1> QED
  BY <1>4, <1>8, <1>9, <1>10, OneCall DEF CallInv

\* The list is done with.
LEMMA ListDone ==
  ASSUME AuthInv, NEW c \in Calls, NEW p \in {"loggedOutAll", "done"}, Goes(c, p),
         p = "loggedOutAll" => call[c].pc = "revokeAll",
         call[c].list = {}, UNCHANGED <<objects, owner, overdue, idle>>
  PROVE  ObjectsKept /\ AuthInv'
<1>1. ObjectsKept /\ p \in CallState /\ AuthTypeOK
  BY UnchangedKept DEF AuthInv, CallState
<1>2. AuthTypeOK'
  BY <1>1, CallGoes DEF AuthTypeOK
<1>3. Holds(c)' /\ Lists(c)' /\ Late(c)'
  BY <1>1, CallGoes DEF AuthInv, CallInv, Holds, Lists, Late, Created, StatusOf
<1> QED
  BY <1>1, <1>2, <1>3, CallGoes, OneCall DEF CallInv

LEMMA RevokeNextInv ==
  ASSUME AuthInv, NEW c \in Calls, RevokeNext(c)
  PROVE  ObjectsKept /\ AuthInv'
<1>1. ASSUME NEW entry \in call[c].list, UpdateSessionStatus(entry[1], entry[2], "REVOKED"),
             call' = [call EXCEPT ![c].list = @ \ {entry}]
      PROVE  ObjectsKept /\ AuthInv'
  <2>1. entry[1] \in Created /\ AuthTypeOK /\ overdue' = overdue
    BY DEF AuthInv, CallInv, Lists, RevokeNext
  <2>2. ObjectsKept /\ Last(objects'[entry[1]]) # "ACTIVE"
    <3>1. \A s \in Created : UpdateSessionStatus(s, entry[2], "REVOKED") =>
            ObjectsKept /\ Last(objects'[s]) # "ACTIVE"
      BY <2>1, StatusKept DEF StatusOf
    <3> QED
      BY <1>1, <2>1, <3>1
  <2> QED
    BY <1>1, <2>2, EntryDone DEF RevokeNext
<1>2. CASE call[c].list = {} /\ Goes(c, "loggedOutAll") /\ UNCHANGED objects
  BY <1>2, ListDone DEF RevokeNext
<1> QED
  BY <1>1, <1>2 DEF RevokeNext

LEMMA ExpireNextInv ==
  ASSUME AuthInv, NEW c \in Calls, ExpireNext(c)
  PROVE  ObjectsKept /\ AuthInv'
<1>1. ASSUME NEW entry \in call[c].list,
             \/ UpdateSessionStatus(entry[1], entry[2], "EXPIRED")
             \/ UNCHANGED objects,
             call' = [call EXCEPT ![c].list = @ \ {entry}]
      PROVE  ObjectsKept /\ AuthInv'
  <2>1. entry[1] \in Created /\ AuthTypeOK /\ overdue' = overdue
    BY DEF AuthInv, CallInv, Lists, ExpireNext
  <2>2. ObjectsKept
    BY <1>1, <2>1, StatusKept, UnchangedKept
  <2> QED
    BY <1>1, <2>2, EntryDone DEF ExpireNext
<1>2. CASE call[c].list = {} /\ Goes(c, "done") /\ UNCHANGED objects
  BY <1>2, ListDone DEF ExpireNext
<1> QED
  BY <1>1, <1>2 DEF ExpireNext

-----------------------------------------------------------------------------
\* Steps that are of no request.
LEMMA NoCall ==
  ASSUME AuthInv, ObjectsKept, AuthTypeOK', call' = call
  PROVE  AuthInv'
BY CallUntouched DEF AuthInv

LEMMA CleanupInv ==
  ASSUME AuthInv, NEW S \in SUBSET SessionIds, ExpireAll(S)
  PROVE  ObjectsKept /\ AuthInv'
<1>1. AuthTypeOK
  BY DEF AuthInv
<1>2. ASSUME NEW s \in SessionIds
      PROVE  objects'[s] \in Seq(SessionStatus) /\ (s \in Created => Evolves(objects[s], objects'[s]))
  <2>1. objects[s] \in Seq(SessionStatus)
    BY <1>1 DEF AuthTypeOK
  <2>2. CASE s \in S \cap Created /\ StatusOf(s) = "ACTIVE"
    <3>1. objects'[s] = [objects[s] EXCEPT ![Len(objects[s])] = "EXPIRED"]
      BY <2>2 DEF ExpireAll
    <3>2. Evolves(objects[s], objects'[s])
      BY <3>1 DEF Evolves
    <3>3. objects[s] # << >>
      BY <2>2 DEF Created
    <3>4. objects'[s] \in Seq(SessionStatus)
      BY <2>1, <3>2, <3>3, EvolvesKeeps DEF Keeps
    <3> QED
      BY <3>2, <3>4
  <2>3. CASE ~(s \in S \cap Created /\ StatusOf(s) = "ACTIVE")
    <3>1. objects'[s] = objects[s]
      BY <2>3 DEF ExpireAll
    <3> QED
      BY <2>1, <3>1 DEF Evolves
  <2> QED
    BY <2>2, <2>3
<1>3. objects' \in [SessionIds -> Seq(SessionStatus)]
  BY <1>2 DEF ExpireAll
<1>4. ObjectsKept
  BY <1>1, <1>2, <1>3, EvolvingKept DEF ExpireAll, Created
<1> QED
  BY <1>1, <1>3, <1>4, NoCall DEF AuthTypeOK, ExpireAll

LEMMA TimeInv ==
  ASSUME AuthInv, TimePasses
  PROVE  ObjectsKept /\ AuthInv'
<1>1. ObjectsKept
  BY UnchangedKept DEF AuthInv, TimePasses
<1> QED
  BY <1>1, NoCall DEF AuthInv, AuthTypeOK, TimePasses, Created

-----------------------------------------------------------------------------
\* Every step keeps what has ended, and the invariant.
LEMMA AuthStepInv == AuthInv /\ [AuthNext]_sessionVars => ObjectsKept /\ AuthInv'
<1> SUFFICES ASSUME AuthInv, [AuthNext]_sessionVars PROVE ObjectsKept /\ AuthInv'
  OBVIOUS
<1>1. CASE UNCHANGED sessionVars
  <2>1. ObjectsKept
    BY <1>1, UnchangedKept DEF AuthInv, sessionVars
  <2> QED
    BY <1>1, <2>1, NoCall DEF AuthInv, AuthTypeOK, sessionVars
<1>2. ASSUME NEW c \in Calls,
             \/ Authenticate(c) \/ CreateSession(c) \/ Fetch(c) \/ List(c)
             \/ RefreshStep(c) \/ LogoutStep(c)
      PROVE  ObjectsKept /\ AuthInv'
  <2>1. CASE Authenticate(c) \/ CreateSession(c) \/ Fetch(c) \/ List(c)
    BY <2>1, AuthenticateInv, CreateInv, FetchInv, ListInv
  <2>2. CASE RefreshStep(c)
    BY <2>2, CheckInv, ExpireInv, RotateInv, ActivityInv, TouchInv DEF RefreshStep
  <2>3. CASE LogoutStep(c)
    BY <2>3, RevokeInv, RevokeNextInv, ExpireNextInv DEF LogoutStep
  <2> QED
    BY <1>2, <2>1, <2>2, <2>3
<1>3. CASE CleanupExpiredSessions
  BY <1>3, CleanupInv DEF CleanupExpiredSessions, AuthInv, AuthTypeOK
<1>4. CASE TimePasses
  BY <1>4, TimeInv
<1> QED
  BY <1>1, <1>2, <1>3, <1>4 DEF AuthNext

LEMMA AuthInitInv == AuthInit => AuthInv
<1> SUFFICES ASSUME AuthInit PROVE AuthInv
  OBVIOUS
<1>1. Fresh \in Call
  BY DEF Fresh, Call, CallState
<1>2. AuthTypeOK
  BY <1>1 DEF AuthInit, AuthTypeOK
<1>3. \A c \in Calls : CallInv(c)
  BY DEF AuthInit, CallInv, Holds, Lists, Late, Fresh
<1> QED
  BY <1>2, <1>3 DEF AuthInv

LEMMA AuthAlways == AuthSpec => []AuthInv
BY AuthInitInv, AuthStepInv, PTL DEF AuthSpec

\* For any number of sessions, users and overlapping requests: what logout and
\* logoutAllDevices found active has ended when they return (session.manager.ts,
\* session.repository.ts).
THEOREM LogoutCorrect == AuthSpec => []LogoutReachesAll
<1>1. AuthInv => LogoutReachesAll
  BY DEF AuthInv, CallInv, Lists, LogoutReachesAll
<1> QED
  BY <1>1, AuthAlways, PTL

\* A refresh that began after its session had ended is not answered.
THEOREM RefreshCorrect == AuthSpec => []RefreshedWasLive
<1>1. AuthInv => RefreshedWasLive
  BY DEF AuthInv, CallInv, Late, RefreshedWasLive
<1> QED
  BY <1>1, AuthAlways, PTL

\* No step brings a session back that was revoked or has expired.
THEOREM EndedCorrect == AuthSpec => EndedStaysEnded
<1>1. AuthInv /\ [AuthNext]_sessionVars =>
        [\A s \in Created : StatusOf(s) # "ACTIVE" => Last(objects'[s]) # "ACTIVE"]_sessionVars
  BY AuthStepInv DEF ObjectsKept, Keeps, StatusOf
<1> QED
  BY <1>1, AuthAlways, PTL DEF AuthSpec, EndedStaysEnded

-----------------------------------------------------------------------------
\* RealtimeGateway.  The registries agree because a socket that is new is nowhere
\* registered, and a live one is registered as its handshake says.

LiveIsRegistered ==
  \A k \in Sockets :
    /\ wire[k] = "new" => connections[k].user = Nobody
    /\ wire[k] = "up" => connections[k] = handshake[k] /\ handshake[k].user \in People

PresentIsConnected ==
  \A u \in People : presence[u] \notin {"none", "OFFLINE"} => userConnections[u] # {}

ConnectionsAgree ==
  /\ heartbeats = Registered
  /\ \A u \in People : userConnections[u] = {k \in Registered : connections[k].user = u}
  /\ \A s \in Sessions :
       sessionConnections[s] = {k \in Registered : connections[k].session = s}

TypingAgrees ==
  \A r \in Chats : roomTyping[r] = {u \in People : <<u, r>> \in typingSessions}

InteractionsAgree ==
  \A i \in Interactions :
    /\ interactions[i].messages = interactions[i].userTurns + interactions[i].companionTurns
    /\ \A u \in People : i \in userInteractions[u] <=>
         interactions[i].status # "none" /\ interactions[i].owner.user = u
    /\ \A s \in Sessions : i \in sessionInteractions[s] <=>
         interactions[i].status # "none" /\ interactions[i].owner.session = s

\* The type invariant in the three parts that the steps of the gateway touch.
ConnectionTypes ==
  /\ wire \in [Sockets -> {"new", "up", "down"}]
  /\ connections \in [Sockets -> Payload] /\ handshake \in [Sockets -> Payload]
  /\ userConnections \in [People -> SUBSET Sockets]
  /\ sessionConnections \in [Sessions -> SUBSET Sockets]
  /\ heartbeats \subseteq Sockets
  /\ presence \in [People -> Presence]

TypingTypes ==
  /\ typingSessions \subseteq People \X Chats /\ expiredTyping \subseteq typingSessions
  /\ roomTyping \in [Chats -> SUBSET People]

InteractionTypes ==
  /\ interactions \in [Interactions -> Interaction]
  /\ userInteractions \in [People -> SUBSET Interactions]
  /\ sessionInteractions \in [Sessions -> SUBSET Interactions]

LEMMA GatewayTypeParts == GatewayTypeOK <=> ConnectionTypes /\ TypingTypes /\ InteractionTypes
BY DEF GatewayTypeOK, ConnectionTypes, TypingTypes, InteractionTypes

ConnectionInv == ConnectionTypes /\ LiveIsRegistered /\ PresentIsConnected /\ ConnectionsAgree
TypingInv == TypingTypes /\ TypingAgrees
InteractionInv == InteractionTypes /\ InteractionsAgree

GatewayInv == ConnectionInv /\ TypingInv /\ InteractionInv

\* What a step does not touch stays as it is.
LEMMA ConnectionsKept ==
  ConnectionInv /\ UNCHANGED <<connectionVars, presence>> => ConnectionInv'
BY DEF ConnectionInv, connectionVars, ConnectionTypes, LiveIsRegistered, PresentIsConnected,
       ConnectionsAgree, Registered

LEMMA TypingKept == TypingInv /\ UNCHANGED typingVars => TypingInv'
BY DEF TypingInv, typingVars, TypingTypes, TypingAgrees

LEMMA InteractionsKept == InteractionInv /\ UNCHANGED interactionVars => InteractionInv'
BY DEF InteractionInv, interactionVars, InteractionTypes, InteractionsAgree

LEMMA NoConnectionType == NoConnection \in Payload /\ NoConnection.user = Nobody
BY GatewayConstants DEF NoConnection, Payload

LEMMA GatewayInitInv == GatewayInit => GatewayInv
<1> SUFFICES ASSUME GatewayInit PROVE GatewayInv
  OBVIOUS
<1> USE NoConnectionType
<1>1. Registered = {}
  BY DEF GatewayInit, Registered
<1>2. ConnectionInv
  BY <1>1 DEF GatewayInit, ConnectionInv, ConnectionTypes, LiveIsRegistered, PresentIsConnected,
              ConnectionsAgree, Presence
<1>3. TypingInv
  BY DEF GatewayInit, TypingInv, TypingTypes, TypingAgrees
<1>4. NoInteraction \in Interaction /\ NoInteraction.status = "none"
      /\ NoInteraction.messages = NoInteraction.userTurns + NoInteraction.companionTurns
  BY DEF NoInteraction, Interaction, InteractionStatus
<1>5. InteractionInv
  BY <1>4 DEF GatewayInit, InteractionInv, InteractionTypes, InteractionsAgree
<1> QED
  BY <1>2, <1>3, <1>5 DEF GatewayInv

-----------------------------------------------------------------------------
\* Sockets that come and go.

LEMMA ConnectionStepInv ==
  ASSUME ConnectionInv, NEW k \in Sockets, Connection(k)
  PROVE  ConnectionInv'
<1>1. PICK who \in [user : People, session : Sessions] :
        /\ handshake' = [handshake EXCEPT ![k] = who]
        /\ connections' = [connections EXCEPT ![k] = who]
        /\ userConnections' = [userConnections EXCEPT ![who.user] = @ \cup {k}]
        /\ sessionConnections' = [sessionConnections EXCEPT ![who.session] = @ \cup {k}]
        /\ presence' = [presence EXCEPT ![who.user] = "ONLINE"]
  BY DEF Connection
<1>2. /\ wire[k] = "new" /\ wire' = [wire EXCEPT ![k] = "up"]
      /\ heartbeats' = heartbeats \cup {k}
  BY DEF Connection
<1>3. who \in Payload /\ who.user \in People /\ who.session \in Sessions /\ who.user # Nobody
  BY GatewayConstants DEF Payload
<1>4. ConnectionTypes
  BY DEF ConnectionInv
<1>5. connections[k].user = Nobody
  BY <1>2 DEF ConnectionInv, LiveIsRegistered
<1>6. /\ connections'[k] = who
      /\ \A j \in Sockets : j # k => connections'[j] = connections[j]
  BY <1>1, <1>4 DEF ConnectionTypes
<1>7. Registered' = Registered \cup {k} /\ k \notin Registered
  BY <1>3, <1>5, <1>6 DEF Registered
<1>8. ConnectionTypes'
  BY <1>1, <1>2, <1>3, <1>4 DEF ConnectionTypes, Presence
<1>9. LiveIsRegistered'
  BY <1>1, <1>2, <1>3, <1>4, <1>6 DEF ConnectionInv, LiveIsRegistered, ConnectionTypes
<1>10. /\ \A u \in People : userConnections'[u] =
            IF u = who.user THEN userConnections[u] \cup {k} ELSE userConnections[u]
       /\ \A s \in Sessions : sessionConnections'[s] =
            IF s = who.session THEN sessionConnections[s] \cup {k} ELSE sessionConnections[s]
       /\ \A u \in People : presence'[u] = IF u = who.user THEN "ONLINE" ELSE presence[u]
  BY <1>1, <1>3, <1>4 DEF ConnectionTypes
<1>11. PresentIsConnected'
  BY <1>10 DEF ConnectionInv, PresentIsConnected
<1>12. ConnectionsAgree'
  <2>1. heartbeats' = Registered'
    BY <1>2, <1>7 DEF ConnectionInv, ConnectionsAgree
  <2>2. ASSUME NEW u \in People
        PROVE  userConnections'[u] = {j \in Registered' : connections'[j].user = u}
    <3>1. userConnections[u] = {j \in Registered : connections[j].user = u}
      BY DEF ConnectionInv, ConnectionsAgree
    <3>2. \A j \in Registered' : connections'[j].user = u <=>
            (j = k /\ u = who.user) \/ (j \in Registered /\ connections[j].user = u)
      BY <1>6, <1>7 DEF Registered
    <3>3. \A j \in Sockets : j \in userConnections'[u] <=>
            (j = k /\ u = who.user) \/ j \in userConnections[u]
      <4>1. CASE u = who.user
        <5>1. userConnections'[u] = userConnections[u] \cup {k}
          BY <1>10, <4>1
        <5> QED
          BY <4>1, <5>1
      <4>2. CASE u # who.user
        BY <1>10, <4>2
      <4> QED
        BY <4>1, <4>2
    <3>4. userConnections'[u] \subseteq Sockets /\ Registered' \subseteq Sockets
      BY <1>8 DEF ConnectionTypes, Registered
    <3> QED
      BY <1>7, <3>1, <3>2, <3>3, <3>4
  <2>3. ASSUME NEW s \in Sessions
        PROVE  sessionConnections'[s] = {j \in Registered' : connections'[j].session = s}
    <3>1. sessionConnections[s] = {j \in Registered : connections[j].session = s}
      BY DEF ConnectionInv, ConnectionsAgree
    <3>2. \A j \in Registered' : connections'[j].session = s <=>
            (j = k /\ s = who.session) \/ (j \in Registered /\ connections[j].session = s)
      BY <1>6, <1>7 DEF Registered
    <3>3. \A j \in Sockets : j \in sessionConnections'[s] <=>
            (j = k /\ s = who.session) \/ j \in sessionConnections[s]
      <4>1. CASE s = who.session
        <5>1. sessionConnections'[s] = sessionConnections[s] \cup {k}
          BY <1>10, <4>1
        <5> QED
          BY <4>1, <5>1
      <4>2. CASE s # who.session
        BY <1>10, <4>2
      <4> QED
        BY <4>1, <4>2
    <3>4. sessionConnections'[s] \subseteq Sockets /\ Registered' \subseteq Sockets
      BY <1>8 DEF ConnectionTypes, Registered
    <3> QED
      BY <1>7, <3>1, <3>2, <3>3, <3>4
  <2> QED
    BY <2>1, <2>2, <2>3 DEF ConnectionsAgree
<1> QED
  BY <1>8, <1>9, <1>11, <1>12 DEF ConnectionInv

LEMMA SocketDownInv ==
  ASSUME ConnectionInv, NEW k \in Sockets, SocketDown(k)
  PROVE  ConnectionInv'
<1>1. /\ wire' = [wire EXCEPT ![k] = "down"]
      /\ UNCHANGED <<connections, handshake, userConnections, sessionConnections, heartbeats,
                     presence>>
  BY DEF SocketDown
<1>2. ConnectionTypes' /\ LiveIsRegistered'
  BY <1>1 DEF ConnectionInv, ConnectionTypes, LiveIsRegistered
<1>3. PresentIsConnected' /\ ConnectionsAgree'
  BY <1>1 DEF ConnectionInv, PresentIsConnected, ConnectionsAgree, Registered
<1> QED
  BY <1>2, <1>3 DEF ConnectionInv

LEMMA DisconnectionInv ==
  ASSUME ConnectionInv, NEW k \in Sockets, Disconnection(k)
  PROVE  ConnectionInv'
<1> DEFINE u0 == connections[k].user
           s0 == connections[k].session
<1>1. /\ wire[k] = "down" /\ k \in Registered /\ wire' = wire /\ handshake' = handshake
      /\ heartbeats' = heartbeats \ {k}
      /\ connections' = [connections EXCEPT ![k] = NoConnection]
      /\ userConnections' = [userConnections EXCEPT ![u0] = @ \ {k}]
      /\ sessionConnections' = [sessionConnections EXCEPT ![s0] = @ \ {k}]
      /\ presence' = [presence EXCEPT ![u0] = "OFFLINE"]
  BY DEF Disconnection, RemoveConnection, SetUserOffline
<1>2. ConnectionTypes
  BY DEF ConnectionInv
<1>3. connections[k] \in Payload /\ u0 # Nobody
  BY <1>1, <1>2 DEF ConnectionTypes, Registered
<1>4. u0 \in People /\ s0 \in Sessions
  BY <1>3 DEF Payload
<1>5. /\ connections'[k].user = Nobody
      /\ \A j \in Sockets : j # k => connections'[j] = connections[j]
  BY <1>1, <1>2, NoConnectionType DEF ConnectionTypes
<1>6. Registered' = Registered \ {k}
  BY <1>1, <1>5 DEF Registered
<1>7. ConnectionTypes'
  BY <1>1, <1>2, <1>4, NoConnectionType DEF ConnectionTypes, Presence
<1>8. LiveIsRegistered'
  BY <1>1, <1>5 DEF ConnectionInv, LiveIsRegistered
<1>9. /\ \A u \in People : userConnections'[u] =
           IF u = u0 THEN userConnections[u] \ {k} ELSE userConnections[u]
      /\ \A s \in Sessions : sessionConnections'[s] =
           IF s = s0 THEN sessionConnections[s] \ {k} ELSE sessionConnections[s]
      /\ \A u \in People : presence'[u] = IF u = u0 THEN "OFFLINE" ELSE presence[u]
  BY <1>1, <1>2, <1>4 DEF ConnectionTypes
<1>10. PresentIsConnected'
  BY <1>9 DEF ConnectionInv, PresentIsConnected
<1>11. ConnectionsAgree'
  <2>1. heartbeats' = Registered'
    BY <1>1, <1>6 DEF ConnectionInv, ConnectionsAgree
  <2>2. ASSUME NEW u \in People
        PROVE  userConnections'[u] = {j \in Registered' : connections'[j].user = u}
    <3>1. userConnections[u] = {j \in Registered : connections[j].user = u}
      BY DEF ConnectionInv, ConnectionsAgree
    <3>2. \A j \in Registered' : connections'[j].user = connections[j].user /\ j # k
      BY <1>5, <1>6 DEF Registered
    <3>3. userConnections'[u] = userConnections[u] \ {k}
      <4>1. CASE u = u0
        BY <1>9, <4>1
      <4>2. CASE u # u0
        <5>1. k \notin userConnections[u]
          BY <3>1, <4>2
        <5> QED
          BY <1>9, <4>2, <5>1
      <4> QED
        BY <4>1, <4>2
    <3> QED
      BY <1>6, <3>1, <3>2, <3>3
  <2>3. ASSUME NEW s \in Sessions
        PROVE  sessionConnections'[s] = {j \in Registered' : connections'[j].session = s}
    <3>1. sessionConnections[s] = {j \in Registered : connections[j].session = s}
      BY DEF ConnectionInv, ConnectionsAgree
    <3>2. \A j \in Registered' : connections'[j].session = connections[j].session /\ j # k
      BY <1>5, <1>6 DEF Registered
    <3>3. sessionConnections'[s] = sessionConnections[s] \ {k}
      <4>1. CASE s = s0
        BY <1>9, <4>1
      <4>2. CASE s # s0
        <5>1. k \notin sessionConnections[s]
          BY <3>1, <4>2
        <5> QED
          BY <1>9, <4>2, <5>1
      <4> QED
        BY <4>1, <4>2
    <3> QED
      BY <1>6, <3>1, <3>2, <3>3
  <2> QED
    BY <2>1, <2>2, <2>3 DEF ConnectionsAgree
<1> QED
  BY <1>7, <1>8, <1>10, <1>11 DEF ConnectionInv

\* A live socket is registered under its user, who may therefore be shown as present.
LEMMA PresenceUpdateInv ==
  ASSUME ConnectionInv, NEW k \in Sockets, PresenceUpdate(k)
  PROVE  ConnectionInv'
<1>1. PICK status \in Presence \ {"none"} :
        presence' = [presence EXCEPT ![handshake[k].user] = status]
  BY DEF PresenceUpdate
<1>2. wire[k] = "up" /\ UNCHANGED connectionVars
  BY DEF PresenceUpdate
<1>3. connections[k].user \in People /\ connections[k] = handshake[k]
  BY <1>2 DEF ConnectionInv, LiveIsRegistered
<1>4. k \in userConnections[handshake[k].user]
  BY <1>3, GatewayConstants DEF ConnectionInv, ConnectionsAgree, Registered
<1>5. ConnectionTypes' /\ LiveIsRegistered'
  BY <1>1, <1>2, <1>3 DEF ConnectionInv, ConnectionTypes, LiveIsRegistered, connectionVars
<1>6. PresentIsConnected'
  BY <1>1, <1>2, <1>3, <1>4
     DEF ConnectionInv, PresentIsConnected, ConnectionTypes, connectionVars
<1>7. ConnectionsAgree'
  BY <1>2 DEF ConnectionInv, ConnectionsAgree, Registered, connectionVars
<1> QED
  BY <1>5, <1>6, <1>7 DEF ConnectionInv

-----------------------------------------------------------------------------
\* Typing.

LEMMA TypingStartInv ==
  ASSUME ConnectionInv, TypingInv, NEW k \in Sockets, TypingStart(k)
  PROVE  TypingInv'
<1> DEFINE u == handshake[k].user
<1>1. PICK r \in Chats :
        /\ typingSessions' = typingSessions \cup {<<u, r>>}
        /\ expiredTyping' = expiredTyping \ {<<u, r>>}
        /\ roomTyping' = [roomTyping EXCEPT ![r] = @ \cup {u}]
  BY DEF TypingStart
<1>2. u \in People
  BY DEF TypingStart, ConnectionInv, LiveIsRegistered
<1> HIDE DEF u
<1> QED
  BY <1>1, <1>2 DEF TypingInv, TypingTypes, TypingAgrees

LEMMA TypingStopInv ==
  ASSUME ConnectionInv, TypingInv, NEW k \in Sockets, TypingStop(k)
  PROVE  TypingInv'
<1> DEFINE u == handshake[k].user
<1>1. PICK r \in Chats :
        /\ typingSessions' = typingSessions \ {<<u, r>>}
        /\ expiredTyping' = expiredTyping \ {<<u, r>>}
        /\ roomTyping' = [roomTyping EXCEPT ![r] = @ \ {u}]
  BY DEF TypingStop
<1>2. u \in People
  BY DEF TypingStop, ConnectionInv, LiveIsRegistered
<1> HIDE DEF u
<1> QED
  BY <1>1, <1>2 DEF TypingInv, TypingTypes, TypingAgrees

LEMMA TypingExpiresInv == TypingInv /\ TypingExpires => TypingInv'
BY DEF TypingExpires, TypingInv, TypingTypes, TypingAgrees

\* shutdown() leaves the rooms with who has not stopped typing, and no live socket.
LEMMA ShutdownInv ==
  ASSUME ConnectionInv, TypingInv, Shutdown
  PROVE  ConnectionInv' /\ TypingInv'
<1>1. TypingInv'
  BY DEF Shutdown, CleanupExpiredTyping, TypingInv, TypingTypes, TypingAgrees
<1>2. /\ wire' = [k \in Sockets |-> "down"]
      /\ UNCHANGED <<connections, handshake, userConnections, sessionConnections, heartbeats,
                     presence>>
  BY DEF Shutdown
<1>3. ConnectionTypes' /\ LiveIsRegistered'
  BY <1>2 DEF ConnectionInv, ConnectionTypes, LiveIsRegistered
<1>4. PresentIsConnected' /\ ConnectionsAgree'
  BY <1>2 DEF ConnectionInv, PresentIsConnected, ConnectionsAgree, Registered
<1> QED
  BY <1>1, <1>3, <1>4 DEF ConnectionInv

-----------------------------------------------------------------------------
\* Interactions.

LEMMA InteractionStartInv ==
  ASSUME ConnectionInv, InteractionInv, NEW k \in Sockets, InteractionStart(k)
  PROVE  InteractionInv'
<1> DEFINE who == handshake[k]
           it == [NoInteraction EXCEPT !.status = "STARTING", !.owner = who]
<1>1. PICK i \in Interactions :
        /\ interactions[i].status = "none"
        /\ interactions' = [interactions EXCEPT ![i] = it]
        /\ userInteractions' = [userInteractions EXCEPT ![who.user] = @ \cup {i}]
        /\ sessionInteractions' = [sessionInteractions EXCEPT ![who.session] = @ \cup {i}]
  BY DEF InteractionStart
<1>2. who \in Payload /\ who.user \in People /\ who.session \in Sessions
  BY DEF InteractionStart, ConnectionInv, ConnectionTypes, LiveIsRegistered, Payload
<1>3. /\ it \in Interaction /\ it.status = "STARTING" /\ it.owner = who
      /\ it.messages = it.userTurns + it.companionTurns
  <2> HIDE DEF who
  <2> DEFINE none == NoInteraction
  <2>1. none \in Interaction /\ none.messages = none.userTurns + none.companionTurns
    BY NoConnectionType DEF NoInteraction, Interaction, InteractionStatus
  <2>2. it = [none EXCEPT !.status = "STARTING", !.owner = who]
    OBVIOUS
  <2> HIDE DEF none, it
  <2>3. it \in Interaction
    BY <1>2, <2>1, <2>2 DEF Interaction, InteractionStatus
  <2>4. /\ it.status = "STARTING" /\ it.owner = who /\ it.messages = none.messages
        /\ it.userTurns = none.userTurns /\ it.companionTurns = none.companionTurns
    BY <2>1, <2>2 DEF Interaction
  <2> QED
    BY <2>1, <2>3, <2>4
<1> HIDE DEF it, who
<1>4. InteractionTypes'
  BY <1>1, <1>2, <1>3 DEF InteractionInv, InteractionTypes
<1>5. /\ interactions'[i] = it
      /\ \A j \in Interactions : j # i => interactions'[j] = interactions[j]
      /\ \A u \in People : userInteractions'[u] =
           IF u = who.user THEN userInteractions[u] \cup {i} ELSE userInteractions[u]
      /\ \A s \in Sessions : sessionInteractions'[s] =
           IF s = who.session THEN sessionInteractions[s] \cup {i} ELSE sessionInteractions[s]
  BY <1>1, <1>2 DEF InteractionInv, InteractionTypes
<1>6. ASSUME NEW j \in Interactions
      PROVE  /\ interactions'[j].messages
                  = interactions'[j].userTurns + interactions'[j].companionTurns
             /\ \A u \in People : j \in userInteractions'[u] <=>
                  interactions'[j].status # "none" /\ interactions'[j].owner.user = u
             /\ \A s \in Sessions : j \in sessionInteractions'[s] <=>
                  interactions'[j].status # "none" /\ interactions'[j].owner.session = s
  <2>1. /\ interactions[j].messages = interactions[j].userTurns + interactions[j].companionTurns
        /\ \A u \in People : j \in userInteractions[u] <=>
             interactions[j].status # "none" /\ interactions[j].owner.user = u
        /\ \A s \in Sessions : j \in sessionInteractions[s] <=>
             interactions[j].status # "none" /\ interactions[j].owner.session = s
    BY DEF InteractionInv, InteractionsAgree
  <2>2. CASE j = i
    BY <1>1, <1>3, <1>5, <2>1, <2>2
  <2>3. CASE j # i
    <3>1. interactions'[j] = interactions[j]
      BY <1>5, <2>3
    <3>2. \A u \in People : j \in userInteractions'[u] <=> j \in userInteractions[u]
      BY <1>5, <2>3
    <3>3. \A s \in Sessions : j \in sessionInteractions'[s] <=> j \in sessionInteractions[s]
      BY <1>5, <2>3
    <3> QED
      BY <2>1, <3>1, <3>2, <3>3
  <2> QED
    BY <2>2, <2>3
<1>7. InteractionsAgree'
  BY <1>6 DEF InteractionsAgree
<1> QED
  BY <1>4, <1>7 DEF InteractionInv

\* A message or a stop changes neither whose the interaction is nor that it exists.
LEMMA SameOwnerInv ==
  ASSUME InteractionInv, NEW i \in Interactions, NEW it \in Interaction,
         interactions' = [interactions EXCEPT ![i] = it],
         interactions[i].status # "none", it.status # "none", it.owner = interactions[i].owner,
         it.messages = it.userTurns + it.companionTurns,
         UNCHANGED <<userInteractions, sessionInteractions>>
  PROVE  InteractionInv'
<1>1. InteractionTypes'
  BY DEF InteractionInv, InteractionTypes
<1>2. InteractionsAgree'
  BY DEF InteractionInv, InteractionTypes, InteractionsAgree
<1> QED
  BY <1>1, <1>2 DEF InteractionInv

LEMMA TurnIsCounted ==
  ASSUME NEW it \in Interaction, NEW byUser \in BOOLEAN,
         it.messages = it.userTurns + it.companionTurns
  PROVE  LET new == Turn(it, byUser) IN
         /\ new \in Interaction /\ new.status = it.status /\ new.owner = it.owner
         /\ new.messages = new.userTurns + new.companionTurns
<1> DEFINE new == Turn(it, byUser)
<1>1. it.messages \in Nat /\ it.userTurns \in Nat /\ it.companionTurns \in Nat
  BY DEF Interaction
<1>2. CASE byUser
  <2>1. new = [it EXCEPT !.messages = it.messages + 1, !.userTurns = it.userTurns + 1]
    BY <1>2 DEF Turn
  <2> HIDE DEF new
  <2>2. new \in Interaction
    <3> DEFINE one == [it EXCEPT !.messages = it.messages + 1]
    <3>1. one \in Interaction
      BY <1>1 DEF Interaction
    <3>2. new = [one EXCEPT !.userTurns = it.userTurns + 1]
      BY <2>1
    <3> HIDE DEF one
    <3> QED
      BY <1>1, <3>1, <3>2 DEF Interaction
  <2>3. /\ new.messages = it.messages + 1 /\ new.userTurns = it.userTurns + 1
        /\ new.companionTurns = it.companionTurns
        /\ new.status = it.status /\ new.owner = it.owner
    BY <2>1 DEF Interaction
  <2> QED
    BY <1>1, <2>2, <2>3 DEF new
<1>3. CASE ~byUser
  <2>1. new = [it EXCEPT !.messages = it.messages + 1,
                         !.companionTurns = it.companionTurns + 1]
    BY <1>3 DEF Turn
  <2> HIDE DEF new
  <2>2. new \in Interaction
    <3> DEFINE one == [it EXCEPT !.messages = it.messages + 1]
    <3>1. one \in Interaction
      BY <1>1 DEF Interaction
    <3>2. new = [one EXCEPT !.companionTurns = it.companionTurns + 1]
      BY <2>1
    <3> HIDE DEF one
    <3> QED
      BY <1>1, <3>1, <3>2 DEF Interaction
  <2>3. /\ new.messages = it.messages + 1 /\ new.userTurns = it.userTurns
        /\ new.companionTurns = it.companionTurns + 1
        /\ new.status = it.status /\ new.owner = it.owner
    BY <2>1 DEF Interaction
  <2> QED
    BY <1>1, <2>2, <2>3 DEF new
<1> QED
  BY <1>2, <1>3

LEMMA InteractionMessageInv ==
  ASSUME InteractionInv, NEW k \in Sockets, InteractionMessage(k)
  PROVE  InteractionInv'
<1>1. PICK i \in Interactions, byUser \in BOOLEAN :
        /\ interactions[i].status # "none"
        /\ interactions' = [interactions EXCEPT ![i] = Turn(interactions[i], byUser)]
  BY DEF InteractionMessage
<1> DEFINE old == interactions[i]
           it == Turn(old, byUser)
<1>2. old \in Interaction /\ old.messages = old.userTurns + old.companionTurns
  BY DEF InteractionInv, InteractionTypes, InteractionsAgree
<1>3. /\ it \in Interaction /\ it.status = old.status /\ it.owner = old.owner
      /\ it.messages = it.userTurns + it.companionTurns
  BY <1>2, TurnIsCounted
<1> QED
  BY <1>1, <1>3, SameOwnerInv DEF InteractionMessage

LEMMA InteractionStopInv ==
  ASSUME InteractionInv, NEW k \in Sockets, InteractionStop(k)
  PROVE  InteractionInv'
<1>1. PICK i \in Interactions :
        /\ interactions[i].status # "none"
        /\ interactions' = [interactions EXCEPT ![i].status = "STOPPED"]
  BY DEF InteractionStop
<1> DEFINE old == interactions[i]
           it == [old EXCEPT !.status = "STOPPED"]
<1>2. /\ old \in Interaction /\ old.messages = old.userTurns + old.companionTurns
  BY DEF InteractionInv, InteractionTypes, InteractionsAgree
<1>3. /\ it \in Interaction /\ it.status = "STOPPED" /\ it.owner = old.owner
      /\ it.messages = it.userTurns + it.companionTurns
  BY <1>2 DEF Interaction, InteractionStatus
<1>4. interactions' = [interactions EXCEPT ![i] = it]
  BY <1>1
<1> HIDE DEF it
<1> QED
  BY <1>1, <1>3, <1>4, SameOwnerInv DEF InteractionStop

-----------------------------------------------------------------------------
LEMMA GatewayStepInv == GatewayInv /\ [GatewayNext]_gatewayVars => GatewayInv'
<1> SUFFICES ASSUME ConnectionInv, TypingInv, InteractionInv, [GatewayNext]_gatewayVars
             PROVE  ConnectionInv' /\ TypingInv' /\ InteractionInv'
  BY DEF GatewayInv
<1>1. ASSUME NEW k \in Sockets, Connection(k) \/ SocketDown(k) \/ Disconnection(k)
      PROVE  ConnectionInv' /\ TypingInv' /\ InteractionInv'
  <2>1. UNCHANGED <<typingVars, interactionVars>>
    BY <1>1 DEF Connection, SocketDown, Disconnection
  <2> QED
    BY <1>1, <2>1, ConnectionStepInv, SocketDownInv, DisconnectionInv, TypingKept,
       InteractionsKept
<1>2. ASSUME NEW k \in Sockets, PresenceUpdate(k)
      PROVE  ConnectionInv' /\ TypingInv' /\ InteractionInv'
  BY <1>2, PresenceUpdateInv, TypingKept, InteractionsKept DEF PresenceUpdate
<1>3. ASSUME NEW k \in Sockets, TypingStart(k) \/ TypingStop(k)
      PROVE  ConnectionInv' /\ TypingInv' /\ InteractionInv'
  <2>1. UNCHANGED <<connectionVars, presence>> /\ UNCHANGED interactionVars
    BY <1>3 DEF TypingStart, TypingStop
  <2> QED
    BY <1>3, <2>1, TypingStartInv, TypingStopInv, ConnectionsKept, InteractionsKept
<1>4. ASSUME NEW k \in Sockets,
             InteractionStart(k) \/ InteractionMessage(k) \/ InteractionStop(k)
      PROVE  ConnectionInv' /\ TypingInv' /\ InteractionInv'
  <2>1. UNCHANGED <<connectionVars, presence>> /\ UNCHANGED typingVars
    BY <1>4 DEF InteractionStart, InteractionMessage, InteractionStop
  <2> QED
    BY <1>4, <2>1, InteractionStartInv, InteractionMessageInv, InteractionStopInv,
       ConnectionsKept, TypingKept
<1>5. CASE TypingExpires
  BY <1>5, TypingExpiresInv, ConnectionsKept, InteractionsKept DEF TypingExpires
<1>6. CASE Shutdown
  BY <1>6, ShutdownInv, InteractionsKept DEF Shutdown
<1>7. CASE UNCHANGED gatewayVars
  BY <1>7, ConnectionsKept, TypingKept, InteractionsKept DEF gatewayVars
<1> QED
  BY <1>1, <1>2, <1>3, <1>4, <1>5, <1>6, <1>7 DEF GatewayNext, SocketStep

LEMMA GatewayInvImplies ==
  GatewayInv => GatewayTypeOK /\ GatewayRegistriesAgree
<1> SUFFICES ASSUME GatewayInv
             PROVE  GatewayTypeOK /\ GatewayRegistriesAgree
  OBVIOUS
<1>1. GoneIsOffline
  BY GatewayConstants
     DEF GatewayInv, ConnectionInv, GoneIsOffline, LiveIsRegistered, PresentIsConnected,
         Registered
<1>2. GatewayRegistriesAgree
  BY <1>1
     DEF GatewayInv, ConnectionInv, TypingInv, InteractionInv, GatewayRegistriesAgree,
         ConnectionsAgree, TypingAgrees, InteractionsAgree
<1>3. GatewayTypeOK
  BY GatewayTypeParts DEF GatewayInv, ConnectionInv, TypingInv, InteractionInv
<1> QED
  BY <1>1, <1>2, <1>3

LEMMA GatewayAlways == GatewaySpec => []GatewayInv
BY GatewayInitInv, GatewayStepInv, PTL DEF GatewaySpec

-----------------------------------------------------------------------------
\* RealtimeTransfers.  A pool keeps its bound because a start either finds room or makes
\* it: the order of use is total, so that a full pool has a session that gives way.

\* A finite set that is totally ordered has a first element.
LEMMA FirstExists ==
  ASSUME NEW S, IsFiniteSet(S), S # {}, NEW R,
         \A v \in S : <<v, v>> \notin R,
         \A v, w \in S : v # w => <<v, w>> \in R \/ <<w, v>> \in R,
         \A v, w, x \in S : <<v, w>> \in R /\ <<w, x>> \in R => <<v, x>> \in R
  PROVE  \E v \in S : \A w \in S \ {v} : <<v, w>> \in R
<1> DEFINE below(v) == {w \in S : <<w, v>> \in R}
           T == {below(v) : v \in S}
<1>1. T \subseteq FiniteSubsetsOf(S) /\ T # {}
  <2>1. \A v \in S : below(v) \in SUBSET S
    OBVIOUS
  <2> HIDE DEF below
  <2> QED
    BY <2>1, FS_FiniteSubsetsOfFinite
<1>2. PICK B \in T : \A C \in T : ~ (<<C, B>> \in StrictSubsetOrdering(S))
  <2> HIDE DEF T
  <2> QED
    BY <1>1, FS_StrictSubsetOrderingWellFounded, WFMin
<1>3. PICK v \in S : B = below(v)
  BY <1>2
<1>4. ASSUME NEW w \in S \ {v}, <<v, w>> \notin R
      PROVE  FALSE
  <2>1. w \in below(v)
    BY <1>4
  <2>2. below(w) \subseteq below(v) /\ w \notin below(w)
    BY <2>1
  <2>3. <<below(w), below(v)>> \in StrictSubsetOrdering(S)
    BY <2>1, <2>2 DEF StrictSubsetOrdering
  <2> QED
    BY <1>2, <1>3, <2>3
<1> QED
  BY <1>3, <1>4

StreamTypes ==
  /\ wall \in Nat
  /\ streams \in [Streams -> Stream]
  /\ interactionStreams \in [Talks -> SUBSET Streams]
  /\ \A s \in Streams : streams[s].startedAt <= wall

StreamsIndexed ==
  /\ \A s \in Streams, t \in Talks : s \in interactionStreams[t] <=> t \in streams[s].of
  /\ \A s \in Streams : streams[s].status = "none" => streams[s].of = {}

StreamPool == IsFiniteSet(OpenStreams) /\ Cardinality(OpenStreams) <= MaxStreams

StreamInv == StreamTypes /\ StreamsIndexed /\ StreamPool

LEMMA NoStreamType ==
  /\ NoStream \in Stream /\ NoStream.status = "none" /\ NoStream.of = {}
  /\ NoStream.startedAt = 0
BY DEF NoStream, Stream, StreamStatus

\* A step that leaves no more streams open than there were keeps the bound.
LEMMA FewerStreams ==
  ASSUME StreamPool, OpenStreams' \subseteq OpenStreams
  PROVE  StreamPool'
<1>1. /\ IsFiniteSet(OpenStreams') /\ Cardinality(OpenStreams') <= Cardinality(OpenStreams)
  BY FS_Subset DEF StreamPool
<1>2. Cardinality(OpenStreams') \in Nat /\ Cardinality(OpenStreams) \in Nat
  BY <1>1, FS_CardinalityType DEF StreamPool
<1> QED
  BY <1>1, <1>2, TransferAssumption DEF StreamPool

\* A stream that is open changes its status or takes tokens.
LEMMA OneStreamInv ==
  ASSUME StreamInv, UNCHANGED <<wall, interactionStreams>>, NEW s \in OpenStreams,
         NEW it \in Stream, streams' = [streams EXCEPT ![s] = it],
         it.status # "none", it.of = streams[s].of, it.startedAt = streams[s].startedAt
  PROVE  StreamInv'
<1>1. s \in Streams /\ streams[s].status # "none"
  BY DEF OpenStreams
<1>2. /\ streams'[s] = it
      /\ \A x \in Streams : x # s => streams'[x] = streams[x]
  BY <1>1 DEF StreamInv, StreamTypes
<1>3. StreamTypes'
  <2>1. streams' \in [Streams -> Stream]
    BY <1>1 DEF StreamInv, StreamTypes
  <2>2. \A x \in Streams : streams'[x].startedAt <= wall'
    BY <1>2 DEF StreamInv, StreamTypes
  <2> QED
    BY <2>1, <2>2 DEF StreamInv, StreamTypes
<1>4. StreamsIndexed'
  BY <1>1, <1>2 DEF StreamInv, StreamsIndexed
<1>5. OpenStreams' = OpenStreams
  BY <1>1, <1>2 DEF OpenStreams
<1>6. StreamPool'
  BY <1>5, FewerStreams DEF StreamInv
<1> QED
  BY <1>3, <1>4, <1>6 DEF StreamInv

LEMMA StreamsRemoved ==
  ASSUME StreamInv, wall' = wall, NEW S,
         streams' = [s \in Streams |-> IF s \in S THEN NoStream ELSE streams[s]],
         interactionStreams' = [t \in Talks |-> interactionStreams[t] \ S]
  PROVE  StreamInv' /\ OpenStreams' = OpenStreams \ S
<1>1. StreamTypes'
  BY NoStreamType DEF StreamInv, StreamTypes
<1>2. StreamsIndexed'
  BY NoStreamType DEF StreamInv, StreamsIndexed
<1>3. OpenStreams' = OpenStreams \ S
  BY NoStreamType DEF OpenStreams
<1>4. StreamPool'
  BY <1>3, FewerStreams DEF StreamInv
<1> QED
  BY <1>1, <1>2, <1>3, <1>4 DEF StreamInv

LEMMA StartStreamInv ==
  ASSUME StreamInv, NEW s \in Streams, StartStream(s)
  PROVE  StreamInv'
<1> DEFINE gone == ExpiredStreams
           it(t) == [NoStream EXCEPT !.status = "PENDING", !.of = {t}, !.startedAt = wall]
<1>1. PICK t \in Talks :
        /\ streams' = [x \in Streams |->
             IF x \in gone THEN NoStream
             ELSE IF x = s /\ HasRoom(gone) THEN it(t) ELSE streams[x]]
        /\ interactionStreams' = [x \in Talks |->
             (interactionStreams[x] \ gone) \cup (IF x = t /\ HasRoom(gone) THEN {s} ELSE {})]
  BY DEF StartStream
<1>2. wall' = wall /\ streams[s].status = "none"
  BY DEF StartStream
<1>3. CASE ~HasRoom(gone)
  <2>1. /\ streams' = [x \in Streams |-> IF x \in gone THEN NoStream ELSE streams[x]]
        /\ interactionStreams' = [x \in Talks |-> interactionStreams[x] \ gone]
    <3> HIDE DEF gone, it
    <3> QED
      BY <1>1, <1>3
  <2> QED
    BY <1>2, <2>1, StreamsRemoved
<1>4. CASE HasRoom(gone)
  <2>1. /\ it(t) \in Stream /\ it(t).status = "PENDING" /\ it(t).of = {t}
        /\ it(t).startedAt = wall
    BY NoStreamType DEF Stream, StreamStatus, StreamInv, StreamTypes
  <2>2. s \notin gone /\ s \notin OpenStreams
    BY <1>2 DEF ExpiredStreams, OpenStreams
  <2> HIDE DEF gone, it
  <2>3. /\ streams' \in [Streams -> Stream] /\ streams'[s] = it(t)
        /\ \A x \in gone \cap Streams : streams'[x] = NoStream
        /\ \A x \in Streams \ gone : x # s => streams'[x] = streams[x]
    BY <1>1, <1>4, <2>1, <2>2, NoStreamType DEF StreamInv, StreamTypes
  <2>4. /\ interactionStreams' \in [Talks -> SUBSET Streams]
        /\ \A x \in Talks : x # t => interactionStreams'[x] = interactionStreams[x] \ gone
        /\ interactionStreams'[t] = (interactionStreams[t] \ gone) \cup {s}
    BY <1>1, <1>4 DEF StreamInv, StreamTypes
  <2>5. \A x \in Streams : streams'[x].startedAt <= wall'
    BY <1>2, <2>1, <2>3, NoStreamType DEF StreamInv, StreamTypes
  <2>6. StreamTypes'
    BY <1>2, <2>3, <2>4, <2>5 DEF StreamInv, StreamTypes
  <2>7. StreamsIndexed'
    <3>1. ASSUME NEW x \in Streams, NEW y \in Talks
          PROVE  x \in interactionStreams'[y] <=> y \in streams'[x].of
      <4>1. x \in interactionStreams[y] <=> y \in streams[x].of
        BY DEF StreamInv, StreamsIndexed
      <4>2. CASE x = s
        <5>1. streams[s].of = {}
          BY <1>2 DEF StreamInv, StreamsIndexed
        <5> QED
          BY <2>1, <2>2, <2>3, <2>4, <4>1, <4>2, <5>1
      <4>3. CASE x # s
        BY <2>3, <2>4, <4>1, <4>3, NoStreamType
      <4> QED
        BY <4>2, <4>3
    <3>2. ASSUME NEW x \in Streams, streams'[x].status = "none"
          PROVE  streams'[x].of = {}
      BY <2>1, <2>3, <3>2, NoStreamType DEF StreamInv, StreamsIndexed
    <3> QED
      BY <3>1, <3>2 DEF StreamsIndexed
  <2>8. OpenStreams' = (OpenStreams \ gone) \cup {s}
    BY <2>1, <2>2, <2>3, NoStreamType DEF OpenStreams
  <2>9. StreamPool'
    <3>1. IsFiniteSet(OpenStreams \ gone)
      BY FS_Subset DEF StreamInv, StreamPool
    <3>2. /\ IsFiniteSet(OpenStreams')
          /\ Cardinality(OpenStreams') = Cardinality(OpenStreams \ gone) + 1
      BY <2>2, <2>8, <3>1, FS_AddElement
    <3>3. Cardinality(OpenStreams \ gone) \in Nat
      BY <3>1, FS_CardinalityType
    <3> QED
      BY <1>4, <3>2, <3>3, TransferAssumption DEF StreamPool, HasRoom
  <2> QED
    BY <2>6, <2>7, <2>9 DEF StreamInv
<1> QED
  BY <1>3, <1>4

LEMMA StreamStepInv ==
  ASSUME StreamInv, StreamNext
  PROVE  StreamInv'
<1>1. ASSUME NEW s \in Streams, StartStream(s)
      PROVE  StreamInv'
  BY <1>1, StartStreamInv
<1>2. ASSUME NEW s \in Streams, UpdateStreamStatus(s)
      PROVE  StreamInv'
  <2>1. PICK status \in StreamStatus \ {"none"} :
          streams' = [streams EXCEPT ![s] = [streams[s] EXCEPT !.status = status]]
    BY <1>2 DEF UpdateStreamStatus
  <2> DEFINE it == [streams[s] EXCEPT !.status = status]
  <2>2. streams[s] \in Stream
    BY DEF StreamInv, StreamTypes
  <2>3. /\ it \in Stream /\ it.status = status /\ it.of = streams[s].of
        /\ it.startedAt = streams[s].startedAt
    BY <2>2 DEF Stream
  <2> HIDE DEF it
  <2> QED
    BY <1>2, <2>1, <2>3, OneStreamInv DEF UpdateStreamStatus, it
<1>3. ASSUME NEW s \in Streams, NEW new \in Seq(Nat), s \in OpenStreams,
             UNCHANGED <<wall, interactionStreams>>,
             streams' = [streams EXCEPT ![s] = [streams[s] EXCEPT !.tokens = new]]
      PROVE  StreamInv'
  <2> DEFINE it == [streams[s] EXCEPT !.tokens = new]
  <2>1. streams[s] \in Stream
    BY DEF StreamInv, StreamTypes
  <2>2. /\ it \in Stream /\ it.status = streams[s].status /\ it.of = streams[s].of
        /\ it.startedAt = streams[s].startedAt
    BY <2>1 DEF Stream
  <2>3. it.status # "none"
    BY <1>3, <2>2 DEF OpenStreams
  <2> HIDE DEF it
  <2> QED
    BY <1>3, <2>2, <2>3, OneStreamInv DEF it
<1>4. ASSUME NEW s \in Streams, AddToken(s)
      PROVE  StreamInv'
  <2> DEFINE new == Append(streams[s].tokens, Len(streams[s].tokens))
  <2>1. new \in Seq(Nat)
    BY DEF StreamInv, StreamTypes, Stream
  <2>2. streams' = [streams EXCEPT ![s] = [streams[s] EXCEPT !.tokens = new]]
    BY <1>4 DEF AddToken
  <2> HIDE DEF new
  <2> QED
    BY <1>3, <1>4, <2>1, <2>2 DEF AddToken
<1>5. ASSUME NEW s \in Streams, AddTokens(s)
      PROVE  StreamInv'
  <2>1. PICK n \in 1..MaxTokens :
          streams' = [streams EXCEPT ![s] = [streams[s] EXCEPT !.tokens = PushAll(@, n)]]
    BY <1>5 DEF AddTokens
  <2> DEFINE new == PushAll(streams[s].tokens, n)
  <2>2. new \in Seq(Nat)
    <3>1. streams[s].tokens \in Seq(Nat) /\ n \in Nat
      BY TransferAssumption DEF StreamInv, StreamTypes, Stream
    <3> DEFINE old == streams[s].tokens
               batch == [i \in 1..n |-> Len(old) + 2 * (i - 1)]
    <3>2. batch \in [1..n -> Nat]
      <4>1. Len(old) \in Nat
        BY <3>1
      <4> HIDE DEF old
      <4>2. \A i \in 1..n : Len(old) + 2 * (i - 1) \in Nat
        BY <3>1, <4>1
      <4> QED
        BY <4>2
    <3>3. batch \in Seq(Nat)
      BY <3>1, <3>2, SeqDef
    <3> HIDE DEF batch
    <3>4. old \o batch \in Seq(Nat)
      BY <3>1, <3>3
    <3> QED
      BY <3>4 DEF PushAll, batch
  <2>3. streams' = [streams EXCEPT ![s] = [streams[s] EXCEPT !.tokens = new]]
    BY <2>1
  <2> HIDE DEF new
  <2> QED
    BY <1>3, <1>5, <2>2, <2>3 DEF AddTokens
<1>6. ASSUME NEW S, RemoveStreams(S)
      PROVE  StreamInv'
  BY <1>6, StreamsRemoved DEF RemoveStreams
<1> QED
  BY <1>1, <1>2, <1>4, <1>5, <1>6 DEF StreamNext

-----------------------------------------------------------------------------
\* Voice sessions.

VoiceTypes ==
  /\ wall \in Nat
  /\ voices \in [Voices -> Voice]
  /\ voiceChunks \in [Voices -> [ChunkBytes -> Nat]]
  /\ userVoiceSessions \in [Speakers -> SUBSET Voices]
  /\ \A v \in Voices : voices[v].lastChunkAt <= wall

VoicesIndexed ==
  \A v \in Voices, u \in Speakers : v \in userVoiceSessions[u] <=> u \in voices[v].user

\* The order of the map is a strict total order of what it holds.
VoicesOrdered ==
  /\ voiceOrder \subseteq OpenVoices \X OpenVoices
  /\ \A v \in OpenVoices : <<v, v>> \notin voiceOrder
  /\ \A v, w \in OpenVoices : v # w => (<<v, w>> \in voiceOrder <=> <<w, v>> \notin voiceOrder)
  /\ \A v, w, x \in OpenVoices :
       <<v, w>> \in voiceOrder /\ <<w, x>> \in voiceOrder => <<v, x>> \in voiceOrder

VoicePool == IsFiniteSet(OpenVoices) /\ Cardinality(OpenVoices) <= MaxVoices

VoicesQuoted == \A v \in Voices : WithinQuota(voices[v], voiceChunks[v])

VoiceInv == VoiceTypes /\ VoicesIndexed /\ VoicesOrdered /\ VoicePool /\ VoicesQuoted

LEMMA NoVoiceType ==
  /\ NoVoice \in Voice /\ NoVoice.user = {} /\ NoVoice.lastChunkAt = 0
  /\ NoVoice.totalBytes = 0 /\ NoVoice.chunkCount = 0
BY DEF NoVoice, Voice

LEMMA NoChunksType ==
  /\ NoChunks \in [ChunkBytes -> Nat]
  /\ \A voice : voice.totalBytes = 0 /\ voice.chunkCount = 0 => WithinQuota(voice, NoChunks)
<1>1. NoChunks[1] = 0 /\ NoChunks[2] = 0
  BY DEF NoChunks, ChunkBytes
<1>2. NoChunks \in [ChunkBytes -> Nat]
  BY DEF NoChunks
<1> QED
  BY <1>1, <1>2, TransferAssumption DEF WithinQuota

LEMMA FewerVoices ==
  ASSUME VoicePool, OpenVoices' \subseteq OpenVoices
  PROVE  VoicePool'
<1>1. /\ IsFiniteSet(OpenVoices') /\ Cardinality(OpenVoices') <= Cardinality(OpenVoices)
  BY FS_Subset DEF VoicePool
<1>2. Cardinality(OpenVoices') \in Nat /\ Cardinality(OpenVoices) \in Nat
  BY <1>1, FS_CardinalityType DEF VoicePool
<1> QED
  BY <1>1, <1>2, TransferAssumption DEF VoicePool

\* Something happens to a session that stays.
LEMMA OneVoiceInv ==
  ASSUME VoiceInv, UNCHANGED <<wall, voiceOrder, userVoiceSessions>>, NEW v \in OpenVoices,
         NEW it \in Voice, voices' = [voices EXCEPT ![v] = it],
         it.user = voices[v].user, it.lastChunkAt <= wall,
         NEW chunks \in [ChunkBytes -> Nat], voiceChunks' = [voiceChunks EXCEPT ![v] = chunks],
         WithinQuota(it, chunks)
  PROVE  VoiceInv' /\ OpenVoices' = OpenVoices
<1>1. v \in Voices
  BY DEF OpenVoices
<1>2. /\ voices'[v] = it
      /\ \A x \in Voices : x # v => voices'[x] = voices[x]
  BY <1>1 DEF VoiceInv, VoiceTypes
<1>3. VoiceTypes'
  <2>1. voices' \in [Voices -> Voice]
    BY <1>1 DEF VoiceInv, VoiceTypes
  <2>2. \A x \in Voices : voices'[x].lastChunkAt <= wall'
    BY <1>2 DEF VoiceInv, VoiceTypes
  <2> QED
    BY <2>1, <2>2 DEF VoiceInv, VoiceTypes
<1>4. VoicesIndexed'
  BY <1>1, <1>2 DEF VoiceInv, VoicesIndexed
<1>5. OpenVoices' = OpenVoices
  BY <1>1, <1>2 DEF OpenVoices
<1>6. VoicesOrdered'
  BY <1>5 DEF VoiceInv, VoicesOrdered
<1>7. VoicePool'
  BY <1>5, FewerVoices DEF VoiceInv
<1>8. VoicesQuoted'
  <2>1. /\ voiceChunks'[v] = chunks
        /\ \A x \in Voices : x # v => voiceChunks'[x] = voiceChunks[x]
    BY <1>1 DEF VoiceInv, VoiceTypes
  <2> SUFFICES ASSUME NEW x \in Voices PROVE WithinQuota(voices'[x], voiceChunks'[x])
    BY DEF VoicesQuoted, WithinQuota
  <2> QED
    BY <1>2, <2>1 DEF VoiceInv, VoicesQuoted
<1> QED
  BY <1>3, <1>4, <1>5, <1>6, <1>7, <1>8 DEF VoiceInv

LEMMA VoicesRemoved ==
  ASSUME VoiceInv, wall' = wall, NEW S, Without(S)
  PROVE  VoiceInv' /\ OpenVoices' = OpenVoices \ S
<1>1. VoiceTypes'
  <2>1. voices' \in [Voices -> Voice] /\ \A v \in Voices : voices'[v].lastChunkAt <= wall'
    BY NoVoiceType DEF VoiceInv, VoiceTypes, Without
  <2>2. voiceChunks' \in [Voices -> [ChunkBytes -> Nat]]
    BY NoChunksType DEF VoiceInv, VoiceTypes, Without
  <2>3. userVoiceSessions' \in [Speakers -> SUBSET Voices]
    BY DEF VoiceInv, VoiceTypes, Without
  <2> QED
    BY <2>1, <2>2, <2>3 DEF VoiceInv, VoiceTypes
<1>2. VoicesIndexed'
  BY NoVoiceType DEF VoiceInv, VoicesIndexed, Without
<1>3. OpenVoices' = OpenVoices \ S
  BY NoVoiceType DEF OpenVoices, Without
<1>4. VoicesOrdered'
  BY <1>3 DEF VoiceInv, VoicesOrdered, Without, OrderOf
<1>5. VoicePool'
  BY <1>3, FewerVoices DEF VoiceInv
<1>6. VoicesQuoted'
  <2> SUFFICES ASSUME NEW v \in Voices PROVE WithinQuota(voices'[v], voiceChunks'[v])
    BY DEF VoicesQuoted, WithinQuota
  <2>1. CASE v \in S
    <3>1. voices'[v] = NoVoice /\ voiceChunks'[v] = NoChunks
      BY <2>1 DEF Without
    <3> QED
      BY <3>1, NoVoiceType, NoChunksType
  <2>2. CASE v \notin S
    BY <2>2 DEF Without, VoiceInv, VoicesQuoted
  <2> QED
    BY <2>1, <2>2
<1> QED
  BY <1>1, <1>2, <1>3, <1>4, <1>5, <1>6 DEF VoiceInv

\* The session whose last chunk is the oldest is one, if there is any.
LEMMA LeastRecentIsOne ==
  ASSUME VoiceInv, OpenVoices # {}
  PROVE  \E v \in OpenVoices : LeastRecent = {v}
<1> DEFINE R == {p \in OpenVoices \X OpenVoices : p[1] # p[2] /\ UsedBefore(p[1], p[2])}
<1>1. \A v \in OpenVoices : voices[v].lastChunkAt \in Nat
  BY DEF VoiceInv, VoiceTypes, Voice, OpenVoices
<1>2. \A v, w \in OpenVoices : <<v, w>> \in R <=> v # w /\ UsedBefore(v, w)
  OBVIOUS
<1>3. \A v, w \in OpenVoices : v # w => UsedBefore(v, w) \/ UsedBefore(w, v)
  <2> SUFFICES ASSUME NEW v \in OpenVoices, NEW w \in OpenVoices, v # w
               PROVE  UsedBefore(v, w) \/ UsedBefore(w, v)
    OBVIOUS
  <2>1. <<v, w>> \in voiceOrder \/ <<w, v>> \in voiceOrder
    BY DEF VoiceInv, VoicesOrdered
  <2> QED
    BY <1>1, <2>1 DEF UsedBefore
<1>4. \A v, w \in OpenVoices : v # w /\ UsedBefore(v, w) => ~ UsedBefore(w, v)
  BY <1>1 DEF VoiceInv, VoicesOrdered, UsedBefore
<1>5. \A v, w, x \in OpenVoices :
        UsedBefore(v, w) /\ UsedBefore(w, x) => UsedBefore(v, x)
  BY <1>1 DEF VoiceInv, VoicesOrdered, UsedBefore
<1> HIDE DEF R
<1>6. PICK v \in OpenVoices : \A w \in OpenVoices \ {v} : <<v, w>> \in R
  <2>1. \A x, w, y \in OpenVoices : <<x, w>> \in R /\ <<w, y>> \in R => <<x, y>> \in R
    BY <1>2, <1>4, <1>5
  <2>2. IsFiniteSet(OpenVoices)
    BY DEF VoiceInv, VoicePool
  <2>3. \A x \in OpenVoices : <<x, x>> \notin R
    BY <1>2
  <2>4. \A x, w \in OpenVoices : x # w => <<x, w>> \in R \/ <<w, x>> \in R
    BY <1>2, <1>3
  <2> QED
    BY <2>1, <2>2, <2>3, <2>4, FirstExists
<1>7. v \in LeastRecent
  BY <1>2, <1>6 DEF LeastRecent
<1>8. \A w \in LeastRecent : w = v
  BY <1>4, <1>7 DEF LeastRecent
<1> QED
  BY <1>7, <1>8

\* A start costs the least recently used session, if the pool is full, and those that
\* are inactive.
LEMMA StartVoiceInv ==
  ASSUME VoiceInv, NEW v \in Voices, StartVoiceSession(v)
  PROVE  /\ VoiceInv'
         /\ OpenVoices' = (OpenVoices \ (Evicted \cup Inactive(OpenVoices \ Evicted, Timeout)))
                            \cup {v}
<1> DEFINE gone == Evicted \cup Inactive(OpenVoices \ Evicted, Timeout)
           it(u) == [NoVoice EXCEPT !.user = {u}, !.lastChunkAt = wall, !.isActive = TRUE]
<1>1. PICK u \in Speakers :
        /\ voices' = [x \in Voices |-> IF x = v THEN it(u)
                                       ELSE IF x \in gone THEN NoVoice ELSE voices[x]]
        /\ voiceOrder' = OrderOf(OpenVoices \ gone) \cup ((OpenVoices \ gone) \X {v})
        /\ voiceChunks' = [x \in Voices |-> IF x \in gone \cup {v} THEN NoChunks
                                            ELSE voiceChunks[x]]
        /\ userVoiceSessions' = [x \in Speakers |->
             (userVoiceSessions[x] \ gone) \cup (IF x = u THEN {v} ELSE {})]
  BY DEF StartVoiceSession
<1>2. wall' = wall /\ v \notin OpenVoices /\ voices[v].user = {}
  BY DEF StartVoiceSession, OpenVoices
<1>3. gone \subseteq OpenVoices
  BY DEF Evicted, LeastRecent, Inactive
<1>4. /\ it(u) \in Voice /\ it(u).user = {u} /\ it(u).lastChunkAt = wall
      /\ it(u).totalBytes = 0 /\ it(u).chunkCount = 0
  BY NoVoiceType DEF Voice, VoiceInv, VoiceTypes
<1>5. Cardinality(OpenVoices \ gone) < MaxVoices
  <2>1. /\ IsFiniteSet(OpenVoices) /\ Cardinality(OpenVoices) <= MaxVoices
        /\ Cardinality(OpenVoices) \in Nat
    BY FS_CardinalityType DEF VoiceInv, VoicePool
  <2>2. /\ IsFiniteSet(OpenVoices \ gone)
        /\ Cardinality(OpenVoices \ gone) <= Cardinality(OpenVoices)
        /\ Cardinality(OpenVoices \ gone) = Cardinality(OpenVoices)
             => OpenVoices \ gone = OpenVoices
    <3> HIDE DEF gone
    <3> QED
      BY <2>1, FS_Subset
  <2>3. Cardinality(OpenVoices \ gone) \in Nat
    BY <2>2, FS_CardinalityType
  <2>4. CASE Cardinality(OpenVoices) >= MaxVoices
    <3>1. OpenVoices # {}
      BY <2>1, <2>4, FS_EmptySet, TransferAssumption
    <3>2. PICK w \in OpenVoices : Evicted = {w}
      BY <2>4, <3>1, LeastRecentIsOne DEF Evicted
    <3>3. OpenVoices \ gone # OpenVoices
      BY <3>2
    <3> HIDE DEF gone
    <3> QED
      BY <2>1, <2>2, <2>3, <3>3, TransferAssumption
  <2>5. CASE ~ (Cardinality(OpenVoices) >= MaxVoices)
    <3> HIDE DEF gone
    <3> QED
      BY <2>1, <2>2, <2>3, <2>5, TransferAssumption
  <2> QED
    BY <2>4, <2>5
<1> HIDE DEF gone, it
<1>6. /\ voices' \in [Voices -> Voice] /\ voices'[v] = it(u)
      /\ \A x \in gone : voices'[x] = NoVoice
      /\ \A x \in Voices \ gone : x # v => voices'[x] = voices[x]
  <2>1. gone \subseteq Voices /\ v \notin gone
    BY <1>2, <1>3 DEF OpenVoices
  <2> QED
    BY <1>1, <1>4, <2>1, NoVoiceType DEF VoiceInv, VoiceTypes
<1>7. VoiceTypes'
  <2>1. voiceChunks' \in [Voices -> [ChunkBytes -> Nat]]
    BY <1>1, NoChunksType DEF VoiceInv, VoiceTypes
  <2>2. userVoiceSessions' \in [Speakers -> SUBSET Voices]
    BY <1>1 DEF VoiceInv, VoiceTypes
  <2>3. \A x \in Voices : voices'[x].lastChunkAt <= wall'
    BY <1>2, <1>4, <1>6, NoVoiceType DEF VoiceInv, VoiceTypes
  <2> QED
    BY <1>2, <1>6, <2>1, <2>2, <2>3 DEF VoiceInv, VoiceTypes
<1>8. VoicesIndexed'
  <2> SUFFICES ASSUME NEW x \in Voices, NEW y \in Speakers
               PROVE  x \in userVoiceSessions'[y] <=> y \in voices'[x].user
    BY DEF VoicesIndexed
  <2>1. x \in userVoiceSessions[y] <=> y \in voices[x].user
    BY DEF VoiceInv, VoicesIndexed
  <2>2. x \in userVoiceSessions'[y] <=>
          (x \in userVoiceSessions[y] /\ x \notin gone) \/ (x = v /\ y = u)
    <3>1. userVoiceSessions'[y] =
            (userVoiceSessions[y] \ gone) \cup (IF y = u THEN {v} ELSE {})
      BY <1>1
    <3> QED
      BY <3>1
  <2>3. CASE x = v
    BY <1>2, <1>4, <1>6, <2>1, <2>2, <2>3
  <2>4. CASE x # v
    BY <1>6, <2>1, <2>2, <2>4, NoVoiceType
  <2> QED
    BY <2>3, <2>4
<1>9. OpenVoices' = (OpenVoices \ gone) \cup {v}
  BY <1>2, <1>4, <1>6, NoVoiceType DEF OpenVoices
<1>10. VoicesOrdered'
  <2> DEFINE O == OpenVoices \ gone
  <2>1. \A x, y : <<x, y>> \in voiceOrder' <=>
          \/ x \in O /\ y \in O /\ <<x, y>> \in voiceOrder
          \/ x \in O /\ y = v
    BY <1>1 DEF OrderOf
  <2>2. v \notin O
    BY <1>2
  <2>3. voiceOrder' \subseteq OpenVoices' \X OpenVoices'
    BY <1>1, <1>9 DEF OrderOf
  <2>4. /\ \A x \in O : <<x, x>> \notin voiceOrder
        /\ \A x, y \in O : x # y => (<<x, y>> \in voiceOrder <=> <<y, x>> \notin voiceOrder)
        /\ \A x, y, z \in O :
             <<x, y>> \in voiceOrder /\ <<y, z>> \in voiceOrder => <<x, z>> \in voiceOrder
    BY DEF VoiceInv, VoicesOrdered
  <2>5. OpenVoices' = O \cup {v}
    BY <1>9
  <2> HIDE DEF O
  <2>6. \A x \in OpenVoices' : <<x, x>> \notin voiceOrder'
    BY <2>1, <2>2, <2>4, <2>5
  <2>7. \A x, y \in OpenVoices' :
          x # y => (<<x, y>> \in voiceOrder' <=> <<y, x>> \notin voiceOrder')
    <3> SUFFICES ASSUME NEW x \in OpenVoices', NEW y \in OpenVoices', x # y
                 PROVE  <<x, y>> \in voiceOrder' <=> <<y, x>> \notin voiceOrder'
      OBVIOUS
    <3>1. CASE x = v \/ y = v
      BY <2>1, <2>2, <2>5, <3>1
    <3>2. CASE x \in O /\ y \in O
      <4>1. /\ <<x, y>> \in voiceOrder' <=> <<x, y>> \in voiceOrder
            /\ <<y, x>> \in voiceOrder' <=> <<y, x>> \in voiceOrder
        BY <2>1, <2>2, <3>2
      <4> QED
        BY <2>4, <3>2, <4>1
    <3> QED
      BY <2>5, <3>1, <3>2
  <2>8. \A x, y, z \in OpenVoices' :
          <<x, y>> \in voiceOrder' /\ <<y, z>> \in voiceOrder' => <<x, z>> \in voiceOrder'
    BY <2>1, <2>2, <2>4, <2>5
  <2> QED
    BY <2>3, <2>6, <2>7, <2>8 DEF VoicesOrdered
<1>11. VoicePool'
  <2>1. IsFiniteSet(OpenVoices \ gone)
    BY FS_Subset DEF VoiceInv, VoicePool
  <2>2. /\ IsFiniteSet(OpenVoices')
        /\ Cardinality(OpenVoices') = Cardinality(OpenVoices \ gone) + 1
    BY <1>2, <1>9, <2>1, FS_AddElement
  <2>3. Cardinality(OpenVoices \ gone) \in Nat
    BY <2>1, FS_CardinalityType
  <2> QED
    BY <1>5, <2>2, <2>3, TransferAssumption DEF VoicePool
<1>12. VoicesQuoted'
  <2> SUFFICES ASSUME NEW x \in Voices PROVE WithinQuota(voices'[x], voiceChunks'[x])
    BY DEF VoicesQuoted, WithinQuota
  <2>1. CASE x \in gone \/ x = v
    <3>1. voiceChunks'[x] = NoChunks /\ (voices'[x] = NoVoice \/ voices'[x] = it(u))
      BY <1>1, <1>6, <2>1
    <3> QED
      BY <1>4, <3>1, NoVoiceType, NoChunksType
  <2>2. CASE x \notin gone /\ x # v
    <3>1. voices'[x] = voices[x] /\ voiceChunks'[x] = voiceChunks[x]
      BY <1>1, <1>6, <2>2
    <3> QED
      BY <3>1 DEF VoiceInv, VoicesQuoted
  <2> QED
    BY <2>1, <2>2
<1> QED
  BY <1>7, <1>8, <1>9, <1>10, <1>11, <1>12 DEF VoiceInv, gone

LEMMA AddVoiceChunkInv ==
  ASSUME VoiceInv, NEW v \in Voices, AddVoiceChunk(v)
  PROVE  VoiceInv' /\ OpenVoices' = OpenVoices
<1> DEFINE old == voices[v]
           it(n) == [old EXCEPT !.lastChunkAt = wall, !.chunkCount = old.chunkCount + 1,
                                !.totalBytes = old.totalBytes + n]
<1>1. PICK n \in ChunkBytes :
        /\ FitsIn(voices[v].totalBytes, n)
        /\ voices' = [voices EXCEPT ![v].lastChunkAt = wall,
                                    ![v].chunkCount = @ + 1,
                                    ![v].totalBytes = @ + n]
        /\ voiceChunks' = [voiceChunks EXCEPT ![v][n] = @ + 1]
  BY DEF AddVoiceChunk
<1>2. old \in Voice /\ wall \in Nat /\ old.chunkCount + 1 \in Nat /\ old.totalBytes + n \in Nat
  BY DEF VoiceInv, VoiceTypes, Voice, ChunkBytes
<1>3. voices' = [voices EXCEPT ![v] = it(n)]
  BY <1>1 DEF VoiceInv, VoiceTypes
<1> HIDE DEF old
<1>4. it(n) \in Voice
  <2> DEFINE one == [old EXCEPT !.lastChunkAt = wall]
             two == [one EXCEPT !.chunkCount = old.chunkCount + 1]
  <2>1. one \in Voice
    BY <1>2 DEF Voice
  <2> HIDE DEF one
  <2>2. two \in Voice
    BY <1>2, <2>1 DEF Voice
  <2>3. it(n) = [two EXCEPT !.totalBytes = old.totalBytes + n]
    BY DEF one
  <2> HIDE DEF two
  <2> QED
    BY <1>2, <2>2, <2>3 DEF Voice
<1>5. /\ it(n).user = voices[v].user /\ it(n).lastChunkAt <= wall
      /\ it(n).totalBytes = old.totalBytes + n /\ it(n).chunkCount = old.chunkCount + 1
  BY <1>2 DEF Voice, old
<1> HIDE DEF it
<1> DEFINE chunks == [voiceChunks[v] EXCEPT ![n] = voiceChunks[v][n] + 1]
<1>6. voiceChunks[v] \in [ChunkBytes -> Nat]
  BY DEF VoiceInv, VoiceTypes
<1>7. chunks \in [ChunkBytes -> Nat] /\ voiceChunks' = [voiceChunks EXCEPT ![v] = chunks]
  BY <1>1, <1>6
<1>8. WithinQuota(it(n), chunks)
  <2>1. WithinQuota(old, voiceChunks[v]) /\ old.totalBytes + n <= MaxBytes
    BY <1>1 DEF VoiceInv, VoicesQuoted, FitsIn, old
  <2>2. /\ voiceChunks[v][1] \in Nat /\ voiceChunks[v][2] \in Nat
        /\ \/ n = 1 /\ chunks[1] = voiceChunks[v][1] + 1 /\ chunks[2] = voiceChunks[v][2]
           \/ n = 2 /\ chunks[1] = voiceChunks[v][1] /\ chunks[2] = voiceChunks[v][2] + 1
    BY <1>6 DEF ChunkBytes
  <2> HIDE DEF chunks
  <2> QED
    BY <1>5, <2>1, <2>2 DEF WithinQuota
<1> HIDE DEF chunks
<1> QED
  BY <1>3, <1>4, <1>5, <1>7, <1>8, OneVoiceInv DEF AddVoiceChunk, old

LEMMA VoiceUpdateInv ==
  ASSUME VoiceInv, NEW v \in Voices, UpdateVoiceSessionActivity(v) \/ EndVoiceSession(v)
  PROVE  VoiceInv' /\ OpenVoices' = OpenVoices
<1> DEFINE old == voices[v]
           seen == [old EXCEPT !.lastChunkAt = wall]
           ended == [old EXCEPT !.isActive = FALSE]
<1>1. /\ old \in Voice /\ wall \in Nat /\ old.lastChunkAt <= wall
      /\ voiceChunks[v] \in [ChunkBytes -> Nat] /\ WithinQuota(old, voiceChunks[v])
      /\ voiceChunks = [voiceChunks EXCEPT ![v] = voiceChunks[v]]
  BY DEF VoiceInv, VoiceTypes, VoicesQuoted
<1>2. /\ seen \in Voice /\ seen.user = old.user /\ seen.lastChunkAt <= wall
      /\ WithinQuota(seen, voiceChunks[v])
  <2>1. seen \in Voice
    BY <1>1 DEF Voice
  <2>2. /\ seen.user = old.user /\ seen.lastChunkAt = wall
        /\ seen.totalBytes = old.totalBytes /\ seen.chunkCount = old.chunkCount
    BY <1>1 DEF Voice
  <2> QED
    BY <1>1, <2>1, <2>2 DEF WithinQuota
<1>3. /\ ended \in Voice /\ ended.user = old.user /\ ended.lastChunkAt <= wall
      /\ WithinQuota(ended, voiceChunks[v])
  <2>1. ended \in Voice
    BY <1>1 DEF Voice
  <2>2. /\ ended.user = old.user /\ ended.lastChunkAt = old.lastChunkAt
        /\ ended.totalBytes = old.totalBytes /\ ended.chunkCount = old.chunkCount
    BY <1>1 DEF Voice
  <2> QED
    BY <1>1, <2>1, <2>2 DEF WithinQuota
<1>4. \/ voices' = [voices EXCEPT ![v] = seen]
      \/ voices' = [voices EXCEPT ![v] = ended]
  BY DEF UpdateVoiceSessionActivity, EndVoiceSession
<1>5. /\ v \in OpenVoices
      /\ UNCHANGED <<wall, voiceOrder, voiceChunks, userVoiceSessions>>
  BY DEF UpdateVoiceSessionActivity, EndVoiceSession
<1> HIDE DEF seen, ended
<1> QED
  BY <1>1, <1>2, <1>3, <1>4, <1>5, OneVoiceInv

\* What a new session costs: at most the one that was used least recently, of those
\* that are not inactive.
LEMMA StartCost ==
  ASSUME VoiceInv, NEW v \in Voices, StartVoiceSession(v)
  PROVE  LET gone == OpenVoices \ OpenVoices' IN
         /\ Cardinality(gone \ Inactive(OpenVoices, Timeout)) <= 1
         /\ \A x \in gone, w \in OpenVoices \ gone :
              voices[x].lastChunkAt <= voices[w].lastChunkAt
<1> DEFINE inactive == Inactive(OpenVoices \ Evicted, Timeout)
           gone == OpenVoices \ OpenVoices'
<1>1. v \notin OpenVoices
  BY DEF StartVoiceSession
<1>2. Evicted = {} \/ \E w \in OpenVoices : Evicted = {w} /\ LeastRecent = {w}
  <2>1. CASE Evicted = {}
    BY <2>1
  <2>2. CASE Evicted # {}
    <3>1. Evicted = LeastRecent /\ OpenVoices # {}
      BY <2>2 DEF Evicted, LeastRecent
    <3> QED
      BY <3>1, LeastRecentIsOne
  <2> QED
    BY <2>1, <2>2
<1>3. gone = Evicted \cup inactive
  <2>1. OpenVoices' = (OpenVoices \ (Evicted \cup inactive)) \cup {v}
    BY StartVoiceInv
  <2>2. Evicted \cup inactive \subseteq OpenVoices
    BY <1>2 DEF Inactive
  <2> HIDE DEF inactive
  <2> QED
    BY <1>1, <2>1, <2>2
<1>4. inactive \subseteq Inactive(OpenVoices, Timeout)
  BY DEF Inactive
<1>5. \A x \in OpenVoices : voices[x].lastChunkAt \in Nat /\ wall \in Nat /\ Timeout \in Nat
  BY TransferAssumption DEF VoiceInv, VoiceTypes, Voice, OpenVoices
<1>6. Cardinality(gone \ Inactive(OpenVoices, Timeout)) <= 1
  <2> DEFINE busy == gone \ Inactive(OpenVoices, Timeout)
  <2>1. busy = {} \/ \E w : busy = {w}
    <3> HIDE DEF inactive, gone
    <3> QED
      BY <1>2, <1>3, <1>4
  <2> HIDE DEF busy
  <2>2. Cardinality(busy) = 0 \/ Cardinality(busy) = 1
    BY <2>1, FS_EmptySet, FS_Singleton
  <2>3. Cardinality(busy) <= 1
    BY <2>2
  <2> QED
    BY <2>3 DEF busy
<1>7. ASSUME NEW x \in gone, NEW w \in OpenVoices \ gone
      PROVE  voices[x].lastChunkAt <= voices[w].lastChunkAt
  <2>1. x # w /\ x \in OpenVoices
    OBVIOUS
  <2>2. CASE x \in Evicted
    <3>1. x \in LeastRecent
      BY <1>2, <2>2
    <3>2. UsedBefore(x, w)
      BY <2>1, <3>1 DEF LeastRecent
    <3> QED
      BY <1>5, <2>1, <3>2 DEF UsedBefore
  <2>3. CASE x \notin Evicted
    <3>1. wall - voices[x].lastChunkAt > Timeout
      BY <1>3, <2>3 DEF Inactive
    <3>2. ~ (wall - voices[w].lastChunkAt > Timeout)
      BY <1>3 DEF Inactive
    <3> QED
      BY <1>5, <2>1, <3>1, <3>2
  <2> QED
    BY <2>2, <2>3
<1> QED
  BY <1>6, <1>7

\* Of all steps only a start opens a session.
LEMMA VoiceStepInv ==
  ASSUME VoiceInv, VoiceNext
  PROVE  /\ VoiceInv'
         /\ OpenVoices' \subseteq OpenVoices \/ \E v \in Voices : StartVoiceSession(v)
<1>1. ASSUME NEW v \in Voices, StartVoiceSession(v)
      PROVE  VoiceInv'
  BY <1>1, StartVoiceInv
<1>2. ASSUME NEW v \in Voices, AddVoiceChunk(v)
      PROVE  VoiceInv' /\ OpenVoices' = OpenVoices
  BY <1>2, AddVoiceChunkInv
<1>3. ASSUME NEW v \in Voices, UpdateVoiceSessionActivity(v) \/ EndVoiceSession(v)
      PROVE  VoiceInv' /\ OpenVoices' = OpenVoices
  BY <1>3, VoiceUpdateInv
<1>4. ASSUME NEW S, RemoveVoices(S)
      PROVE  VoiceInv' /\ OpenVoices' \subseteq OpenVoices
  BY <1>4, VoicesRemoved DEF RemoveVoices
<1> QED
  BY <1>1, <1>2, <1>3, <1>4 DEF VoiceNext

-----------------------------------------------------------------------------
TransferInv == StreamInv /\ VoiceInv

LEMMA TransferInitInv == TransferInit => TransferInv
<1> SUFFICES ASSUME TransferInit PROVE TransferInv
  OBVIOUS
<1> USE NoStreamType, NoVoiceType, FS_EmptySet, TransferAssumption
<1>1. OpenStreams = {} /\ OpenVoices = {}
  BY DEF TransferInit, OpenStreams, OpenVoices
<1>2. StreamTypes /\ StreamsIndexed
  BY DEF TransferInit, StreamTypes, StreamsIndexed
<1>3. StreamPool /\ VoicePool
  BY <1>1 DEF StreamPool, VoicePool
<1>4. VoiceTypes
  <2>1. voiceChunks \in [Voices -> [ChunkBytes -> Nat]]
    BY NoChunksType DEF TransferInit
  <2> QED
    BY <2>1 DEF TransferInit, VoiceTypes
<1>5. VoicesIndexed /\ VoicesOrdered
  BY <1>1 DEF TransferInit, VoicesIndexed, VoicesOrdered
<1>6. VoicesQuoted
  BY NoChunksType DEF TransferInit, VoicesQuoted
<1> QED
  BY <1>2, <1>3, <1>4, <1>5, <1>6 DEF TransferInv, StreamInv, VoiceInv

LEMMA StreamsKept ==
  StreamInv /\ UNCHANGED streamVars /\ wall' \in Nat /\ wall <= wall' => StreamInv'
<1> SUFFICES ASSUME StreamInv, UNCHANGED streamVars, wall' \in Nat, wall <= wall'
             PROVE  StreamInv'
  OBVIOUS
<1>1. StreamTypes'
  <2>1. \A s \in Streams : streams'[s].startedAt <= wall'
    BY DEF StreamInv, StreamTypes, Stream, streamVars
  <2> QED
    BY <2>1 DEF StreamInv, StreamTypes, streamVars
<1>2. StreamsIndexed' /\ OpenStreams' = OpenStreams
  BY DEF StreamInv, StreamsIndexed, OpenStreams, streamVars
<1> QED
  BY <1>1, <1>2, FewerStreams DEF StreamInv

LEMMA VoicesKept ==
  VoiceInv /\ UNCHANGED voiceVars /\ wall' \in Nat /\ wall <= wall'
    => VoiceInv' /\ OpenVoices' = OpenVoices
<1> SUFFICES ASSUME VoiceInv, UNCHANGED voiceVars, wall' \in Nat, wall <= wall'
             PROVE  VoiceInv' /\ OpenVoices' = OpenVoices
  OBVIOUS
<1>1. VoiceTypes'
  <2>1. \A v \in Voices : voices'[v].lastChunkAt <= wall'
    BY DEF VoiceInv, VoiceTypes, Voice, voiceVars
  <2> QED
    BY <2>1 DEF VoiceInv, VoiceTypes, voiceVars
<1>2. VoicesIndexed' /\ OpenVoices' = OpenVoices
  BY DEF VoiceInv, VoicesIndexed, OpenVoices, voiceVars
<1>3. VoicesOrdered'
  BY <1>2 DEF VoiceInv, VoicesOrdered, voiceVars
<1>4. VoicesQuoted'
  BY DEF VoiceInv, VoicesQuoted, voiceVars, WithinQuota
<1> QED
  BY <1>1, <1>2, <1>3, <1>4, FewerVoices DEF VoiceInv

LEMMA TransferStepInv ==
  ASSUME TransferInv, [TransferNext]_transferVars
  PROVE  /\ TransferInv'
         /\ OpenVoices' \subseteq OpenVoices \/ \E v \in Voices : StartVoiceSession(v)
<1>1. wall \in Nat
  BY DEF TransferInv, StreamInv, StreamTypes
<1>2. CASE WallTick
  BY <1>1, <1>2, StreamsKept, VoicesKept DEF WallTick, TransferInv
<1>3. CASE StreamNext
  <2>1. wall' = wall /\ UNCHANGED voiceVars
    BY <1>3 DEF StreamNext, StartStream, UpdateStreamStatus, AddToken, AddTokens, RemoveStreams
  <2> QED
    BY <1>1, <1>3, <2>1, StreamStepInv, VoicesKept DEF TransferInv
<1>4. CASE VoiceNext
  <2>1. wall' = wall /\ UNCHANGED streamVars
    BY <1>4 DEF VoiceNext, StartVoiceSession, AddVoiceChunk, UpdateVoiceSessionActivity,
                EndVoiceSession, RemoveVoices
  <2> QED
    BY <1>1, <1>4, <2>1, VoiceStepInv, StreamsKept DEF TransferInv
<1>5. CASE UNCHANGED transferVars
  BY <1>1, <1>5, StreamsKept, VoicesKept DEF transferVars, TransferInv
<1> QED
  BY <1>2, <1>3, <1>4, <1>5 DEF TransferNext

LEMMA TransferInvImplies ==
  TransferInv => TransferTypeOK /\ TransferRegistriesAgree /\ TransfersBounded
<1> SUFFICES ASSUME TransferInv
             PROVE  TransferTypeOK /\ TransferRegistriesAgree /\ TransfersBounded
  OBVIOUS
<1>1. TransferTypeOK
  BY DEF TransferInv, StreamInv, StreamTypes, VoiceInv, VoiceTypes, VoicesOrdered,
         TransferTypeOK
<1>2. TransferRegistriesAgree
  BY DEF TransferInv, StreamInv, StreamsIndexed, VoiceInv, VoicesIndexed,
         TransferRegistriesAgree
<1>3. TransfersBounded
  BY DEF TransferInv, StreamInv, StreamPool, VoiceInv, VoicePool, VoicesQuoted, PoolsBounded,
         TransfersBounded
<1> QED
  BY <1>1, <1>2, <1>3

LEMMA TransferAlways == TransferSpec => []TransferInv
BY TransferInitInv, TransferStepInv, PTL DEF TransferSpec

\* For any number of streams and voice sessions, whatever mixture of starts, evictions,
\* clean-ups and chunks: the pools keep their bounds, and a session has taken no more
\* bytes than its quota, all of them counted (streaming.manager.ts, voice.manager.ts).
THEOREM TransfersCorrect == TransferSpec => []TransfersBounded
BY TransferAlways, TransferInvImplies, PTL

\* For any number of voice sessions, a new one costs at most one session that is not
\* inactive, and that one was used no later than any that stays (ensureCapacity of
\* voice.manager.ts, with its stable sort).
THEOREM EvictionCorrect == TransferSpec => BusyVoicesKept
<1>1. TransferInv /\ [TransferNext]_transferVars =>
        [OpenVoices' \ OpenVoices # {} =>
           LET gone == OpenVoices \ OpenVoices' IN
           /\ Cardinality(gone \ Inactive(OpenVoices, Timeout)) <= 1
           /\ \A v \in gone, w \in OpenVoices \ gone :
                voices[v].lastChunkAt <= voices[w].lastChunkAt]_transferVars
  BY TransferStepInv, StartCost DEF TransferInv
<1> QED
  BY <1>1, TransferAlways, PTL DEF TransferSpec, BusyVoicesKept

-----------------------------------------------------------------------------
\* Whatever is going on in the parts of a live session, the state of each is well typed.
THEOREM TypesCorrect == SessionsSpec => []TypesOK
<1>1. AuthInv => AuthTypeOK
  BY DEF AuthInv
<1> QED
  BY <1>1, AuthAlways, GatewayAlways, GatewayInvImplies, TransferAlways, TransferInvImplies, PTL
     DEF SessionsSpec, TypesOK

\* For any number of sockets, users, rooms and interactions, streams and voice sessions:
\* every registry of the realtime layer tells the same story (connection.manager.ts,
\* typing.manager.ts, realtime-interaction.manager.ts, streaming.manager.ts,
\* voice.manager.ts).
THEOREM RegistriesCorrect == SessionsSpec => []RegistriesAgree
BY GatewayAlways, GatewayInvImplies, TransferAlways, TransferInvImplies, PTL
   DEF SessionsSpec, RegistriesAgree

=============================================================================
