-------------------------- MODULE RealtimeGateway --------------------------
(***************************************************************************)
(* The socket gateway and the managers it drives: each handler runs to its *)
(* end at once, but what it leaves is spread over registries, by socket,   *)
(* by user, by session, by room and by interaction, that have to agree     *)
(* while sockets come and go, two of them for the same user.               *)
(***************************************************************************)
EXTENDS Naturals, FiniteSets

CONSTANTS Sockets,       \* socket ids, used once each
          People,        \* the users
          Sessions,
          Chats,         \* ids that clients name as rooms to type in
          Interactions,  \* ids of interactions, used once each
          MaxMessages,   \* bound on the messages of an interaction
          Nobody

ASSUME GatewayConstants == Nobody \notin People /\ Sessions # {} /\ MaxMessages \in Nat

VARIABLES
  wire,               \* [Sockets -> {"new", "up", "down"}]: Socket.IO's view
  connections,        \* [Sockets -> [user, session]], user Nobody if not registered
  handshake,          \* [Sockets -> [user, session]]: socket.data.authPayload
  userConnections,    \* [People -> SUBSET Sockets]
  sessionConnections, \* [Sessions -> SUBSET Sockets]
  heartbeats,         \* SUBSET Sockets
  presence,           \* [People -> Presence]
  typingSessions,     \* SUBSET (People \X Chats)
  expiredTyping,      \* those of them whose expiresAt is past
  roomTyping,         \* [Chats -> SUBSET People]
  interactions,       \* [Interactions -> Interaction]
  userInteractions,   \* [People -> SUBSET Interactions]
  sessionInteractions \* [Sessions -> SUBSET Interactions]

connectionVars == <<wire, connections, handshake, userConnections, sessionConnections,
                    heartbeats>>
typingVars == <<typingSessions, expiredTyping, roomTyping>>
interactionVars == <<interactions, userInteractions, sessionInteractions>>
gatewayVars == <<connectionVars, presence, typingVars, interactionVars>>

\* A client may ask for any status of its own.
Presence == {"none", "ONLINE", "OFFLINE", "BUSY"}
InteractionStatus == {"none", "STARTING", "STOPPED"}
Payload == [user : People \cup {Nobody}, session : Sessions]
Interaction == [status : InteractionStatus, owner : Payload,
                messages : Nat, userTurns : Nat, companionTurns : Nat]

NoConnection == [user |-> Nobody, session |-> CHOOSE s \in Sessions : TRUE]
NoInteraction == [status |-> "none", owner |-> NoConnection,
                  messages |-> 0, userTurns |-> 0, companionTurns |-> 0]

Registered == {k \in Sockets : connections[k].user # Nobody}

GatewayInit ==
  /\ wire = [k \in Sockets |-> "new"]
  /\ connections = [k \in Sockets |-> NoConnection]
  /\ handshake = [k \in Sockets |-> NoConnection]
  /\ userConnections = [u \in People |-> {}]
  /\ sessionConnections = [s \in Sessions |-> {}]
  /\ heartbeats = {}
  /\ presence = [u \in People |-> "none"]
  /\ typingSessions = {} /\ expiredTyping = {}
  /\ roomTyping = [r \in Chats |-> {}]
  /\ interactions = [i \in Interactions |-> NoInteraction]
  /\ userInteractions = [u \in People |-> {}]
  /\ sessionInteractions = [s \in Sessions |-> {}]

-----------------------------------------------------------------------------
\* The handler of "connection": the middleware has let the socket in.
Connection(k) ==
  /\ wire[k] = "new"
  /\ \E who \in [user : People, session : Sessions] :
       /\ handshake' = [handshake EXCEPT ![k] = who]
       /\ connections' = [connections EXCEPT ![k] = who]
       /\ userConnections' = [userConnections EXCEPT ![who.user] = @ \cup {k}]
       /\ sessionConnections' = [sessionConnections EXCEPT ![who.session] = @ \cup {k}]
       /\ presence' = [presence EXCEPT ![who.user] = "ONLINE"]
  /\ heartbeats' = heartbeats \cup {k}
  /\ wire' = [wire EXCEPT ![k] = "up"]
  /\ UNCHANGED <<typingVars, interactionVars>>

\* A socket goes down: the handler of its own "disconnect" only ends its pings.
SocketDown(k) ==
  /\ wire[k] = "up"
  /\ wire' = [wire EXCEPT ![k] = "down"]
  /\ UNCHANGED <<connections, handshake, userConnections, sessionConnections,
                 heartbeats, presence, typingVars, interactionVars>>

SetUserOffline(k, u) == presence' = [presence EXCEPT ![u] = "OFFLINE"]

\* A mutant: the socket stays in the index of its session.
RemoveConnection_SessionIndexKept(k) ==
  /\ connections' = [connections EXCEPT ![k] = NoConnection]
  /\ userConnections' = [userConnections EXCEPT ![connections[k].user] = @ \ {k}]
  /\ UNCHANGED sessionConnections

RemoveConnection(k) ==
  /\ connections' = [connections EXCEPT ![k] = NoConnection]
  /\ userConnections' = [userConnections EXCEPT ![connections[k].user] = @ \ {k}]
  /\ sessionConnections' = [sessionConnections EXCEPT ![connections[k].session] = @ \ {k}]

\* The server's handler of "disconnect".  Nothing in the repository makes the
\* server call it, so that it may run late, or not at all.
Disconnection(k) ==
  /\ wire[k] = "down" /\ k \in Registered
  /\ RemoveConnection(k)
  /\ SetUserOffline(k, connections[k].user)
  /\ heartbeats' = heartbeats \ {k}
  /\ UNCHANGED <<wire, handshake, typingVars, interactionVars>>

-----------------------------------------------------------------------------
\* Events of a live socket, which the user of its handshake sends.

PresenceUpdate(k) ==
  /\ wire[k] = "up" /\ presence[handshake[k].user] # "none"
  /\ \E status \in Presence \ {"none"} :
       presence' = [presence EXCEPT ![handshake[k].user] = status]
  /\ UNCHANGED <<connectionVars, typingVars, interactionVars>>

TypingStart(k) ==
  /\ wire[k] = "up"
  /\ \E r \in Chats : LET u == handshake[k].user IN
       /\ typingSessions' = typingSessions \cup {<<u, r>>}
       /\ expiredTyping' = expiredTyping \ {<<u, r>>}
       /\ roomTyping' = [roomTyping EXCEPT ![r] = @ \cup {u}]
  /\ UNCHANGED <<connectionVars, presence, interactionVars>>

TypingStop(k) ==
  /\ wire[k] = "up"
  /\ \E r \in Chats : LET u == handshake[k].user IN
       /\ typingSessions' = typingSessions \ {<<u, r>>}
       /\ expiredTyping' = expiredTyping \ {<<u, r>>}
       /\ roomTyping' = [roomTyping EXCEPT ![r] = @ \ {u}]
  /\ UNCHANGED <<connectionVars, presence, interactionVars>>

InteractionStart(k) ==
  /\ wire[k] = "up"
  /\ \E i \in Interactions : LET who == handshake[k] IN
       /\ interactions[i].status = "none"
       /\ interactions' = [interactions EXCEPT ![i] =
            [NoInteraction EXCEPT !.status = "STARTING", !.owner = who]]
       /\ userInteractions' = [userInteractions EXCEPT ![who.user] = @ \cup {i}]
       /\ sessionInteractions' = [sessionInteractions EXCEPT ![who.session] = @ \cup {i}]
  /\ UNCHANGED <<connectionVars, presence, typingVars>>

Turn(it, byUser) ==
  IF byUser THEN [it EXCEPT !.messages = @ + 1, !.userTurns = @ + 1]
            ELSE [it EXCEPT !.messages = @ + 1, !.companionTurns = @ + 1]

\* The interaction may be of another user, and it may be stopped.
InteractionMessage(k) ==
  /\ wire[k] = "up"
  /\ \E i \in Interactions, byUser \in BOOLEAN :
       /\ interactions[i].status # "none" /\ interactions[i].messages < MaxMessages
       /\ interactions' = [interactions EXCEPT ![i] = Turn(@, byUser)]
  /\ UNCHANGED <<connectionVars, presence, typingVars, userInteractions,
                 sessionInteractions>>

InteractionStop(k) ==
  /\ wire[k] = "up"
  /\ \E i \in Interactions :
       /\ interactions[i].status # "none"
       /\ interactions' = [interactions EXCEPT ![i].status = "STOPPED"]
  /\ UNCHANGED <<connectionVars, presence, typingVars, userInteractions,
                 sessionInteractions>>

TypingExpires ==
  /\ \E t \in typingSessions : expiredTyping' = expiredTyping \cup {t}
  /\ UNCHANGED <<connectionVars, presence, typingSessions, roomTyping, interactionVars>>

CleanupExpiredTyping ==
  roomTyping' = [r \in Chats |-> roomTyping[r] \ {u \in People : <<u, r>> \in expiredTyping}]

\* shutdown(): the registry cleans up, then io.close() takes every socket down.
Shutdown ==
  /\ typingSessions' = typingSessions \ expiredTyping
  /\ expiredTyping' = {}
  /\ CleanupExpiredTyping
  /\ wire' = [k \in Sockets |-> "down"]
  /\ UNCHANGED <<connections, handshake, userConnections, sessionConnections,
                 heartbeats, presence, interactionVars>>

SocketStep(k) ==
  \/ Connection(k) \/ SocketDown(k) \/ Disconnection(k)
  \/ PresenceUpdate(k) \/ TypingStart(k) \/ TypingStop(k)
  \/ InteractionStart(k) \/ InteractionMessage(k) \/ InteractionStop(k)

GatewayNext == Shutdown \/ TypingExpires \/ \E k \in Sockets : SocketStep(k)

GatewaySpec == GatewayInit /\ [][GatewayNext]_gatewayVars

-----------------------------------------------------------------------------
\* Properties.

GatewayTypeOK ==
  /\ wire \in [Sockets -> {"new", "up", "down"}]
  /\ connections \in [Sockets -> Payload] /\ handshake \in [Sockets -> Payload]
  /\ userConnections \in [People -> SUBSET Sockets]
  /\ sessionConnections \in [Sessions -> SUBSET Sockets]
  /\ heartbeats \subseteq Sockets
  /\ presence \in [People -> Presence]
  /\ typingSessions \subseteq People \X Chats /\ expiredTyping \subseteq typingSessions
  /\ roomTyping \in [Chats -> SUBSET People]
  /\ interactions \in [Interactions -> Interaction]
  /\ userInteractions \in [People -> SUBSET Interactions]
  /\ sessionInteractions \in [Sessions -> SUBSET Interactions]

\* A user who is shown as present has a registered connection, and every live
\* socket is registered: presence that outlives its connections would never be
\* corrected.  (The converse does not hold: one of two sockets that goes takes the
\* user offline.)
GoneIsOffline ==
  /\ \A k \in Sockets : wire[k] = "up" => k \in Registered
  /\ \A u \in People : presence[u] \notin {"none", "OFFLINE"} => userConnections[u] # {}

\* Every registry tells the same story: a socket is indexed under its user and its
\* session, and has a heartbeat record, exactly while its connection is registered;
\* presence does not outlive the connections; a room shows as typing exactly who has a
\* typing session there; an interaction is indexed under its owner, and its turns add
\* up to its messages.  (They agree with each other, not with the sockets: the
\* connection of a socket that has gone down may stay registered.)
GatewayRegistriesAgree ==
  /\ heartbeats = Registered
  /\ \A u \in People : userConnections[u] = {k \in Registered : connections[k].user = u}
  /\ \A s \in Sessions :
       sessionConnections[s] = {k \in Registered : connections[k].session = s}
  /\ GoneIsOffline
  /\ \A r \in Chats : roomTyping[r] = {u \in People : <<u, r>> \in typingSessions}
  /\ \A i \in Interactions : LET it == interactions[i] IN
       /\ it.messages = it.userTurns + it.companionTurns
       /\ \A u \in People : i \in userInteractions[u] <=>
                              it.status # "none" /\ it.owner.user = u
       /\ \A s \in Sessions : i \in sessionInteractions[s] <=>
                                it.status # "none" /\ it.owner.session = s
=============================================================================
