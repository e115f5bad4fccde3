------------------------- MODULE RealtimeTransfers -------------------------
(***************************************************************************)
(* The transfers of the realtime layer: token streams, whose places are    *)
(* freed only when they have ended and aged, and voice sessions, of which  *)
(* the least recently used gives way to a new one.  Both are bounded, and  *)
(* both are indexed a second time.                                         *)
(***************************************************************************)
EXTENDS Naturals, FiniteSets, Sequences

CONSTANTS Streams, Voices,    \* ids, used once each
          Talks,              \* the interactions that streams belong to
          Speakers,           \* the users who speak
          MaxStreams,         \* MAX_STREAMS
          MaxTokens,          \* MAX_TOKENS_PER_STREAM
          MaxBytes,           \* MAX_BYTES_PER_SESSION
          MaxVoices,          \* MAX_VOICE_SESSIONS
          Timeout,            \* STREAM_TIMEOUT_MS and VOICE_SESSION_TIMEOUT_MS, ticks
          TokenBound,         \* bound on the tokens, which addToken does not limit
          WallBound           \* bound on the clock

ASSUME TransferAssumption ==
  /\ MaxStreams \in Nat \ {0} /\ MaxVoices \in Nat \ {0}
  /\ MaxTokens \in Nat /\ MaxBytes \in Nat /\ Timeout \in Nat
  /\ TokenBound \in Nat /\ WallBound \in Nat

VARIABLES
  wall,               \* the clock
  streams,            \* [Streams -> Stream]
  interactionStreams, \* [Talks -> SUBSET Streams]
  voices,             \* [Voices -> Voice]
  voiceOrder,         \* SUBSET (Voices \X Voices): who was put in the map before whom
  voiceChunks,        \* [Voices -> [ChunkBytes -> Nat]]: the chunks, by their lengths
  userVoiceSessions   \* [Speakers -> SUBSET Voices]

streamVars == <<streams, interactionStreams>>
voiceVars == <<voices, voiceOrder, voiceChunks, userVoiceSessions>>
transferVars == <<wall, streamVars, voiceVars>>

StreamEnd == {"COMPLETED", "CANCELLED", "ERROR"}
StreamStatus == {"none", "PENDING", "STREAMING"} \cup StreamEnd
\* of is the stream's interaction, tokens are the indexes its tokens were given.
Stream == [status : StreamStatus, of : SUBSET Talks, startedAt : Nat, tokens : Seq(Nat)]
Voice == [user : SUBSET Speakers, lastChunkAt : Nat, chunkCount : Nat,
          totalBytes : Nat, isActive : BOOLEAN]

\* A chunk is short or long.
ChunkBytes == 1..2
NoChunks == [n \in ChunkBytes |-> 0]

NoStream == [status |-> "none", of |-> {}, startedAt |-> 0, tokens |-> << >>]
NoVoice == [user |-> {}, lastChunkAt |-> 0, chunkCount |-> 0, totalBytes |-> 0,
            isActive |-> FALSE]

TransferInit ==
  /\ wall = 0
  /\ streams = [s \in Streams |-> NoStream]
  /\ interactionStreams = [t \in Talks |-> {}]
  /\ voices = [v \in Voices |-> NoVoice]
  /\ voiceOrder = {}
  /\ voiceChunks = [v \in Voices |-> NoChunks]
  /\ userVoiceSessions = [u \in Speakers |-> {}]

OpenStreams == {s \in Streams : streams[s].status # "none"}
OpenVoices == {v \in Voices : voices[v].user # {}}

WallTick ==
  /\ wall < WallBound /\ wall' = wall + 1
  /\ UNCHANGED <<streamVars, voiceVars>>

-----------------------------------------------------------------------------
\* StreamingManager.

ExpiredStreams ==
  {s \in OpenStreams : streams[s].status \in StreamEnd
                         /\ wall - streams[s].startedAt > Timeout}

HasRoom(S) == Cardinality(OpenStreams \ S) < MaxStreams

\* startStream: the expired streams are removed also if it throws then.
StartStream(s) ==
  /\ streams[s].status = "none"
  /\ \E t \in Talks :
       LET gone == ExpiredStreams
           starts == HasRoom(gone)
       IN /\ streams' = [x \in Streams |->
               IF x \in gone THEN NoStream
               ELSE IF x = s /\ starts
                 THEN [NoStream EXCEPT !.status = "PENDING", !.of = {t}, !.startedAt = wall]
               ELSE streams[x]]
          /\ interactionStreams' = [x \in Talks |->
               (interactionStreams[x] \ gone) \cup (IF x = t /\ starts THEN {s} ELSE {})]
  /\ UNCHANGED <<wall, voiceVars>>

\* updateStreamStatus, which cancelStream, completeStream and errorStream call; an
\* ended stream may get any status again.
UpdateStreamStatus(s) ==
  /\ s \in OpenStreams
  /\ \E status \in StreamStatus \ {"none"} :
       streams' = [streams EXCEPT ![s].status = status]
  /\ UNCHANGED <<wall, interactionStreams, voiceVars>>

\* The i-th token, from 0, of a batch is given the index tokens.length + i, when i
\* tokens of the batch have been pushed.
PushAll(tokens, n) == tokens \o [i \in 1..n |-> Len(tokens) + 2 * (i - 1)]

\* addToken has no limit.
AddToken(s) ==
  /\ s \in OpenStreams /\ Len(streams[s].tokens) < TokenBound
  /\ streams' = [streams EXCEPT ![s].tokens = Append(@, Len(@))]
  /\ UNCHANGED <<wall, interactionStreams, voiceVars>>

AddTokens(s) ==
  /\ s \in OpenStreams
  /\ \E n \in 1..MaxTokens :
       /\ Len(streams[s].tokens) + n <= MaxTokens
       /\ streams' = [streams EXCEPT ![s].tokens = PushAll(@, n)]
  /\ UNCHANGED <<wall, interactionStreams, voiceVars>>

RemoveStreams(S) ==
  /\ S # {}
  /\ streams' = [s \in Streams |-> IF s \in S THEN NoStream ELSE streams[s]]
  /\ interactionStreams' = [t \in Talks |-> interactionStreams[t] \ S]
  /\ UNCHANGED <<wall, voiceVars>>

StreamNext ==
  \/ \E s \in Streams : \/ StartStream(s) \/ UpdateStreamStatus(s)
                        \/ AddToken(s) \/ AddTokens(s)
                        \/ RemoveStreams({s} \cap OpenStreams)
  \/ RemoveStreams(ExpiredStreams)

-----------------------------------------------------------------------------
\* VoiceManager.

Inactive(S, timeout) == {v \in S : wall - voices[v].lastChunkAt > timeout}

\* A mutant: the session that was started first gives way.
LeastRecent_First ==
  {v \in OpenVoices : \A w \in OpenVoices \ {v} : <<v, w>> \in voiceOrder}

\* The sort is stable: of two last chunks of one time, the first session comes first.
UsedBefore(v, w) ==
  \/ voices[v].lastChunkAt < voices[w].lastChunkAt
  \/ voices[v].lastChunkAt = voices[w].lastChunkAt /\ <<v, w>> \in voiceOrder

LeastRecent == {v \in OpenVoices : \A w \in OpenVoices \ {v} : UsedBefore(v, w)}

\* ensureCapacity, before the inactive sessions are removed.
Evicted == IF Cardinality(OpenVoices) >= MaxVoices THEN LeastRecent ELSE {}

OrderOf(S) == voiceOrder \cap (S \X S)

Without(S) ==
  /\ voiceOrder' = OrderOf(OpenVoices \ S)
  /\ voices' = [v \in Voices |-> IF v \in S THEN NoVoice ELSE voices[v]]
  /\ voiceChunks' = [v \in Voices |-> IF v \in S THEN NoChunks ELSE voiceChunks[v]]
  /\ userVoiceSessions' = [u \in Speakers |-> userVoiceSessions[u] \ S]

StartVoiceSession(v) ==
  /\ v \notin OpenVoices
  /\ \E u \in Speakers :
       LET gone == Evicted \cup Inactive(OpenVoices \ Evicted, Timeout) IN
       /\ voices' = [x \in Voices |->
            IF x = v THEN [NoVoice EXCEPT !.user = {u}, !.lastChunkAt = wall,
                                          !.isActive = TRUE]
            ELSE IF x \in gone THEN NoVoice ELSE voices[x]]
       /\ voiceOrder' = OrderOf(OpenVoices \ gone) \cup ((OpenVoices \ gone) \X {v})
       /\ voiceChunks' = [x \in Voices |->
            IF x \in gone \cup {v} THEN NoChunks ELSE voiceChunks[x]]
       /\ userVoiceSessions' = [x \in Speakers |->
            (userVoiceSessions[x] \ gone) \cup (IF x = u THEN {v} ELSE {})]
  /\ UNCHANGED <<wall, streamVars>>

\* A mutant: the limit is checked without the chunk that arrives.
FitsIn_BytesSoFar(bytes, n) == bytes < MaxBytes

FitsIn(bytes, n) == bytes + n <= MaxBytes

\* A chunk over the limit is refused with an exception; an ended session still
\* takes chunks.
AddVoiceChunk(v) ==
  /\ v \in OpenVoices
  /\ \E n \in ChunkBytes :
       /\ FitsIn(voices[v].totalBytes, n)
       /\ voices' = [voices EXCEPT ![v].lastChunkAt = wall,
                                   ![v].chunkCount = @ + 1,
                                   ![v].totalBytes = @ + n]
       /\ voiceChunks' = [voiceChunks EXCEPT ![v][n] = @ + 1]
  /\ UNCHANGED <<wall, streamVars, voiceOrder, userVoiceSessions>>

\* A mutant: the time at which the session becomes inactive is kept instead.
UpdateVoiceSessionActivity_Deadline(v) ==
  /\ v \in OpenVoices
  /\ voices' = [voices EXCEPT ![v].lastChunkAt = wall + Timeout]
  /\ UNCHANGED <<wall, streamVars, voiceOrder, voiceChunks, userVoiceSessions>>

UpdateVoiceSessionActivity(v) ==
  /\ v \in OpenVoices
  /\ voices' = [voices EXCEPT ![v].lastChunkAt = wall]
  /\ UNCHANGED <<wall, streamVars, voiceOrder, voiceChunks, userVoiceSessions>>

EndVoiceSession(v) ==
  /\ v \in OpenVoices
  /\ voices' = [voices EXCEPT ![v].isActive = FALSE]
  /\ UNCHANGED <<wall, streamVars, voiceOrder, voiceChunks, userVoiceSessions>>

\* removeVoiceSession, and cleanupInactiveSessions with a timeout of the caller.
RemoveVoices(S) == S # {} /\ Without(S) /\ UNCHANGED <<wall, streamVars>>

VoiceNext ==
  \/ \E v \in Voices : \/ StartVoiceSession(v) \/ AddVoiceChunk(v)
                       \/ UpdateVoiceSessionActivity(v) \/ EndVoiceSession(v)
                       \/ RemoveVoices({v} \cap OpenVoices)
  \/ \E timeout \in 1..Timeout : RemoveVoices(Inactive(OpenVoices, timeout))

TransferNext == WallTick \/ StreamNext \/ VoiceNext

TransferSpec == TransferInit /\ [][TransferNext]_transferVars

-----------------------------------------------------------------------------
\* Properties.

TransferTypeOK ==
  /\ wall \in Nat
  /\ streams \in [Streams -> Stream]
  /\ interactionStreams \in [Talks -> SUBSET Streams]
  /\ voices \in [Voices -> Voice]
  /\ \A v \in Voices : voices[v].lastChunkAt <= wall
  /\ \A s \in Streams : streams[s].startedAt <= wall
  /\ voiceOrder \subseteq OpenVoices \X OpenVoices
  /\ \A v, w \in OpenVoices : v # w => (<<v, w>> \in voiceOrder <=> <<w, v>> \notin voiceOrder)
  /\ voiceChunks \in [Voices -> [ChunkBytes -> Nat]]
  /\ userVoiceSessions \in [Speakers -> SUBSET Voices]

\* The second indexes of streams and of voice sessions hold what the maps hold.
TransferRegistriesAgree ==
  /\ \A s \in Streams, t \in Talks : s \in interactionStreams[t] <=> t \in streams[s].of
  /\ \A v \in Voices, u \in Speakers : v \in userVoiceSessions[u] <=> u \in voices[v].user

PoolsBounded ==
  Cardinality(OpenStreams) <= MaxStreams /\ Cardinality(OpenVoices) <= MaxVoices

WithinQuota(voice, chunks) ==
  /\ voice.totalBytes = chunks[1] + 2 * chunks[2] /\ voice.totalBytes <= MaxBytes
  /\ voice.chunkCount = chunks[1] + chunks[2]

\* The pools keep their bounds, and a voice session its quota, whatever mixture of
\* starts, evictions, clean-ups and chunks: its bytes are those of its chunks.
TransfersBounded ==
  PoolsBounded /\ \A v \in Voices : WithinQuota(voices[v], voiceChunks[v])

\* A new voice session costs at most one session that is not inactive, and that
\* one was used no later than any that stays.
BusyVoicesKept ==
  [][OpenVoices' \ OpenVoices # {} =>
       LET gone == OpenVoices \ OpenVoices' IN
       /\ Cardinality(gone \ Inactive(OpenVoices, Timeout)) <= 1
       /\ \A v \in gone, w \in OpenVoices \ gone :
            voices[v].lastChunkAt <= voices[w].lastChunkAt]_transferVars

=============================================================================
