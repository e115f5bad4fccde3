------------------------ MODULE MCLiveAndNotification ------------------------
(***************************************************************************)
(* The parts that serve a live session and the notification engine share   *)
(* nothing, so that one run checks each of them by itself: part, which     *)
(* never changes, says which one moves, and the state space is their sum.  *)
(***************************************************************************)
EXTENDS LiveSessions, Notification

CONSTANTS c1, c2, c3, s1, s2, k1, k2, u1, u2, r1, i1, t1, t2, v1, v2, v3, p1, p2

VARIABLE part

MCCalls == {c1, c2, c3}
MCSessions == {s1, s2}
MCUser == {u1}
MCUsers == {u1, u2}
MCSockets == {k1, k2}
MCChats == {r1}
MCInteractions == {i1}
MCStreams == {t1, t2}
MCVoices == {v1, v2, v3}

MCNotifications == 1..2
MCKeys == {k1}
MCPasses == {p1, p2}
MCDelays == {0}
MCTtls == {0}

MCInit ==
  /\ part \in {"auth", "gateway", "streams", "voices", "notification"}
  /\ AuthInit /\ GatewayInit /\ TransferInit /\ Init

MCNext ==
  \/ /\ part = "auth" /\ AuthNext
     /\ UNCHANGED <<part, gatewayVars, transferVars, vars>>
  \/ /\ part = "gateway" /\ GatewayNext
     /\ UNCHANGED <<part, sessionVars, transferVars, vars>>
  \/ /\ \/ WallTick
        \/ part = "streams" /\ StreamNext
        \/ part = "voices" /\ VoiceNext
     /\ part \in {"streams", "voices"}
     /\ UNCHANGED <<part, sessionVars, gatewayVars, vars>>
  \/ /\ part = "notification" /\ Next
     /\ UNCHANGED <<part, sessionVars, gatewayVars, transferVars>>

\* Fairness is that of Notification's LiveSpec: where notifications do not move, no pass
\* has a step to take.
MCSpec == /\ MCInit /\ [][MCNext]_<<part, sessionVars, gatewayVars, transferVars, vars>>
          /\ \A p \in Passes : WF_vars(PassStep(p))

=============================================================================
