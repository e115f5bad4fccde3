---------------------------- MODULE LiveSessions ----------------------------
(***************************************************************************)
(* The parts that serve a live session: the sessions of its user, the      *)
(* socket gateway with its registries, and the transfers of the realtime   *)
(* layer.  Each keeps a state of its own and moves by itself.              *)
(***************************************************************************)
EXTENDS AuthSessions, RealtimeGateway, RealtimeTransfers

SessionsSpec == AuthSpec /\ GatewaySpec /\ TransferSpec

\* The type invariants of the parts.
TypesOK == AuthTypeOK /\ GatewayTypeOK /\ TransferTypeOK

\* The registries of the gateway and of its transfers agree.
RegistriesAgree == GatewayRegistriesAgree /\ TransferRegistriesAgree

=============================================================================
