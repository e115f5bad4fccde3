------------------------ MODULE MCPlatformAndEngines ------------------------
(***************************************************************************)
(* The event platform shares nothing with the engines and stores, so that  *)
(* one run checks both: half, which never changes, says which one moves,   *)
(* and the state space is their sum.                                       *)
(***************************************************************************)
EXTENDS MCEventPlatform, MCEnginesAndStores

VARIABLE half

\* Where the platform moves, the engines rest in one of their initial states.
MCBothInit ==
  /\ half \in {"platform", "engines"}
  /\ Init /\ MCInit
  /\ half = "platform" => part = "moments"

MCBothNext ==
  \/ half = "platform" /\ Next /\ UNCHANGED <<half, engineVars>>
  \/ half = "engines" /\ MCNext /\ UNCHANGED <<half, vars>>

\* Fairness is that of EventPlatform's LiveSpec: where the platform does not move, no
\* loop and no delivery has a step to take.
MCBothSpec ==
  /\ MCBothInit /\ [][MCBothNext]_<<half, vars, engineVars>>
  /\ \A l \in Loops : WF_vars(LoopStep(l))
  /\ \A d \in Deliveries : WF_vars(HandlerStep(d))

=============================================================================
