------------------------------ MODULE MCOutbox ------------------------------
(* One process with two poll loops: the poller may be stopped and started  *)
(* again while its first loop still sleeps.                                *)
EXTENDS Outbox

CONSTANTS w1, l1, l2

MCWorkers == {w1}
MCLoops == {l1, l2}
MCOwner == [l \in MCLoops |-> w1]
MCRows == 1..2
=============================================================================
