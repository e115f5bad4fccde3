---------------------------- MODULE MCLlmGateway ----------------------------
EXTENDS LlmGateway

CONSTANTS p1, p2, r1, r2, r3

MCProviders == {p1, p2}
MCRequests == {r1, r2, r3}
=============================================================================
