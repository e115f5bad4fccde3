--------------------------- MODULE MCEventPlatform ---------------------------
EXTENDS EventPlatform

CONSTANTS p1, d1, d2

MCRows == {1}
MCLoops == {p1}
\* One delivery per entry, and one for the acceptance a fault leaves unrecorded.
MCDeliveries == {d1, d2}
=============================================================================
