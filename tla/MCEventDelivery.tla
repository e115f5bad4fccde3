--------------------------- MODULE MCEventDelivery ---------------------------
EXTENDS EventDelivery

CONSTANTS d1, d2, e1

MCDeliveries == {d1, d2}
MCEvents == {e1}
=============================================================================
