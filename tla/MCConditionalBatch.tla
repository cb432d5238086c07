------------------------- MODULE MCConditionalBatch -------------------------
EXTENDS ConditionalBatch

CONSTANTS k1, k2, k3, k4, k5
=============================================================================
