--------------------------- MODULE MCLookupCache ---------------------------
EXTENDS LookupCache

CONSTANTS c1, c2, t1
=============================================================================
