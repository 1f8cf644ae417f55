--------------------------- MODULE MCMultiServer ---------------------------
EXTENDS MultiServer

CONSTANTS w1, w2
Workers == {w1, w2}
=============================================================================
