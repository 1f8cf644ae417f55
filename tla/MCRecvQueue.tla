---------------------------- MODULE MCRecvQueue ----------------------------
EXTENDS RecvQueue

CONSTANTS a, b
MCMsg == {a, b}
MCDataLen == [m \in MCMsg |-> IF m = a THEN 1 ELSE 3]
=============================================================================
