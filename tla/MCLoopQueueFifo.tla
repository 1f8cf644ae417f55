-------------------------- MODULE MCLoopQueueFifo --------------------------
(* A 16 byte buffer, 2 byte headers and messages of two sizes: a lap holds  *)
(* three to five blocks, so laps end with and without a discard header.     *)
EXTENDS LoopQueueFifo

CONSTANTS a, b
MCMsg == {a, b}
MCDataLen == [m \in MCMsg |-> IF m = a THEN 1 ELSE 3]
=============================================================================
