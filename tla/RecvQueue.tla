------------------------------ MODULE RecvQueue ------------------------------
(***************************************************************************)
(* recvQue as the threads use it.  dealRecvQue copies the front block to   *)
(* recvBuffer_ and pops it under recvLocker, but hands dealMessage the     *)
(* pointer into the queue: the worker reads the message in place after the *)
(* consumer's offset has gone past it.                                     *)
(***************************************************************************)
EXTENDS LoopQueue

CONSTANT Worker

VARIABLE dealing   \* the block each worker deals with: its offset and message

qvars == <<head, tail, mem, resv, hand, dealing>>

QInit == Init /\ dealing = [w \in Worker |-> None]

Push == Producer /\ UNCHANGED dealing

Look == FrontBlock /\ UNCHANGED dealing

Pop(w) ==
  /\ dealing[w] = None
  /\ PopBlock
  /\ dealing' = [dealing EXCEPT ![w] = [off |-> head, msg |-> hand.msg]]

Done(w) ==
  /\ dealing[w] # None
  /\ dealing' = [dealing EXCEPT ![w] = None]
  /\ UNCHANGED vars

QNext == Push \/ Look \/ \E w \in Worker : Pop(w) \/ Done(w)

QSpec == QInit /\ [][QNext]_qvars

\* A worker deals with the message it took: the header and the data behind its
\* pointer are still those of the block it popped.
DealtIntact ==
  \A w \in Worker :
    dealing[w] # None =>
      LET c == mem[dealing[w].off]
      IN c.kind = "block" /\ c.msg = dealing[w].msg /\ c.data = dealing[w].msg
=============================================================================
