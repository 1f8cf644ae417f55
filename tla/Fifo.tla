-------------------------------- MODULE Fifo --------------------------------
(***************************************************************************)
(* What a caller of LoopQueue expects of it: a first-in first-out queue.   *)
(* A consumer looks at the oldest message (FrontBlock) and then removes    *)
(* that same message (PopBlock).  Nothing is lost, repeated, reordered or  *)
(* made up.                                                                *)
(***************************************************************************)
EXTENDS Sequences

CONSTANTS
  Msg,     \* the messages
  None     \* no message in hand

VARIABLES
  queue,   \* messages accepted and not removed yet, oldest first
  hand     \* the message the consumer is looking at, or None

vars == <<queue, hand>>

Init == queue = <<>> /\ hand = None

Put(m) == /\ queue' = Append(queue, m)
          /\ UNCHANGED hand

Look == /\ hand = None
        /\ queue # <<>>
        /\ hand' = Head(queue)
        /\ UNCHANGED queue

Remove == /\ hand # None
          /\ queue # <<>>
          /\ hand = Head(queue)
          /\ queue' = Tail(queue)
          /\ hand' = None

Next == (\E m \in Msg : Put(m)) \/ Look \/ Remove

Spec == Init /\ [][Next]_vars
=============================================================================
