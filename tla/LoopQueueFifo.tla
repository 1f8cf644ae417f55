---------------------------- MODULE LoopQueueFifo ----------------------------
(***************************************************************************)
(* LoopQueue against Fifo, the consumer never inside the producer's calls. *)
(*                                                                         *)
(* LoopQueue is a first-in first-out queue only while the producer keeps   *)
(* away from a full buffer: a push that wraps while head_ is still 0       *)
(* makes the full queue look empty, and a push refused after it wrapped    *)
(* makes the consumer read the last lap again.  calm says that every push  *)
(* so far left room for twice its block.                                   *)
(***************************************************************************)
EXTENDS LoopQueue, Sequences

CONSTANT KeepAll  \* is unread kept when the queue is not calm any more?

VARIABLES
  unread,  \* history: messages pushed and not popped, with their offsets
  calm     \* history: every push left room for twice its block

hvars == <<head, tail, mem, resv, hand, unread, calm>>

HInit == Init /\ unread = <<>> /\ calm = TRUE

\* Bytes from head_ to offset x, going round the end of the buffer.
Ahead(x) == IF x >= head THEN x - head ELSE BufLen - head + x
Used == Ahead(tail)

Calm(m) == Used + 2 * BlockLen(m) <= BufLen

\* After a push that was not calm unread would grow for ever: what was put in
\* is lost.
Keep(q) == unread' = IF calm' \/ KeepAll THEN q ELSE <<>>

HPush(m) == /\ BufferForPush(m) \/ RefusePush(m)
            /\ calm' = (calm /\ Calm(m))
            /\ Keep(unread)

HPushFinish == /\ PushFinish
               /\ UNCHANGED calm
               /\ Keep(Append(unread, [off |-> tail, msg |-> resv]))

HFrontBlock == resv = None /\ FrontBlock /\ UNCHANGED <<unread, calm>>

HPopBlock == /\ resv = None /\ PopBlock
             /\ UNCHANGED calm
             /\ Keep(IF unread = <<>> THEN <<>> ELSE Tail(unread))

HNext == (\E m \in Msg : HPush(m)) \/ HPushFinish \/ HFrontBlock \/ HPopBlock

HSpec == HInit /\ [][HNext]_hvars

-----------------------------------------------------------------------------
F == INSTANCE Fifo
       WITH queue <- [i \in 1 .. Len(unread) |-> unread[i].msg],
            hand  <- IF hand = None THEN None ELSE hand.data

\* The queue the threads use is the one they expect: what FrontBlock shows is
\* the data of the oldest unread message, and PopBlock removes that message.
ImplementsFifo == F!Spec

\* A push that leaves room for two blocks is never refused.
CalmPushAccepted == \A m \in Msg : calm /\ resv = None /\ Calm(m) => ~Full(m)

\* It is that queue, and refuses nothing, as long as every push leaves room for
\* twice its block.
CalmIsFifo ==
  F!Init /\ [][calm' => F!Next]_(F!vars) /\ []CalmPushAccepted

-----------------------------------------------------------------------------
(* Why it is: where the unread messages are while the queue is calm.       *)

EndOf(u) == u.off + BlockLen(u.msg)

\* A consumer that has read up to p finds the next block at x.
Leads(p, x) ==
  \/ x = p
  \/ /\ x = 0
     /\ p + HeadLen > BufLen \/ (p \in Cell /\ mem[p].kind = "discard")

\* Every unread message is whole, in the block that was written for it.
Whole == \A i \in 1 .. Len(unread) :
  LET u == unread[i]
  IN /\ u \in [off : Cell, msg : Msg]
     /\ EndOf(u) <= BufLen
     /\ mem[u.off] = [Block(u.msg) EXCEPT !.data = u.msg]

\* Going round from head_, their blocks come one after the other, before tail_.
Ordered == \A i \in 1 .. Len(unread) :
  LET end == Ahead(unread[i].off) + BlockLen(unread[i].msg)
  IN /\ end <= Used
     /\ \A j \in i + 1 .. Len(unread) : end <= Ahead(unread[j].off)

\* head_ leads to the first, each to the next, and the last to tail_.
LastEnd == IF unread = <<>> THEN head ELSE EndOf(unread[Len(unread)])
Connected ==
  /\ unread # <<>> => Leads(head, unread[1].off)
  /\ \A i \in 1 .. Len(unread) - 1 : Leads(EndOf(unread[i]), unread[i + 1].off)
  /\ IF resv = None THEN tail = LastEnd ELSE Leads(LastEnd, tail)

\* The message in hand is the oldest.
HandIsOldest ==
  hand # None =>
    unread # <<>> /\ unread[1].off = head /\ hand.data = unread[1].msg

CalmInv ==
  /\ IInv
  /\ unread \in Seq([off : 0 .. BufLen, msg : Msg]) /\ calm \in BOOLEAN
  /\ calm => Whole /\ Ordered /\ Connected /\ HandIsOldest
=============================================================================
