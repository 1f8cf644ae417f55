------------------------------ MODULE LoopQueue ------------------------------
(***************************************************************************)
(* framework/LoopQueue: the circular byte buffer that carries messages     *)
(* between the network thread and the worker threads (recvQue one way,     *)
(* sendQue the other).  A message is a block: a header of HeadLen bytes    *)
(* (struct block: len, discard, fd, remote, type, datalen) followed by its *)
(* data.  head_ is where the consumer reads, tail_ where the producer      *)
(* writes; head_ = tail_ is the empty queue.                               *)
(*                                                                         *)
(* One action is one call of one method.  The class has no lock, and       *)
(* neither queue is locked on both sides by its callers, so Spec lets the  *)
(* producer's and the consumer's calls interleave; SerialSpec is the       *)
(* sequential contract, where the pair BufferForPush .. PushFinish is one  *)
(* step for the consumer.                                                  *)
(***************************************************************************)
EXTENDS Integers

CONSTANTS
  BufLen,    \* bufflen_
  HeadLen,   \* sizeof(block_t)
  Msg,       \* the messages; one stands for its fd, remote, type and data
  DataLen,   \* DataLen[m]: datalen of message m
  None       \* no message

ASSUME LoopQueueAssumption ==
  /\ BufLen \in Nat
  /\ HeadLen \in Nat \ {0}
  /\ DataLen \in [Msg -> Nat]
  /\ \A m \in Msg : HeadLen + DataLen[m] <= BufLen
  /\ None \notin Msg \cup [msg : Msg, data : Msg \cup {None}]

VARIABLES
  head,      \* head_
  tail,      \* tail_
  mem,       \* buff_: for each offset, the header whose first byte is there
  resv,      \* message of the producer between BufferForPush and PushFinish
  hand       \* what the consumer sees through its block_t* until it pops

vars == <<head, tail, mem, resv, hand>>

Cell == 0 .. BufLen - 1
BlockLen(m) == HeadLen + DataLen[m]

(***************************************************************************)
(* A cell says what a consumer reading a header at that offset would find. *)
(* "block" and "discard" are the two headers BufferForPush writes, "zero"  *)
(* is memory still as memset left it, "junk" is bytes of data or of a      *)
(* header that starts elsewhere.  data is the message whose bytes follow   *)
(* the header: None until the producer has copied them there.              *)
(***************************************************************************)
Header == [kind : {"zero", "junk", "block", "discard"}, len : Nat,
           msg  : Msg \cup {None}, data : Msg \cup {None}]

Zero    == [kind |-> "zero",    len |-> 0,       msg |-> None, data |-> None]
Junk    == [kind |-> "junk",    len |-> 0,       msg |-> None, data |-> None]
Discard == [kind |-> "discard", len |-> HeadLen, msg |-> None, data |-> None]
Block(m) ==
  [kind |-> "block", len |-> BlockLen(m), msg |-> m, data |-> None]

\* Writing the bytes lo .. hi-1 destroys every header that has a byte there.
\* (Data is not overwritten on its own: see BehindTail.  A discard header sets
\* fewer than HeadLen bytes; what it leaves of the others is junk as well.)
Overwrite(f, lo, hi) ==
  [x \in Cell |-> IF x + HeadLen > lo /\ x < hi THEN Junk ELSE f[x]]

WriteHeader(f, x, h) == [Overwrite(f, x, x + HeadLen) EXCEPT ![x] = h]

Init == /\ head = 0
        /\ tail = 0
        /\ mem = [x \in Cell |-> Zero]
        /\ resv = None
        /\ hand = None

-----------------------------------------------------------------------------
(* BufferForPush.                                                          *)

\* The first test of BufferForPush: not even a header fits before the end.
Tail1 == IF tail >= head /\ tail + HeadLen > BufLen THEN 0 ELSE tail

\* Its second test: the block of m does not, and a discard header is left.
Discards(m) == Tail1 >= head /\ Tail1 + BlockLen(m) > BufLen
Tail2(m) == IF Discards(m) THEN 0 ELSE Tail1
Mem2(m) == IF Discards(m) THEN WriteHeader(mem, Tail1, Discard) ELSE mem

\* Mutants of Full: the block may reach head_; no test at all.
FullPastHead(m) == Tail2(m) < head /\ Tail2(m) + BlockLen(m) > head
NeverFull(m) == FALSE

\* Its third: the block would reach head_.
Full(m) == Tail2(m) < head /\ Tail2(m) + BlockLen(m) >= head

\* BufferForPush returns nullptr; tail_ and the discard header stay changed.
RefusePush(m) ==
  /\ resv = None
  /\ Full(m)
  /\ tail' = Tail2(m)
  /\ mem' = Mem2(m)
  /\ UNCHANGED <<head, resv, hand>>

\* BufferForPush returns the place for the data.
BufferForPush(m) ==
  /\ resv = None
  /\ ~Full(m)
  /\ tail' = Tail2(m)
  /\ mem' = WriteHeader(Mem2(m), Tail2(m), Block(m))
  /\ resv' = m
  /\ UNCHANGED <<head, hand>>

\* The caller copies the data there and calls PushFinish.
PushFinish ==
  /\ resv # None
  /\ mem' = [Overwrite(mem, tail + HeadLen, tail + BlockLen(resv))
               EXCEPT ![tail].data = resv]
  /\ tail' = tail + BlockLen(resv)
  /\ resv' = None
  /\ UNCHANGED <<head, hand>>

-----------------------------------------------------------------------------
(* FrontBlock and PopBlock.                                                *)

\* Header values a read of cell c can give; bytes that are not a header can
\* be read as a block of any length and message.
Readings(c) ==
  IF c.kind = "junk"
  THEN [kind : {"block", "discard"}, len : 0 .. BufLen, msg : Msg, data : Msg]
  ELSE {c}

\* head_ after the first wrap of FrontBlock, and the header it then reads.
Front1 == IF head + HeadLen > BufLen THEN 0 ELSE head

\* Mutant of IsDiscard: FrontBlock does not skip discard headers.
NoDiscard(c) == FALSE

IsDiscard(c) == c.kind = "discard" /\ c.len = HeadLen

\* The two tests FrontBlock calls unlikely.
Unlikely(x, c) == (x < tail /\ x + c.len > tail) \/ c.len < HeadLen

\* FrontBlock on a queue that is not empty.  (On an empty one it returns
\* false and changes nothing.)  It gives the consumer no block when one of
\* the unlikely tests holds.
FrontBlock ==
  /\ hand = None
  /\ head # tail
  /\ \E c1 \in Readings(mem[Front1]) :
       LET x == IF IsDiscard(c1) THEN 0 ELSE Front1
       IN \E c \in (IF IsDiscard(c1) THEN Readings(mem[0]) ELSE {c1}) :
            /\ head' = x
            /\ hand' = IF Unlikely(x, c) THEN None
                       ELSE [msg |-> c.msg, data |-> c.data]
  /\ UNCHANGED <<tail, mem, resv>>

\* PopBlock(block->len), the length read again through the pointer.
PopBlock ==
  /\ hand # None
  /\ \E c \in Readings(mem[head]) : head' = head + c.len
  /\ hand' = None
  /\ UNCHANGED <<tail, mem, resv>>

-----------------------------------------------------------------------------
Producer == (\E m \in Msg : BufferForPush(m) \/ RefusePush(m)) \/ PushFinish
Consumer == FrontBlock \/ PopBlock

Next == Producer \/ Consumer
Spec == Init /\ [][Next]_vars

\* The consumer does not run between BufferForPush and PushFinish.
SerialNext == Producer \/ (resv = None /\ Consumer)
SerialSpec == Init /\ [][SerialNext]_vars

-----------------------------------------------------------------------------
(* Properties.                                                             *)

\* Offsets stay in the buffer and cells hold headers (the type invariant).
TypeOK ==
  /\ head \in 0 .. BufLen
  /\ tail \in 0 .. BufLen
  /\ mem \in [Cell -> Header]
  /\ resv \in Msg \cup {None}
  /\ hand \in [msg : Msg, data : Msg \cup {None}] \cup {None}

\* The header FrontBlock would read now.
FrontCell == LET c == mem[Front1] IN IF IsDiscard(c) THEN mem[0] ELSE c
FrontPos  == IF IsDiscard(mem[Front1]) THEN 0 ELSE Front1

\* FrontBlock always finds the header of a block, and the block does not run
\* past tail_: the error branches of FrontBlock ("unlikely") are never taken,
\* however full the queue gets and whatever was refused before.
FrontAligned ==
  head # tail /\ hand = None /\ resv = None =>
    /\ FrontCell.kind = "block"
    /\ ~Unlikely(FrontPos, FrontCell)

\* Data is only ever copied inside the buffer: between BufferForPush and
\* PushFinish the block at tail_ ends at or before bufflen_.
PushInBounds == resv # None => tail + BlockLen(resv) <= BufLen

\* What the consumer is given is one whole message, header and data of the
\* same push, even when it is a message of an earlier lap.
HandIntact == hand # None => hand.data = hand.msg

-----------------------------------------------------------------------------
(* The inductive invariant of SerialSpec.                                  *)

IsHeader(x) == mem[x].kind \in {"block", "discard"}

\* Headers, of this lap and of earlier ones, describe bytes of the buffer.
BlocksFit ==
  \A x \in Cell :
    /\ IsHeader(x) => mem[x].len >= HeadLen /\ x + mem[x].len <= BufLen
    /\ mem[x].kind = "block" => mem[x].msg \in Msg
    /\ mem[x].kind = "discard" => mem[x].len = HeadLen

\* Below tail_ there are whole blocks of the current lap and no other header,
\* so a write at tail_ never cuts a block in two.
BehindTail ==
  \A x \in Cell :
    IsHeader(x) /\ x < tail => mem[x].kind = "block" /\ x + mem[x].len <= tail

\* Where a consumer may stand: at tail_, too near the end, or at a header.
Standing(p) == p = tail \/ p + HeadLen > BufLen \/ IsHeader(p)

\* Every block, but the one being written, is whole and leads to such a place.
Chained ==
  \A x \in Cell :
    mem[x].kind = "block" /\ ~(resv # None /\ x = tail) =>
      mem[x].data = mem[x].msg /\ Standing(x + mem[x].len)

\* Offset 0, where both sides wrap to, holds a block from the first push on.
FirstBlock ==
  \/ 0 \in Cell /\ mem[0].kind = "block"
  \/ head = 0 /\ tail = 0 /\ resv = None /\ hand = None

\* The block being written is at tail_ and ends short of head_.
Reserved ==
  resv # None =>
    /\ tail \in Cell
    /\ mem[tail] = Block(resv)
    /\ tail + BlockLen(resv) <= BufLen
    /\ tail < head => tail + BlockLen(resv) < head

\* The block in hand is at head_, which tail_ can only meet at offset 0.
InHand ==
  hand # None =>
    /\ head \in Cell
    /\ mem[head].kind = "block"
    /\ head = tail => head = 0

IInv == /\ TypeOK
        /\ BlocksFit
        /\ BehindTail
        /\ Chained
        /\ Standing(head)
        /\ FirstBlock
        /\ Reserved
        /\ InHand
        /\ HandIntact
=============================================================================
