----------------------------- MODULE BlockBuffer -----------------------------
(***************************************************************************)
(* framework/BlockBuffer: the buffer of a connection, a chain of blocks of *)
(* 512, 1024, ... bytes.  The receive side writes into it in two calls     *)
(* (GetBufferToWrite, then FinishBufferWrite with what recv gave), the     *)
(* send side with Insert; both take bytes out with Copy and Move.          *)
(*                                                                         *)
(* A block keeps its numbers and the bytes between rdpos and wrpos.  The   *)
(* sizes are parameters: the runs scale them down and keep their ratios.   *)
(* BufferBlockMgr hands out blocks as good as new (Recycle resets them),   *)
(* so its free lists are left out.                                         *)
(***************************************************************************)
EXTENDS Integers, Sequences

CONSTANTS
  MinSize,    \* MIN_BLOCK_SIZE
  MidSize,    \* MID_BLOCK_SIZE
  MoveSize,   \* MOVE_BLOCK_SIZE
  CopySize,   \* COPY_BLOCK_SIZE
  Byte,       \* byte values 0 .. Byte - 1: byte number n has value n % Byte
  MaxCall,    \* bound: bytes asked of one call
  MaxTotal    \* bound: bytes the caller lets pile up

ASSUME BlockBufferAssumption ==
  /\ {MinSize, MidSize, MoveSize, CopySize, Byte, MaxCall, MaxTotal}
       \subseteq Nat \ {0}
  /\ MinSize <= MidSize /\ MidSize <= MoveSize /\ MoveSize <= CopySize

VARIABLES
  side,       \* which of a connection's two buffers this is
  chain,      \* blocks from head_ to tail_
  totallen,   \* totallen_
  room,       \* what GetBufferToWrite promised and nobody has used, or NoRoom
  written,    \* bytes written so far, modulo Byte
  got,        \* what the last Copy or Move left in its caller's memory
  hung        \* replaceBlock is in its endless loop

vars == <<side, chain, totallen, room, written, got, hung>>

NoRoom == -1
Garbage == -1    \* a byte of the caller's memory that was not written

BlockType == [rlen : Nat, len : Nat, rdpos : Nat, bytes : Seq(0 .. Byte - 1)]

WrPos(b) == b.rdpos + Len(b.bytes)
\* Mutant of IsFull: off by one.
IsOverfull(b) == WrPos(b) > b.len

IsFull(b) == WrPos(b) >= b.len
LastOf(c) == c[Len(c)]
WithLast(c, b) == [c EXCEPT ![Len(c)] = b]

\* BufferBlockMgr::Alloc: MinSize, doubled until it holds size bytes.  The loop
\* makes size turns at most.
AllocLen(size) ==
  LET len[k \in 0 .. size] == IF k = 0 THEN MinSize
                              ELSE IF len[k - 1] < size THEN 2 * len[k - 1]
                              ELSE len[k - 1]
  IN len[size]
Alloc(size) == LET a == AllocLen(size)
               IN [rlen |-> a, len |-> a, rdpos |-> 0, bytes |-> <<>>]

\* The unread bytes of the blocks of c, oldest first.
Flat(c) ==
  LET upTo[i \in 0 .. Len(c)] ==
        IF i = 0 THEN <<>> ELSE upTo[i - 1] \o c[i].bytes
  IN upTo[Len(c)]
Unread(c) == Len(Flat(c))

Smaller(m, n) == IF m <= n THEN m ELSE n

\* The next n bytes that are written.
Fresh(n) == [i \in 1 .. n |-> (written + i - 1) % Byte]

Init == /\ side \in {"recv", "send"}
        /\ chain = <<>>
        /\ totallen = 0
        /\ room = NoRoom
        /\ written = 0
        /\ got = [len |-> 0, data |-> <<>>]
        /\ hung = FALSE

-----------------------------------------------------------------------------
(* Writing.                                                                *)

\* Insert fills the tail block and puts the rest in one new block.
Insert(n) ==
  /\ room = NoRoom /\ ~hung
  /\ totallen + n <= MaxTotal
  /\ LET data == Fresh(n)
         c    == IF chain = <<>> THEN <<Alloc(n)>> ELSE chain
         t    == LastOf(c)
         left == IF IsFull(t) THEN 0 ELSE t.len - WrPos(t)
         here == IF n <= left THEN n ELSE left
         c1   == WithLast(c, [t EXCEPT !.bytes = @ \o SubSeq(data, 1, here)])
     IN chain' = IF here = n THEN c1
                 ELSE Append(c1, [Alloc(n - here)
                                    EXCEPT !.bytes = SubSeq(data, here + 1, n)])
  /\ totallen' = totallen + n
  /\ written' = (written + n) % Byte
  /\ UNCHANGED <<room, got, hung>>

\* Mutants of CanReplace and ReplaceTail: only a head block can be replaced;
\* the bytes of the old block are not copied.
CanReplaceHead(c) == Len(c) <= 1
ReplaceTailEmpty(c, size) == WithLast(c, Alloc(size))

\* replaceBlock(tail_, a new block of size bytes).  The search for the block
\* before tail_ never leaves the head block.
CanReplace(c) == Len(c) <= 2
ReplaceTail(c, size) ==
  WithLast(c, [Alloc(size) EXCEPT !.bytes = LastOf(c).bytes])

\* Mutant of Expand: the block behind which one is appended is not closed.
ExpandUnclosed(c, need) ==
  LET t    == LastOf(c)
      used == Len(t.bytes)
  IN CASE t.len - used >= need /\ used <= MoveSize ->
            WithLast(c, [t EXCEPT !.rdpos = 0])
       [] ~(t.len - used >= need /\ used <= MoveSize) /\ used < CopySize ->
            ReplaceTail(c, used + need)
       [] OTHER -> Append(c, Alloc(need))

\* expand on a chain that is not empty: move the bytes to the front of the
\* tail block, copy them to a larger block, or close it and append a block.
Expand(c, need) ==
  LET t    == LastOf(c)
      used == Len(t.bytes)
  IN CASE t.len - used >= need /\ used <= MoveSize ->
            WithLast(c, [t EXCEPT !.rdpos = 0])
       [] ~(t.len - used >= need /\ used <= MoveSize) /\ used < CopySize ->
            ReplaceTail(c, used + need)
       [] OTHER ->
            Append(WithLast(c, [t EXCEPT !.len = WrPos(t)]), Alloc(need))

Replaces(c, need) ==
  LET t == LastOf(c)  used == Len(t.bytes)
  IN ~(t.len - used >= need /\ used <= MoveSize) /\ used < CopySize

HasRoom(c, need) == c # <<>> /\ LastOf(c).len - WrPos(LastOf(c)) >= need

GetBufferToWrite(need) ==
  /\ room = NoRoom /\ ~hung
  /\ totallen + need <= MaxTotal
  /\ \/ /\ HasRoom(chain, need)
        /\ UNCHANGED <<chain, hung>> /\ room' = need
     \/ /\ chain = <<>>
        /\ chain' = <<Alloc(need)>> /\ room' = need /\ UNCHANGED hung
     \/ /\ chain # <<>> /\ ~HasRoom(chain, need)
        /\ IF Replaces(chain, need) /\ ~CanReplace(chain)
           THEN hung' = TRUE /\ UNCHANGED <<chain, room>>
           ELSE chain' = Expand(chain, need) /\ room' = need /\ UNCHANGED hung
  /\ UNCHANGED <<totallen, written, got>>

\* recv has put n bytes there, at most those asked for.
FinishBufferWrite(n) ==
  /\ room # NoRoom /\ n <= room
  /\ chain' = WithLast(chain, [LastOf(chain) EXCEPT !.bytes = @ \o Fresh(n)])
  /\ totallen' = totallen + n
  /\ written' = (written + n) % Byte
  /\ room' = NoRoom
  /\ UNCHANGED <<got, hung>>

\* recv failed: recvTcpData goes on without FinishBufferWrite.
RecvFails ==
  /\ room # NoRoom
  /\ room' = NoRoom
  /\ UNCHANGED <<chain, totallen, written, got, hung>>

-----------------------------------------------------------------------------
(* Reading.                                                                *)

(* Copy and Move go through the chain for n bytes.                         *)

Before(c, i) == Unread(SubSeq(c, 1, i - 1))

\* The loop goes no further than block i: it has more than is still wanted, or
\* nothing is wanted any more, or there is room in it, or no block behind it.
\* (Copy does not look whether anything is wanted; it goes on to blocks that
\* give it nothing.)
Stops(c, n, i) == \/ n - Before(c, i) < Len(c[i].bytes)
                  \/ n = Before(c, i)
                  \/ ~IsFull(c[i])
                  \/ i = Len(c)
StopsAt(c, n) ==
  CHOOSE i \in 1 .. Len(c) : /\ Stops(c, n, i)
                             /\ \A j \in 1 .. i - 1 : ~Stops(c, n, j)

\* Bytes that block i gives.
Given(c, n, i) == Smaller(Len(c[i].bytes), n - Before(c, i))

\* Mutant of Lands: one byte short.
LandsShort(c, n, i) == 1 .. Given(c, n, i) - 1

\* memcpy(data, ...): always to the start of the caller's memory, so what a
\* second block gives is copied over what the first one gave.
Lands(c, n, i) == 1 .. Given(c, n, i)

\* Of the blocks up to k, the last that gives a byte p.
LastOver(c, n, k, p) ==
  CHOOSE i \in 1 .. k : /\ p \in Lands(c, n, i)
                        /\ \A j \in i + 1 .. k : p \notin Lands(c, n, j)

\* The bytes counted, and the caller's memory after them.
Read(c, n) ==
  LET k == StopsAt(c, n)
  IN [len  |-> Before(c, k) + Given(c, n, k),
      data |-> [p \in 1 .. n |->
                  IF \E i \in 1 .. k : p \in Lands(c, n, i)
                  THEN c[LastOver(c, n, k, p)].bytes[p] ELSE Garbage]]
Blank(n) == [len |-> 0, data |-> [p \in 1 .. n |-> Garbage]]

Copy(n) ==
  /\ room = NoRoom /\ ~hung
  /\ UNCHANGED <<chain, totallen, room, written, hung>>
  /\ got' = IF chain = <<>> THEN Blank(n) ELSE Read(chain, n)

Drop(b, n) == [b EXCEPT !.rdpos = @ + n,
                        !.bytes = SubSeq(@, n + 1, Len(@))]

\* The chain from the block at which the loop stopped.
LeftBy(c, n) ==
  LET i == StopsAt(c, n)
  IN <<Drop(c[i], Given(c, n, i))>> \o SubSeq(c, i + 1, Len(c))

\* What Move does with the block it stopped at when that block is empty: a
\* small one is reset, a large one is recycled.
Tidy(c) ==
  LET b == Head(c)
  IN IF b.bytes # <<>> THEN c
     ELSE IF b.len <= MidSize
     THEN <<[b EXCEPT !.rdpos = 0, !.len = b.rlen]>> \o Tail(c)
     ELSE Tail(c)

\* Mutant of Move: counts the bytes asked for.
MoveCountsAsked(n) ==
  /\ room = NoRoom /\ ~hung
  /\ UNCHANGED <<room, written, hung>>
  /\ IF chain = <<>>
     THEN got' = Blank(n) /\ UNCHANGED <<chain, totallen>>
     ELSE /\ got' = Read(chain, n)
          /\ chain' = Tidy(LeftBy(chain, n))
          /\ totallen' = totallen - n

Move(n) ==
  /\ room = NoRoom /\ ~hung
  /\ UNCHANGED <<room, written, hung>>
  /\ IF chain = <<>>
     THEN got' = Blank(n) /\ UNCHANGED <<chain, totallen>>
     ELSE /\ got' = Read(chain, n)
          /\ chain' = Tidy(LeftBy(chain, n))
          /\ totallen' = totallen - got'.len

-----------------------------------------------------------------------------
Calls == 1 .. MaxCall

\* recvBuffer_: FIONREAD may say 0.
RecvSide == \/ \E n \in 0 .. MaxCall : GetBufferToWrite(n)
            \/ \E n \in Calls : FinishBufferWrite(n)
            \/ RecvFails
            \/ \E n \in Calls : Copy(n) \/ Move(n)

\* FlushSendBuffer sends what GetBufferToRead shows, the head block, and moves
\* what was sent.
Flush == /\ totallen > 0
         /\ chain # <<>>
         /\ \E n \in 1 .. Len(Head(chain).bytes) : Move(n)

\* sendBuffer_: what could not be sent is inserted.
SendSide == (\E n \in Calls : Insert(n)) \/ Flush

Next == /\ \/ side = "recv" /\ RecvSide
           \/ side = "send" /\ SendSide
        /\ UNCHANGED side

Spec == Init /\ [][Next]_vars

-----------------------------------------------------------------------------
(* Properties.                                                             *)

TypeOK ==
  /\ side \in {"recv", "send"}
  /\ chain \in Seq(BlockType)
  /\ totallen \in 0 .. MaxTotal
  /\ room \in 0 .. MaxCall \cup {NoRoom}
  /\ written \in 0 .. Byte - 1
  /\ hung \in BOOLEAN

\* All the unread bytes.
Content == Flat(chain)

\* The bytes a reader can reach: it goes on to the next block only after a
\* full one.
Reachable(c) ==
  IF c = <<>> THEN 0
  ELSE LET last == CHOOSE i \in 1 .. Len(c) :
                     /\ i = Len(c) \/ ~IsFull(c[i])
                     /\ \A j \in 1 .. i - 1 : IsFull(c[j])
       IN Before(c, last + 1)

\* GetTotalLen's assertion: the bytes a walk of the chain finds are those
\* totallen_ counts, so none is out of reach behind a block that is not full.
TotalAgrees == Reachable(chain) = totallen

\* FinishBufferWrite's assertions: what GetBufferToWrite promised is still
\* there, at the end of the tail block.
WriteFits ==
  room # NoRoom =>
    chain # <<>> /\ WrPos(LastOf(chain)) + room <= LastOf(chain).len

\* FlushSendBuffer's assertion: while there are bytes, the head block has some.
HeadReadable ==
  side = "send" /\ totallen > 0 => chain # <<>> /\ Head(chain).bytes # <<>>

\* None of the assertions about the chain ever fails.
AssertionsHold == TotalAgrees /\ WriteFits /\ HeadReadable

\* Bytes are never lost, repeated or reordered by moving blocks around.
BQ == INSTANCE ByteQueue WITH content <- Content
ImplementsByteQueue == BQ!Spec

\* Blocks end where expand closed them, and the search that does not end needs
\* two such ends: on the receive side the chain is what Session takes it for.
Seams == {Before(chain, i) : i \in 2 .. Len(chain)}
RB == INSTANCE RecvBuffer
        WITH unread <- IF side = "recv" THEN totallen ELSE 0,
             seams  <- IF side = "recv" THEN Seams ELSE {}
ImplementsRecvBuffer == RB!Spec

\* Copy and Move say they gave all the bytes asked for, if there are as many.
ReadsCounted ==
  [][\A n \in Calls : Copy(n) \/ Move(n) =>
       got'.len = Smaller(n, Len(Content))]_vars

\* The first block with unread bytes has n of them or more.
OneBlockHas(n) ==
  \E i \in 1 .. Len(chain) : /\ Len(chain[i].bytes) >= n
                            /\ \A j \in 1 .. i - 1 : chain[j].bytes = <<>>

\* A read that one block can serve gives the oldest bytes, in order, though the
\* block was moved, copied or stands behind others that have been read.
OldestOfBlock ==
  [][\A n \in Calls : OneBlockHas(n) /\ (Copy(n) \/ Move(n)) =>
       got'.data = SubSeq(Content, 1, n)]_vars

\* What the code relies on without saying so: a block that is not the last is
\* full and has bytes, an empty one is not full, and none holds more than it may.
BlockOK(b) == /\ WrPos(b) <= b.len /\ b.rlen > 0
              /\ b.bytes = <<>> => ~IsFull(b)
Linked == /\ \A i \in 1 .. Len(chain) : BlockOK(chain[i])
          /\ \A i \in 1 .. Len(chain) - 1 :
               IsFull(chain[i]) /\ chain[i].bytes # <<>>

\* The bytes are counted, and those promised to recv fit the caller's bound.
Counted == /\ totallen = Unread(chain)
           /\ room # NoRoom => totallen + room <= MaxTotal

\* On the receive side expand closed every block between the ends of the chain,
\* full of bytes that nobody has read.
Backlog == /\ side = "recv" =>
                \A i \in 2 .. Len(chain) - 1 : Len(chain[i].bytes) >= CopySize
           /\ hung => room = NoRoom

IInv == TypeOK /\ Linked /\ Counted /\ Backlog

\* replaceBlock ends unless more bytes are unread than expand copies at a time:
\* a third block is only there behind a full second one.
HangNeedsBacklog == hung => totallen > CopySize
=============================================================================
