--------------------------- MODULE LoopQueue_proofs ---------------------------
(***************************************************************************)
(* The layout of the buffer, for every buffer length, header length and    *)
(* set of messages: IInv is an inductive invariant of SerialSpec, and the  *)
(* properties of LoopQueue follow from it.  Then the calm queue: with the  *)
(* history of LoopQueueFifo, CalmInv is inductive too and every step is    *)
(* one of Fifo.                                                            *)
(***************************************************************************)
EXTENDS LoopQueueFifo, SequenceTheorems, TLAPS

USE DEF Cell

(* Lengths are what the arithmetic below needs of them. *)
LEMMA Lengths ==
  /\ BufLen \in Nat
  /\ HeadLen \in Nat
  /\ HeadLen > 0
  /\ None \notin Msg
  /\ \A m \in Msg : /\ BlockLen(m) \in Nat
                    /\ BlockLen(m) >= HeadLen
                    /\ BlockLen(m) <= BufLen
  BY LoopQueueAssumption DEF BlockLen

(* The four kinds of cell are headers. *)
LEMMA CellValues ==
  /\ Zero \in Header
  /\ Junk \in Header
  /\ Discard \in Header
  /\ \A m \in Msg : Block(m) \in Header
  BY Lengths DEF Zero, Junk, Discard, Block, Header

(* What a header write leaves in the buffer. *)
LEMMA WriteHeaderCells ==
  ASSUME NEW f \in [Cell -> Header], NEW x \in Cell, NEW h \in Header
  PROVE  /\ WriteHeader(f, x, h) \in [Cell -> Header]
         /\ WriteHeader(f, x, h)[x] = h
         /\ \A z \in Cell : z # x =>
              WriteHeader(f, x, h)[z] =
                IF z + HeadLen > x /\ z < x + HeadLen THEN Junk ELSE f[z]
  BY CellValues DEF WriteHeader, Overwrite

(***************************************************************************)
(* The invariant of the memory when no block is being written, of any      *)
(* memory f and tail t: BufferForPush goes through such a memory between   *)
(* its wrap and its last write.                                            *)
(***************************************************************************)
HeaderIn(f, x) == f[x].kind \in {"block", "discard"}
StandingIn(f, t, p) == p = t \/ p + HeadLen > BufLen \/ HeaderIn(f, p)

Fit(f) == \A x \in Cell :
  /\ HeaderIn(f, x) => f[x].len >= HeadLen /\ x + f[x].len <= BufLen
  /\ f[x].kind = "block" => f[x].msg \in Msg
  /\ f[x].kind = "discard" => f[x].len = HeadLen
Behind(f, t) == \A x \in Cell :
  HeaderIn(f, x) /\ x < t => f[x].kind = "block" /\ x + f[x].len <= t
Links(f, t) == \A x \in Cell :
  f[x].kind = "block" =>
    f[x].data = f[x].msg /\ StandingIn(f, t, x + f[x].len)
First(f, t) ==
  \/ 0 \in Cell /\ f[0].kind = "block"
  \/ head = 0 /\ t = 0 /\ hand = None

Laid(f, t) == /\ f \in [Cell -> Header]
              /\ t \in 0 .. BufLen
              /\ Fit(f)
              /\ Behind(f, t)
              /\ Links(f, t)
              /\ StandingIn(f, t, head)
              /\ First(f, t)

(* Between two calls of the producer the buffer is laid out.               *)
LEMMA LaidNow == IInv /\ resv = None => Laid(mem, tail)
<1>1. SUFFICES ASSUME IInv, resv = None PROVE Laid(mem, tail)
  OBVIOUS
<1>2. mem \in [Cell -> Header] /\ tail \in 0 .. BufLen
  BY <1>1 DEF IInv, TypeOK
<1>3. Fit(mem) /\ Behind(mem, tail)
  BY <1>1 DEF IInv, BlocksFit, BehindTail, IsHeader, Fit, Behind, HeaderIn
<1>4. Links(mem, tail) /\ StandingIn(mem, tail, head)
  BY <1>1 DEF IInv, Chained, Standing, IsHeader, Links, StandingIn, HeaderIn
<1>5. First(mem, tail)
  BY <1>1 DEF IInv, FirstBlock, First
<1> QED
  BY <1>2, <1>3, <1>4, <1>5 DEF Laid

(* Setting tail_ to 0 when no header fits after it keeps the layout.       *)
LEMMA LaidTail1 ==
  ASSUME IInv, resv = None
  PROVE  Laid(mem, Tail1)
<1>1. Laid(mem, tail)
  BY LaidNow
<1>2. CASE Tail1 = tail
  BY <1>1, <1>2
<1>3. CASE Tail1 = 0 /\ tail >= head /\ tail + HeadLen > BufLen
  <2>1. head \in 0 .. BufLen
    BY DEF IInv, TypeOK
  <2>2. Fit(mem) /\ mem \in [Cell -> Header] /\ 0 \in 0 .. BufLen
    BY <1>1, Lengths DEF Laid
  <2>3. Behind(mem, 0)
    BY Lengths DEF Behind
  <2>4. Links(mem, 0) /\ StandingIn(mem, 0, head)
    BY <1>1, <1>3 DEF Laid, Links, StandingIn
  <2>5. First(mem, 0)
    BY <1>1, <1>3, <2>1, Lengths DEF Laid, First
  <2> QED
    BY <1>3, <2>2, <2>3, <2>4, <2>5 DEF Laid
<1> QED
  BY <1>2, <1>3 DEF Tail1

(* Writing a header h at t, where no consumer stands in its bytes: all the  *)
(* headers below t survive, none is left in the bytes of h, and every       *)
(* other block still leads to a place where a consumer may stand.           *)
Follows(f, p) == p + HeadLen > BufLen \/ HeaderIn(f, p)

LEMMA HeaderWritten ==
  ASSUME NEW f, NEW t \in Cell, Laid(f, t),
         t + HeadLen <= BufLen,
         head \in 0 .. BufLen, head <= t \/ head >= t + HeadLen,
         NEW h \in Header, h.kind \in {"block", "discard"},
         NEW g, g = WriteHeader(f, t, h)
  PROVE  /\ g \in [Cell -> Header]
         /\ g[t] = h
         /\ \A z \in Cell : HeaderIn(g, z) /\ z # t =>
              g[z] = f[z] /\ (z + f[z].len <= t \/ z >= t + HeadLen)
         /\ \A z \in Cell : g[z].kind = "block" /\ z # t =>
              g[z].data = g[z].msg /\ Follows(g, z + g[z].len)
         /\ Follows(g, head)
         /\ t > 0 => g[0].kind = "block"
<1>1. f \in [Cell -> Header]
  BY DEF Laid
<1>2. /\ g \in [Cell -> Header]
      /\ g[t] = h
      /\ \A z \in Cell : z # t =>
           g[z] = IF z + HeadLen > t /\ z < t + HeadLen THEN Junk ELSE f[z]
  <2> HIDE DEF Cell
  <2> QED
    BY <1>1, WriteHeaderCells
<1>3. \A z \in Cell : f[z].len \in Nat
  BY <1>1 DEF Header
<1>4. \A z \in Cell : HeaderIn(f, z) => f[z].len >= HeadLen
  BY DEF Laid, Fit
<1>5. \A z \in Cell : HeaderIn(f, z) => z >= t \/ z + f[z].len <= t
  BY DEF Laid, Behind
<1>6. \A z \in Cell : HeaderIn(g, z) /\ z # t =>
        /\ HeaderIn(f, z)
        /\ g[z] = f[z]
        /\ z + f[z].len <= t \/ z >= t + HeadLen
  <2> SUFFICES ASSUME NEW z \in Cell, HeaderIn(g, z), z # t
               PROVE  /\ HeaderIn(f, z)
                      /\ g[z] = f[z]
                      /\ z + f[z].len <= t \/ z >= t + HeadLen
    OBVIOUS
  <2>1. g[z] # Junk
    BY DEF HeaderIn, Junk
  <2>2. ~(z + HeadLen > t /\ z < t + HeadLen) /\ g[z] = f[z]
    BY <1>2, <2>1
  <2>3. HeaderIn(f, z)
    BY <2>2 DEF HeaderIn
  <2>4. f[z].len \in Nat /\ f[z].len >= HeadLen /\ (z >= t \/ z + f[z].len <= t)
    BY <1>3, <1>4, <1>5, <2>3
  <2>5. z \in Int /\ t \in Int
    OBVIOUS
  <2>6. z + f[z].len <= t \/ z >= t + HeadLen
    BY <2>2, <2>4, <2>5, Lengths
  <2> QED BY <2>2, <2>3, <2>6
<1>7. \A z \in Cell : HeaderIn(f, z) /\ (z <= t \/ z >= t + HeadLen)
        => HeaderIn(g, z)
  BY <1>2, <1>3, <1>4, <1>5, Lengths DEF HeaderIn
<1>8. ASSUME NEW z \in Cell, g[z].kind = "block", z # t
      PROVE  g[z].data = g[z].msg /\ Follows(g, z + g[z].len)
  <2> DEFINE p == z + g[z].len
  <2>1. HeaderIn(f, z) /\ g[z] = f[z] /\ (p <= t \/ z >= t + HeadLen)
    BY <1>6, <1>8 DEF HeaderIn
  <2>2. /\ g[z].data = g[z].msg
        /\ StandingIn(f, t, p)
    BY <1>8, <2>1 DEF Laid, Links
  <2>3. p \in Nat /\ p >= z + HeadLen
    BY <1>3, <1>4, <2>1, Lengths
  <2>4. p <= t \/ p >= t + HeadLen
    BY <2>1, <2>3, Lengths
  <2> HIDE DEF p
  <2>5. Follows(g, p)
    <3>1. CASE p + HeadLen > BufLen
      BY <3>1 DEF Follows
    <3>2. CASE p = t
      BY <3>2, <1>2 DEF Follows, HeaderIn
    <3>3. CASE HeaderIn(f, p) /\ p + HeadLen <= BufLen
      <4>1. p \in Cell
        BY <3>3, <2>3, Lengths
      <4> QED
        BY <4>1, <3>3, <2>4, <1>7 DEF Follows
    <3> QED
      BY <2>2, <2>3, <3>1, <3>2, <3>3, Lengths DEF StandingIn
  <2> QED
    BY <2>2, <2>5 DEF p
<1>9. Follows(g, head)
  <2>1. CASE head = t
    BY <2>1, <1>2 DEF Follows, HeaderIn
  <2>2. CASE head # t /\ head + HeadLen <= BufLen
    <3>1. head \in Cell
      BY <2>2, Lengths
    <3>2. HeaderIn(f, head)
      BY <2>2, Lengths DEF Laid, StandingIn
    <3> QED
      BY <3>1, <3>2, <1>7 DEF Follows
  <2>3. CASE head + HeadLen > BufLen
    BY <2>3 DEF Follows
  <2> QED
    BY <2>1, <2>2, <2>3, Lengths
<1>10. t > 0 => g[0].kind = "block"
  <2>1. SUFFICES ASSUME t > 0 PROVE g[0].kind = "block"
    OBVIOUS
  <2>2. 0 \in Cell /\ f[0].kind = "block"
    BY <2>1 DEF Laid, First
  <2>3. HeaderIn(g, 0)
    BY <2>1, <2>2, <1>7 DEF HeaderIn
  <2> QED
    BY <2>1, <2>2, <2>3, <1>6
<1> QED
  BY <1>2, <1>6, <1>8, <1>9, <1>10

(* Leaving a discard header at tail_ and setting tail_ to 0 keeps the       *)
(* layout too: the memory the block of m is written to, or refused from,    *)
(* is laid out.                                                             *)
LEMMA LaidTail2 ==
  ASSUME IInv, resv = None, NEW m \in Msg
  PROVE  /\ Laid(Mem2(m), Tail2(m))
         /\ hand # None =>
              Mem2(m)[head].kind = "block" /\ (head = Tail2(m) => head = 0)
<1>1. Laid(mem, Tail1)
  BY LaidTail1
<1>2. CASE ~Discards(m)
  <2>1. Mem2(m) = mem /\ Tail2(m) = Tail1 /\ Tail1 \in {0, tail}
    BY <1>2 DEF Mem2, Tail2, Tail1
  <2> QED
    BY <1>1, <2>1 DEF IInv, InHand
<1>3. CASE Discards(m)
  <2> DEFINE t == Tail1
             g == Mem2(m)
  <2>1. head \in 0 .. BufLen /\ tail \in 0 .. BufLen
    BY DEF IInv, TypeOK
  <2>2. t \in Cell /\ t + HeadLen <= BufLen /\ t > 0 /\ t >= head
    BY <1>3, <2>1, Lengths DEF Discards, Tail1
  <2>3. g = WriteHeader(mem, t, Discard) /\ Tail2(m) = 0
    BY <1>3 DEF Mem2, Tail2
  <2>4. Discard \in Header /\ Discard.kind = "discard" /\ Discard.len = HeadLen
    BY CellValues DEF Discard
  <2> HIDE DEF g, t
  <2>5. /\ g \in [Cell -> Header]
        /\ g[t] = Discard
        /\ \A z \in Cell : HeaderIn(g, z) /\ z # t => g[z] = mem[z]
        /\ \A z \in Cell : g[z].kind = "block" /\ z # t =>
             g[z].data = g[z].msg /\ Follows(g, z + g[z].len)
        /\ Follows(g, head)
        /\ g[0].kind = "block"
    <3>1. Laid(mem, t)
      BY <1>1 DEF t
    <3> HIDE DEF Cell
    <3> QED
      BY <3>1, <2>1, <2>2, <2>3, <2>4, HeaderWritten
  <2>6. Fit(g)
    BY <1>1, <2>2, <2>4, <2>5, Lengths DEF Laid, Fit, HeaderIn
  <2>7. Behind(g, 0)
    BY Lengths DEF Behind
  <2>8. Links(g, 0)
    BY <2>4, <2>5 DEF Links, StandingIn, Follows
  <2>9. StandingIn(g, 0, head) /\ First(g, 0)
    BY <2>2, <2>5, Lengths DEF StandingIn, Follows, First
  <2>10. Laid(g, 0)
    BY <2>5, <2>6, <2>7, <2>8, <2>9, Lengths DEF Laid
  <2>11. hand # None => g[head].kind = "block"
    <3>1. SUFFICES ASSUME hand # None PROVE g[head].kind = "block"
      OBVIOUS
    <3>2. /\ head \in Cell
          /\ mem[head].kind = "block"
          /\ head + HeadLen <= BufLen
      BY <3>1, <1>1, Lengths DEF IInv, InHand, Laid, Fit, HeaderIn, Header
    <3>3. head # t
      BY <3>1, <2>2, Lengths DEF IInv, InHand, Tail1, t
    <3> QED
      BY <3>2, <3>3, <2>1, <2>5, Lengths DEF Follows
  <2> QED
    BY <2>3, <2>10, <2>11 DEF g
<1> QED
  BY <1>2, <1>3

-----------------------------------------------------------------------------
(* One lemma for each call.                                                *)

LEMMA InitIInv == Init => IInv
<1> SUFFICES ASSUME Init PROVE IInv
  OBVIOUS
<1>1. TypeOK
  BY Lengths, CellValues DEF Init, TypeOK
<1>2. BlocksFit /\ BehindTail /\ Chained
  BY DEF Init, BlocksFit, BehindTail, Chained, IsHeader, Zero
<1> QED
  BY <1>1, <1>2
     DEF Init, IInv, Standing, FirstBlock, Reserved, InHand, HandIntact

(* A laid out buffer with no block being written satisfies the invariant.  *)
LEMMA LaidIInv ==
  ASSUME IInv, Laid(mem', tail'), resv' = None,
         UNCHANGED <<head, hand>>,
         hand # None =>
           mem'[head].kind = "block" /\ (head = tail' => head = 0)
  PROVE  IInv'
<1>1. /\ mem' \in [Cell -> Header]
      /\ tail' \in 0 .. BufLen
      /\ Fit(mem') /\ Behind(mem', tail') /\ Links(mem', tail')
      /\ StandingIn(mem', tail', head)
      /\ First(mem', tail')
  BY DEF Laid
<1>2. TypeOK'
  BY <1>1 DEF IInv, TypeOK
<1>3. BlocksFit' /\ BehindTail'
  BY <1>1 DEF BlocksFit, BehindTail, IsHeader, Fit, Behind, HeaderIn
<1>4. Chained' /\ Standing(head)'
  BY <1>1 DEF Chained, Standing, IsHeader, Links, StandingIn, HeaderIn
<1>5. FirstBlock' /\ Reserved'
  BY <1>1 DEF First, FirstBlock, Reserved
<1>6. InHand' /\ HandIntact'
  BY DEF IInv, InHand, HandIntact
<1> QED
  BY <1>2, <1>3, <1>4, <1>5, <1>6 DEF IInv

LEMMA RefusePushStep ==
  ASSUME IInv, NEW m \in Msg, RefusePush(m)
  PROVE  IInv'
<1>1. resv = None /\ mem' = Mem2(m) /\ tail' = Tail2(m)
  BY DEF RefusePush
<1>2. UNCHANGED <<head, resv, hand>>
  BY DEF RefusePush
<1> QED
  BY <1>1, <1>2, LaidTail2, LaidIInv

LEMMA BufferForPushStep ==
  ASSUME IInv, NEW m \in Msg, BufferForPush(m)
  PROVE  IInv'
<1> DEFINE f == Mem2(m)
           t == Tail2(m)
           h == Block(m)
           g == mem'
<1>1. resv = None /\ ~Full(m) /\ resv' = m /\ UNCHANGED <<head, hand>>
  BY DEF BufferForPush
<1>2. g = WriteHeader(f, t, h) /\ tail' = t
  BY DEF BufferForPush
<1>3. /\ Laid(f, t)
      /\ hand # None => f[head].kind = "block" /\ (head = t => head = 0)
  BY <1>1, LaidTail2
<1>4. /\ head \in 0 .. BufLen
      /\ tail \in 0 .. BufLen
      /\ t \in 0 .. BufLen
  BY <1>3 DEF IInv, TypeOK, Laid
<1>5. /\ t + BlockLen(m) <= BufLen
      /\ t < head => t + BlockLen(m) < head
  BY <1>1, <1>4, Lengths DEF Full, Tail2, Discards
<1>6. t \in Cell /\ t + HeadLen <= BufLen /\ (head <= t \/ head >= t + HeadLen)
  BY <1>4, <1>5, Lengths
<1>7. /\ h \in Header
      /\ h.kind = "block"
      /\ h.len = BlockLen(m)
      /\ h.msg = m
  BY CellValues DEF Block
<1> HIDE DEF f, t, h, g
<1>8. /\ g \in [Cell -> Header]
      /\ g[t] = h
      /\ \A z \in Cell : HeaderIn(g, z) /\ z # t =>
           g[z] = f[z] /\ (z + f[z].len <= t \/ z >= t + HeadLen)
      /\ \A z \in Cell : g[z].kind = "block" /\ z # t =>
           g[z].data = g[z].msg /\ Follows(g, z + g[z].len)
      /\ Follows(g, head)
      /\ t > 0 => g[0].kind = "block"
  <2> HIDE DEF Cell
  <2> QED
    BY <1>2, <1>3, <1>4, <1>6, <1>7, HeaderWritten
<1>9. TypeOK'
  <2> HIDE DEF Cell
  <2> QED
    BY <1>1, <1>2, <1>4, <1>8 DEF IInv, TypeOK, g
<1>10. BlocksFit'
  <2>1. \A z \in Cell :
          /\ HeaderIn(g, z) => g[z].len >= HeadLen /\ z + g[z].len <= BufLen
          /\ g[z].kind = "block" => g[z].msg \in Msg
          /\ g[z].kind = "discard" => g[z].len = HeadLen
    BY <1>3, <1>5, <1>7, <1>8, Lengths DEF Laid, Fit, HeaderIn
  <2> QED
    BY <2>1 DEF BlocksFit, IsHeader, HeaderIn, g
<1>11. BehindTail'
  <2>1. \A z \in Cell : HeaderIn(g, z) /\ z < t =>
          g[z].kind = "block" /\ z + g[z].len <= t
    BY <1>3, <1>8 DEF Laid, Behind, HeaderIn
  <2> QED
    BY <2>1, <1>2 DEF BehindTail, IsHeader, HeaderIn, g
<1>12. Chained' /\ Standing(head)'
  <2>1. \A z \in Cell : g[z].kind = "block" /\ z # t =>
           g[z].data = g[z].msg /\ StandingIn(g, t, z + g[z].len)
    BY <1>8 DEF Follows, StandingIn
  <2>2. StandingIn(g, t, head)
    BY <1>8 DEF Follows, StandingIn
  <2>3. resv' # None
    BY <1>1, Lengths
  <2> QED
    BY <2>1, <2>2, <2>3, <1>1, <1>2
       DEF Chained, Standing, IsHeader, StandingIn, HeaderIn, g
<1>13. FirstBlock'
  <2>1. 0 \in Cell /\ g[0].kind = "block"
    BY <1>4, <1>6, <1>7, <1>8, Lengths
  <2> QED
    BY <2>1 DEF FirstBlock, g
<1>14. Reserved'
  BY <1>1, <1>2, <1>5, <1>6, <1>8 DEF Reserved, g, h
<1>15. InHand' /\ HandIntact'
  <2>1. HandIntact'
    BY <1>1 DEF IInv, HandIntact
  <2>2. ASSUME hand # None PROVE head \in Cell /\ g[head].kind = "block"
    <3>1. head \in Cell /\ f[head].kind = "block" /\ (head = t => head = 0)
      BY <2>2, <1>3 DEF IInv, InHand
    <3>2. head + HeadLen <= BufLen
      BY <3>1, <1>3, <1>4, Lengths DEF Laid, Fit, HeaderIn, Header
    <3>3. CASE head = t
      BY <3>1, <3>3, <1>7, <1>8
    <3>4. CASE head # t
      BY <3>1, <3>2, <3>4, <1>4, <1>8, Lengths DEF Follows
    <3> QED
      BY <3>1, <3>3, <3>4
  <2>3. InHand'
    BY <2>2, <1>1, <1>2, <1>3 DEF InHand, g
  <2> QED
    BY <2>1, <2>3
<1> QED
  BY <1>9, <1>10, <1>11, <1>12, <1>13, <1>14, <1>15 DEF IInv

(* What PushFinish leaves in the buffer: the block at tail_, whole, and      *)
(* none of the headers its data was copied over.                            *)
LEMMA FinishCells ==
  ASSUME IInv, PushFinish
  PROVE  /\ mem' \in [Cell -> Header]
         /\ mem'[tail] = [Block(resv) EXCEPT !.data = resv]
         /\ mem'[tail] = [kind |-> "block", len |-> BlockLen(resv),
                          msg |-> resv, data |-> resv]
         /\ \A z \in Cell : z # tail =>
              mem'[z] = IF z > tail /\ z < tail + BlockLen(resv)
                        THEN Junk ELSE mem[z]
<1> DEFINE len == BlockLen(resv)
           g == mem'
<1>1. /\ resv \in Msg /\ resv # None /\ resv' = None
      /\ tail' = tail + len
      /\ UNCHANGED <<head, hand>>
      /\ g = [Overwrite(mem, tail + HeadLen, tail + len)
                EXCEPT ![tail].data = resv]
  BY DEF PushFinish, IInv, TypeOK
<1>2. /\ tail \in Cell
      /\ mem[tail] = Block(resv)
      /\ tail + len <= BufLen
      /\ tail < head => tail + len < head
  BY <1>1 DEF IInv, Reserved
<1>3. /\ len \in Nat /\ len >= HeadLen
      /\ head \in 0 .. BufLen /\ tail \in 0 .. BufLen
      /\ mem \in [Cell -> Header]
  BY <1>1, Lengths DEF IInv, TypeOK
<1> HIDE DEF g, len
<1> DEFINE o == Overwrite(mem, tail + HeadLen, tail + len)
<1>4. /\ o \in [Cell -> Header]
      /\ \A z \in Cell :
           o[z] = IF z > tail /\ z < tail + len THEN Junk ELSE mem[z]
  <2>1. \A z \in Cell : z + HeadLen > tail + HeadLen <=> z > tail
    BY <1>3, Lengths
  <2> QED
    BY <1>3, <2>1, CellValues DEF Overwrite
<1>5. o[tail] = Block(resv)
  BY <1>2, <1>3, <1>4
<1>6. g = [o EXCEPT ![tail] = [Block(resv) EXCEPT !.data = resv]]
  BY <1>1, <1>5
<1>7. [Block(resv) EXCEPT !.data = resv] =
        [kind |-> "block", len |-> len, msg |-> resv, data |-> resv]
  BY DEF Block, len
<1>8. [kind |-> "block", len |-> len, msg |-> resv, data |-> resv] \in Header
  BY <1>1, <1>3 DEF Header
<1> HIDE DEF o
<1>9. /\ g \in [Cell -> Header]
      /\ g[tail] = [Block(resv) EXCEPT !.data = resv]
      /\ \A z \in Cell : z # tail =>
           g[z] = IF z > tail /\ z < tail + len THEN Junk ELSE mem[z]
  BY <1>2, <1>4, <1>6, <1>7, <1>8
<1> HIDE DEF Cell
<1> QED
  BY <1>7, <1>9 DEF g, len

LEMMA PushFinishStep ==
  ASSUME IInv, PushFinish
  PROVE  IInv'
<1> DEFINE len == BlockLen(resv)
           g == mem'
<1>1. /\ resv \in Msg /\ resv # None /\ resv' = None
      /\ tail' = tail + len
      /\ UNCHANGED <<head, hand>>
      /\ g = [Overwrite(mem, tail + HeadLen, tail + len)
                EXCEPT ![tail].data = resv]
  BY DEF PushFinish, IInv, TypeOK
<1>2. /\ tail \in Cell
      /\ mem[tail] = Block(resv)
      /\ tail + len <= BufLen
      /\ tail < head => tail + len < head
  BY <1>1 DEF IInv, Reserved
<1>3. /\ len \in Nat /\ len >= HeadLen
      /\ head \in 0 .. BufLen /\ tail \in 0 .. BufLen
      /\ mem \in [Cell -> Header]
  BY <1>1, Lengths DEF IInv, TypeOK
<1> HIDE DEF g, len
<1>4. \A z \in Cell : mem[z].len \in Nat
  BY <1>3 DEF Header
<1>5. /\ g \in [Cell -> Header]
      /\ g[tail].kind = "block" /\ g[tail].len = len
      /\ g[tail].msg = resv /\ g[tail].data = resv
      /\ \A z \in Cell : z # tail =>
           g[z] = IF z > tail /\ z < tail + len THEN Junk ELSE mem[z]
  <2> HIDE DEF Cell
  <2> QED
    BY FinishCells DEF g, len
<1>6. \A z \in Cell : HeaderIn(g, z) /\ z # tail =>
        g[z] = mem[z] /\ (z < tail \/ z >= tail + len)
  BY <1>3, <1>5, Lengths DEF HeaderIn, Junk
<1>7. \A z \in Cell : HeaderIn(mem, z) /\ (z <= tail \/ z >= tail + len)
        => HeaderIn(g, z)
  BY <1>3, <1>5, Lengths DEF HeaderIn
<1>8. Fit(g)
  BY <1>1, <1>2, <1>3, <1>5, <1>6
     DEF IInv, BlocksFit, IsHeader, Fit, HeaderIn
<1>9. Behind(g, tail + len)
  BY <1>2, <1>3, <1>4, <1>5, <1>6 DEF IInv, BehindTail, IsHeader, Behind, HeaderIn
\* Places where a consumer stands are not in the bytes just written.
<1>10. ASSUME NEW p \in Nat, Standing(p), p <= tail \/ p >= tail + len
       PROVE  StandingIn(g, tail + len, p)
  <2>1. CASE p = tail
    BY <2>1, <1>5 DEF StandingIn, HeaderIn
  <2>2. CASE p + HeadLen > BufLen
    BY <2>2 DEF StandingIn
  <2>3. CASE IsHeader(p) /\ p + HeadLen <= BufLen
    <3>1. p \in Cell /\ HeaderIn(mem, p)
      BY <2>3, Lengths DEF IsHeader, HeaderIn
    <3> QED
      BY <3>1, <1>10, <1>7 DEF StandingIn
  <2> QED
    BY <1>10, <2>1, <2>2, <2>3, Lengths DEF Standing
<1>11. Links(g, tail + len)
  <2>1. ASSUME NEW z \in Cell, g[z].kind = "block"
        PROVE  g[z].data = g[z].msg /\ StandingIn(g, tail + len, z + g[z].len)
    <3>1. CASE z = tail
      BY <3>1, <1>5 DEF StandingIn
    <3>2. CASE z # tail
      <4> DEFINE p == z + g[z].len
      <4>1. g[z] = mem[z] /\ (z < tail \/ z >= tail + len)
        BY <2>1, <3>2, <1>6 DEF HeaderIn
      <4>2. g[z].data = g[z].msg /\ Standing(p)
        BY <2>1, <3>2, <4>1 DEF IInv, Chained
      <4>3. z < tail => p <= tail
        BY <2>1, <4>1 DEF IInv, BehindTail, IsHeader
      <4>4. p \in Nat /\ p >= z
        BY <4>1, <1>4
      <4>5. p <= tail \/ p >= tail + len
        BY <4>1, <4>3, <4>4, <1>3
      <4> HIDE DEF p
      <4>6. StandingIn(g, tail + len, p)
        BY <4>2, <4>4, <4>5, <1>10
      <4> QED
        BY <4>2, <4>6 DEF p
    <3> QED
      BY <3>1, <3>2
  <2> QED
    BY <2>1 DEF Links
<1>12. StandingIn(g, tail + len, head)
  BY <1>2, <1>3, <1>10 DEF IInv
<1>13. First(g, tail + len)
  <2>1. 0 \in Cell /\ mem[0].kind = "block"
    BY <1>1 DEF IInv, FirstBlock
  <2>2. HeaderIn(g, 0)
    BY <2>1, <1>3, <1>7 DEF HeaderIn
  <2>3. g[0].kind = "block"
    BY <2>1, <2>2, <1>5, <1>6
  <2> QED
    BY <2>1, <2>3 DEF First
<1>14. Laid(g, tail')
  BY <1>1, <1>2, <1>3, <1>5, <1>8, <1>9, <1>11, <1>12, <1>13, Lengths DEF Laid
<1>15. hand # None => g[head].kind = "block" /\ (head = tail' => head = 0)
  <2>1. SUFFICES ASSUME hand # None
                 PROVE  g[head].kind = "block" /\ head # tail'
    OBVIOUS
  <2>2. head \in Cell /\ mem[head].kind = "block"
    BY <2>1 DEF IInv, InHand
  <2>3. HeaderIn(g, head)
    BY <2>2, <1>2, <1>3, <1>7, Lengths DEF HeaderIn
  <2> QED
    BY <2>2, <2>3, <1>1, <1>2, <1>3, <1>5, <1>6, Lengths
<1>16. QED
  BY <1>1, <1>14, <1>15, LaidIInv DEF g

(* What FrontBlock finds: the block at FrontPos, whole, below tail_ if it   *)
(* starts below it.                                                         *)
LEMMA FrontFinds ==
  ASSUME IInv, resv = None, hand = None, head # tail
  PROVE  /\ FrontPos \in Cell
         /\ mem[FrontPos] = FrontCell
         /\ FrontCell.kind = "block"
         /\ FrontCell.msg \in Msg
         /\ FrontCell.data = FrontCell.msg
         /\ FrontPos < tail => FrontPos + FrontCell.len <= tail
         /\ FrontCell.len >= HeadLen
         /\ FrontPos \in {0, head}
         /\ Readings(mem[Front1]) = {mem[Front1]}
         /\ IsDiscard(mem[Front1]) => Readings(mem[0]) = {mem[0]}
<1>1. head \in 0 .. BufLen /\ mem \in [Cell -> Header]
  BY DEF IInv, TypeOK
<1>2. First(mem, tail) /\ 0 \in Cell /\ mem[0].kind = "block"
  BY <1>1, LaidNow DEF Laid, First
<1>3. Front1 \in Cell /\ IsHeader(Front1) /\ Front1 \in {0, head}
  <2>1. CASE head + HeadLen > BufLen
    BY <2>1, <1>2 DEF Front1, IsHeader
  <2>2. CASE ~(head + HeadLen > BufLen)
    BY <2>2, <1>1, Lengths DEF IInv, Standing, Front1
  <2> QED
    BY <2>1, <2>2
<1>4. Front1 # 0 /\ mem[Front1].kind = "discard" => IsDiscard(mem[Front1])
  BY <1>3 DEF IInv, BlocksFit, IsDiscard
<1>5. /\ FrontPos \in Cell
      /\ mem[FrontPos] = FrontCell
      /\ FrontCell.kind = "block"
      /\ FrontPos \in {0, head}
  BY <1>2, <1>3, <1>4 DEF FrontPos, FrontCell, IsHeader, IsDiscard
<1>6. /\ FrontCell.msg \in Msg
      /\ FrontCell.data = FrontCell.msg
      /\ FrontCell.len >= HeadLen
      /\ FrontPos < tail => FrontPos + FrontCell.len <= tail
  BY <1>5 DEF IInv, BlocksFit, Chained, BehindTail, IsHeader
<1>7. /\ Readings(mem[Front1]) = {mem[Front1]}
      /\ Readings(mem[0]) = {mem[0]}
  BY <1>2, <1>3 DEF Readings, IsHeader
<1> QED
  BY <1>5, <1>6, <1>7

LEMMA FrontBlockStep ==
  ASSUME IInv, resv = None, FrontBlock
  PROVE  IInv'
<1>1. hand = None /\ head # tail /\ UNCHANGED <<tail, mem, resv>>
  BY DEF FrontBlock
<1>2. /\ FrontPos \in Cell
      /\ mem[FrontPos] = FrontCell
      /\ FrontCell.kind = "block"
      /\ FrontCell.msg \in Msg
      /\ FrontCell.data = FrontCell.msg
      /\ FrontPos \in {0, head}
      /\ Readings(mem[Front1]) = {mem[Front1]}
      /\ IsDiscard(mem[Front1]) => Readings(mem[0]) = {mem[0]}
  BY <1>1, FrontFinds
<1>3. /\ head' = FrontPos
      /\ hand' \in {None, [msg |-> FrontCell.msg, data |-> FrontCell.data]}
  BY <1>2 DEF FrontBlock, FrontPos, FrontCell
<1>4. TypeOK'
  <2>1. head' \in 0 .. BufLen
    BY <1>2, <1>3, Lengths
  <2>2. hand' \in [msg : Msg, data : Msg \cup {None}] \cup {None}
    BY <1>2, <1>3
  <2> QED
    BY <2>1, <2>2, <1>1 DEF IInv, TypeOK
<1>5. BlocksFit' /\ BehindTail' /\ Chained'
  BY <1>1
     DEF IInv, BlocksFit, BehindTail, Chained, IsHeader, Standing
<1>6. Standing(head)' /\ FirstBlock'
  <2>1. 0 \in Cell /\ mem[0].kind = "block"
    BY <1>1 DEF IInv, FirstBlock
  <2> QED
    BY <2>1, <1>1, <1>2, <1>3 DEF Standing, IsHeader, FirstBlock
<1>7. Reserved' /\ InHand'
  BY <1>1, <1>2, <1>3 DEF Reserved, InHand
<1>8. HandIntact'
  BY <1>2, <1>3 DEF HandIntact
<1> QED
  BY <1>4, <1>5, <1>6, <1>7, <1>8 DEF IInv

LEMMA PopBlockStep ==
  ASSUME IInv, resv = None, PopBlock
  PROVE  IInv'
<1>1. hand # None /\ hand' = None /\ UNCHANGED <<tail, mem, resv>>
  BY DEF PopBlock
<1>2. head \in Cell /\ mem[head].kind = "block"
  BY <1>1 DEF IInv, InHand
<1>3. head' = head + mem[head].len
  BY <1>2 DEF PopBlock, Readings
<1>4. /\ Standing(head + mem[head].len)
      /\ head + mem[head].len \in 0 .. BufLen
  BY <1>2 DEF IInv, TypeOK, BlocksFit, Chained, IsHeader, Header
<1>5. TypeOK'
  BY <1>1, <1>3, <1>4 DEF IInv, TypeOK
<1>6. BlocksFit' /\ BehindTail' /\ Chained' /\ Standing(head)'
  BY <1>1, <1>3, <1>4
     DEF IInv, BlocksFit, BehindTail, Chained, IsHeader, Standing
<1>7. FirstBlock' /\ Reserved' /\ InHand' /\ HandIntact'
  BY <1>1 DEF IInv, FirstBlock, Reserved, InHand, HandIntact
<1> QED
  BY <1>5, <1>6, <1>7 DEF IInv

-----------------------------------------------------------------------------
(* Every call keeps IInv. *)
LEMMA SerialStep == IInv /\ [SerialNext]_vars => IInv'
<1> SUFFICES ASSUME IInv, [SerialNext]_vars PROVE IInv'
  OBVIOUS
<1>1. CASE \E m \in Msg : BufferForPush(m)
  BY <1>1, BufferForPushStep
<1>2. CASE \E m \in Msg : RefusePush(m)
  BY <1>2, RefusePushStep
<1>3. CASE PushFinish
  BY <1>3, PushFinishStep
<1>4. CASE resv = None /\ FrontBlock
  BY <1>4, FrontBlockStep
<1>5. CASE resv = None /\ PopBlock
  BY <1>5, PopBlockStep
<1>6. CASE UNCHANGED vars
  BY <1>6
     DEF vars, IInv, TypeOK, BlocksFit, BehindTail, Chained, Standing,
         IsHeader, FirstBlock, Reserved, InHand, HandIntact
<1> QED
  BY <1>1, <1>2, <1>3, <1>4, <1>5, <1>6 DEF SerialNext, Producer, Consumer

(* IInv holds in every state of SerialSpec: the layout of the buffer        *)
(* survives every sequence of pushes, refused pushes and pops.              *)
THEOREM LayoutInvariant == SerialSpec => []IInv
<1> QED
  BY InitIInv, SerialStep, PTL DEF SerialSpec

(* Offsets stay in the buffer and cells hold headers.                       *)
THEOREM TypeCorrect == SerialSpec => []TypeOK
<1>1. IInv => TypeOK
  BY DEF IInv
<1> QED
  BY <1>1, LayoutInvariant, PTL

(* The error branches of FrontBlock are dead when calls do not interleave:  *)
(* for every size of buffer, header and message, full or not.               *)
THEOREM ConsumerAligned == SerialSpec => []FrontAligned
<1>1. IInv => FrontAligned
  <2> SUFFICES ASSUME IInv, head # tail, hand = None, resv = None
               PROVE  FrontCell.kind = "block" /\ ~Unlikely(FrontPos, FrontCell)
    BY DEF FrontAligned
  <2>1. /\ FrontPos \in Cell
        /\ mem[FrontPos] = FrontCell
        /\ FrontCell.kind = "block"
        /\ FrontCell.len >= HeadLen
        /\ FrontPos < tail => FrontPos + FrontCell.len <= tail
    BY FrontFinds
  <2>2. FrontCell.len \in Nat /\ tail \in 0 .. BufLen
    BY <2>1 DEF IInv, TypeOK, Header
  <2> QED
    BY <2>1, <2>2, Lengths DEF Unlikely
<1> QED
  BY <1>1, LayoutInvariant, PTL

(* BufferForPush never gives its caller bytes past the end of the buffer.   *)
THEOREM CopiesInBounds == SerialSpec => []PushInBounds
<1>1. IInv => PushInBounds
  BY DEF IInv, Reserved, PushInBounds
<1> QED
  BY <1>1, LayoutInvariant, PTL

(* A consumer is only ever given a message whose data was copied in.        *)
THEOREM WholeMessages == SerialSpec => []HandIntact
<1>1. IInv => HandIntact
  BY DEF IInv
<1> QED
  BY <1>1, LayoutInvariant, PTL

-----------------------------------------------------------------------------
(***************************************************************************)
(* The calm queue.  While every push leaves room for twice its block, the  *)
(* unread messages lie whole between head_ and tail_, each leading to the  *)
(* next, and the buffer is the queue its callers expect.                   *)
(***************************************************************************)

Off(i) == unread[i].off
Size(i) == BlockLen(unread[i].msg)

\* What CalmInv says of a calm queue, in numbers.
LEMMA CalmFacts ==
  ASSUME CalmInv, calm
  PROVE  /\ Len(unread) \in Nat
         /\ head \in 0 .. BufLen /\ tail \in 0 .. BufLen
         /\ \A i \in 1 .. Len(unread) :
              /\ unread[i] \in [off : Cell, msg : Msg]
              /\ Off(i) \in Cell /\ unread[i].msg \in Msg
              /\ Size(i) \in Nat /\ Size(i) >= HeadLen
              /\ EndOf(unread[i]) = Off(i) + Size(i)
              /\ Off(i) + Size(i) <= BufLen
              /\ mem[Off(i)] = [Block(unread[i].msg) EXCEPT !.data = unread[i].msg]
              /\ Ahead(Off(i)) + Size(i) <= Used
         /\ \A i, j \in 1 .. Len(unread) :
              i < j => Ahead(Off(i)) + Size(i) <= Ahead(Off(j))
<1>1. Len(unread) \in Nat
  BY LenProperties DEF CalmInv
<1>2. head \in 0 .. BufLen /\ tail \in 0 .. BufLen
  BY DEF CalmInv, IInv, TypeOK
<1>3. ASSUME NEW i \in 1 .. Len(unread)
      PROVE  /\ unread[i] \in [off : Cell, msg : Msg]
             /\ Off(i) \in Cell /\ unread[i].msg \in Msg
             /\ Size(i) \in Nat /\ Size(i) >= HeadLen
             /\ EndOf(unread[i]) = Off(i) + Size(i)
             /\ Off(i) + Size(i) <= BufLen
             /\ mem[Off(i)] = [Block(unread[i].msg) EXCEPT !.data = unread[i].msg]
             /\ Ahead(Off(i)) + Size(i) <= Used
  <2>1. /\ unread[i] \in [off : Cell, msg : Msg]
        /\ EndOf(unread[i]) <= BufLen
        /\ mem[Off(i)] = [Block(unread[i].msg) EXCEPT !.data = unread[i].msg]
    BY DEF CalmInv, Whole, Off
  <2>2. Off(i) \in Cell /\ unread[i].msg \in Msg
    BY <2>1 DEF Off
  <2>3. Size(i) \in Nat /\ Size(i) >= HeadLen
    BY <2>2, Lengths DEF Size
  <2>4. EndOf(unread[i]) = Off(i) + Size(i)
    BY DEF EndOf, Off, Size
  <2>5. Ahead(Off(i)) + Size(i) <= Used
    BY DEF CalmInv, Ordered, Off, Size
  <2> QED BY <2>1, <2>2, <2>3, <2>4, <2>5
<1>4. ASSUME NEW i \in 1 .. Len(unread), NEW j \in 1 .. Len(unread), i < j
      PROVE  Ahead(Off(i)) + Size(i) <= Ahead(Off(j))
  <2>1. j \in i + 1 .. Len(unread)
    BY <1>1, <1>4
  <2> QED BY <2>1 DEF CalmInv, Ordered, Off, Size
<1> QED BY <1>1, <1>2, <1>3, <1>4

\* An unread message at offset 0 that its predecessor does not end at: the queue
\* goes round the end of the buffer.
LEMMA GoesRound ==
  ASSUME head \in 0 .. BufLen, tail \in 0 .. BufLen,
         NEW x \in Cell, NEW l \in Nat, l > 0,
         Ahead(x) + l <= Ahead(0), Ahead(0) < Used \/ tail = 0
  PROVE  head <= x /\ tail < head
<1> QED BY Lengths DEF Ahead, Used

LeadsIn(f, p, x) ==
  \/ x = p
  \/ x = 0 /\ (p + HeadLen > BufLen \/ (p \in Cell /\ f[p].kind = "discard"))

\* A way round that leads to offset 0 is still there after a write that does not
\* touch it.
LEMMA LeadsKept ==
  ASSUME CalmInv, NEW p \in Nat, NEW x, Leads(p, x),
         x # p => p >= head /\ tail < head,
         \A z \in Cell : Ahead(z) + HeadLen <= Used => mem'[z] = mem[z]
  PROVE  LeadsIn(mem', p, x)
<1>1. CASE x = p
  BY <1>1 DEF Leads, LeadsIn
<1>2. CASE x = 0 /\ p + HeadLen > BufLen
  BY <1>2 DEF Leads, LeadsIn
<1>3. CASE x = 0 /\ x # p /\ p \in Cell /\ mem[p].kind = "discard"
  <2>1. mem[p].len = HeadLen /\ p + mem[p].len <= BufLen
    BY <1>3 DEF CalmInv, IInv, BlocksFit, IsHeader
  <2>2. head \in 0 .. BufLen /\ tail \in 0 .. BufLen
    BY DEF CalmInv, IInv, TypeOK
  <2>3. Ahead(p) + HeadLen <= Used
    BY <1>3, <2>1, <2>2, Lengths DEF Ahead, Used
  <2>4. mem'[p] = mem[p]
    BY <1>3, <2>3
  <2> QED BY <1>3, <2>4 DEF Leads, LeadsIn
<1> QED BY <1>1, <1>2, <1>3 DEF Leads, LeadsIn

\* The ways between the unread messages survive such a write.
LEMMA WaysKept ==
  ASSUME CalmInv, calm,
         \A z \in Cell : Ahead(z) + HeadLen <= Used => mem'[z] = mem[z]
  PROVE  /\ (unread # <<>> => LeadsIn(mem', head, Off(1)))
         /\ \A i \in 1 .. Len(unread) - 1 :
              LeadsIn(mem', EndOf(unread[i]), Off(i + 1))
<1>1. /\ Len(unread) \in Nat
      /\ head \in 0 .. BufLen /\ tail \in 0 .. BufLen
      /\ \A i \in 1 .. Len(unread) :
           /\ Off(i) \in Cell
           /\ Size(i) \in Nat /\ Size(i) >= HeadLen
           /\ EndOf(unread[i]) = Off(i) + Size(i)
           /\ Ahead(Off(i)) + Size(i) <= Used
      /\ \A i, j \in 1 .. Len(unread) :
           i < j => Ahead(Off(i)) + Size(i) <= Ahead(Off(j))
  <2> HIDE DEF Cell
  <2> QED BY CalmFacts
<1>2. /\ unread # <<>> => Leads(head, Off(1))
      /\ \A i \in 1 .. Len(unread) - 1 : Leads(EndOf(unread[i]), Off(i + 1))
  BY DEF CalmInv, Connected, Off
<1>3. ASSUME unread # <<>> PROVE LeadsIn(mem', head, Off(1))
  <2>1. 1 \in 1 .. Len(unread)
    BY <1>1, <1>3, EmptySeq DEF CalmInv
  <2>2. Off(1) # head => tail < head
    <3> SUFFICES ASSUME Off(1) # head PROVE tail < head
      OBVIOUS
    <3>1. Off(1) = 0
      BY <1>2, <1>3 DEF Leads
    <3>2. Ahead(0) + Size(1) <= Used /\ Size(1) \in Nat /\ Size(1) > 0
      BY <1>1, <2>1, <3>1, Lengths
    <3> QED BY <3>1, <3>2, <1>1, Lengths DEF Ahead, Used
  <2>3. Leads(head, Off(1)) /\ head \in Nat
    BY <1>1, <1>2, <1>3
  <2>4. ASSUME NEW x, x = Off(1) PROVE LeadsIn(mem', head, x)
    <3>1. /\ Leads(head, x) /\ head \in Nat
          /\ x # head => head >= head /\ tail < head
      BY <2>2, <2>3, <2>4
    <3> HIDE DEF Cell
    <3>2. \A p \in Nat : Leads(p, x) /\ (x # p => p >= head /\ tail < head)
                           => LeadsIn(mem', p, x)
      BY LeadsKept
    <3> QED BY <3>1, <3>2 DEF Leads
  <2> QED BY <2>4 DEF Leads, Off
<1>4. ASSUME NEW i \in 1 .. Len(unread) - 1
      PROVE  LeadsIn(mem', EndOf(unread[i]), Off(i + 1))
  <2>1. i \in 1 .. Len(unread) /\ i + 1 \in 1 .. Len(unread) /\ i < i + 1
    BY <1>1
  <2>2. Leads(EndOf(unread[i]), Off(i + 1))
    BY <1>2
  <2>3. ASSUME NEW p, p = EndOf(unread[i]), NEW x, x = Off(i + 1)
        PROVE  LeadsIn(mem', p, x)
    <3>1. /\ p = Off(i) + Size(i) /\ p \in Nat
          /\ Off(i) \in Cell /\ Size(i) \in Nat /\ Size(i) > 0
          /\ Ahead(Off(i)) + Size(i) <= Ahead(x)
          /\ x \in Cell /\ Ahead(x) < Used
      <4>1. /\ Ahead(Off(i)) + Size(i) <= Ahead(x)
            /\ Off(i) \in Cell /\ Size(i) \in Nat /\ Size(i) >= HeadLen
            /\ p = Off(i) + Size(i)
        BY <1>1, <2>1, <2>3
      <4>2. /\ x \in Cell /\ Ahead(x) + Size(i + 1) <= Used
            /\ Size(i + 1) \in Nat /\ Size(i + 1) >= HeadLen
        BY <1>1, <2>1, <2>3
      <4>3. Ahead(x) < Used
        BY <4>2, <1>1, Lengths DEF Ahead, Used
      <4> QED BY <4>1, <4>2, <4>3, Lengths
    <3>2. x # p => p >= head /\ tail < head
      <4> SUFFICES ASSUME x # p PROVE p >= head /\ tail < head
        OBVIOUS
      <4>1. x = 0
        BY <2>2, <2>3 DEF Leads
      <4>2. \A y \in Cell, l \in Nat :
              l > 0 /\ Ahead(y) + l <= Ahead(0) /\ Ahead(0) < Used
                => head <= y /\ tail < head
        <5> HIDE DEF Cell
        <5> QED BY <1>1, GoesRound
      <4>3. head <= Off(i) /\ tail < head
        <5>1. Ahead(Off(i)) + Size(i) <= Ahead(0) /\ Ahead(0) < Used
          BY <3>1, <4>1
        <5> QED BY <3>1, <4>2, <5>1
      <4> QED BY <3>1, <4>3, <1>1
    <3> HIDE DEF Cell
    <3>3. \A q \in Nat : Leads(q, x) /\ (x # q => q >= head /\ tail < head)
                           => LeadsIn(mem', q, x)
      BY LeadsKept
    <3> QED BY <2>2, <2>3, <3>1, <3>2, <3>3 DEF Leads
  <2> QED BY <2>3 DEF Leads, EndOf, Off, BlockLen
<1> QED BY <1>3, <1>4
\* Where BufferForPush puts the block of a calm push: at tail_, or at offset 0
\* with head_ beyond it.  It is not refused.
LEMMA CalmPlace ==
  ASSUME IInv, resv = None, NEW m \in Msg, Calm(m)
  PROVE  /\ ~Full(m)
         /\ \/ /\ Tail2(m) = tail /\ Mem2(m) = mem
               /\ tail + BlockLen(m) <= BufLen
               /\ tail < head => tail + BlockLen(m) < head
            \/ /\ Tail2(m) = 0 /\ tail >= head /\ head > BlockLen(m)
               /\ \/ tail + HeadLen > BufLen /\ Mem2(m) = mem
                  \/ /\ tail + HeadLen <= BufLen
                     /\ Mem2(m) = WriteHeader(mem, tail, Discard)
<1>1. /\ head \in 0 .. BufLen /\ tail \in 0 .. BufLen
      /\ BlockLen(m) \in Nat /\ BlockLen(m) >= HeadLen /\ BlockLen(m) <= BufLen
  BY Lengths DEF IInv, TypeOK
<1>2. Used + 2 * BlockLen(m) <= BufLen
  BY DEF Calm
<1>3. CASE tail < head
  <2>1. tail + BlockLen(m) < head
    BY <1>1, <1>2, <1>3, Lengths DEF Used, Ahead
  <2>2. Tail1 = tail
    BY <1>1, <1>3 DEF Tail1
  <2>3. ~Discards(m)
    BY <1>1, <1>3, <2>2 DEF Discards
  <2>4. Tail2(m) = tail /\ Mem2(m) = mem
    BY <2>2, <2>3 DEF Tail2, Mem2
  <2>5. ~Full(m)
    BY <1>1, <2>1, <2>4 DEF Full
  <2> QED BY <1>1, <2>1, <2>4, <2>5, Lengths
<1>4. CASE tail >= head /\ tail + HeadLen > BufLen
  <2>1. head > BlockLen(m) /\ head > 0 /\ 0 + BlockLen(m) <= BufLen
    BY <1>1, <1>2, <1>4, Lengths DEF Used, Ahead
  <2>2. Tail1 = 0
    BY <1>4 DEF Tail1
  <2>3. ~Discards(m)
    BY <1>1, <2>1, <2>2 DEF Discards
  <2>4. Tail2(m) = 0 /\ Mem2(m) = mem
    BY <2>2, <2>3 DEF Tail2, Mem2
  <2>5. ~Full(m)
    BY <1>1, <2>1, <2>4 DEF Full
  <2> QED BY <1>4, <2>1, <2>4, <2>5
<1>5. CASE tail >= head /\ tail + HeadLen <= BufLen /\ tail + BlockLen(m) > BufLen
  <2>1. head > BlockLen(m)
    BY <1>1, <1>2, <1>5, Lengths DEF Used, Ahead
  <2>2. Tail1 = tail
    BY <1>1, <1>5, Lengths DEF Tail1
  <2>3. Discards(m)
    BY <1>5, <2>2 DEF Discards
  <2>4. Tail2(m) = 0 /\ Mem2(m) = WriteHeader(mem, tail, Discard)
    BY <2>2, <2>3 DEF Tail2, Mem2
  <2>5. ~Full(m)
    BY <1>1, <2>1, <2>4 DEF Full
  <2> QED BY <1>5, <2>1, <2>4, <2>5
<1>6. CASE tail >= head /\ tail + BlockLen(m) <= BufLen
  <2>1. Tail1 = tail
    BY <1>1, <1>6, Lengths DEF Tail1
  <2>2. ~Discards(m)
    BY <1>1, <1>6, <2>1, Lengths DEF Discards
  <2>3. Tail2(m) = tail /\ Mem2(m) = mem
    BY <2>1, <2>2 DEF Tail2, Mem2
  <2>4. ~Full(m)
    BY <1>1, <1>6, <2>3 DEF Full
  <2> QED BY <1>1, <1>6, <2>3, <2>4
<1> QED BY <1>1, <1>3, <1>4, <1>5, <1>6, Lengths

\* The calm parts of CalmInv, of which a step has to show the changes only.
CalmParts == Whole /\ Ordered /\ Connected /\ HandIsOldest

\* A write that leaves the headers between head_ and tail_ alone keeps the unread
\* messages whole.
LEMMA CellsKept ==
  ASSUME CalmInv, calm,
         \A z \in Cell : Ahead(z) + HeadLen <= Used => mem'[z] = mem[z]
  PROVE  \A i \in 1 .. Len(unread) : mem'[Off(i)] = mem[Off(i)]
<1> SUFFICES ASSUME NEW i \in 1 .. Len(unread) PROVE mem'[Off(i)] = mem[Off(i)]
  OBVIOUS
<1>1. /\ head \in 0 .. BufLen /\ tail \in 0 .. BufLen
      /\ Off(i) \in Cell
      /\ Size(i) \in Nat /\ Size(i) >= HeadLen
      /\ Ahead(Off(i)) + Size(i) <= Used
  <2> HIDE DEF Cell
  <2> QED BY CalmFacts
<1>2. Ahead(Off(i)) \in Int /\ Used \in Int
  BY <1>1, Lengths DEF Ahead, Used
<1>3. Ahead(Off(i)) + HeadLen <= Used
  BY <1>1, <1>2, Lengths
<1> QED BY <1>1, <1>3

\* A write that leaves the headers between head_ and tail_ alone keeps the unread
\* messages where they are.
LEMMA MessagesKept ==
  ASSUME CalmInv, calm, UNCHANGED <<head, unread>>,
         tail' \in 0 .. BufLen, Used' >= Used,
         \A z \in Cell : Ahead(z) + HeadLen <= Used => mem'[z] = mem[z]
  PROVE  Whole' /\ Ordered'
<1>1. /\ Len(unread) \in Nat
      /\ head \in 0 .. BufLen /\ tail \in 0 .. BufLen
      /\ \A i \in 1 .. Len(unread) :
           /\ unread[i] \in [off : Cell, msg : Msg]
           /\ Off(i) \in Cell
           /\ Size(i) \in Nat /\ Size(i) >= HeadLen
           /\ EndOf(unread[i]) = Off(i) + Size(i)
           /\ Off(i) + Size(i) <= BufLen
           /\ mem[Off(i)] = [Block(unread[i].msg) EXCEPT !.data = unread[i].msg]
           /\ Ahead(Off(i)) + Size(i) <= Used
      /\ \A i, j \in 1 .. Len(unread) :
           i < j => Ahead(Off(i)) + Size(i) <= Ahead(Off(j))
  <2> HIDE DEF Cell
  <2> QED BY CalmFacts
<1>2. \A i \in 1 .. Len(unread) : Ahead(Off(i)) \in Int
  <2>1. \A x \in Cell : Ahead(x) \in Int
    BY <1>1, Lengths DEF Ahead
  <2> QED BY <1>1, <2>1
<1>3. Used \in Int
  BY <1>1, Lengths DEF Used, Ahead
<1>4. Whole'
  <2>1. \A i \in 1 .. Len(unread) : mem'[Off(i)] = mem[Off(i)]
    <3> HIDE DEF Cell
    <3> QED BY CellsKept
  <2> QED BY <1>1, <2>1 DEF Whole, Off, EndOf
<1>5. Used' \in Int
  BY <1>1, Lengths DEF Used, Ahead
<1>6. ASSUME NEW i \in 1 .. Len(unread)
      PROVE  Ahead(Off(i)) + Size(i) <= Used'
  <2>1. Ahead(Off(i)) + Size(i) <= Used /\ Size(i) \in Nat
    BY <1>1
  <2>2. Ahead(Off(i)) \in Int
    BY <1>2
  <2> QED BY <2>1, <2>2, <1>3, <1>5
<1>7. Ordered'
  <2>1. \A x : Ahead(x)' = IF x >= head THEN x - head ELSE BufLen - head + x
    BY DEF Ahead
  <2>2. \A x : Ahead(x) = IF x >= head THEN x - head ELSE BufLen - head + x
    BY DEF Ahead
  <2>3. \A i, j \in 1 .. Len(unread) :
          i < j => Ahead(Off(i)) + Size(i) <= Ahead(Off(j))
    BY <1>1
  <2>4. \A i \in 1 .. Len(unread) :
          \A j \in i + 1 .. Len(unread) : j \in 1 .. Len(unread) /\ i < j
    BY <1>1
  <2> HIDE DEF Ahead
  <2>5. \A i \in 1 .. Len(unread) : Ahead(unread[i].off)' = Ahead(Off(i))
    BY <2>1, <2>2 DEF Off
  <2> QED BY <1>6, <2>3, <2>4, <2>5 DEF Ordered, Off, Size
<1> QED BY <1>4, <1>7
\* A calm BufferForPush writes beside the unread messages and leaves a way to the
\* place it gives.
LEMMA CalmPushStep ==
  ASSUME CalmInv, calm, NEW m \in Msg, Calm(m), BufferForPush(m),
         UNCHANGED unread
  PROVE  CalmParts'
<1>1. /\ resv = None /\ tail' = Tail2(m)
      /\ mem' = WriteHeader(Mem2(m), Tail2(m), Block(m))
      /\ resv' = m /\ resv' # None /\ UNCHANGED <<head, hand>>
  BY Lengths DEF BufferForPush
<1>2. /\ head \in 0 .. BufLen /\ tail \in 0 .. BufLen
      /\ mem \in [Cell -> Header]
      /\ BlockLen(m) \in Nat /\ BlockLen(m) >= HeadLen /\ BlockLen(m) <= BufLen
  BY Lengths DEF CalmInv, IInv, TypeOK
<1>3. /\ Block(m) \in Header /\ Discard \in Header /\ Discard.kind = "discard"
  BY CellValues DEF Discard
<1>4. tail = LastEnd
  BY <1>1 DEF CalmInv, Connected
<1> DEFINE Kept == \A z \in Cell : Ahead(z) + HeadLen <= Used => mem'[z] = mem[z]
\* What Leads(LastEnd, tail) becomes.
<1> DEFINE Led == \/ tail' = tail
                  \/ /\ tail' = 0
                     /\ \/ tail + HeadLen > BufLen
                        \/ tail \in Cell /\ mem'[tail].kind = "discard"
<1>5. Kept /\ tail' \in 0 .. BufLen /\ Used' >= Used /\ Led
  <2>1. CASE /\ Tail2(m) = tail /\ Mem2(m) = mem
             /\ tail + BlockLen(m) <= BufLen
             /\ tail < head => tail + BlockLen(m) < head
    <3>1. tail \in Cell /\ tail' = tail
      BY <1>1, <1>2, <2>1, Lengths
    <3>2. \A z \in Cell : z # tail =>
            mem'[z] = IF z + HeadLen > tail /\ z < tail + HeadLen
                      THEN Junk ELSE mem[z]
      <4> HIDE DEF Cell
      <4> QED BY <1>1, <1>2, <1>3, <2>1, <3>1, WriteHeaderCells
    <3>3. ASSUME NEW z \in Cell, Ahead(z) + HeadLen <= Used
          PROVE  z # tail /\ ~(z + HeadLen > tail /\ z < tail + HeadLen)
      <4>1. CASE tail >= head
        BY <1>2, <2>1, <3>3, <4>1, Lengths DEF Ahead, Used
      <4>2. CASE tail < head
        BY <1>2, <2>1, <3>3, <4>2, Lengths DEF Ahead, Used
      <4> QED BY <1>2, <4>1, <4>2
    <3>4. Kept
      BY <3>2, <3>3
    <3>5. Used' = Used /\ Used \in Int
      BY <1>1, <1>2, <3>1, Lengths DEF Used, Ahead
    <3>6. Led
      BY <3>1
    <3> QED BY <1>2, <3>1, <3>4, <3>5, <3>6
  <2>2. CASE /\ Tail2(m) = 0 /\ tail >= head /\ head > BlockLen(m)
             /\ \/ tail + HeadLen > BufLen /\ Mem2(m) = mem
                \/ /\ tail + HeadLen <= BufLen
                   /\ Mem2(m) = WriteHeader(mem, tail, Discard)
    <3> DEFINE f == Mem2(m)
    <3>1. 0 \in Cell /\ tail' = 0
      BY <1>1, <1>2, <2>2, Lengths
    <3>2. /\ f \in [Cell -> Header]
          /\ \A z \in Cell : Ahead(z) + HeadLen <= Used => f[z] = mem[z]
          /\ tail + HeadLen > BufLen \/ (tail \in Cell /\ f[tail] = Discard)
      <4>1. CASE tail + HeadLen > BufLen /\ f = mem
        BY <1>2, <4>1
      <4>2. CASE tail + HeadLen <= BufLen /\ f = WriteHeader(mem, tail, Discard)
        <5>1. tail \in Cell
          BY <1>2, <4>2, Lengths
        <5>2. /\ f \in [Cell -> Header] /\ f[tail] = Discard
              /\ \A z \in Cell : z # tail =>
                   f[z] = IF z + HeadLen > tail /\ z < tail + HeadLen
                          THEN Junk ELSE mem[z]
          <6> HIDE DEF Cell, f
          <6> QED BY <1>2, <1>3, <4>2, <5>1, WriteHeaderCells
        <5>3. ASSUME NEW z \in Cell, Ahead(z) + HeadLen <= Used
              PROVE  z # tail /\ ~(z + HeadLen > tail)
          BY <1>2, <2>2, <5>3, Lengths DEF Ahead, Used
        <5> HIDE DEF f
        <5> QED BY <5>1, <5>2, <5>3
      <4> QED BY <2>2, <4>1, <4>2
    <3> HIDE DEF f
    <3>3. \A z \in Cell : z # 0 =>
            mem'[z] = IF z + HeadLen > 0 /\ z < 0 + HeadLen THEN Junk ELSE f[z]
      <4>1. mem' = WriteHeader(f, 0, Block(m))
        BY <1>1, <2>2 DEF f
      <4> HIDE DEF Cell
      <4> QED BY <1>3, <3>1, <3>2, <4>1, WriteHeaderCells
    <3>4. ASSUME NEW z \in Cell, z >= head
          PROVE  mem'[z] = f[z]
      <4>1. z # 0 /\ ~(z < 0 + HeadLen)
        BY <1>2, <2>2, <3>4, Lengths
      <4> QED BY <3>3, <4>1
    <3>5. ASSUME NEW z \in Cell, Ahead(z) + HeadLen <= Used
          PROVE  z >= head
      BY <1>2, <2>2, <3>5, Lengths DEF Ahead, Used
    <3>6. Kept
      BY <3>2, <3>4, <3>5
    <3>7. Used' >= Used /\ tail' \in 0 .. BufLen
      BY <1>1, <1>2, <2>2, <3>1, Lengths DEF Used, Ahead
    <3>8. Led
      <4>1. tail \in Cell => mem'[tail] = f[tail]
        BY <2>2, <3>4
      <4> QED BY <1>3, <3>1, <3>2, <4>1
    <3> QED BY <3>6, <3>7, <3>8
  <2>3. IInv
    BY DEF CalmInv
  <2> QED BY <1>1, <2>1, <2>2, <2>3, CalmPlace
<1>6. Whole' /\ Ordered'
  BY <1>1, <1>5, MessagesKept
<1>7. /\ unread # <<>> => LeadsIn(mem', head, Off(1))
      /\ \A i \in 1 .. Len(unread) - 1 :
           LeadsIn(mem', EndOf(unread[i]), Off(i + 1))
  BY <1>1, <1>5, WaysKept
<1>8. Leads(LastEnd, tail)'
  <2>1. LastEnd' = tail
    BY <1>1, <1>4 DEF LastEnd, EndOf
  <2> HIDE DEF Cell
  <2> QED BY <1>5, <2>1 DEF Leads
<1>9. Connected'
  BY <1>1, <1>7, <1>8 DEF Connected, Off, EndOf, Leads, LeadsIn
<1>10. HandIsOldest'
  BY <1>1 DEF CalmInv, HandIsOldest
<1> QED BY <1>6, <1>9, <1>10 DEF CalmParts
\* PushFinish appends the message to the unread ones, in its place and in the
\* order of the offsets.
LEMMA CalmFinishStep ==
  ASSUME CalmInv, calm, PushFinish,
         unread' = Append(unread, [off |-> tail, msg |-> resv])
  PROVE  CalmParts'
<1> DEFINE n == Len(unread)
           u == [off |-> tail, msg |-> resv]
           l == BlockLen(resv)
<1>1. /\ resv \in Msg /\ resv # None /\ resv' = None
      /\ tail' = tail + l
      /\ UNCHANGED <<head, hand>>
  BY DEF PushFinish, CalmInv, IInv, TypeOK
<1>2. /\ head \in 0 .. BufLen /\ tail \in Cell
      /\ l \in Nat /\ l >= HeadLen
      /\ tail + l <= BufLen
      /\ tail < head => tail + l < head
  BY <1>1, Lengths DEF CalmInv, IInv, TypeOK, Reserved
<1>3. /\ mem'[tail] = [Block(resv) EXCEPT !.data = resv]
      /\ \A z \in Cell : z # tail =>
           mem'[z] = IF z > tail /\ z < tail + l THEN Junk ELSE mem[z]
  <2> HIDE DEF Cell
  <2> QED BY FinishCells DEF CalmInv
<1>4. /\ n \in Nat
      /\ \A i \in 1 .. n :
           /\ unread[i] \in [off : Cell, msg : Msg]
           /\ Off(i) \in Cell
           /\ Size(i) \in Nat /\ Size(i) >= HeadLen
           /\ EndOf(unread[i]) = Off(i) + Size(i)
           /\ Off(i) + Size(i) <= BufLen
           /\ mem[Off(i)] = [Block(unread[i].msg) EXCEPT !.data = unread[i].msg]
           /\ Ahead(Off(i)) + Size(i) <= Used
      /\ \A i, j \in 1 .. n :
           i < j => Ahead(Off(i)) + Size(i) <= Ahead(Off(j))
  <2> HIDE DEF Cell
  <2> QED BY CalmFacts
<1>5. /\ Len(unread') = n + 1 /\ unread' # <<>>
      /\ \A i \in 1 .. n : unread'[i] = unread[i]
      /\ unread'[n + 1] = u
  <2>1. unread \in Seq([off : 0 .. BufLen, msg : Msg])
    BY DEF CalmInv
  <2>2. u \in [off : 0 .. BufLen, msg : Msg]
    BY <1>1, <1>2, Lengths
  <2> HIDE DEF u
  <2> QED BY <2>1, <2>2, AppendProperties DEF u
<1>6. u.off = tail /\ u.msg = resv /\ u \in [off : Cell, msg : Msg]
  BY <1>1, <1>2
<1> HIDE DEF u, l, n
<1>7. ASSUME NEW z \in Cell, Ahead(z) + HeadLen <= Used PROVE mem'[z] = mem[z]
  <2>1. z # tail /\ ~(z > tail /\ z < tail + l)
    <3>1. CASE tail >= head
      BY <1>2, <1>7, <3>1, Lengths DEF Ahead, Used
    <3>2. CASE tail < head
      BY <1>2, <1>7, <3>2, Lengths DEF Ahead, Used
    <3> QED BY <1>2, <3>1, <3>2
  <2> QED BY <1>3, <2>1
<1>8. \A i \in 1 .. n : mem'[Off(i)] = mem[Off(i)]
  <2> HIDE DEF Cell
  <2> QED BY <1>7, CellsKept DEF n
<1>9. Ahead(tail) = Used /\ Used' = Used + l /\ Used \in Nat
  BY <1>1, <1>2, Lengths DEF Used, Ahead
<1>10. \A i \in 1 .. n + 1 : i \in 1 .. n \/ i = n + 1
  BY <1>4
<1>11. Whole'
  <2>1. ASSUME NEW i \in 1 .. n + 1
        PROVE  /\ unread'[i] \in [off : Cell, msg : Msg]
               /\ EndOf(unread'[i]) <= BufLen
               /\ mem'[unread'[i].off] =
                    [Block(unread'[i].msg) EXCEPT !.data = unread'[i].msg]
    <3>1. CASE i \in 1 .. n
      <4>1. unread'[i] = unread[i] /\ mem'[unread[i].off] = mem[unread[i].off]
        BY <3>1, <1>5, <1>8 DEF Off
      <4>2. /\ unread[i] \in [off : Cell, msg : Msg]
            /\ EndOf(unread[i]) <= BufLen
            /\ mem[unread[i].off] =
                 [Block(unread[i].msg) EXCEPT !.data = unread[i].msg]
        <5>1. EndOf(unread[i]) = Off(i) + Size(i) /\ Off(i) + Size(i) <= BufLen
          BY <3>1, <1>4
        <5>2. EndOf(unread[i]) <= BufLen
          BY <5>1, Zenon
        <5> QED BY <3>1, <5>2, <1>4 DEF Off
      <4> HIDE DEF Cell
      <4> QED BY <4>1, <4>2
    <3>2. CASE i = n + 1
      <4>1. EndOf(u) = tail + l
        BY <1>6 DEF EndOf, l
      <4> QED BY <3>2, <4>1, <1>2, <1>3, <1>5, <1>6
    <3> QED BY <1>10, <3>1, <3>2
  <2> HIDE DEF Cell
  <2> QED BY <2>1, <1>5 DEF Whole, EndOf
<1>12. Ordered'
  <2>1. \A x : Ahead(x)' = Ahead(x)
    <3> SUFFICES ASSUME NEW x PROVE Ahead(x)' = Ahead(x)
      OBVIOUS
    <3> QED BY <1>1 DEF Ahead
  <2>2. ASSUME NEW i \in 1 .. n + 1
        PROVE  LET end == Ahead(unread'[i].off) + BlockLen(unread'[i].msg)
               IN  /\ end <= Used + l
                   /\ \A j \in i + 1 .. n + 1 : end <= Ahead(unread'[j].off)
    <3>1. CASE i \in 1 .. n
      <4>1. /\ unread'[i].off = Off(i) /\ BlockLen(unread'[i].msg) = Size(i)
            /\ Size(i) \in Nat /\ Ahead(Off(i)) + Size(i) <= Used
            /\ Off(i) \in Cell
        BY <3>1, <1>4, <1>5 DEF Off, Size
      <4>2. Ahead(Off(i)) \in Int
        BY <4>1, <1>2, Lengths DEF Ahead
      <4>3. Ahead(Off(i)) + Size(i) <= Used + l
        BY <4>1, <4>2, <1>2, <1>9
      <4>4. ASSUME NEW j \in i + 1 .. n + 1
            PROVE  Ahead(Off(i)) + Size(i) <= Ahead(unread'[j].off)
        <5>1. CASE j = n + 1
          BY <5>1, <4>1, <1>5, <1>6, <1>9
        <5>2. CASE j \in 1 .. n
          <6>1. unread'[j].off = Off(j) /\ i < j
            BY <5>2, <3>1, <1>4, <1>5 DEF Off
          <6> QED BY <5>2, <6>1, <3>1, <1>4
        <5>3. j = n + 1 \/ j \in 1 .. n
          BY <3>1, <1>4
        <5> QED BY <5>1, <5>2, <5>3
      <4> QED BY <4>1, <4>3, <4>4
    <3>2. CASE i = n + 1
      <4>1. Ahead(unread'[i].off) + BlockLen(unread'[i].msg) = Used + l
        BY <3>2, <1>5, <1>6, <1>9 DEF l
      <4>2. \A j \in i + 1 .. n + 1 : FALSE
        BY <3>2, <1>4
      <4>3. Used + l <= Used + l
        BY <1>2, <1>9
      <4> QED BY <4>1, <4>2, <4>3
    <3> QED BY <1>10, <3>1, <3>2
  <2> QED BY <2>1, <2>2, <1>5, <1>9 DEF Ordered, BlockLen
<1>13. /\ unread # <<>> => LeadsIn(mem', head, Off(1))
       /\ \A i \in 1 .. n - 1 : LeadsIn(mem', EndOf(unread[i]), Off(i + 1))
  BY <1>7, WaysKept DEF n
<1>14. (unread = <<>>) <=> (n = 0)
  BY <1>4, EmptySeq DEF CalmInv, n
<1>15. LeadsIn(mem', LastEnd, tail)
  <2>1. Leads(LastEnd, tail)
    BY <1>1 DEF CalmInv, Connected
  <2>2. LastEnd \in Nat /\ (tail # LastEnd => LastEnd >= head /\ tail < head)
    <3>1. CASE n = 0
      <4>1. LastEnd = head
        BY <3>1, <1>14 DEF LastEnd
      <4>2. tail # head => tail = 0
        BY <2>1, <4>1 DEF Leads
      <4> QED BY <4>1, <4>2, <1>2, Lengths
    <3>2. CASE n # 0
      <4>1. /\ n \in 1 .. n /\ LastEnd = Off(n) + Size(n)
        <5>1. n \in 1 .. n
          BY <3>2, <1>4
        <5>2. EndOf(unread[n]) = Off(n) + Size(n)
          BY <5>1, <1>4
        <5>3. LastEnd = EndOf(unread[n])
          BY <3>2, <1>14 DEF LastEnd, n
        <5> QED BY <5>1, <5>2, <5>3
      <4>2. /\ Off(n) \in Cell /\ Size(n) \in Nat /\ Size(n) > 0
            /\ Ahead(Off(n)) + Size(n) <= Ahead(tail)
        <5>1. /\ Off(n) \in Cell /\ Size(n) \in Nat /\ Size(n) >= HeadLen
              /\ Ahead(Off(n)) + Size(n) <= Used
          BY <4>1, <1>4
        <5> QED BY <5>1, <1>9, Lengths
      <4>3. tail # LastEnd => tail = 0
        BY <2>1 DEF Leads
      <4>4. ASSUME tail = 0 PROVE head <= Off(n) /\ tail < head
        <5>1. tail \in 0 .. BufLen /\ Ahead(Off(n)) + Size(n) <= Ahead(0)
          BY <4>2, <4>4, <1>2, Lengths
        <5> HIDE DEF Cell
        <5> QED BY <4>2, <4>4, <5>1, <1>2, GoesRound
      <4> QED BY <4>1, <4>2, <4>3, <4>4, <1>2, Lengths
    <3> QED BY <3>1, <3>2
  <2> HIDE DEF Cell
  <2> QED BY <2>1, <2>2, <1>7, LeadsKept
<1>16. Connected'
  <2>1. LeadsIn(mem', head, unread'[1].off)
    <3>1. CASE n = 0
      <4>1. unread'[1].off = tail /\ LastEnd = head
        BY <3>1, <1>5, <1>6, <1>14 DEF LastEnd
      <4> QED BY <4>1, <1>15
    <3>2. CASE n # 0
      <4>1. unread'[1].off = Off(1)
        BY <3>2, <1>4, <1>5 DEF Off
      <4> QED BY <3>2, <4>1, <1>13, <1>14
    <3> QED BY <3>1, <3>2
  <2>2. ASSUME NEW i \in 1 .. n
        PROVE  LeadsIn(mem', EndOf(unread'[i]), unread'[i + 1].off)
    <3>1. CASE i = n
      <4>1. /\ unread'[i + 1].off = tail /\ unread'[i] = unread[i]
            /\ unread # <<>>
        BY <3>1, <1>4, <1>5, <1>6, <1>14
      <4>2. EndOf(unread'[i]) = LastEnd
        BY <3>1, <4>1 DEF LastEnd, n
      <4> QED BY <4>1, <4>2, <1>15
    <3>2. CASE i # n
      <4>1. i \in 1 .. n - 1 /\ i + 1 \in 1 .. n
        BY <3>2, <1>4
      <4>2. unread'[i] = unread[i] /\ unread'[i + 1].off = Off(i + 1)
        BY <4>1, <1>5 DEF Off
      <4> QED BY <4>1, <4>2, <1>13
    <3> QED BY <3>1, <3>2
  <2>3. tail' = LastEnd'
    <3>1. EndOf(unread'[Len(unread')]) = tail + l
      BY <1>5, <1>6 DEF EndOf, l
    <3>2. LastEnd' = EndOf(unread'[Len(unread')])
      BY <1>5 DEF LastEnd, EndOf
    <3> QED BY <3>1, <3>2, <1>1 DEF l
  <2>4. Len(unread') - 1 = n
    BY <1>4, <1>5
  <2> HIDE DEF Cell
  <2> QED BY <2>1, <2>2, <2>3, <2>4, <1>1 DEF Connected, EndOf, Leads, LeadsIn
<1>17. HandIsOldest'
  <2> SUFFICES ASSUME hand # None
               PROVE  /\ unread'[1].off = head
                      /\ hand.data = unread'[1].msg
    BY <1>1, <1>5 DEF HandIsOldest
  <2>1. unread # <<>> /\ unread[1].off = head /\ hand.data = unread[1].msg
    BY DEF CalmInv, HandIsOldest
  <2>2. unread'[1] = unread[1]
    BY <2>1, <1>4, <1>5, <1>14
  <2> QED BY <2>1, <2>2
<1> QED BY <1>11, <1>12, <1>16, <1>17 DEF CalmParts
\* A consumer's step that moves head_ on by d bytes, past the first k unread
\* messages, keeps the others whole and in order.
LEMMA HeadMoves ==
  ASSUME CalmInv, calm, UNCHANGED <<tail, mem>>, NEW d \in Nat,
         NEW q \in Seq([off : 0 .. BufLen, msg : Msg]), NEW k \in Nat,
         Len(q) + k = Len(unread), \A i \in 1 .. Len(q) : q[i] = unread[i + k],
         unread' = q,
         Used' = Used - d,
         \A i \in 1 .. Len(q) : \A x : x = q[i].off => Ahead(x)' = Ahead(x) - d
  PROVE  Whole' /\ Ordered'
<1> DEFINE n == Len(unread)
<1>1. /\ n \in Nat
      /\ head \in 0 .. BufLen /\ tail \in 0 .. BufLen
      /\ \A i \in 1 .. n :
           /\ unread[i] \in [off : Cell, msg : Msg]
           /\ Off(i) \in Cell
           /\ Size(i) \in Nat /\ Size(i) >= HeadLen
           /\ EndOf(unread[i]) = Off(i) + Size(i)
           /\ Off(i) + Size(i) <= BufLen
           /\ mem[Off(i)] = [Block(unread[i].msg) EXCEPT !.data = unread[i].msg]
           /\ Ahead(Off(i)) + Size(i) <= Used
      /\ \A i, j \in 1 .. n :
           i < j => Ahead(Off(i)) + Size(i) <= Ahead(Off(j))
  <2> HIDE DEF Cell
  <2> QED BY CalmFacts
<1>2. Len(q) \in Nat /\ Len(q) + k = n
  BY LenProperties
<1> HIDE DEF n
<1>3. \A i \in 1 .. Len(q) : i + k \in 1 .. n
  BY <1>1, <1>2
<1>4. Whole'
  <2> SUFFICES ASSUME NEW i \in 1 .. Len(q)
               PROVE  /\ q[i] \in [off : Cell, msg : Msg]
                      /\ EndOf(q[i]) <= BufLen
                      /\ mem[q[i].off] =
                           [Block(q[i].msg) EXCEPT !.data = q[i].msg]
    BY DEF Whole, EndOf
  <2>1. q[i] = unread[i + k] /\ i + k \in 1 .. n
    BY <1>3
  <2> QED BY <2>1, <1>1 DEF Off
<1>5. Used \in Int
  BY <1>1, Lengths DEF Used, Ahead
<1>6. Ordered'
  <2>1. ASSUME NEW i \in 1 .. Len(q)
        PROVE  /\ q[i].off = Off(i + k) /\ BlockLen(q[i].msg) = Size(i + k)
               /\ Ahead(q[i].off) \in Int /\ Size(i + k) \in Nat
               /\ Ahead(q[i].off) + Size(i + k) <= Used
    <3>1. q[i] = unread[i + k] /\ i + k \in 1 .. n
      BY <1>3
    <3>2. q[i].off = Off(i + k) /\ BlockLen(q[i].msg) = Size(i + k)
      BY <3>1 DEF Off, Size
    <3>3. /\ Off(i + k) \in Cell /\ Size(i + k) \in Nat
          /\ Ahead(Off(i + k)) + Size(i + k) <= Used
      BY <3>1, <1>1
    <3>4. Ahead(Off(i + k)) \in Int
      <4>1. head \in Int /\ BufLen \in Int /\ Off(i + k) \in Int
        BY <1>1, <3>3, Lengths
      <4> HIDE DEF Off
      <4> QED BY <4>1 DEF Ahead
    <3> QED BY <3>2, <3>3, <3>4
  <2>2. ASSUME NEW i \in 1 .. Len(q), NEW j \in i + 1 .. Len(q)
        PROVE  Ahead(q[i].off) + Size(i + k) <= Ahead(q[j].off)
    <3>1. j \in 1 .. Len(q) /\ i + k < j + k
      BY <1>2
    <3>2. i + k \in 1 .. n /\ j + k \in 1 .. n
      BY <3>1, <1>3
    <3> QED BY <3>1, <3>2, <2>1, <1>1
  <2>3. ASSUME NEW i \in 1 .. Len(q), NEW x, x = q[i].off
        PROVE  /\ Ahead(x)' + Size(i + k) <= Used'
               /\ \A j \in i + 1 .. Len(q) : \A y :
                    y = q[j].off => Ahead(x)' + Size(i + k) <= Ahead(y)'
    <3>1. Ahead(x)' = Ahead(x) - d /\ Ahead(x) \in Int /\ Size(i + k) \in Nat
      BY <2>1, <2>3
    <3>2. Ahead(x) + Size(i + k) <= Used
      BY <2>1, <2>3
    <3>3. ASSUME NEW j \in i + 1 .. Len(q), NEW y, y = q[j].off
          PROVE  Ahead(x)' + Size(i + k) <= Ahead(y)'
      <4>1. j \in 1 .. Len(q)
        BY <1>2
      <4>2. Ahead(y)' = Ahead(y) - d /\ Ahead(y) \in Int
        BY <4>1, <3>3, <2>1
      <4>3. Ahead(x) + Size(i + k) <= Ahead(y)
        BY <2>2, <2>3, <3>3
      <4> HIDE DEF Ahead
      <4> QED BY <3>1, <4>2, <4>3
    <3>4. Ahead(x)' + Size(i + k) <= Used'
      BY <3>1, <3>2, <1>5
    <3> QED BY <3>3, <3>4
  <2> QED BY <2>1, <2>3 DEF Ordered, BlockLen
<1> QED BY <1>4, <1>6
\* FrontBlock shows the oldest message: the way from head_ leads to its block.
LEMMA CalmFrontStep ==
  ASSUME CalmInv, calm, resv = None, FrontBlock, UNCHANGED unread
  PROVE  /\ CalmParts'
         /\ unread # <<>> /\ hand = None
         /\ hand' # None /\ hand'.data = unread[1].msg
<1> DEFINE n == Len(unread)
           x1 == Off(1)
<1>1. hand = None /\ head # tail /\ UNCHANGED <<tail, mem, resv>>
  BY DEF FrontBlock
<1>2. /\ n \in Nat
      /\ head \in 0 .. BufLen /\ tail \in 0 .. BufLen
      /\ \A i \in 1 .. n :
           /\ Off(i) \in Cell
           /\ Size(i) \in Nat /\ Size(i) >= HeadLen
           /\ Off(i) + Size(i) <= BufLen
           /\ mem[Off(i)] = [Block(unread[i].msg) EXCEPT !.data = unread[i].msg]
           /\ Ahead(Off(i)) + Size(i) <= Used
      /\ \A i, j \in 1 .. n :
           i < j => Ahead(Off(i)) + Size(i) <= Ahead(Off(j))
  <2> HIDE DEF Cell
  <2> QED BY CalmFacts
<1>3. tail = LastEnd /\ unread # <<>>
  <2>1. tail = LastEnd
    BY DEF CalmInv, Connected
  <2> QED BY <2>1, <1>1 DEF LastEnd
<1>4. n # 0 /\ 1 \in 1 .. n
  BY <1>2, <1>3, EmptySeq DEF CalmInv
<1>5. /\ x1 \in Cell
      /\ Size(1) \in Nat /\ Size(1) >= HeadLen /\ x1 + Size(1) <= BufLen
      /\ mem[x1] = [Block(unread[1].msg) EXCEPT !.data = unread[1].msg]
      /\ Ahead(x1) + Size(1) <= Used
  BY <1>2, <1>4
<1>6. mem[x1].kind = "block" /\ mem[x1].data = unread[1].msg
  BY <1>5 DEF Block
<1>7. Leads(head, x1)
  BY <1>3 DEF CalmInv, Connected, Off
<1> HIDE DEF n, x1
<1>8. FrontPos = x1 /\ FrontCell = mem[x1]
  <2>1. CASE x1 = head
    <3>1. Front1 = x1
      BY <2>1, <1>2, <1>5, Lengths DEF Front1
    <3> QED BY <3>1, <1>6 DEF FrontPos, FrontCell, IsDiscard
  <2>2. CASE x1 = 0 /\ head + HeadLen > BufLen
    <3>1. Front1 = x1
      BY <2>2 DEF Front1
    <3> QED BY <3>1, <1>6 DEF FrontPos, FrontCell, IsDiscard
  <2>3. CASE x1 = 0 /\ head \in Cell /\ mem[head].kind = "discard"
    <3>1. mem[head].len = HeadLen /\ head + HeadLen <= BufLen
      <4>1. mem[head].len = HeadLen /\ head + mem[head].len <= BufLen
        BY <2>3 DEF CalmInv, IInv, BlocksFit, IsHeader
      <4> QED BY <4>1
    <3>2. Front1 = head
      BY <3>1, <1>2, Lengths DEF Front1
    <3>3. IsDiscard(mem[Front1])
      BY <2>3, <3>1, <3>2 DEF IsDiscard
    <3> QED BY <2>3, <3>3 DEF FrontPos, FrontCell
  <2> QED BY <1>7, <2>1, <2>2, <2>3 DEF Leads
<1>9. /\ head' = x1
      /\ hand' = [msg |-> FrontCell.msg, data |-> FrontCell.data]
  <2>1. /\ FrontPos \in Cell
        /\ FrontCell.kind = "block"
        /\ FrontPos < tail => FrontPos + FrontCell.len <= tail
        /\ FrontCell.len >= HeadLen
        /\ Readings(mem[Front1]) = {mem[Front1]}
        /\ IsDiscard(mem[Front1]) => Readings(mem[0]) = {mem[0]}
    <3> HIDE DEF Cell
    <3> QED BY <1>1, FrontFinds DEF CalmInv
  <2>2. FrontCell.len \in Nat
    <3>1. mem \in [Cell -> Header]
      BY DEF CalmInv, IInv, TypeOK
    <3> QED BY <3>1, <1>5, <1>8 DEF Header
  <2>3. ~Unlikely(FrontPos, FrontCell)
    BY <2>1, <2>2, <1>2, Lengths DEF Unlikely
  <2>4. /\ head' = FrontPos
        /\ hand' = IF Unlikely(FrontPos, FrontCell) THEN None
                   ELSE [msg |-> FrontCell.msg, data |-> FrontCell.data]
    BY <2>1 DEF FrontBlock, FrontPos, FrontCell
  <2> QED BY <2>3, <2>4, <1>8
<1>10. hand'.data = unread[1].msg /\ hand' # None
  <2>1. FrontCell.msg \in Msg /\ FrontCell.data \in Msg \cup {None}
    <3>1. FrontCell.msg \in Msg /\ FrontCell.data = FrontCell.msg
      <4> HIDE DEF Cell
      <4> QED BY <1>1, FrontFinds DEF CalmInv
    <3> QED BY <3>1
  <2>2. None \notin [msg : Msg, data : Msg \cup {None}]
    BY LoopQueueAssumption
  <2> QED BY <1>6, <1>8, <1>9, <2>1, <2>2
<1>11. x1 # head => x1 = 0 /\ head > 0 /\ tail < head
  <2> SUFFICES ASSUME x1 # head PROVE x1 = 0 /\ head > 0 /\ tail < head
    OBVIOUS
  <2>1. x1 = 0
    BY <1>7 DEF Leads
  <2> QED BY <2>1, <1>2, <1>5, Lengths DEF Ahead, Used
<1>12. Whole' /\ Ordered'
  <2> DEFINE d == Ahead(x1)
  <2>1. d \in Nat
    BY <1>2, <1>5, Lengths DEF Ahead
  <2>2. Used' = Used - d
    <3>1. CASE x1 = head
      BY <3>1, <1>1, <1>2, <1>9, Lengths DEF Used, Ahead
    <3>2. CASE x1 # head
      BY <3>2, <1>1, <1>2, <1>9, <1>11, Lengths DEF Used, Ahead
    <3> QED BY <3>1, <3>2
  <2>3. ASSUME NEW i \in 1 .. n, NEW x, x = unread[i].off
        PROVE  Ahead(x)' = Ahead(x) - d
    <3>1. x \in Cell /\ Ahead(x) >= d
      <4>1. x = Off(i) /\ x \in Cell
        BY <2>3, <1>2 DEF Off, n
      <4>2. CASE i = 1
        BY <4>1, <4>2, <2>1 DEF x1
      <4>3. CASE i # 1
        <5>1. 1 < i
          BY <4>3, <1>2 DEF n
        <5>2. Ahead(x1) + Size(1) <= Ahead(x)
          BY <5>1, <4>1, <1>2, <1>4 DEF n, x1
        <5>3. Ahead(x) \in Int
          BY <4>1, <1>2, Lengths DEF Ahead
        <5> HIDE DEF Ahead
        <5> QED BY <4>1, <5>2, <5>3, <2>1, <1>5
      <4> QED BY <4>2, <4>3
    <3>2. CASE x1 = head
      BY <3>1, <3>2, <1>2, <1>9, Lengths DEF Ahead
    <3>3. CASE x1 # head
      BY <3>1, <3>3, <1>2, <1>9, <1>11, Lengths DEF Ahead
    <3> QED BY <3>2, <3>3
  <2>4. /\ unread \in Seq([off : 0 .. BufLen, msg : Msg])
        /\ Len(unread) + 0 = Len(unread)
        /\ \A i \in 1 .. Len(unread) : unread[i] = unread[i + 0]
    BY <1>2 DEF CalmInv, n
  <2> HIDE DEF d, Cell
  <2> QED BY <2>1, <2>2, <2>3, <2>4, <1>1, HeadMoves DEF n
<1>13. Connected'
  <2>1. /\ Leads(head, Off(1))'
        /\ \A i \in 1 .. n - 1 : Leads(EndOf(unread[i]), unread[i + 1].off)'
    BY <1>1, <1>9 DEF CalmInv, Connected, Leads, EndOf, Off, n, x1
  <2>2. LastEnd' = LastEnd
    BY <1>3 DEF LastEnd, EndOf
  <2> QED BY <2>1, <2>2, <1>1, <1>3 DEF Connected, Off, n
<1>14. HandIsOldest'
  BY <1>3, <1>9, <1>10 DEF HandIsOldest, Off, x1
<1> QED BY <1>1, <1>3, <1>10, <1>12, <1>13, <1>14 DEF CalmParts
\* PopBlock takes the message in hand, the oldest, and head_ goes where its block
\* ends.
LEMMA CalmPopStep ==
  ASSUME CalmInv, calm, resv = None, PopBlock, unread' = Tail(unread)
  PROVE  /\ CalmParts'
         /\ unread # <<>> /\ hand # None /\ hand' = None
         /\ hand.data = unread[1].msg
<1> DEFINE n == Len(unread)
           l == Size(1)
           q == Tail(unread)
<1>1. hand # None /\ hand' = None /\ UNCHANGED <<tail, mem, resv>>
  BY DEF PopBlock
<1>2. unread # <<>> /\ Off(1) = head /\ hand.data = unread[1].msg
  BY <1>1 DEF CalmInv, HandIsOldest, Off
<1>3. /\ n \in Nat
      /\ head \in 0 .. BufLen /\ tail \in 0 .. BufLen
      /\ \A i \in 1 .. n :
           /\ Off(i) \in Cell
           /\ Size(i) \in Nat /\ Size(i) >= HeadLen
           /\ EndOf(unread[i]) = Off(i) + Size(i)
           /\ Off(i) + Size(i) <= BufLen
           /\ mem[Off(i)] = [Block(unread[i].msg) EXCEPT !.data = unread[i].msg]
           /\ Ahead(Off(i)) + Size(i) <= Used
      /\ \A i, j \in 1 .. n :
           i < j => Ahead(Off(i)) + Size(i) <= Ahead(Off(j))
  <2> HIDE DEF Cell
  <2> QED BY CalmFacts
<1>4. n # 0 /\ 1 \in 1 .. n
  BY <1>2, <1>3, EmptySeq DEF CalmInv
<1>5. /\ head \in Cell /\ l \in Nat /\ l >= HeadLen /\ head + l <= BufLen
      /\ mem[head].kind = "block" /\ mem[head].len = l
      /\ Ahead(head) + l <= Used
      /\ EndOf(unread[1]) = head + l
  <2>1. /\ head \in Cell /\ l \in Nat /\ l >= HeadLen /\ head + l <= BufLen
        /\ mem[head] = [Block(unread[1].msg) EXCEPT !.data = unread[1].msg]
        /\ Ahead(head) + l <= Used
        /\ EndOf(unread[1]) = head + l
    BY <1>2, <1>3, <1>4
  <2>2. mem[head].kind = "block" /\ mem[head].len = l
    BY <2>1 DEF Block, Size
  <2> QED BY <2>1, <2>2
<1>6. head' = head + l
  BY <1>5 DEF PopBlock, Readings
<1>7. /\ q \in Seq([off : 0 .. BufLen, msg : Msg])
      /\ Len(q) = n - 1
      /\ \A i \in 1 .. Len(q) : q[i] = unread[i + 1]
  <2>1. unread \in Seq([off : 0 .. BufLen, msg : Msg])
    BY DEF CalmInv
  <2> QED BY <1>2, <2>1, HeadTailProperties
<1> HIDE DEF n, l, q
<1>8. Used' = Used - l
  <2>1. Used' = IF tail >= head + l THEN tail - (head + l)
                ELSE BufLen - (head + l) + tail
    BY <1>1, <1>6 DEF Used, Ahead
  <2> QED BY <2>1, <1>3, <1>5, Lengths DEF Used, Ahead
<1>9. ASSUME NEW i \in 1 .. Len(q), NEW x, x = q[i].off
      PROVE  Ahead(x)' = Ahead(x) - l
  <2>1. x = Off(i + 1) /\ x \in Cell /\ 1 < i + 1 /\ i + 1 \in 1 .. n
    <3>1. i + 1 \in 1 .. n /\ 1 < i + 1
      BY <1>3, <1>7
    <3>2. x = Off(i + 1)
      BY <1>7, <1>9 DEF Off
    <3> QED BY <3>1, <3>2, <1>3
  <2>2. Ahead(head) + l <= Ahead(x)
    BY <2>1, <1>2, <1>3, <1>4 DEF l
  <2>3. Ahead(x)' = IF x >= head + l THEN x - (head + l)
                    ELSE BufLen - (head + l) + x
    BY <1>6 DEF Ahead
  <2> QED BY <2>1, <2>2, <2>3, <1>3, <1>5, Lengths DEF Ahead
<1>10. Whole' /\ Ordered'
  <2>1. Len(q) + 1 = Len(unread)
    BY <1>3, <1>7 DEF n
  <2> HIDE DEF Cell
  <2> QED BY <2>1, <1>1, <1>5, <1>7, <1>8, <1>9, HeadMoves DEF q
<1>11. /\ \A i \in 1 .. n - 1 : Leads(EndOf(unread[i]), unread[i + 1].off)
       /\ tail = EndOf(unread[n])
  BY <1>2 DEF CalmInv, Connected, LastEnd, n
<1>12. unread' = q /\ mem' = mem /\ resv' = None /\ tail' = tail
  BY <1>1 DEF q
<1>13. Connected'
  <2>1. (q = <<>>) <=> (Len(q) = 0)
    BY <1>7, EmptySeq
  <2>2. q # <<>> => LeadsIn(mem, head + l, q[1].off)
    <3> SUFFICES ASSUME q # <<>> PROVE LeadsIn(mem, head + l, q[1].off)
      OBVIOUS
    <3>1. 1 \in 1 .. Len(q) /\ 1 \in 1 .. n - 1
      BY <2>1, <1>3, <1>7
    <3>2. Leads(EndOf(unread[1]), unread[1 + 1].off)
      BY <3>1, <1>11
    <3>3. q[1] = unread[1 + 1]
      BY <3>1, <1>7
    <3> QED BY <3>2, <3>3, <1>5 DEF Leads, LeadsIn
  <2>3. ASSUME NEW i \in 1 .. Len(q) - 1
        PROVE  LeadsIn(mem, EndOf(q[i]), q[i + 1].off)
    <3>1. i \in 1 .. Len(q) /\ i + 1 \in 1 .. Len(q) /\ i + 1 \in 1 .. n - 1
      BY <1>3, <1>7
    <3>2. Leads(EndOf(unread[i + 1]), unread[(i + 1) + 1].off)
      BY <3>1, <1>11
    <3>3. q[i] = unread[i + 1] /\ q[i + 1] = unread[(i + 1) + 1]
      BY <3>1, <1>7
    <3> QED BY <3>2, <3>3 DEF Leads, LeadsIn
  <2>4. tail = IF q = <<>> THEN head + l ELSE EndOf(q[Len(q)])
    <3>1. CASE q = <<>>
      <4>1. n = 1
        BY <3>1, <2>1, <1>3, <1>7
      <4> QED BY <3>1, <4>1, <1>5, <1>11
    <3>2. CASE q # <<>>
      <4>1. Len(q) \in 1 .. Len(q) /\ Len(q) + 1 = n
        BY <3>2, <2>1, <1>3, <1>7
      <4>2. q[Len(q)] = unread[n]
        BY <4>1, <1>7
      <4> QED BY <3>2, <4>2, <1>11
    <3> QED BY <3>1, <3>2
  <2> HIDE DEF Cell
  <2> QED BY <2>2, <2>3, <2>4, <1>6, <1>12
          DEF Connected, LastEnd, EndOf, Leads, LeadsIn
<1>14. HandIsOldest'
  BY <1>1 DEF HandIsOldest
<1> QED BY <1>1, <1>2, <1>10, <1>13, <1>14 DEF CalmParts
\* The messages of a history, without their offsets.
Messages(q) == [i \in 1 .. Len(q) |-> q[i].msg]

LEMMA AppendMessages ==
  ASSUME NEW q \in Seq([off : 0 .. BufLen, msg : Msg]),
         NEW u \in [off : 0 .. BufLen, msg : Msg]
  PROVE  Messages(Append(q, u)) = Append(Messages(q), u.msg)
<1> DEFINE s == Messages(Append(q, u))
           t == Append(Messages(q), u.msg)
<1>1. /\ Len(q) \in Nat
      /\ \A i \in 1 .. Len(q) : q[i].msg \in Msg
      /\ Append(q, u) \in Seq([off : 0 .. BufLen, msg : Msg])
      /\ Len(Append(q, u)) = Len(q) + 1
      /\ \A i \in 1 .. Len(q) : Append(q, u)[i] = q[i]
      /\ Append(q, u)[Len(q) + 1] = u
  <2> DEFINE S == [off : 0 .. BufLen, msg : Msg]
  <2>1. \A e \in S : e.msg \in Msg
    OBVIOUS
  <2> HIDE DEF S
  <2>2. q \in Seq(S) /\ u \in S
    BY DEF S
  <2>3. /\ Len(q) \in Nat
        /\ \A i \in 1 .. Len(q) : q[i] \in S
    BY <2>2, LenProperties, ElementOfSeq
  <2>4. /\ Append(q, u) \in Seq(S)
        /\ Len(Append(q, u)) = Len(q) + 1
        /\ \A i \in 1 .. Len(q) : Append(q, u)[i] = q[i]
        /\ Append(q, u)[Len(q) + 1] = u
    BY <2>2, AppendProperties
  <2> QED BY <2>1, <2>3, <2>4 DEF S
<1>2. Messages(q) \in Seq(Msg) /\ Len(Messages(q)) = Len(q)
  BY <1>1 DEF Messages
<1>3. /\ t \in Seq(Msg) /\ Len(t) = Len(q) + 1
      /\ \A i \in 1 .. Len(q) : t[i] = q[i].msg
      /\ t[Len(q) + 1] = u.msg
  <2>1. \A i \in 1 .. Len(q) : Messages(q)[i] = q[i].msg
    BY DEF Messages
  <2> QED BY <1>1, <1>2, <2>1, AppendProperties
<1>4. /\ s \in Seq(Msg) /\ Len(s) = Len(q) + 1
      /\ \A i \in 1 .. Len(q) : s[i] = q[i].msg
      /\ s[Len(q) + 1] = u.msg
  <2>1. \A i \in 1 .. Len(q) + 1 : Append(q, u)[i].msg \in Msg
    <3>1. \A i \in 1 .. Len(q) + 1 : i \in 1 .. Len(q) \/ i = Len(q) + 1
      BY <1>1
    <3> QED BY <3>1, <1>1
  <2> QED BY <1>1, <2>1 DEF Messages
<1> HIDE DEF s, t
<1>5. \A i \in 1 .. Len(s) : s[i] = t[i]
  <2>1. \A i \in 1 .. Len(q) + 1 : i \in 1 .. Len(q) \/ i = Len(q) + 1
    BY <1>1
  <2> QED BY <2>1, <1>3, <1>4
<1>6. s = t
  BY <1>3, <1>4, <1>5, SeqEqual
<1> QED BY <1>6 DEF s, t

LEMMA TailMessages ==
  ASSUME NEW q \in Seq([off : 0 .. BufLen, msg : Msg]), q # <<>>
  PROVE  /\ Messages(q) # <<>>
         /\ Head(Messages(q)) = q[1].msg
         /\ Messages(Tail(q)) = Tail(Messages(q))
<1> DEFINE s == Messages(Tail(q))
           t == Tail(Messages(q))
<1>1. /\ Len(q) \in Nat /\ Len(q) # 0
      /\ \A i \in 1 .. Len(q) : q[i].msg \in Msg
      /\ Len(Tail(q)) = Len(q) - 1
      /\ \A i \in 1 .. Len(Tail(q)) : Tail(q)[i] = q[i + 1]
  <2> DEFINE S == [off : 0 .. BufLen, msg : Msg]
  <2>1. \A e \in S : e.msg \in Msg
    OBVIOUS
  <2>2. q \in Seq(S)
    OBVIOUS
  <2> HIDE DEF S
  <2>3. /\ Len(q) \in Nat
        /\ \A i \in 1 .. Len(q) : q[i] \in S
    BY <2>2, LenProperties, ElementOfSeq
  <2>4. /\ Len(q) # 0
        /\ Len(Tail(q)) = Len(q) - 1
        /\ \A i \in 1 .. Len(Tail(q)) : Tail(q)[i] = q[i + 1]
    BY <2>2, HeadTailProperties, EmptySeq
  <2> QED BY <2>1, <2>3, <2>4
<1>2. /\ Messages(q) \in Seq(Msg) /\ Len(Messages(q)) = Len(q)
      /\ Messages(q) # <<>>
      /\ \A i \in 1 .. Len(q) : Messages(q)[i] = q[i].msg
  BY <1>1 DEF Messages
<1>3. Head(Messages(q)) = q[1].msg
  BY <1>1, <1>2
<1>4. /\ t \in Seq(Msg) /\ Len(t) = Len(q) - 1
      /\ \A i \in 1 .. Len(q) - 1 : t[i] = q[i + 1].msg
  <2>1. \A i \in 1 .. Len(q) - 1 : i + 1 \in 1 .. Len(q)
    BY <1>1
  <2> QED BY <1>1, <1>2, <2>1, HeadTailProperties
<1>5. /\ s \in Seq(Msg) /\ Len(s) = Len(q) - 1
      /\ \A i \in 1 .. Len(q) - 1 : s[i] = q[i + 1].msg
  <2>1. \A i \in 1 .. Len(q) - 1 :
          Tail(q)[i].msg = q[i + 1].msg /\ Tail(q)[i].msg \in Msg
    <3>1. \A i \in 1 .. Len(q) - 1 : i + 1 \in 1 .. Len(q)
      BY <1>1
    <3> QED BY <1>1, <3>1
  <2> QED BY <1>1, <2>1 DEF Messages
<1> HIDE DEF s, t
<1>6. s = t
  BY <1>4, <1>5, SeqEqual
<1> QED BY <1>2, <1>3, <1>6 DEF s, t

-----------------------------------------------------------------------------
(* The steps of HSpec.                                                     *)

LEMMA CalmInit == HInit => CalmInv /\ F!Init
<1> SUFFICES ASSUME HInit PROVE CalmInv /\ F!Init
  OBVIOUS
<1>1. IInv
  BY InitIInv DEF HInit
<1>2. unread = <<>> /\ calm = TRUE /\ Len(unread) = 0
  BY DEF HInit
<1>3. Whole /\ Ordered
  BY <1>2 DEF Whole, Ordered
<1>4. Connected /\ HandIsOldest
  BY <1>2 DEF HInit, Init, Connected, LastEnd, HandIsOldest
<1>5. F!Init
  BY <1>2 DEF HInit, Init, F!Init
<1> QED BY <1>1, <1>2, <1>3, <1>4, <1>5 DEF CalmInv

\* A push that leaves room for twice its block is never refused.
LEMMA CalmAccepted == CalmInv => CalmPushAccepted
  BY CalmPlace DEF CalmInv, CalmPushAccepted

LEMMA CalmStep ==
  ASSUME CalmInv, [HNext]_hvars
  PROVE  /\ CalmInv'
         /\ calm' => F!Next \/ UNCHANGED F!vars
<1> DEFINE Entry == [off : 0 .. BufLen, msg : Msg]
           Calmly == /\ calm' => CalmParts'
                     /\ calm' => F!Next \/ UNCHANGED F!vars
<1>1. /\ IInv /\ unread \in Seq(Entry) /\ calm \in BOOLEAN
      /\ head \in 0 .. BufLen /\ tail \in 0 .. BufLen
      /\ resv \in Msg \cup {None} /\ None \notin Msg
  BY Lengths DEF CalmInv, IInv, TypeOK
<1> HIDE DEF Entry
<1>2. IInv'
  <2>1. [SerialNext]_vars
    BY DEF HNext, hvars, vars, HPush, HPushFinish, HFrontBlock, HPopBlock,
           SerialNext, Producer, Consumer
  <2> QED BY <1>1, <2>1, SerialStep
<1>3. <<>> \in Seq(Entry)
  OBVIOUS
<1>4. ASSUME NEW m \in Msg, HPush(m)
      PROVE  unread' \in Seq(Entry) /\ calm' \in BOOLEAN /\ Calmly
  <2>1. calm' = (calm /\ Calm(m)) /\ unread' \in {unread, <<>>}
    BY <1>4 DEF HPush, Keep
  <2>2. ASSUME calm' PROVE CalmParts' /\ UNCHANGED F!vars
    <3>1. calm /\ Calm(m)
      BY <2>1, <2>2
    <3>2. unread' = unread
      BY <1>4, <2>2 DEF HPush, Keep
    <3>3. ~RefusePush(m)
      BY <1>1, <3>1, CalmPlace DEF RefusePush
    <3>4. BufferForPush(m)
      BY <1>4, <3>3 DEF HPush
    <3>5. CalmParts'
      BY <3>1, <3>2, <3>4, CalmPushStep
    <3>6. UNCHANGED F!vars
      BY <3>2, <3>4 DEF BufferForPush, F!vars
    <3> QED BY <3>5, <3>6
  <2> QED BY <1>1, <1>3, <2>1, <2>2
<1>5. ASSUME HPushFinish
      PROVE  unread' \in Seq(Entry) /\ calm' \in BOOLEAN /\ Calmly
  <2> DEFINE u == [off |-> tail, msg |-> resv]
  <2>1. resv \in Msg /\ UNCHANGED <<calm, hand>> /\ PushFinish
    BY <1>1, <1>5 DEF HPushFinish, PushFinish
  <2>2. u \in Entry
    BY <1>1, <2>1 DEF Entry
  <2>3. /\ unread' \in {Append(unread, u), <<>>}
        /\ calm' => unread' = Append(unread, u)
    BY <1>5 DEF HPushFinish, Keep
  <2>4. u.msg = resv
    OBVIOUS
  <2>5. ASSUME calm' PROVE CalmParts' /\ F!Next
    <3>1. CalmParts'
      BY <2>1, <2>3, <2>5, CalmFinishStep
    <3> HIDE DEF u
    <3>2. Messages(unread') = Append(Messages(unread), resv)
      BY <1>1, <2>2, <2>3, <2>4, <2>5, AppendMessages DEF Entry
    <3>3. PICK m \in Msg : m = resv
      BY <2>1
    <3>4. Messages(unread') = Append(Messages(unread), m)
      BY <3>2, <3>3
    <3>5. F!Put(m)
      BY <2>1, <3>4 DEF F!Put, Messages
    <3> QED BY <3>1, <3>3, <3>5 DEF F!Next
  <2>6. unread' \in Seq(Entry)
    <3> HIDE DEF u
    <3>1. Append(unread, u) \in Seq(Entry)
      BY <1>1, <2>2, AppendProperties
    <3> QED BY <1>3, <2>3, <3>1
  <2> QED BY <1>1, <2>1, <2>5, <2>6
<1>6. ASSUME HFrontBlock
      PROVE  unread' \in Seq(Entry) /\ calm' \in BOOLEAN /\ Calmly
  <2>1. resv = None /\ FrontBlock /\ UNCHANGED <<unread, calm>>
    BY <1>6 DEF HFrontBlock
  <2>2. ASSUME calm' PROVE CalmParts' /\ F!Next
    <3>1. /\ CalmParts'
          /\ unread # <<>> /\ hand = None
          /\ hand' # None /\ hand'.data = unread[1].msg
      BY <2>1, <2>2, CalmFrontStep
    <3>2. Messages(unread) # <<>> /\ Head(Messages(unread)) = unread[1].msg
      BY <1>1, <3>1, TailMessages DEF Entry
    <3>3. F!Look
      BY <2>1, <3>1, <3>2 DEF F!Look, Messages
    <3> QED BY <3>1, <3>3 DEF F!Next
  <2> QED BY <1>1, <2>1, <2>2
<1>7. ASSUME HPopBlock
      PROVE  unread' \in Seq(Entry) /\ calm' \in BOOLEAN /\ Calmly
  <2>1. /\ resv = None /\ PopBlock /\ UNCHANGED calm
        /\ unread' \in {Tail(unread), <<>>}
        /\ unread = <<>> => unread' = <<>>
        /\ calm' /\ unread # <<>> => unread' = Tail(unread)
    BY <1>7 DEF HPopBlock, Keep
  <2>2. unread' \in Seq(Entry)
    BY <1>1, <1>3, <2>1, HeadTailProperties
  <2>3. ASSUME calm' PROVE CalmParts' /\ F!Next
    <3>1. unread # <<>>
      <4>1. hand # None
        BY <2>1 DEF PopBlock
      <4> QED BY <4>1, <2>1, <2>3 DEF CalmInv, HandIsOldest
    <3>2. /\ CalmParts'
          /\ hand # None /\ hand' = None
          /\ hand.data = unread[1].msg
      BY <2>1, <2>3, <3>1, CalmPopStep
    <3>3. /\ Messages(unread) # <<>>
          /\ Head(Messages(unread)) = unread[1].msg
          /\ Messages(unread') = Tail(Messages(unread))
      BY <1>1, <2>1, <2>3, <3>1, TailMessages DEF Entry
    <3>4. unread[1].msg # None
      <4>1. unread[1] \in Entry
        BY <1>1, <3>1, EmptySeq, ElementOfSeq
      <4> QED BY <1>1, <4>1 DEF Entry
    <3>5. F!Remove
      BY <3>2, <3>3, <3>4 DEF F!Remove, Messages
    <3> QED BY <3>2, <3>5 DEF F!Next
  <2> QED BY <1>1, <2>1, <2>2, <2>3
<1>8. ASSUME UNCHANGED hvars
      PROVE  unread' \in Seq(Entry) /\ calm' \in BOOLEAN /\ Calmly
  <2>1. UNCHANGED <<head, tail, mem, resv, hand, unread, calm>>
    BY <1>8 DEF hvars
  <2>2. calm => CalmParts
    BY DEF CalmInv, CalmParts
  <2>3. calm' => CalmParts'
    BY <2>1, <2>2
       DEF CalmParts, Whole, Ordered, Connected, HandIsOldest, Ahead, Used,
           LastEnd, EndOf, Leads
  <2>4. UNCHANGED F!vars
    BY <2>1 DEF F!vars
  <2> QED BY <1>1, <2>1, <2>3, <2>4
<1>9. unread' \in Seq(Entry) /\ calm' \in BOOLEAN /\ Calmly
  BY <1>4, <1>5, <1>6, <1>7, <1>8 DEF HNext
<1> QED BY <1>2, <1>9 DEF CalmInv, CalmParts, Entry

-----------------------------------------------------------------------------
(* Where the unread messages of a calm queue are, for every size of buffer, *)
(* header and message: whole, between head_ and tail_, each leading the     *)
(* consumer to the next.                                                    *)
THEOREM CalmInvariant == HSpec => []CalmInv
<1>1. HInit => CalmInv
  BY CalmInit
<1>2. CalmInv /\ [HNext]_hvars => CalmInv'
  BY CalmStep
<1> QED BY <1>1, <1>2, PTL DEF HSpec

(* As long as every push leaves room for twice its block, the buffer is the *)
(* first-in first-out queue its callers take it for, and refuses nothing.   *)
THEOREM CalmQueueIsFifo == HSpec => CalmIsFifo
<1>1. HInit => CalmInv /\ F!Init
  BY CalmInit
<1>2. CalmInv /\ [HNext]_hvars => CalmInv' /\ [calm' => F!Next]_(F!vars)
  BY CalmStep
<1>3. CalmInv => CalmPushAccepted
  BY CalmAccepted
<1> QED BY <1>1, <1>2, <1>3, PTL DEF HSpec, CalmIsFifo
=============================================================================
