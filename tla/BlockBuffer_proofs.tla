-------------------------- MODULE BlockBuffer_proofs --------------------------
(***************************************************************************)
(* A connection's buffer keeps every byte, in order, for any sizes of      *)
(* blocks, any sequence of calls and any bytes: BlockBuffer implements     *)
(* ByteQueue, its assertions hold, and what Copy and Move say they gave is *)
(* what was there.                                                         *)
(***************************************************************************)
EXTENDS BlockBuffer, SequenceTheorems, WellFoundedInduction, TLAPS

-----------------------------------------------------------------------------
(* Recursive functions: a value for each turn of a loop.                    *)

\* A set of numbers that is not empty has a least one.
LEMMA Least ==
  ASSUME NEW S, S \subseteq Nat, S # {}
  PROVE  \E x \in S : \A y \in S : x <= y
<1> DEFINE R == {e \in Nat \X Nat : e[1] < e[2]}
<1>1. IsWellFoundedOn(R, Nat)
  BY NatLessThanWellFounded DEF OpToRel
<1>2. PICK x \in S : \A y \in S : ~(<<y, x>> \in R)
  <2> HIDE DEF R
  <2> QED BY <1>1, WFMin
<1>3. ASSUME NEW y \in S PROVE x <= y
  <2>1. x \in Nat /\ y \in Nat /\ <<y, x>> \in Nat \X Nat
    OBVIOUS
  <2>2. ~(<<y, x>>[1] < <<y, x>>[2])
    BY <2>1, <1>2
  <2> QED BY <2>1, <2>2
<1> QED BY <1>3

\* g has the value of every turn, up to turn m.
Turns(g, D, base, step, m) ==
  /\ g \in [0 .. m -> D]
  /\ g[0] = base
  /\ \A i \in 1 .. m : g[i] = step[i][g[i - 1]]

LEMMA TurnsExist ==
  ASSUME NEW D, NEW n \in Nat, NEW base \in D, NEW step \in [1 .. n -> [D -> D]]
  PROVE  \E g : Turns(g, D, base, step, n)
<1> DEFINE Without == {m \in 0 .. n : ~\E g : Turns(g, D, base, step, m)}
<1>1. SUFFICES ASSUME Without # {} PROVE FALSE
  OBVIOUS
<1>2. PICK m \in Without : \A k \in Without : m <= k
  <2> Without \subseteq Nat
    OBVIOUS
  <2> HIDE DEF Without
  <2> QED BY <1>1, Least
<1>3. m \in 0 .. n /\ ~\E g : Turns(g, D, base, step, m)
  OBVIOUS
<1>4. CASE m = 0
  <2>1. Turns([i \in {0} |-> base], D, base, step, 0)
    <3>1. 0 .. 0 = {0}
      OBVIOUS
    <3> QED BY <3>1 DEF Turns
  <2> QED BY <1>3, <1>4, <2>1
<1>5. CASE m # 0
  <2>1. m - 1 \in 0 .. n /\ m - 1 < m /\ m \in 1 .. n /\ m \in Nat
    BY <1>3, <1>5
  <2>2. m - 1 \notin Without
    BY <1>2, <2>1
  <2>3. PICK g : Turns(g, D, base, step, m - 1)
    BY <2>1, <2>2
  <2>4. /\ g \in [0 .. m - 1 -> D] /\ g[0] = base
        /\ \A i \in 1 .. m - 1 : g[i] = step[i][g[i - 1]]
    BY <2>3 DEF Turns
  <2> DEFINE last == step[m][g[m - 1]]
             h == [i \in 0 .. m |-> IF i < m THEN g[i] ELSE last]
  <2>5. last \in D
    <3>1. step[m] \in [D -> D] /\ m - 1 \in 0 .. m - 1
      BY <2>1
    <3>2. g[m - 1] \in D
      BY <2>4, <3>1
    <3> QED BY <3>1, <3>2
  <2>6. Turns(h, D, base, step, m)
    <3>1. \A i \in 0 .. m : i < m => i \in 0 .. m - 1
      BY <2>1
    <3>2. h \in [0 .. m -> D]
      <4> HIDE DEF last
      <4> QED BY <2>4, <2>5, <3>1
    <3>3. h[0] = base
      BY <2>1, <2>4
    <3>4. ASSUME NEW i \in 1 .. m PROVE h[i] = step[i][h[i - 1]]
      <4>1. i - 1 \in 0 .. m /\ i - 1 < m /\ i \in 0 .. m /\ (i \in 1 .. m - 1 \/ i = m)
        BY <2>1
      <4>2. h[i - 1] = g[i - 1]
        BY <4>1
      <4>3. CASE i \in 1 .. m - 1
        <5>1. h[i] = g[i]
          BY <2>1, <4>1, <4>3
        <5> QED BY <2>4, <4>2, <4>3, <5>1
      <4>4. CASE i = m
        BY <2>1, <4>1, <4>2, <4>4
      <4> QED BY <4>1, <4>3, <4>4
    <3> HIDE DEF h
    <3> QED BY <3>2, <3>3, <3>4 DEF Turns
  <2> QED BY <1>3, <2>6
<1> QED BY <1>4, <1>5

-----------------------------------------------------------------------------
(* Alloc gives a block that holds what was asked for.                       *)

LEMMA AllocHolds ==
  ASSUME NEW size \in Nat
  PROVE  AllocLen(size) \in Nat /\ AllocLen(size) >= size /\ AllocLen(size) > 0
<1> DEFINE F(f) == [k \in 0 .. size |-> IF k = 0 THEN MinSize
                                        ELSE IF f[k - 1] < size THEN 2 * f[k - 1]
                                        ELSE f[k - 1]]
           u == CHOOSE f : f = F(f)
<1>0. MinSize \in Nat /\ MinSize > 0
  BY BlockBufferAssumption
<1>1. \E g : g = F(g)
  <2> DEFINE double == [x \in Nat |-> IF x < size THEN 2 * x ELSE x]
             step == [k \in 1 .. size |-> double]
  <2>1. double \in [Nat -> Nat]
    OBVIOUS
  <2>2. step \in [1 .. size -> [Nat -> Nat]]
    <3> HIDE DEF double
    <3> QED BY <2>1
  <2>3. PICK g : Turns(g, Nat, MinSize, step, size)
    <3> HIDE DEF step
    <3> QED BY <1>0, <2>2, TurnsExist
  <2>4. /\ g \in [0 .. size -> Nat] /\ g[0] = MinSize
        /\ \A k \in 1 .. size : g[k] = double[g[k - 1]]
    BY <2>3 DEF Turns
  <2>5. ASSUME NEW k \in 0 .. size PROVE g[k] = F(g)[k]
    <3>1. CASE k = 0
      BY <2>4, <3>1
    <3>2. CASE k # 0
      <4>1. k \in 1 .. size /\ k - 1 \in 0 .. size
        BY <3>2
      <4>2. g[k - 1] \in Nat /\ g[k] = double[g[k - 1]]
        BY <2>4, <4>1
      <4> QED BY <3>2, <4>2
    <3> QED BY <3>1, <3>2
  <2>6. g = [k \in 0 .. size |-> g[k]]
    BY <2>4
  <2> QED BY <2>5, <2>6
<1>2. u = F(u)
  <2> HIDE DEF F
  <2> QED BY <1>1
<1> HIDE DEF u
<1>3. /\ \A k \in 0 .. size : k = 0 => u[k] = MinSize
      /\ \A k \in 0 .. size : k # 0 => u[k] = IF u[k - 1] < size THEN 2 * u[k - 1]
                                             ELSE u[k - 1]
  BY <1>2
<1> DEFINE Good(k) == u[k] \in Nat /\ u[k] > 0 /\ (u[k] >= size \/ u[k] > k)
           Bad == {k \in 0 .. size : ~Good(k)}
<1>4. Bad = {}
  <2>1. SUFFICES ASSUME Bad # {} PROVE FALSE
    OBVIOUS
  <2>2. PICK m \in Bad : \A k \in Bad : m <= k
    <3> Bad \subseteq Nat
      OBVIOUS
    <3> HIDE DEF Bad
    <3> QED BY <2>1, Least
  <2>3. m \in 0 .. size /\ ~Good(m)
    OBVIOUS
  <2>4. CASE m = 0
    BY <1>0, <1>3, <2>3, <2>4
  <2>5. CASE m # 0
    <3>1. m - 1 \in 0 .. size /\ m - 1 \notin Bad
      <4> HIDE DEF Bad
      <4> QED BY <2>2, <2>3, <2>5
    <3>2. Good(m - 1)
      BY <3>1
    <3>3. u[m] = IF u[m - 1] < size THEN 2 * u[m - 1] ELSE u[m - 1]
      BY <1>3, <2>3, <2>5
    <3> QED BY <2>3, <2>5, <3>2, <3>3
  <2> QED BY <2>4, <2>5
<1>5. size \in 0 .. size /\ Good(size)
  BY <1>4
<1>6. AllocLen(size) = u[size]
  BY DEF AllocLen, u
<1> QED BY <1>5, <1>6

-----------------------------------------------------------------------------
(* The bytes of a chain.                                                    *)

Bytes == 0 .. Byte - 1

\* g holds the bytes of the first blocks of c, up to n of them.
Flats(g, c, n) ==
  /\ g \in [0 .. n -> Seq(Bytes)]
  /\ g[0] = <<>>
  /\ \A i \in 1 .. n : g[i] = g[i - 1] \o c[i].bytes

LEMMA Blocks ==
  ASSUME NEW c \in Seq(BlockType)
  PROVE  /\ Len(c) \in Nat
         /\ \A i \in 1 .. Len(c) : c[i] \in BlockType /\ c[i].bytes \in Seq(Bytes)
<1>1. Len(c) \in Nat /\ \A i \in 1 .. Len(c) : c[i] \in BlockType
  BY LenProperties, ElementOfSeq
<1> QED BY <1>1 DEF BlockType, Bytes

LEMMA FlatsExist ==
  ASSUME NEW c \in Seq(BlockType)
  PROVE  \E g : Flats(g, c, Len(c))
<1> DEFINE D == Seq(Bytes)
           step == [i \in 1 .. Len(c) |-> [s \in D |-> s \o c[i].bytes]]
<1>1. Len(c) \in Nat /\ \A i \in 1 .. Len(c) : c[i].bytes \in D
  BY Blocks
<1>2. <<>> \in D
  OBVIOUS
<1>3. step \in [1 .. Len(c) -> [D -> D]]
  <2>1. ASSUME NEW i \in 1 .. Len(c) PROVE [s \in D |-> s \o c[i].bytes] \in [D -> D]
    <3>1. \A s \in D : s \o c[i].bytes \in D
      BY <1>1, ConcatProperties
    <3> HIDE DEF D
    <3> QED BY <3>1
  <2> HIDE DEF D
  <2> QED BY <2>1
<1>4. PICK g : Turns(g, D, <<>>, step, Len(c))
  <2> HIDE DEF D, step
  <2> QED BY <1>1, <1>2, <1>3, TurnsExist
<1>5. /\ g \in [0 .. Len(c) -> D] /\ g[0] = <<>>
      /\ \A i \in 1 .. Len(c) : g[i] = step[i][g[i - 1]]
  <2> HIDE DEF D, step
  <2> QED BY <1>4 DEF Turns
<1>6. ASSUME NEW i \in 1 .. Len(c) PROVE g[i] = g[i - 1] \o c[i].bytes
  <2>1. i - 1 \in 0 .. Len(c)
    BY <1>1
  <2>2. g[i - 1] \in D
    BY <1>5, <2>1
  <2> HIDE DEF D
  <2> QED BY <1>5, <2>2
<1> QED BY <1>5, <1>6 DEF Flats

LEMMA FlatIs ==
  ASSUME NEW c \in Seq(BlockType), NEW g, Flats(g, c, Len(c))
  PROVE  Flat(c) = g[Len(c)]
<1> DEFINE F(f) == [i \in 0 .. Len(c) |-> IF i = 0 THEN <<>> ELSE f[i - 1] \o c[i].bytes]
           u == CHOOSE f : f = F(f)
<1>0. Len(c) \in Nat
  BY Blocks
<1>1. g = F(g)
  <2>1. /\ g \in [0 .. Len(c) -> Seq(Bytes)] /\ g[0] = <<>>
        /\ \A i \in 1 .. Len(c) : g[i] = g[i - 1] \o c[i].bytes
    BY DEF Flats
  <2>2. \A i \in 0 .. Len(c) : i = 0 \/ i \in 1 .. Len(c)
    BY <1>0
  <2>3. \A i \in 0 .. Len(c) : g[i] = F(g)[i]
    BY <2>1, <2>2
  <2> QED BY <2>1, <2>3
<1>2. u = F(u)
  <2> HIDE DEF F
  <2> QED BY <1>1
<1>3. Flat(c) = u[Len(c)]
  BY DEF Flat
<1> HIDE DEF u
<1>4. \A i \in 0 .. Len(c) :
        /\ u[i] = IF i = 0 THEN <<>> ELSE u[i - 1] \o c[i].bytes
        /\ g[i] = IF i = 0 THEN <<>> ELSE g[i - 1] \o c[i].bytes
  BY <1>1, <1>2
<1> DEFINE Differ == {i \in 0 .. Len(c) : u[i] # g[i]}
<1>5. Differ = {}
  <2>1. SUFFICES ASSUME Differ # {} PROVE FALSE
    OBVIOUS
  <2>2. PICK n \in Differ : \A k \in Differ : n <= k
    <3> Differ \subseteq Nat
      BY <1>0
    <3> HIDE DEF Differ
    <3> QED BY <2>1, Least
  <2>3. n \in 0 .. Len(c) /\ u[n] # g[n]
    OBVIOUS
  <2>4. n # 0
    BY <1>4, <2>3
  <2>5. n - 1 \in 0 .. Len(c) /\ n - 1 \notin Differ
    <3> HIDE DEF Differ
    <3> QED BY <1>0, <2>2, <2>3, <2>4
  <2> QED BY <1>4, <2>3, <2>4, <2>5
<1>6. Len(c) \in 0 .. Len(c)
  BY <1>0
<1> QED BY <1>3, <1>5, <1>6

LEMMA FlatType ==
  ASSUME NEW c \in Seq(BlockType)
  PROVE  Flat(c) \in Seq(Bytes) /\ Unread(c) \in Nat
<1>1. PICK g : Flats(g, c, Len(c))
  BY FlatsExist
<1>2. Len(c) \in 0 .. Len(c)
  BY Blocks
<1>3. Flat(c) \in Seq(Bytes)
  BY <1>1, <1>2, FlatIs DEF Flats
<1> QED BY <1>3, LenProperties DEF Unread

LEMMA FlatOfNone == <<>> \in Seq(BlockType) /\ Flat(<<>>) = <<>>
<1>1. Flats([i \in {0} |-> <<>>], <<>>, Len(<<>>))
  <2>1. 0 .. 0 = {0} /\ Len(<<>>) = 0 /\ <<>> \in Seq(Bytes)
    OBVIOUS
  <2> QED BY <2>1 DEF Flats
<1>2. <<>> \in Seq(BlockType)
  OBVIOUS
<1> QED BY <1>1, <1>2, FlatIs

LEMMA Associative ==
  \A s, t, u \in Seq(Bytes) : s \o (t \o u) = (s \o t) \o u
<1> QED BY ConcatAssociative

\* The bytes of two chains, one behind the other.
LEMMA FlatConcat ==
  ASSUME NEW a \in Seq(BlockType), NEW b \in Seq(BlockType)
  PROVE  a \o b \in Seq(BlockType) /\ Flat(a \o b) = Flat(a) \o Flat(b)
<1> DEFINE c == a \o b
<1>1. /\ c \in Seq(BlockType) /\ Len(c) = Len(a) + Len(b)
      /\ Len(a) \in Nat /\ Len(b) \in Nat
      /\ \A i \in 1 .. Len(a) : c[i] = a[i]
      /\ \A i \in 1 .. Len(b) : c[Len(a) + i] = b[i]
  <2>1. /\ c \in Seq(BlockType) /\ Len(c) = Len(a) + Len(b)
        /\ \A i \in 1 .. Len(a) + Len(b) :
             c[i] = IF i <= Len(a) THEN a[i] ELSE b[i - Len(a)]
    BY ConcatProperties
  <2>2. Len(a) \in Nat /\ Len(b) \in Nat
    BY LenProperties
  <2> HIDE DEF c
  <2>3. ASSUME NEW i \in 1 .. Len(a) PROVE c[i] = a[i]
    BY <2>1, <2>2
  <2>4. ASSUME NEW i \in 1 .. Len(b) PROVE c[Len(a) + i] = b[i]
    <3>1. /\ Len(a) + i \in 1 .. Len(a) + Len(b) /\ ~(Len(a) + i <= Len(a))
          /\ Len(a) + i - Len(a) = i
      BY <2>2
    <3> QED BY <2>1, <3>1
  <2> QED BY <2>1, <2>2, <2>3, <2>4
<1> HIDE DEF c
<1>2. PICK g : Flats(g, a, Len(a))
  BY FlatsExist
<1>3. PICK f : Flats(f, b, Len(b))
  BY FlatsExist
<1>4. /\ g \in [0 .. Len(a) -> Seq(Bytes)] /\ g[0] = <<>>
      /\ \A i \in 1 .. Len(a) : g[i] = g[i - 1] \o a[i].bytes
  BY <1>2 DEF Flats
<1>5. /\ f \in [0 .. Len(b) -> Seq(Bytes)] /\ f[0] = <<>>
      /\ \A i \in 1 .. Len(b) : f[i] = f[i - 1] \o b[i].bytes
  BY <1>3 DEF Flats
<1> DEFINE front == g[Len(a)]
           h == [i \in 0 .. Len(c) |-> IF i <= Len(a) THEN g[i]
                                       ELSE front \o f[i - Len(a)]]
<1>6. front \in Seq(Bytes)
  <2>1. Len(a) \in 0 .. Len(a)
    BY <1>1
  <2> QED BY <1>4, <2>1
<1> HIDE DEF front
<1>7. h \in [0 .. Len(c) -> Seq(Bytes)]
  <2>1. ASSUME NEW i \in 0 .. Len(c), i <= Len(a) PROVE g[i] \in Seq(Bytes)
    <3>1. i \in 0 .. Len(a)
      BY <1>1, <2>1
    <3> QED BY <1>4, <3>1
  <2>2. ASSUME NEW i \in 0 .. Len(c), ~(i <= Len(a))
        PROVE front \o f[i - Len(a)] \in Seq(Bytes)
    <3>1. i - Len(a) \in 0 .. Len(b)
      BY <1>1, <2>2
    <3>2. f[i - Len(a)] \in Seq(Bytes)
      BY <1>5, <3>1
    <3> QED BY <1>6, <3>2, ConcatProperties
  <2> QED BY <2>1, <2>2
<1>8. h[0] = <<>>
  BY <1>1, <1>4
<1>9. ASSUME NEW i \in 1 .. Len(c) PROVE h[i] = h[i - 1] \o c[i].bytes
  <2>1. i - 1 \in 0 .. Len(c) /\ i \in 0 .. Len(c)
    BY <1>1
  <2>2. CASE i <= Len(a)
    <3>1. i \in 1 .. Len(a) /\ i - 1 <= Len(a)
      BY <1>1, <2>2
    <3> QED BY <1>1, <1>4, <2>1, <2>2, <3>1
  <2>3. CASE ~(i <= Len(a))
    <3> DEFINE j == i - Len(a)
    <3>1. /\ j \in 1 .. Len(b) /\ j - 1 \in 0 .. Len(b) /\ i = Len(a) + j
          /\ i - 1 - Len(a) = j - 1
      BY <1>1, <2>3
    <3>2. h[i] = front \o f[j]
      BY <2>1, <2>3
    <3>3. c[i] = b[j]
      BY <1>1, <3>1
    <3> HIDE DEF j
    <3>4. f[j - 1] \in Seq(Bytes) /\ b[j].bytes \in Seq(Bytes)
      BY <1>5, <3>1, Blocks
    <3>5. h[i - 1] = front \o f[j - 1]
      <4>1. CASE i - 1 <= Len(a)
        <5>1. i - 1 = Len(a) /\ j - 1 = 0
          BY <1>1, <2>3, <3>1, <4>1
        <5>2. h[i - 1] = front
          BY <2>1, <5>1 DEF front
        <5>3. f[j - 1] = <<>>
          BY <1>5, <5>1
        <5> QED BY <1>6, <5>2, <5>3, ConcatEmptySeq
      <4>2. CASE ~(i - 1 <= Len(a))
        BY <2>1, <3>1, <4>2
      <4> QED BY <4>1, <4>2
    <3>6. f[j] = f[j - 1] \o b[j].bytes
      BY <1>5, <3>1
    <3>7. front \o (f[j - 1] \o b[j].bytes) = (front \o f[j - 1]) \o b[j].bytes
      <4> HIDE DEF h
      <4> QED BY <1>6, <3>4, Associative, Zenon
    <3> HIDE DEF h
    <3> QED BY <3>2, <3>3, <3>5, <3>6, <3>7
  <2> QED BY <2>2, <2>3
<1>10. h[Len(c)] = front \o f[Len(b)]
  <2>1. Len(c) \in 0 .. Len(c) /\ Len(c) - Len(a) = Len(b)
    BY <1>1
  <2>2. CASE Len(b) = 0
    <3>1. Len(c) <= Len(a) /\ Len(c) = Len(a)
      BY <1>1, <2>2
    <3>2. h[Len(c)] = front
      BY <2>1, <3>1 DEF front
    <3> QED BY <1>5, <1>6, <2>2, <3>2, ConcatEmptySeq
  <2>3. CASE Len(b) # 0
    <3>1. ~(Len(c) <= Len(a))
      BY <1>1, <2>3
    <3> QED BY <2>1, <3>1
  <2> QED BY <2>2, <2>3
<1> HIDE DEF h
<1>11. Flats(h, c, Len(c))
  BY <1>7, <1>8, <1>9 DEF Flats
<1>12. Flat(c) = h[Len(c)] /\ Flat(a) = front /\ Flat(b) = f[Len(b)]
  BY <1>1, <1>2, <1>3, <1>11, FlatIs DEF front
<1> QED BY <1>1, <1>10, <1>12 DEF c

LEMMA FlatOfOne ==
  ASSUME NEW b \in BlockType
  PROVE  <<b>> \in Seq(BlockType) /\ Flat(<<b>>) = b.bytes
<1>1. /\ <<b>> \in Seq(BlockType) /\ Len(<<b>>) = 1 /\ <<b>>[1] = b
      /\ b.bytes \in Seq(Bytes)
  BY DEF BlockType, Bytes
<1> DEFINE g == [i \in 0 .. 1 |-> IF i = 0 THEN <<>> ELSE b.bytes]
<1>2. g \in [0 .. 1 -> Seq(Bytes)] /\ g[0] = <<>> /\ g[1] = b.bytes
  BY <1>1
<1> HIDE DEF g
<1>3. g[1] = g[0] \o b.bytes
  BY <1>1, <1>2, ConcatEmptySeq
<1>4. Flats(g, <<b>>, 1)
  BY <1>1, <1>2, <1>3 DEF Flats
<1> QED BY <1>1, <1>2, <1>4, FlatIs

(* A chain is its blocks up to one, that one, and those behind it.          *)
LEMMA CutAt ==
  ASSUME NEW c \in Seq(BlockType), NEW k \in 1 .. Len(c)
  PROVE  LET front == SubSeq(c, 1, k - 1)  rest == SubSeq(c, k + 1, Len(c))
         IN /\ front \in Seq(BlockType) /\ rest \in Seq(BlockType)
            /\ Len(front) = k - 1 /\ Len(rest) = Len(c) - k
            /\ \A i \in 1 .. Len(rest) : rest[i] = c[k + i]
            /\ Flat(c) = Flat(front) \o (c[k].bytes \o Flat(rest))
<1> DEFINE front == SubSeq(c, 1, k - 1)
           rest == SubSeq(c, k + 1, Len(c))
           back == SubSeq(c, k, Len(c))
<1>1. Len(c) \in Nat /\ \A i \in 1 .. Len(c) : c[i] \in BlockType
  BY Blocks
<1>2. /\ front \in Seq(BlockType)
      /\ Len(front) = IF 1 <= k - 1 THEN k - 1 - 1 + 1 ELSE 0
  <2>1. \A i \in 1 .. k - 1 : c[i] \in BlockType
    BY <1>1
  <2> QED BY <1>1, <2>1, SubSeqProperties
<1>3. /\ rest \in Seq(BlockType)
      /\ Len(rest) = IF k + 1 <= Len(c) THEN Len(c) - (k + 1) + 1 ELSE 0
      /\ \A i \in 1 .. Len(c) - (k + 1) + 1 : rest[i] = c[k + 1 + i - 1]
  <2>1. \A i \in k + 1 .. Len(c) : c[i] \in BlockType
    BY <1>1
  <2> QED BY <1>1, <2>1, SubSeqProperties
<1>4. front \o back = c
  <2>1. /\ 1 \in 1 .. Len(c) + 1 /\ k - 1 \in 1 - 1 .. Len(c)
        /\ Len(c) \in k - 1 .. Len(c) /\ k - 1 + 1 = k
    BY <1>1
  <2>2. front \o back = SubSeq(c, 1, Len(c))
    BY <2>1, ConcatAdjacentSubSeq
  <2> QED BY <2>2, SubSeqFull
<1>5. back = <<c[k]>> \o rest
  <2>1. Len(c) \in k .. Len(c)
    BY <1>1
  <2> QED BY <2>1, SubSeqRecursiveFirst
<1> HIDE DEF front, rest, back
<1>6. <<c[k]>> \in Seq(BlockType) /\ Flat(<<c[k]>>) = c[k].bytes
  BY <1>1, FlatOfOne
<1>7. back \in Seq(BlockType) /\ Flat(back) = c[k].bytes \o Flat(rest)
  BY <1>3, <1>5, <1>6, FlatConcat
<1>8. Flat(c) = Flat(front) \o (c[k].bytes \o Flat(rest))
  <2>1. Flat(front \o back) = Flat(front) \o Flat(back)
    BY <1>2, <1>7, FlatConcat
  <2> QED BY <1>4, <1>7, <2>1, Zenon
<1>9. Len(front) = k - 1 /\ Len(rest) = Len(c) - k
  BY <1>1, <1>2, <1>3
<1>10. \A i \in 1 .. Len(rest) : rest[i] = c[k + i]
  <2>1. ASSUME NEW i \in 1 .. Len(rest) PROVE rest[i] = c[k + i]
    <3>1. i \in 1 .. Len(c) - (k + 1) + 1 /\ k + 1 + i - 1 = k + i
      BY <1>1, <1>9
    <3> QED BY <1>3, <3>1
  <2> QED BY <2>1
<1> QED BY <1>2, <1>3, <1>8, <1>9, <1>10 DEF front, rest

LEMMA UnreadParts ==
  ASSUME NEW c \in Seq(BlockType), NEW k \in 1 .. Len(c)
  PROVE  /\ Before(c, k) \in Nat /\ Before(c, k + 1) \in Nat
         /\ Len(c[k].bytes) \in Nat /\ Unread(c) \in Nat
         /\ Before(c, k + 1) = Before(c, k) + Len(c[k].bytes)
         /\ Before(c, k + 1) <= Unread(c)
<1> DEFINE front == SubSeq(c, 1, k - 1)  rest == SubSeq(c, k + 1, Len(c))
<1>1. /\ front \in Seq(BlockType) /\ rest \in Seq(BlockType)
      /\ Flat(c) = Flat(front) \o (c[k].bytes \o Flat(rest))
  BY CutAt
<1>2. c[k] \in BlockType /\ c[k].bytes \in Seq(Bytes) /\ Len(c) \in Nat
  BY Blocks
<1>3. SubSeq(c, 1, k) = front \o <<c[k]>>
  <2>1. 1 \in 1 .. Len(c) /\ k \in 1 .. Len(c)
    BY <1>2
  <2> QED BY <2>1, SubSeqRecursiveSecond
<1>4. k \in Nat /\ k + 1 - 1 = k
  BY <1>2
<1> HIDE DEF front, rest
<1>5. Flat(SubSeq(c, 1, k)) = Flat(front) \o c[k].bytes
  <2>1. <<c[k]>> \in Seq(BlockType) /\ Flat(<<c[k]>>) = c[k].bytes
    BY <1>2, FlatOfOne
  <2>2. Flat(front \o <<c[k]>>) = Flat(front) \o Flat(<<c[k]>>)
    BY <1>1, <2>1, FlatConcat
  <2> QED BY <1>3, <2>1, <2>2, Zenon
<1>6. /\ Flat(front) \in Seq(Bytes) /\ Flat(rest) \in Seq(Bytes)
      /\ Len(Flat(front)) \in Nat /\ Len(Flat(rest)) \in Nat /\ Len(c[k].bytes) \in Nat
  BY <1>1, <1>2, FlatType, LenProperties
<1>7. Len(Flat(front) \o c[k].bytes) = Len(Flat(front)) + Len(c[k].bytes)
  BY <1>2, <1>6, ConcatProperties
<1>8. /\ c[k].bytes \o Flat(rest) \in Seq(Bytes)
      /\ Len(c[k].bytes \o Flat(rest)) = Len(c[k].bytes) + Len(Flat(rest))
  BY <1>2, <1>6, ConcatProperties
<1>9. Len(Flat(c)) = Len(Flat(front)) + (Len(c[k].bytes) + Len(Flat(rest)))
  BY <1>1, <1>6, <1>8, ConcatProperties
<1>10. Before(c, k) = Len(Flat(front)) /\ Before(c, k + 1) = Len(Flat(SubSeq(c, 1, k)))
  <2>1. Before(c, k) = Len(Flat(front))
    BY DEF Before, Unread, front
  <2>2. Before(c, k + 1) = Len(Flat(SubSeq(c, 1, k + 1 - 1)))
    BY DEF Before, Unread
  <2> QED BY <1>4, <2>1, <2>2
<1>11. Before(c, k + 1) = Before(c, k) + Len(c[k].bytes)
  BY <1>5, <1>7, <1>10
<1>12. Unread(c) = Before(c, k + 1) + Len(Flat(rest))
  <2>1. Unread(c) = Len(Flat(front)) + (Len(c[k].bytes) + Len(Flat(rest)))
    BY <1>9 DEF Unread
  <2> QED BY <1>6, <1>10, <1>11, <2>1
<1> QED BY <1>6, <1>10, <1>11, <1>12

LEMMA BeforeFirst ==
  ASSUME NEW c \in Seq(BlockType)
  PROVE  Before(c, 1) = 0 /\ Before(c, Len(c) + 1) = Unread(c)
<1>1. SubSeq(c, 1, 1 - 1) = <<>> /\ Len(c) \in Nat
  BY Blocks, SubSeqEmpty
<1>2. SubSeq(c, 1, Len(c) + 1 - 1) = c
  <2>1. Len(c) + 1 - 1 = Len(c)
    BY <1>1
  <2> QED BY <2>1, SubSeqFull
<1>3. Len(<<>>) = 0
  OBVIOUS
<1>4. Before(c, 1) = Len(Flat(SubSeq(c, 1, 1 - 1)))
  BY DEF Before, Unread
<1>5. Before(c, Len(c) + 1) = Len(Flat(SubSeq(c, 1, Len(c) + 1 - 1)))
  BY DEF Before, Unread
<1>6. Before(c, 1) = 0
  BY <1>1, <1>3, <1>4, FlatOfNone
<1>7. Before(c, Len(c) + 1) = Unread(c)
  BY <1>2, <1>5 DEF Unread
<1> QED BY <1>6, <1>7

-----------------------------------------------------------------------------
(* Chains as the code keeps them.                                           *)

Well(c) ==
  /\ c \in Seq(BlockType)
  /\ \A i \in 1 .. Len(c) : BlockOK(c[i])
  /\ \A i \in 1 .. Len(c) - 1 : IsFull(c[i]) /\ c[i].bytes # <<>>


\* Blocks in numbers.
LEMMA BlockNumbers ==
  ASSUME NEW b \in BlockType
  PROVE  /\ b.rlen \in Nat /\ b.len \in Nat /\ b.rdpos \in Nat
         /\ b.bytes \in Seq(Bytes) /\ Len(b.bytes) \in Nat
         /\ WrPos(b) = b.rdpos + Len(b.bytes) /\ WrPos(b) \in Nat
         /\ IsFull(b) <=> WrPos(b) >= b.len
         /\ b.bytes = <<>> <=> Len(b.bytes) = 0
<1>1. /\ b.rlen \in Nat /\ b.len \in Nat /\ b.rdpos \in Nat /\ b.bytes \in Seq(Bytes)
  BY DEF BlockType, Bytes
<1>2. Len(b.bytes) \in Nat /\ (b.bytes = <<>> <=> Len(b.bytes) = 0)
  BY <1>1, LenProperties, EmptySeq
<1> QED BY <1>1, <1>2 DEF WrPos, IsFull

LEMMA WithLastIs ==
  ASSUME NEW c, Well(c), c # <<>>, NEW b \in BlockType, BlockOK(b)
  PROVE  LET d == WithLast(c, b)
         IN /\ Well(d) /\ d # <<>> /\ Len(d) = Len(c) /\ LastOf(d) = b
            /\ \A i \in 1 .. Len(c) - 1 : d[i] = c[i]
            /\ \A x \in Seq(Bytes) :
                 b.bytes = LastOf(c).bytes \o x => Flat(d) = Flat(c) \o x
<1> DEFINE d == WithLast(c, b)  n == Len(c)
<1>1. c \in Seq(BlockType) /\ n \in Nat /\ n > 0
  BY EmptySeq, LenProperties DEF Well
<1>2. n \in 1 .. n /\ n \in 1 .. Len(c)
  BY <1>1
<1>3. /\ d \in Seq(BlockType) /\ Len(d) = n
      /\ \A i \in 1 .. n : d[i] = IF i = n THEN b ELSE c[i]
  BY <1>1, <1>2, ExceptSeq DEF WithLast
<1> HIDE DEF d
<1>4. d # <<>> /\ LastOf(d) = b /\ \A i \in 1 .. n - 1 : d[i] = c[i]
  <2>1. d # <<>>
    BY <1>1, <1>3, EmptySeq
  <2> QED BY <1>1, <1>2, <1>3, <2>1 DEF LastOf
<1>5. Well(d)
  <2>1. \A i \in 1 .. n : BlockOK(d[i])
    BY <1>1, <1>3 DEF Well
  <2>2. \A i \in 1 .. n - 1 : IsFull(d[i]) /\ d[i].bytes # <<>>
    BY <1>1, <1>4 DEF Well
  <2> QED BY <1>3, <2>1, <2>2 DEF Well
<1>6. ASSUME NEW x \in Seq(Bytes), b.bytes = LastOf(c).bytes \o x
      PROVE Flat(d) = Flat(c) \o x
  <2> DEFINE front == SubSeq(c, 1, n - 1)
  <2>1. front \in Seq(BlockType) /\ Flat(front) \in Seq(Bytes)
        /\ Flat(c) = Flat(front) \o (c[n].bytes \o Flat(SubSeq(c, n + 1, Len(c))))
    BY <1>1, <1>2, CutAt, FlatType
  <2>2. Flat(d) = Flat(SubSeq(d, 1, n - 1)) \o (d[n].bytes \o Flat(SubSeq(d, n + 1, Len(d))))
    BY <1>2, <1>3, CutAt
  <2>3. SubSeq(c, n + 1, Len(c)) = <<>> /\ SubSeq(d, n + 1, Len(d)) = <<>>
    BY <1>1, <1>3, SubSeqEmpty
  <2>4. SubSeq(d, 1, n - 1) = front
    <3>1. /\ \A i \in 1 .. n - 1 : c[i] \in BlockType /\ d[i] \in BlockType
          /\ 1 \in Int /\ n - 1 \in Int
      BY <1>1, <1>3, Blocks
    <3>2. /\ Len(front) = IF 1 <= n - 1 THEN n - 1 - 1 + 1 ELSE 0
          /\ \A i \in 1 .. n - 1 - 1 + 1 : front[i] = c[1 + i - 1]
      BY <3>1, SubSeqProperties
    <3>3. /\ SubSeq(d, 1, n - 1) \in Seq(BlockType)
          /\ Len(SubSeq(d, 1, n - 1)) = IF 1 <= n - 1 THEN n - 1 - 1 + 1 ELSE 0
          /\ \A i \in 1 .. n - 1 - 1 + 1 : SubSeq(d, 1, n - 1)[i] = d[1 + i - 1]
      BY <3>1, SubSeqProperties
    <3>4. ASSUME NEW i \in 1 .. Len(front) PROVE front[i] = SubSeq(d, 1, n - 1)[i]
      <4>1. i \in 1 .. n - 1 - 1 + 1 /\ 1 + i - 1 = i /\ i \in 1 .. n - 1
        BY <1>1, <3>2
      <4> QED BY <1>4, <3>2, <3>3, <4>1
    <3> HIDE DEF front
    <3> QED BY <2>1, <3>2, <3>3, <3>4, SeqEqual
  <2>5. c[n].bytes \in Seq(Bytes) /\ d[n].bytes = c[n].bytes \o x
    <3>1. c[n].bytes \in Seq(Bytes)
      BY <1>1, <1>2, Blocks
    <3> QED BY <1>2, <1>3, <1>6, <3>1 DEF LastOf
  <2> HIDE DEF front, n
  <2>6. /\ Flat(c) = Flat(front) \o c[n].bytes
        /\ Flat(d) = Flat(front) \o (c[n].bytes \o x)
    <3>1. c[n].bytes \o <<>> = c[n].bytes
      BY <2>5, ConcatEmptySeq
    <3>2. c[n].bytes \o x \in Seq(Bytes)
      BY <2>5, <1>6, ConcatProperties
    <3>3. (c[n].bytes \o x) \o <<>> = c[n].bytes \o x
      BY <3>2, ConcatEmptySeq
    <3> QED BY <2>1, <2>2, <2>3, <2>4, <2>5, <3>1, <3>3, FlatOfNone
  <2>7. Flat(front) \o (c[n].bytes \o x) = (Flat(front) \o c[n].bytes) \o x
    BY <1>6, <2>1, <2>5, Associative, Zenon
  <2> QED BY <2>6, <2>7
<1> QED BY <1>3, <1>4, <1>5, <1>6 DEF d

LEMMA AppendIs ==
  ASSUME NEW c, Well(c), c # <<>>, IsFull(LastOf(c)), LastOf(c).bytes # <<>>,
         NEW b \in BlockType, BlockOK(b)
  PROVE  LET d == Append(c, b)
         IN /\ Well(d) /\ d # <<>> /\ Len(d) = Len(c) + 1 /\ LastOf(d) = b
            /\ \A i \in 1 .. Len(c) : d[i] = c[i]
            /\ Flat(d) = Flat(c) \o b.bytes
<1> DEFINE d == Append(c, b)
<1>1. c \in Seq(BlockType) /\ Len(c) \in Nat /\ Len(c) > 0
  BY EmptySeq, LenProperties DEF Well
<1>2. /\ d \in Seq(BlockType) /\ d # <<>> /\ Len(d) = Len(c) + 1
      /\ \A i \in 1 .. Len(c) : d[i] = c[i]
      /\ d[Len(c) + 1] = b
  BY <1>1, AppendProperties
<1>3. d = c \o <<b>>
  BY <1>1, AppendIsConcat
<1>4. Flat(d) = Flat(c) \o b.bytes
  BY <1>1, <1>3, FlatOfOne, FlatConcat
<1> HIDE DEF d
<1>5. Well(d)
  <2>1. ASSUME NEW i \in 1 .. Len(d) PROVE BlockOK(d[i])
    <3>1. i \in 1 .. Len(c) \/ i = Len(c) + 1
      BY <1>1, <1>2
    <3> QED BY <1>2, <3>1 DEF Well
  <2>2. ASSUME NEW i \in 1 .. Len(d) - 1 PROVE IsFull(d[i]) /\ d[i].bytes # <<>>
    <3>1. i \in 1 .. Len(c) /\ (i \in 1 .. Len(c) - 1 \/ i = Len(c))
      BY <1>1, <1>2
    <3> QED BY <1>2, <3>1 DEF Well, LastOf
  <2> QED BY <1>2, <2>1, <2>2 DEF Well
<1> QED BY <1>2, <1>4, <1>5 DEF d, LastOf

LEMMA AllocIs ==
  ASSUME NEW size \in Nat
  PROVE  /\ Alloc(size) \in BlockType /\ BlockOK(Alloc(size))
         /\ Alloc(size).bytes = <<>> /\ Alloc(size).rdpos = 0
         /\ Alloc(size).len = AllocLen(size) /\ Alloc(size).rlen = AllocLen(size)
         /\ AllocLen(size) \in Nat /\ AllocLen(size) >= size /\ AllocLen(size) > 0
<1>1. AllocLen(size) \in Nat /\ AllocLen(size) >= size /\ AllocLen(size) > 0
  BY AllocHolds
<1>2. Alloc(size) = [rlen |-> AllocLen(size), len |-> AllocLen(size), rdpos |-> 0,
                     bytes |-> <<>>]
  BY DEF Alloc
<1>3. <<>> \in Seq(0 .. Byte - 1) /\ Len(<<>>) = 0
  OBVIOUS
<1>4. Alloc(size) \in BlockType
  BY <1>1, <1>2, <1>3 DEF BlockType
<1>5. BlockOK(Alloc(size))
  BY <1>1, <1>2, <1>3 DEF BlockOK, WrPos, IsFull
<1> QED BY <1>1, <1>2, <1>4, <1>5

-----------------------------------------------------------------------------
(* Bytes that are written, cut and put together again.                      *)

LEMMA FreshIs ==
  ASSUME written \in Bytes, NEW n \in Nat
  PROVE  /\ Fresh(n) \in Seq(Bytes) /\ Len(Fresh(n)) = n
         /\ (written + n) % Byte \in Bytes
<1>1. Byte \in Nat /\ Byte > 0 /\ written \in Nat
  BY BlockBufferAssumption DEF Bytes
<1>2. \A k \in Nat : (written + k) % Byte \in Bytes
  BY <1>1 DEF Bytes
<1>3. ASSUME NEW i \in 1 .. n PROVE (written + i - 1) % Byte \in Bytes
  <2>1. i - 1 \in Nat /\ written + i - 1 = written + (i - 1)
    BY <1>1
  <2> QED BY <1>2, <2>1
<1>4. Fresh(n) \in [1 .. n -> Bytes]
  BY <1>3 DEF Fresh
<1> QED BY <1>2, <1>4

LEMMA Split ==
  ASSUME NEW s \in Seq(Bytes), NEW g \in 0 .. Len(s)
  PROVE  LET p == SubSeq(s, 1, g)  q == SubSeq(s, g + 1, Len(s))
         IN /\ p \in Seq(Bytes) /\ q \in Seq(Bytes)
            /\ Len(p) = g /\ Len(q) = Len(s) - g
            /\ s = p \o q
<1>1. Len(s) \in Nat /\ \A i \in 1 .. Len(s) : s[i] \in Bytes
  BY LenProperties, ElementOfSeq
<1>2. /\ SubSeq(s, 1, g) \in Seq(Bytes)
      /\ Len(SubSeq(s, 1, g)) = IF 1 <= g THEN g - 1 + 1 ELSE 0
  <2>1. \A i \in 1 .. g : s[i] \in Bytes
    BY <1>1
  <2> QED BY <2>1, SubSeqProperties
<1>3. /\ SubSeq(s, g + 1, Len(s)) \in Seq(Bytes)
      /\ Len(SubSeq(s, g + 1, Len(s))) =
           IF g + 1 <= Len(s) THEN Len(s) - (g + 1) + 1 ELSE 0
  <2>1. \A i \in g + 1 .. Len(s) : s[i] \in Bytes
    BY <1>1
  <2> QED BY <1>1, <2>1, SubSeqProperties
<1>4. Len(SubSeq(s, 1, g)) = g /\ Len(SubSeq(s, g + 1, Len(s))) = Len(s) - g
  BY <1>1, <1>2, <1>3
<1>5. SubSeq(s, 1, g) \o SubSeq(s, g + 1, Len(s)) = SubSeq(s, 1, Len(s))
  <2>1. 1 \in 1 .. Len(s) + 1 /\ g \in 1 - 1 .. Len(s) /\ Len(s) \in g .. Len(s)
    BY <1>1
  <2> QED BY <2>1, ConcatAdjacentSubSeq
<1> QED BY <1>2, <1>3, <1>4, <1>5, SubSeqFull

LEMMA Halves ==
  ASSUME NEW s \in Seq(Bytes), NEW t \in Seq(Bytes)
  PROVE  /\ Len(s) \in Nat /\ Len(t) \in Nat
         /\ s \o t \in Seq(Bytes) /\ Len(s \o t) = Len(s) + Len(t)
         /\ SubSeq(s \o t, 1, Len(s)) = s
         /\ SubSeq(s \o t, Len(s) + 1, Len(s) + Len(t)) = t
<1>1. /\ Len(s) \in Nat /\ Len(t) \in Nat
      /\ s \o t \in Seq(Bytes) /\ Len(s \o t) = Len(s) + Len(t)
  BY LenProperties, ConcatProperties
<1>2. SubSeq(s \o t, 1, Len(s)) = s
  <2>1. CASE s = <<>>
    BY <2>1, SubSeqEmpty
  <2>2. CASE s # <<>>
    <3>1. 1 \in 1 .. Len(s) /\ Len(s) \in 1 .. Len(s)
      BY <1>1, <2>2, EmptySeq
    <3> QED BY <3>1, SubSeqOfConcat1, SubSeqFull
  <2> QED BY <2>1, <2>2
<1>3. SubSeq(s \o t, Len(s) + 1, Len(s) + Len(t)) = t
  <2>1. CASE t = <<>>
    <3>1. Len(s) + Len(t) < Len(s) + 1 /\ Len(s) + 1 \in Int /\ Len(s) + Len(t) \in Int
      BY <1>1, <2>1
    <3> QED BY <2>1, <3>1, SubSeqEmpty
  <2>2. CASE t # <<>>
    <3>1. /\ Len(s) + 1 \in Len(s) + 1 .. Len(s) + Len(t)
          /\ Len(s) + Len(t) \in Len(s) + 1 .. Len(s) + Len(t)
          /\ Len(s) + 1 - Len(s) = 1 /\ Len(s) + Len(t) - Len(s) = Len(t)
      BY <1>1, <2>2, EmptySeq
    <3>2. SubSeq(s \o t, Len(s) + 1, Len(s) + Len(t)) =
            SubSeq(t, Len(s) + 1 - Len(s), Len(s) + Len(t) - Len(s))
      BY <3>1, SubSeqOfConcat2
    <3> QED BY <3>1, <3>2, SubSeqFull
  <2> QED BY <2>1, <2>2
<1> QED BY <1>1, <1>2, <1>3

-----------------------------------------------------------------------------
(* Reading.                                                                 *)

\* The loop of Copy and Move ends at a block, and has counted what there is.
LEMMA WalkEnds ==
  ASSUME NEW c, Well(c), c # <<>>, NEW n \in Nat
  PROVE  LET k == StopsAt(c, n)  g == Given(c, n, k)
         IN /\ k \in 1 .. Len(c)
            /\ \A j \in 1 .. k - 1 : ~Stops(c, n, j)
            /\ Before(c, k) \in Nat /\ g \in 0 .. Len(c[k].bytes)
            /\ Before(c, k) + g = Smaller(n, Unread(c))
            /\ g = Len(c[k].bytes) => k = Len(c)
<1>1. c \in Seq(BlockType) /\ Len(c) \in Nat /\ Len(c) > 0
  BY EmptySeq, LenProperties DEF Well
<1> DEFINE Ends == {i \in 1 .. Len(c) : Stops(c, n, i)}
<1>2. \E i \in Ends : \A j \in Ends : i <= j
  <2>1. Len(c) \in Ends
    BY <1>1 DEF Stops
  <2>2. Ends \subseteq Nat
    OBVIOUS
  <2> HIDE DEF Ends
  <2> QED BY <2>1, <2>2, Least
<1>3. \E i \in 1 .. Len(c) : Stops(c, n, i) /\ \A j \in 1 .. i - 1 : ~Stops(c, n, j)
  <2>1. PICK i \in Ends : \A j \in Ends : i <= j
    BY <1>2
  <2>2. i \in 1 .. Len(c) /\ Stops(c, n, i)
    OBVIOUS
  <2>3. ASSUME NEW j \in 1 .. i - 1 PROVE ~Stops(c, n, j)
    <3>1. j \in 1 .. Len(c) /\ ~(i <= j)
      BY <1>1, <2>2
    <3> QED BY <2>1, <3>1
  <2> QED BY <2>2, <2>3
<1> DEFINE k == StopsAt(c, n)  g == Given(c, n, k)
<1>4. /\ k \in 1 .. Len(c) /\ Stops(c, n, k)
      /\ \A j \in 1 .. k - 1 : ~Stops(c, n, j)
  BY <1>3 DEF StopsAt
<1>5. g = Smaller(Len(c[k].bytes), n - Before(c, k))
  BY DEF Given
<1> HIDE DEF k, g
<1>6. /\ Before(c, k) \in Nat /\ Before(c, k + 1) \in Nat
      /\ Len(c[k].bytes) \in Nat /\ Unread(c) \in Nat
      /\ Before(c, k + 1) = Before(c, k) + Len(c[k].bytes)
      /\ Before(c, k + 1) <= Unread(c)
  BY <1>1, <1>4, UnreadParts
<1>7. Before(c, k) <= n
  <2>1. CASE k = 1
    BY <1>1, <2>1, BeforeFirst
  <2>2. CASE k # 1
    <3> DEFINE j == k - 1
    <3>1. j \in 1 .. Len(c) /\ j \in 1 .. k - 1 /\ j + 1 = k
      BY <1>1, <1>4, <2>2
    <3> HIDE DEF j
    <3>2. /\ Before(c, j) \in Nat /\ Len(c[j].bytes) \in Nat
          /\ Before(c, j + 1) = Before(c, j) + Len(c[j].bytes)
      BY <1>1, <3>1, UnreadParts
    <3>3. ~(n - Before(c, j) < Len(c[j].bytes))
      BY <1>4, <3>1 DEF Stops
    <3> QED BY <3>1, <3>2, <3>3
  <2> QED BY <2>1, <2>2
<1>8. g \in 0 .. Len(c[k].bytes)
  BY <1>5, <1>6, <1>7 DEF Smaller
<1>9. k = Len(c) => Before(c, k + 1) = Unread(c)
  BY <1>1, BeforeFirst
<1>10. ~IsFull(c[k]) \/ Len(c[k].bytes) = 0 => k = Len(c)
  <2>1. SUFFICES ASSUME k # Len(c) PROVE IsFull(c[k]) /\ Len(c[k].bytes) # 0
    OBVIOUS
  <2>2. k \in 1 .. Len(c) - 1
    BY <1>1, <1>4, <2>1
  <2>3. IsFull(c[k]) /\ c[k].bytes # <<>>
    BY <2>2 DEF Well
  <2> QED BY <1>1, <1>4, <2>3, Blocks, BlockNumbers
<1>11. \/ n - Before(c, k) < Len(c[k].bytes)
       \/ n = Before(c, k)
       \/ k = Len(c)
  BY <1>4, <1>10 DEF Stops
<1>12. Before(c, k) + g = Smaller(n, Unread(c))
  BY <1>5, <1>6, <1>7, <1>9, <1>11 DEF Smaller
<1>13. g = Len(c[k].bytes) => k = Len(c)
  BY <1>5, <1>6, <1>7, <1>10, <1>11 DEF Smaller
<1> QED BY <1>4, <1>6, <1>8, <1>12, <1>13 DEF k, g

LEMMA WellOne ==
  ASSUME NEW b \in BlockType, BlockOK(b)
  PROVE  Well(<<b>>) /\ <<b>> # <<>> /\ Len(<<b>>) = 1 /\ LastOf(<<b>>) = b
<1>1. <<b>> \in Seq(BlockType) /\ <<b>> # <<>> /\ Len(<<b>>) = 1 /\ <<b>>[1] = b
  OBVIOUS
<1> QED BY <1>1 DEF Well, LastOf

LEMMA WellNone == Well(<<>>)
<1>1. <<>> \in Seq(BlockType) /\ Len(<<>>) = 0
  OBVIOUS
<1> QED BY <1>1 DEF Well

\* Blocks with other numbers or other bytes.
LEMMA BlockWith ==
  ASSUME NEW b \in BlockType, NEW v
  PROVE  /\ [b EXCEPT !.bytes = v]
              = [rlen |-> b.rlen, len |-> b.len, rdpos |-> b.rdpos, bytes |-> v]
         /\ [b EXCEPT !.rdpos = v]
              = [rlen |-> b.rlen, len |-> b.len, rdpos |-> v, bytes |-> b.bytes]
         /\ [b EXCEPT !.len = v]
              = [rlen |-> b.rlen, len |-> v, rdpos |-> b.rdpos, bytes |-> b.bytes]
<1> QED BY DEF BlockType

LEMMA BlockWithTwo ==
  ASSUME NEW b \in BlockType, NEW v, NEW w
  PROVE  /\ [b EXCEPT !.rdpos = v, !.bytes = w]
              = [rlen |-> b.rlen, len |-> b.len, rdpos |-> v, bytes |-> w]
         /\ [b EXCEPT !.rdpos = v, !.len = w]
              = [rlen |-> b.rlen, len |-> w, rdpos |-> v, bytes |-> b.bytes]
<1> DEFINE x1 == [b EXCEPT !.rdpos = v, !.bytes = w]
           y1 == [rlen |-> b.rlen, len |-> b.len, rdpos |-> v, bytes |-> w]
           x2 == [b EXCEPT !.rdpos = v, !.len = w]
           y2 == [rlen |-> b.rlen, len |-> w, rdpos |-> v, bytes |-> b.bytes]
<1>1. x1 = y1
  <2>1. x1.rlen = y1.rlen /\ x1.len = y1.len /\ x1.rdpos = y1.rdpos /\ x1.bytes = y1.bytes
    BY DEF BlockType
  <2>2. DOMAIN x1 = DOMAIN y1
    BY DEF BlockType
  <2> QED BY <2>1, <2>2
<1>2. x2 = y2
  <2>1. x2.rlen = y2.rlen /\ x2.len = y2.len /\ x2.rdpos = y2.rdpos /\ x2.bytes = y2.bytes
    BY DEF BlockType
  <2>2. DOMAIN x2 = DOMAIN y2
    BY DEF BlockType
  <2> QED BY <2>1, <2>2
<1> QED BY <1>1, <1>2

LEMMA DropIs ==
  ASSUME NEW b \in BlockType, NEW g \in 0 .. Len(b.bytes)
  PROVE  /\ Drop(b, g) \in BlockType
         /\ Drop(b, g).bytes = SubSeq(b.bytes, g + 1, Len(b.bytes))
         /\ Drop(b, g).len = b.len /\ Drop(b, g).rlen = b.rlen
         /\ WrPos(Drop(b, g)) = WrPos(b) /\ (IsFull(Drop(b, g)) <=> IsFull(b))
<1> DEFINE q == SubSeq(b.bytes, g + 1, Len(b.bytes))
<1>1. /\ b.rlen \in Nat /\ b.len \in Nat /\ b.rdpos \in Nat
      /\ b.bytes \in Seq(Bytes) /\ Len(b.bytes) \in Nat
  BY BlockNumbers
<1>2. q \in Seq(Bytes) /\ Len(q) = Len(b.bytes) - g
  BY <1>1, Split
<1>3. Drop(b, g) = [rlen |-> b.rlen, len |-> b.len, rdpos |-> b.rdpos + g, bytes |-> q]
  <2>1. Drop(b, g) = [b EXCEPT !.rdpos = b.rdpos + g, !.bytes = q]
    BY DEF Drop
  <2> HIDE DEF q
  <2> QED BY <2>1, BlockWithTwo, Zenon
<1> HIDE DEF q
<1>4. Drop(b, g) \in BlockType
  BY <1>1, <1>2, <1>3 DEF BlockType, Bytes
<1>5. WrPos(Drop(b, g)) = WrPos(b)
  <2>1. b.rdpos + g + (Len(b.bytes) - g) = b.rdpos + Len(b.bytes)
    BY <1>1
  <2> QED BY <1>2, <1>3, <2>1 DEF WrPos
<1> QED BY <1>3, <1>4, <1>5 DEF q, IsFull

\* An empty block that is reset.
LEMMA ResetIs ==
  ASSUME NEW b \in BlockType, b.bytes = <<>>, b.rlen > 0
  PROVE  LET f == [b EXCEPT !.rdpos = 0, !.len = b.rlen]
         IN f \in BlockType /\ f.bytes = <<>> /\ BlockOK(f)
<1> DEFINE r == b.rlen  z == 0  f == [b EXCEPT !.rdpos = z, !.len = r]
<1>1. r \in Nat /\ r > 0 /\ z = 0 /\ b.bytes \in Seq(Bytes)
  BY BlockNumbers
<1> HIDE DEF r, z
<1>2. f = [rlen |-> b.rlen, len |-> r, rdpos |-> z, bytes |-> b.bytes]
  BY BlockWithTwo, Zenon
<1> HIDE DEF f
<1>3. /\ f.bytes = <<>> /\ f.rlen = r /\ f.len = r /\ f.rdpos = 0 /\ Len(f.bytes) = 0
  BY <1>1, <1>2 DEF r
<1>4. f \in BlockType
  BY <1>1, <1>2, <1>3 DEF BlockType, Bytes, r
<1>5. BlockOK(f)
  <2>1. WrPos(f) = 0
    BY <1>3 DEF WrPos
  <2> QED BY <1>1, <1>3, <2>1 DEF BlockOK, IsFull
<1> QED BY <1>3, <1>4, <1>5 DEF f, r, z

\* d is what is left of c when n bytes are taken: a chain as the code keeps them,
\* which makes up with what was taken the bytes that were there.
LeftWhole(c, n, d) ==
  /\ Well(d)
  /\ \E x \in Seq(Bytes) : /\ Flat(c) = x \o Flat(d)
                           /\ Len(x) = Smaller(n, Unread(c))
  /\ \A i \in 2 .. Len(d) - 1 : \E j \in 2 .. Len(c) - 1 : d[i] = c[j]

LEMMA TakenIs ==
  ASSUME NEW c, Well(c), c # <<>>, NEW n \in Nat
  PROVE  LeftWhole(c, n, Tidy(LeftBy(c, n)))
<1> DEFINE k == StopsAt(c, n)  g == Given(c, n, k)
           front == SubSeq(c, 1, k - 1)  rest == SubSeq(c, k + 1, Len(c))
           b == Drop(c[k], g)  e == <<b>> \o rest  d == Tidy(LeftBy(c, n))
           p == SubSeq(c[k].bytes, 1, g)
<1>1. c \in Seq(BlockType) /\ Len(c) \in Nat /\ Len(c) > 0
  BY EmptySeq, LenProperties DEF Well
<1>2. /\ k \in 1 .. Len(c) /\ g \in 0 .. Len(c[k].bytes) /\ Before(c, k) \in Nat
      /\ Before(c, k) + g = Smaller(n, Unread(c))
      /\ g = Len(c[k].bytes) => k = Len(c)
  BY WalkEnds
<1>3. d = Tidy(e)
  BY DEF LeftBy
<1> HIDE DEF k, g, d
<1>4. /\ front \in Seq(BlockType) /\ rest \in Seq(BlockType)
      /\ Len(rest) = Len(c) - k /\ \A i \in 1 .. Len(rest) : rest[i] = c[k + i]
      /\ Flat(c) = Flat(front) \o (c[k].bytes \o Flat(rest))
  BY <1>1, <1>2, CutAt
<1>5. /\ c[k] \in BlockType /\ BlockOK(c[k]) /\ c[k].bytes \in Seq(Bytes)
      /\ Len(c[k].bytes) \in Nat
  BY <1>1, <1>2, Blocks, BlockNumbers DEF Well
<1>6. /\ b \in BlockType /\ b.bytes = SubSeq(c[k].bytes, g + 1, Len(c[k].bytes))
      /\ b.len = c[k].len /\ b.rlen = c[k].rlen
      /\ WrPos(b) = WrPos(c[k]) /\ (IsFull(b) <=> IsFull(c[k]))
  BY <1>2, <1>5, DropIs
<1>7. /\ p \in Seq(Bytes) /\ b.bytes \in Seq(Bytes)
      /\ Len(p) = g /\ Len(b.bytes) = Len(c[k].bytes) - g
      /\ c[k].bytes = p \o b.bytes
  BY <1>2, <1>5, <1>6, Split
<1>8. Before(c, k) = Len(Flat(front))
  BY DEF Before, Unread, front
<1> HIDE DEF front, rest, b, p
<1>9. /\ Flat(front) \in Seq(Bytes) /\ Flat(rest) \in Seq(Bytes)
  BY <1>4, FlatType
<1>10. /\ Flat(c) = (Flat(front) \o p) \o (b.bytes \o Flat(rest))
       /\ Flat(front) \o p \in Seq(Bytes)
       /\ Len(Flat(front) \o p) = Smaller(n, Unread(c))
  <2>1. (p \o b.bytes) \o Flat(rest) = p \o (b.bytes \o Flat(rest))
    BY <1>7, <1>9, Associative, Zenon
  <2>2. b.bytes \o Flat(rest) \in Seq(Bytes)
    BY <1>7, <1>9, ConcatProperties
  <2>3. Flat(front) \o (p \o (b.bytes \o Flat(rest)))
          = (Flat(front) \o p) \o (b.bytes \o Flat(rest))
    <3>1. Flat(front) \in Seq(Bytes) /\ p \in Seq(Bytes)
      BY <1>7, <1>9
    <3> QED BY <2>2, <3>1, Associative
  <2>4. /\ Flat(front) \o p \in Seq(Bytes)
        /\ Len(Flat(front) \o p) = Len(Flat(front)) + Len(p)
    BY <1>7, <1>9, ConcatProperties
  <2>5. Len(Flat(front) \o p) = Smaller(n, Unread(c))
    BY <1>2, <1>7, <1>8, <2>4
  <2> QED BY <1>4, <1>7, <2>1, <2>3, <2>4, <2>5
<1> HIDE DEF e
<1>11. /\ e \in Seq(BlockType) /\ Flat(e) = b.bytes \o Flat(rest)
       /\ e # <<>> /\ Head(e) = b /\ Len(e) = 1 + (Len(c) - k)
       /\ \A i \in 2 .. Len(e) : e[i] = c[k + i - 1]
  <2>1. /\ <<b>> \in Seq(BlockType) /\ Flat(<<b>>) = b.bytes
        /\ Len(<<b>>) = 1 /\ <<b>>[1] = b
    BY <1>6, FlatOfOne
  <2>2. /\ e \in Seq(BlockType) /\ Len(e) = 1 + Len(rest)
        /\ \A i \in 1 .. 1 + Len(rest) : e[i] = IF i <= 1 THEN <<b>>[i] ELSE rest[i - 1]
    BY <1>4, <2>1, ConcatProperties DEF e
  <2>3. Flat(e) = b.bytes \o Flat(rest)
    BY <1>4, <2>1, FlatConcat DEF e
  <2>4. e # <<>> /\ Head(e) = b
    <3>1. Len(rest) \in Nat
      BY <1>4, LenProperties
    <3>2. e # <<>>
      BY <2>2, <3>1, EmptySeq
    <3>3. e[1] = b
      BY <2>1, <2>2, <3>1
    <3> QED BY <2>2, <3>2, <3>3
  <2>5. ASSUME NEW i \in 2 .. Len(e) PROVE e[i] = c[k + i - 1]
    <3>1. /\ i \in 1 .. 1 + Len(rest) /\ ~(i <= 1) /\ i - 1 \in 1 .. Len(rest)
          /\ k + (i - 1) = k + i - 1
      BY <1>1, <1>2, <1>4, <2>2
    <3> QED BY <1>4, <2>2, <3>1
  <2> QED BY <1>4, <2>2, <2>3, <2>4, <2>5
<1> DEFINE Goal == /\ Well(d)
                   /\ \E x \in Seq(Bytes) : /\ Flat(c) = x \o Flat(d)
                                            /\ Len(x) = Smaller(n, Unread(c))
                   /\ \A i \in 2 .. Len(d) - 1 : \E j \in 2 .. Len(c) - 1 : d[i] = c[j]
<1>12. ASSUME b.bytes # <<>> PROVE Goal
  <2>1. d = e
    BY <1>3, <1>11, <1>12 DEF Tidy
  <2>2. Well(e)
    <3>1. BlockOK(b)
      BY <1>5, <1>6, <1>12 DEF BlockOK
    <3>2. e[1] = b
      BY <1>11
    <3>3. ASSUME NEW i \in 1 .. Len(e) PROVE BlockOK(e[i])
      <4>1. i = 1 \/ (i \in 2 .. Len(e) /\ k + i - 1 \in 1 .. Len(c))
        BY <1>1, <1>2, <1>11
      <4> QED BY <1>11, <3>1, <3>2, <4>1 DEF Well
    <3>4. ASSUME NEW i \in 1 .. Len(e) - 1 PROVE IsFull(e[i]) /\ e[i].bytes # <<>>
      <4>1. k + i - 1 \in 1 .. Len(c) - 1 /\ (i = 1 \/ i \in 2 .. Len(e))
        BY <1>1, <1>2, <1>11
      <4>2. IsFull(c[k + i - 1]) /\ c[k + i - 1].bytes # <<>>
        BY <4>1 DEF Well
      <4>3. CASE i = 1
        <5>1. k + i - 1 = k
          BY <1>2, <4>3
        <5> QED BY <1>6, <1>12, <3>2, <4>2, <4>3, <5>1
      <4> QED BY <1>11, <4>1, <4>2, <4>3
    <3> QED BY <1>11, <3>3, <3>4 DEF Well
  <2>3. ASSUME NEW i \in 2 .. Len(e) - 1 PROVE \E j \in 2 .. Len(c) - 1 : e[i] = c[j]
    <3>1. k + i - 1 \in 2 .. Len(c) - 1 /\ i \in 2 .. Len(e)
      BY <1>1, <1>2, <1>11
    <3> QED BY <1>11, <3>1
  <2>4. Flat(c) = (Flat(front) \o p) \o Flat(d)
    BY <1>10, <1>11, <2>1
  <2> QED BY <1>10, <2>1, <2>2, <2>3, <2>4
<1>13. ASSUME b.bytes = <<>> PROVE Goal
  <2>1. k = Len(c) /\ rest = <<>>
    <3>1. Len(b.bytes) = 0
      BY <1>13
    <3>2. k = Len(c)
      BY <1>2, <1>5, <1>7, <3>1
    <3> QED BY <1>1, <1>4, <3>2, EmptySeq
  <2>2. e = <<b>> /\ Tail(e) = <<>> /\ Head(e) = b
    BY <2>1 DEF e
  <2>3. Flat(c) = (Flat(front) \o p) \o <<>>
    <3>1. b.bytes \o Flat(rest) = <<>>
      BY <1>13, <2>1, FlatOfNone
    <3> QED BY <1>10, <3>1
  <2>4. CASE b.len <= MidSize
    <3> DEFINE f == [b EXCEPT !.rdpos = 0, !.len = b.rlen]
    <3>1. d = <<f>>
      <4>1. d = <<f>> \o Tail(e)
        BY <1>3, <1>13, <2>2, <2>4, Zenon DEF Tidy
      <4> QED BY <2>2, <4>1
    <3>2. /\ b.rlen \in Nat /\ b.rlen > 0
      BY <1>5, <1>6, BlockNumbers DEF BlockOK
    <3>3. f \in BlockType /\ f.bytes = <<>> /\ BlockOK(f)
      BY <1>6, <1>13, <3>2, ResetIs
    <3> HIDE DEF f
    <3>5. Well(d) /\ Len(d) = 1 /\ Flat(d) = <<>>
      BY <3>1, <3>3, WellOne, FlatOfOne
    <3>6. Flat(c) = (Flat(front) \o p) \o Flat(d)
      BY <2>3, <3>5
    <3>7. \A i \in 2 .. Len(d) - 1 : FALSE
      BY <3>5
    <3> QED BY <1>10, <3>5, <3>6, <3>7
  <2>5. CASE ~(b.len <= MidSize)
    <3>1. d = <<>>
      BY <1>3, <1>13, <2>2, <2>5, Zenon DEF Tidy
    <3>2. Well(d) /\ Len(d) = 0 /\ Flat(d) = <<>>
      BY <3>1, WellNone, FlatOfNone
    <3>3. Flat(c) = (Flat(front) \o p) \o Flat(d)
      BY <2>3, <3>2
    <3>4. \A i \in 2 .. Len(d) - 1 : FALSE
      BY <3>2
    <3> QED BY <1>10, <3>2, <3>3, <3>4
  <2> QED BY <2>4, <2>5
<1>14. LeftWhole(c, n, d)
  BY <1>12, <1>13 DEF LeftWhole
<1> QED BY <1>14 DEF d

-----------------------------------------------------------------------------
(* Writing.                                                                 *)

\* A new block with bytes it has room for.
LEMMA FilledIs ==
  ASSUME NEW size \in Nat, NEW x \in Seq(Bytes), Len(x) <= size
  PROVE  LET b == [Alloc(size) EXCEPT !.bytes = x]
         IN /\ b \in BlockType /\ BlockOK(b)
            /\ b.bytes = x /\ b.rdpos = 0 /\ b.len >= size /\ b.len \in Nat
<1> DEFINE a == AllocLen(size)  b == [Alloc(size) EXCEPT !.bytes = x]
<1>1. /\ Alloc(size) \in BlockType /\ Alloc(size).rdpos = 0
      /\ Alloc(size).len = a /\ Alloc(size).rlen = a
      /\ a \in Nat /\ a >= size /\ a > 0
  BY AllocIs
<1>2. Len(x) \in Nat /\ (x = <<>> => Len(x) = 0)
  BY LenProperties
<1> HIDE DEF a
<1>3. b = [rlen |-> Alloc(size).rlen, len |-> Alloc(size).len,
           rdpos |-> Alloc(size).rdpos, bytes |-> x]
  BY <1>1, BlockWith, Zenon
<1> HIDE DEF b
<1>4. b.bytes = x /\ b.rdpos = 0 /\ b.len = a /\ b.rlen = a
  BY <1>1, <1>3
<1>5. b = [rlen |-> a, len |-> a, rdpos |-> 0, bytes |-> x]
  BY <1>1, <1>3
<1>6. b \in BlockType
  BY <1>1, <1>5 DEF BlockType, Bytes
<1>7. WrPos(b) = Len(x)
  BY <1>2, <1>4 DEF WrPos
<1>8. BlockOK(b)
  BY <1>1, <1>2, <1>4, <1>7 DEF BlockOK, IsFull
<1> QED BY <1>1, <1>4, <1>6, <1>8 DEF b

\* The tail block of a chain.
LEMMA TailBlock ==
  ASSUME NEW c, Well(c), c # <<>>
  PROVE  /\ c \in Seq(BlockType) /\ Len(c) \in Nat /\ Len(c) > 0
         /\ LastOf(c) \in BlockType /\ BlockOK(LastOf(c))
         /\ Flat(c) \in Seq(Bytes) /\ Flat(c) \o <<>> = Flat(c)
         /\ LastOf(c).bytes \in Seq(Bytes)
         /\ LastOf(c).bytes \o <<>> = LastOf(c).bytes
<1>1. c \in Seq(BlockType) /\ Len(c) \in Nat /\ Len(c) > 0
  BY EmptySeq, LenProperties DEF Well
<1>2. Len(c) \in 1 .. Len(c)
  BY <1>1
<1>3. LastOf(c) \in BlockType /\ BlockOK(LastOf(c)) /\ LastOf(c).bytes \in Seq(Bytes)
  BY <1>1, <1>2, Blocks DEF Well, LastOf
<1>4. Flat(c) \in Seq(Bytes)
  BY <1>1, FlatType
<1> QED BY <1>1, <1>3, <1>4, ConcatEmptySeq

\* expand keeps the bytes, makes room for need more at the end of the chain, and
\* leaves behind a block that it closes CopySize bytes or more.
LEMMA ExpandIs ==
  ASSUME NEW c, Well(c), c # <<>>, NEW need \in Nat
  PROVE  LET d == Expand(c, need)
         IN /\ Well(d) /\ d # <<>> /\ Flat(d) = Flat(c)
            /\ WrPos(LastOf(d)) + need <= LastOf(d).len
            /\ \A i \in 2 .. Len(d) - 1 : \/ i \in 2 .. Len(c) - 1 /\ d[i] = c[i]
                                          \/ Len(d[i].bytes) >= CopySize
<1> DEFINE t == LastOf(c)  used == Len(t.bytes)  d == Expand(c, need)
           fits == t.len - used >= need /\ used <= MoveSize
<1>1. /\ c \in Seq(BlockType) /\ Len(c) \in Nat /\ Len(c) > 0
      /\ t \in BlockType /\ BlockOK(t)
      /\ Flat(c) \in Seq(Bytes) /\ Flat(c) \o <<>> = Flat(c)
      /\ t.bytes \in Seq(Bytes) /\ t.bytes \o <<>> = t.bytes
  BY TailBlock
<1>2. /\ t.rlen \in Nat /\ t.len \in Nat /\ t.rdpos \in Nat /\ used \in Nat
      /\ WrPos(t) = t.rdpos + used /\ WrPos(t) \in Nat
      /\ (IsFull(t) <=> WrPos(t) >= t.len)
      /\ (t.bytes = <<>> <=> used = 0)
      /\ WrPos(t) <= t.len /\ t.rlen > 0 /\ (t.bytes = <<>> => ~IsFull(t))
  BY <1>1, BlockNumbers DEF BlockOK
<1>3. /\ CopySize \in Nat /\ CopySize > 0
  BY BlockBufferAssumption
<1>4. <<>> \in Seq(Bytes) /\ Len(<<>>) = 0
  OBVIOUS
<1>5. CASE fits
  <2> DEFINE b == [t EXCEPT !.rdpos = 0]
  <2>1. d = WithLast(c, b)
    BY <1>5 DEF Expand
  <2>2. b = [rlen |-> t.rlen, len |-> t.len, rdpos |-> 0, bytes |-> t.bytes]
    BY <1>1, BlockWith, Zenon
  <2> HIDE DEF b, d, t
  <2>3. b.rlen = t.rlen /\ b.len = t.len /\ b.rdpos = 0 /\ b.bytes = t.bytes
    BY <2>2
  <2>4. b \in BlockType
    BY <1>1, <1>2, <2>2 DEF BlockType, Bytes
  <2>5. WrPos(b) = used
    BY <1>2, <2>3 DEF WrPos
  <2>6. BlockOK(b)
    BY <1>2, <2>3, <2>5 DEF BlockOK, IsFull
  <2>7. /\ Well(d) /\ d # <<>> /\ Len(d) = Len(c) /\ LastOf(d) = b
        /\ \A i \in 1 .. Len(c) - 1 : d[i] = c[i]
        /\ \A x \in Seq(Bytes) : b.bytes = LastOf(c).bytes \o x => Flat(d) = Flat(c) \o x
    BY <2>1, <2>4, <2>6, WithLastIs
  <2>8. Flat(d) = Flat(c)
    BY <1>1, <1>4, <2>3, <2>7 DEF t
  <2>9. WrPos(LastOf(d)) + need <= LastOf(d).len
    BY <1>2, <1>5, <2>3, <2>5, <2>7
  <2>10. \A i \in 2 .. Len(d) - 1 : i \in 2 .. Len(c) - 1 /\ d[i] = c[i]
    BY <1>1, <2>7
  <2> QED BY <2>7, <2>8, <2>9, <2>10 DEF d
<1>6. CASE ~fits /\ used < CopySize
  <2> DEFINE b == [Alloc(used + need) EXCEPT !.bytes = t.bytes]
  <2>1. d = WithLast(c, b)
    BY <1>6 DEF Expand, ReplaceTail
  <2>2. /\ b \in BlockType /\ BlockOK(b)
        /\ b.bytes = t.bytes /\ b.rdpos = 0 /\ b.len >= used + need /\ b.len \in Nat
    <3>1. used + need \in Nat /\ Len(t.bytes) <= used + need
      BY <1>2
    <3> HIDE DEF t
    <3> QED BY <1>1, <3>1, FilledIs
  <2> HIDE DEF b, d, t
  <2>3. /\ Well(d) /\ d # <<>> /\ Len(d) = Len(c) /\ LastOf(d) = b
        /\ \A i \in 1 .. Len(c) - 1 : d[i] = c[i]
        /\ \A x \in Seq(Bytes) : b.bytes = LastOf(c).bytes \o x => Flat(d) = Flat(c) \o x
    BY <2>1, <2>2, WithLastIs
  <2>4. Flat(d) = Flat(c)
    BY <1>1, <1>4, <2>2, <2>3 DEF t
  <2>5. WrPos(LastOf(d)) + need <= LastOf(d).len
    <3>1. WrPos(b) = used
      BY <1>2, <2>2 DEF WrPos
    <3> QED BY <1>2, <2>2, <2>3, <3>1
  <2>6. \A i \in 2 .. Len(d) - 1 : i \in 2 .. Len(c) - 1 /\ d[i] = c[i]
    BY <1>1, <2>3
  <2> QED BY <2>3, <2>4, <2>5, <2>6 DEF d
<1>7. CASE ~fits /\ ~(used < CopySize)
  <2> DEFINE end == WrPos(t)  b == [t EXCEPT !.len = end]
             e == WithLast(c, b)  a == Alloc(need)
  <2>1. d = Append(e, a)
    BY <1>7 DEF Expand
  <2>2. /\ a \in BlockType /\ BlockOK(a) /\ a.bytes = <<>> /\ a.rdpos = 0
        /\ a.len \in Nat /\ a.len >= need
    BY AllocIs
  <2>3. end \in Nat /\ end = t.rdpos + used
    BY <1>2
  <2> HIDE DEF end, d, t, a
  <2>4. b = [rlen |-> t.rlen, len |-> end, rdpos |-> t.rdpos, bytes |-> t.bytes]
    BY <1>1, BlockWith, Zenon
  <2> HIDE DEF b
  <2>5. b.rlen = t.rlen /\ b.len = end /\ b.rdpos = t.rdpos /\ b.bytes = t.bytes
    BY <2>4
  <2>6. b \in BlockType
    BY <1>1, <1>2, <2>3, <2>4 DEF BlockType, Bytes
  <2>7. WrPos(b) = end /\ IsFull(b)
    BY <2>3, <2>5 DEF WrPos, IsFull
  <2>8. BlockOK(b) /\ b.bytes # <<>> /\ Len(b.bytes) >= CopySize
    BY <1>2, <1>3, <1>7, <2>3, <2>5, <2>7 DEF BlockOK
  <2>9. /\ Well(e) /\ e # <<>> /\ Len(e) = Len(c) /\ LastOf(e) = b
        /\ \A i \in 1 .. Len(c) - 1 : e[i] = c[i]
        /\ \A x \in Seq(Bytes) : b.bytes = LastOf(c).bytes \o x => Flat(e) = Flat(c) \o x
    BY <2>6, <2>8, WithLastIs
  <2> HIDE DEF e
  <2>10. /\ Well(d) /\ d # <<>> /\ Len(d) = Len(e) + 1 /\ LastOf(d) = a
         /\ \A i \in 1 .. Len(e) : d[i] = e[i]
         /\ Flat(d) = Flat(e) \o a.bytes
    BY <2>1, <2>2, <2>7, <2>8, <2>9, AppendIs
  <2>11. Flat(d) = Flat(c)
    BY <1>1, <1>4, <2>2, <2>5, <2>9, <2>10 DEF t
  <2>12. WrPos(LastOf(d)) + need <= LastOf(d).len
    <3>1. WrPos(a) = 0
      BY <1>4, <2>2 DEF WrPos
    <3> QED BY <2>2, <2>10, <3>1
  <2>13. ASSUME NEW i \in 2 .. Len(d) - 1
         PROVE  \/ i \in 2 .. Len(c) - 1 /\ d[i] = c[i]
                \/ Len(d[i].bytes) >= CopySize
    <3>1. i \in 1 .. Len(e) /\ (i \in 2 .. Len(c) - 1 \/ i = Len(c))
      BY <1>1, <2>9, <2>10
    <3>2. CASE i \in 2 .. Len(c) - 1
      <4>1. i \in 1 .. Len(c) - 1
        BY <3>2
      <4> QED BY <2>9, <2>10, <3>1, <3>2, <4>1
    <3>3. CASE i = Len(c)
      <4>1. d[i] = b
        BY <2>9, <2>10, <3>1, <3>3 DEF LastOf
      <4> QED BY <2>8, <4>1
    <3> QED BY <3>1, <3>2, <3>3
  <2> QED BY <2>10, <2>11, <2>12, <2>13 DEF d
<1> QED BY <1>5, <1>6, <1>7

-----------------------------------------------------------------------------
(* The steps.                                                               *)

BufInv == IInv /\ WriteFits /\ HangNeedsBacklog

\* Bytes came in behind the others, or the oldest left, or neither.
Moved == \E x \in Seq(Bytes) : \/ Content' = Content \o x
                              \/ Content = x \o Content'

\* The invariant in the words of the lemmas.
Known ==
  /\ side \in {"recv", "send"}
  /\ Well(chain) /\ totallen = Unread(chain)
  /\ totallen \in Nat /\ totallen <= MaxTotal
  /\ room \in 0 .. MaxCall \cup {NoRoom}
  /\ room # NoRoom => /\ totallen + room <= MaxTotal /\ chain # <<>>
                      /\ WrPos(LastOf(chain)) + room <= LastOf(chain).len
  /\ written \in Bytes
  /\ hung \in BOOLEAN
  /\ hung => room = NoRoom /\ totallen > CopySize
  /\ side = "recv" => \A i \in 2 .. Len(chain) - 1 : Len(chain[i].bytes) >= CopySize

LEMMA Constants ==
  /\ MaxTotal \in Nat /\ MaxCall \in Nat /\ CopySize \in Nat /\ CopySize > 0
  /\ NoRoom \notin Nat
<1> QED BY BlockBufferAssumption DEF NoRoom

LEMMA KnownIs == BufInv <=> Known
<1>1. MaxTotal \in Nat /\ NoRoom \notin Nat
  BY Constants
<1>2. \A x : x \in 0 .. MaxTotal <=> x \in Nat /\ x <= MaxTotal
  BY <1>1
<1>3. TypeOK /\ Linked <=>
        /\ side \in {"recv", "send"} /\ Well(chain)
        /\ totallen \in Nat /\ totallen <= MaxTotal
        /\ room \in 0 .. MaxCall \cup {NoRoom}
        /\ written \in Bytes /\ hung \in BOOLEAN
  BY <1>2, Zenon DEF TypeOK, Linked, Well, Bytes
<1> QED BY <1>3, Zenon DEF BufInv, IInv, Counted, Backlog, WriteFits, HangNeedsBacklog, Known

LEMMA NextKnown ==
  ASSUME side' \in {"recv", "send"},
         Well(chain'), totallen' = Unread(chain'),
         totallen' \in Nat, totallen' <= MaxTotal,
         room' \in 0 .. MaxCall \cup {NoRoom},
         room' # NoRoom => /\ totallen' + room' <= MaxTotal /\ chain' # <<>>
                           /\ WrPos(LastOf(chain')) + room' <= LastOf(chain').len,
         written' \in Bytes,
         hung' \in BOOLEAN,
         hung' => room' = NoRoom /\ totallen' > CopySize,
         side' = "recv" => \A i \in 2 .. Len(chain') - 1 :
                             Len(chain'[i].bytes) >= CopySize
  PROVE  Known'
<1> QED BY DEF Known, NoRoom

LEMMA InsertKeeps ==
  ASSUME Known, NEW n \in Calls, Insert(n), side = "send", side' = side
  PROVE  Known' /\ Moved
<1> DEFINE data == Fresh(n)
           c == IF chain = <<>> THEN <<Alloc(n)>> ELSE chain
           t == LastOf(c)
           left == IF IsFull(t) THEN 0 ELSE t.len - WrPos(t)
           here == IF n <= left THEN n ELSE left
           b == [t EXCEPT !.bytes = @ \o SubSeq(data, 1, here)]
           c1 == WithLast(c, b)
           size == n - here
           more == SubSeq(data, here + 1, n)
           a == [Alloc(size) EXCEPT !.bytes = more]
<1>1. /\ room = NoRoom /\ ~hung /\ totallen + n <= MaxTotal
      /\ chain' = IF here = n THEN c1 ELSE Append(c1, a)
      /\ totallen' = totallen + n /\ written' = (written + n) % Byte
      /\ room' = room /\ hung' = hung
  BY DEF Insert
<1>2. n \in Nat /\ n > 0
  BY Constants DEF Calls
<1>3. /\ data \in Seq(Bytes) /\ Len(data) = n /\ (written + n) % Byte \in Bytes
  BY <1>2, FreshIs DEF Known
<1>4. Well(chain) /\ totallen = Unread(chain) /\ totallen \in Nat
  BY DEF Known
<1> HIDE DEF data
<1>5. Well(c) /\ c # <<>> /\ Flat(c) = Flat(chain)
  <2>1. CASE chain = <<>>
    <3>1. /\ Alloc(n) \in BlockType /\ BlockOK(Alloc(n)) /\ Alloc(n).bytes = <<>>
      BY <1>2, AllocIs
    <3> QED BY <2>1, <3>1, WellOne, FlatOfOne, FlatOfNone
  <2>2. CASE chain # <<>>
    BY <1>4, <2>2
  <2> QED BY <2>1, <2>2
<1> HIDE DEF c
<1>6. /\ t \in BlockType /\ BlockOK(t) /\ t.bytes \in Seq(Bytes)
      /\ Flat(c) \in Seq(Bytes)
  BY <1>5, TailBlock
<1>7. /\ t.rlen \in Nat /\ t.len \in Nat /\ t.rdpos \in Nat /\ Len(t.bytes) \in Nat
      /\ WrPos(t) = t.rdpos + Len(t.bytes) /\ WrPos(t) \in Nat
      /\ (IsFull(t) <=> WrPos(t) >= t.len)
      /\ (t.bytes = <<>> <=> Len(t.bytes) = 0)
      /\ WrPos(t) <= t.len /\ t.rlen > 0 /\ (t.bytes = <<>> => ~IsFull(t))
  BY <1>6, BlockNumbers DEF BlockOK
<1> HIDE DEF t
<1>8. /\ here \in 0 .. n /\ WrPos(t) + here <= t.len
      /\ (here # n => WrPos(t) + here >= t.len)
      /\ (t.bytes = <<>> => here > 0)
  BY <1>2, <1>7
<1> HIDE DEF left, here
<1> DEFINE part == SubSeq(data, 1, here)
<1>9. /\ part \in Seq(Bytes) /\ more \in Seq(Bytes)
      /\ Len(part) = here /\ Len(more) = size /\ data = part \o more
  BY <1>3, <1>8, Split
<1> DEFINE now == t.bytes \o part
<1>10. now \in Seq(Bytes) /\ Len(now) = Len(t.bytes) + here
  BY <1>6, <1>9, ConcatProperties
<1>11. b = [t EXCEPT !.bytes = now]
  OBVIOUS
<1> HIDE DEF part, more, now, b, a
<1>12. b = [rlen |-> t.rlen, len |-> t.len, rdpos |-> t.rdpos, bytes |-> now]
  BY <1>6, <1>11, BlockWith, Zenon
<1>13. b.rlen = t.rlen /\ b.len = t.len /\ b.rdpos = t.rdpos /\ b.bytes = now
  BY <1>12
<1>14. b \in BlockType
  BY <1>7, <1>10, <1>12 DEF BlockType, Bytes
<1>15. WrPos(b) = WrPos(t) + here
  BY <1>7, <1>8, <1>10, <1>13 DEF WrPos
<1>16. now # <<>>
  BY <1>7, <1>8, <1>10, EmptySeq
<1>17. BlockOK(b) /\ b.bytes # <<>>
  BY <1>7, <1>8, <1>13, <1>15, <1>16 DEF BlockOK
<1>18. /\ Well(c1) /\ c1 # <<>> /\ Len(c1) = Len(c) /\ LastOf(c1) = b
       /\ \A x \in Seq(Bytes) : b.bytes = LastOf(c).bytes \o x => Flat(c1) = Flat(c) \o x
  BY <1>5, <1>14, <1>17, WithLastIs
<1>19. Flat(c1) = Flat(c) \o part
  BY <1>9, <1>13, <1>18 DEF t, now
<1> HIDE DEF c1
<1>20. Well(chain') /\ Flat(chain') = Flat(c) \o data
  <2>1. CASE here = n
    <3>1. more = <<>>
      BY <1>2, <1>9, <2>1, EmptySeq
    <3>2. data = part
      BY <1>9, <3>1, ConcatEmptySeq
    <3> QED BY <1>1, <1>18, <1>19, <2>1, <3>2
  <2>2. CASE here # n
    <3>1. IsFull(b)
      BY <1>7, <1>8, <1>13, <1>15, <2>2 DEF IsFull
    <3>2. size \in Nat /\ Len(more) <= size
      BY <1>2, <1>8, <1>9
    <3> HIDE DEF size
    <3>3. a \in BlockType /\ BlockOK(a) /\ a.bytes = more
      BY <1>9, <3>2, FilledIs DEF a
    <3>4. Well(Append(c1, a)) /\ Flat(Append(c1, a)) = Flat(c1) \o a.bytes
      BY <1>17, <1>18, <3>1, <3>3, AppendIs
    <3>5. Flat(c) \o (part \o more) = (Flat(c) \o part) \o more
      BY <1>6, <1>9, Associative, Zenon
    <3> QED BY <1>1, <1>9, <1>19, <2>2, <3>3, <3>4, <3>5
  <2> QED BY <2>1, <2>2
<1>21. Unread(chain') = Unread(chain) + n
  BY <1>3, <1>5, <1>6, <1>20, ConcatProperties DEF Unread
<1>22. Moved
  BY <1>3, <1>5, <1>20 DEF Moved, Content
<1>23. Known'
  <2>1. totallen' = Unread(chain') /\ totallen' \in Nat /\ totallen' <= MaxTotal
    BY <1>1, <1>2, <1>4, <1>21, Constants
  <2>2. side' \in {"recv", "send"} /\ side' # "recv"
    OBVIOUS
  <2>3. /\ room' \in 0 .. MaxCall \cup {NoRoom} /\ room' = NoRoom
        /\ hung' \in BOOLEAN /\ ~hung' /\ written' \in Bytes
    BY <1>1, <1>3 DEF Known
  <2> QED BY <1>20, <2>1, <2>2, <2>3, NextKnown
<1> QED BY <1>22, <1>23

\* A third block is only there behind a full second one.
LEMMA ThirdBlock ==
  ASSUME Known, side = "recv", Len(chain) > 2
  PROVE  totallen > CopySize
<1>1. /\ chain \in Seq(BlockType) /\ Len(chain) \in Nat
      /\ totallen = Unread(chain) /\ CopySize \in Nat
  BY LenProperties, Constants DEF Known, Well
<1>2. 1 \in 1 .. Len(chain) /\ 2 \in 1 .. Len(chain) /\ 1 \in 1 .. Len(chain) - 1
      /\ 2 \in 2 .. Len(chain) - 1
  BY <1>1
<1>3. /\ Before(chain, 1) \in Nat /\ Len(chain[1].bytes) \in Nat
      /\ Before(chain, 1 + 1) = Before(chain, 1) + Len(chain[1].bytes)
  BY <1>1, <1>2, UnreadParts
<1>4. /\ Before(chain, 2) \in Nat /\ Len(chain[2].bytes) \in Nat
      /\ Before(chain, 2 + 1) = Before(chain, 2) + Len(chain[2].bytes)
      /\ Before(chain, 2 + 1) \in Nat /\ Unread(chain) \in Nat
      /\ Before(chain, 2 + 1) <= Unread(chain)
  BY <1>1, <1>2, UnreadParts
<1>5. Len(chain[2].bytes) >= CopySize
  BY <1>2 DEF Known
<1>6. Len(chain[1].bytes) # 0
  <2>1. chain[1] \in BlockType /\ chain[1].bytes # <<>>
    BY <1>1, <1>2, Blocks DEF Known, Well
  <2> QED BY <2>1, BlockNumbers
<1>7. Before(chain, 2) > 0
  <2>1. 1 + 1 = 2
    OBVIOUS
  <2> QED BY <1>3, <1>6, <2>1
<1>8. Unread(chain) > CopySize
  BY <1>1, <1>4, <1>5, <1>7
<1> QED BY <1>1, <1>8

LEMMA GetBufferKeeps ==
  ASSUME Known, NEW n \in 0 .. MaxCall, GetBufferToWrite(n), side = "recv", side' = side
  PROVE  Known' /\ Moved
<1>1. /\ room = NoRoom /\ ~hung /\ totallen + n <= MaxTotal
      /\ totallen' = totallen /\ written' = written
      /\ \/ HasRoom(chain, n) /\ chain' = chain /\ hung' = hung /\ room' = n
         \/ chain = <<>> /\ chain' = <<Alloc(n)>> /\ room' = n /\ hung' = hung
         \/ chain # <<>> /\ hung' = TRUE /\ chain' = chain /\ room' = room
              /\ ~CanReplace(chain)
         \/ chain # <<>> /\ chain' = Expand(chain, n) /\ room' = n /\ hung' = hung
  BY DEF GetBufferToWrite
<1>2. n \in Nat
  BY Constants
<1>3. /\ Well(chain) /\ totallen = Unread(chain) /\ totallen \in Nat
      /\ totallen <= MaxTotal /\ written \in Bytes /\ hung \in BOOLEAN
      /\ chain \in Seq(BlockType) /\ Flat(chain) \in Seq(Bytes)
      /\ \A i \in 2 .. Len(chain) - 1 : Len(chain[i].bytes) >= CopySize
  BY FlatType DEF Known, Well
<1>4. SUFFICES /\ Well(chain') /\ Flat(chain') = Flat(chain)
               /\ \A i \in 2 .. Len(chain') - 1 : Len(chain'[i].bytes) >= CopySize
               /\ \/ /\ room' = n /\ ~hung' /\ hung' \in BOOLEAN /\ chain' # <<>>
                     /\ WrPos(LastOf(chain')) + n <= LastOf(chain').len
                  \/ room' = NoRoom /\ hung' = TRUE /\ totallen > CopySize
  <2>1. Moved
    BY <1>3, <1>4, ConcatEmptySeq, EmptySeq DEF Moved, Content
  <2>2. /\ totallen' = Unread(chain') /\ totallen' \in Nat /\ totallen' <= MaxTotal
        /\ written' \in Bytes /\ side' \in {"recv", "send"} /\ hung' \in BOOLEAN
    BY <1>1, <1>3, <1>4 DEF Unread
  <2>3. room' \in 0 .. MaxCall \cup {NoRoom}
    BY <1>4
  <2>4. room' # NoRoom => /\ totallen' + room' <= MaxTotal /\ chain' # <<>>
                          /\ WrPos(LastOf(chain')) + room' <= LastOf(chain').len
    BY <1>1, <1>4
  <2>5. hung' => room' = NoRoom /\ totallen' > CopySize
    BY <1>1, <1>4
  <2>6. Known'
    BY <1>4, <2>2, <2>3, <2>4, <2>5, NextKnown
  <2> QED BY <2>1, <2>6
<1>5. CASE HasRoom(chain, n) /\ chain' = chain /\ hung' = hung /\ room' = n
  <2>1. chain # <<>> /\ LastOf(chain).len - WrPos(LastOf(chain)) >= n
    BY <1>5 DEF HasRoom
  <2>2. LastOf(chain).len \in Nat /\ WrPos(LastOf(chain)) \in Nat
    BY <1>3, <2>1, TailBlock, BlockNumbers
  <2>3. WrPos(LastOf(chain)) + n <= LastOf(chain).len
    BY <1>2, <2>1, <2>2
  <2> QED BY <1>1, <1>3, <1>5, <2>1, <2>3
<1>6. CASE chain = <<>> /\ chain' = <<Alloc(n)>> /\ room' = n /\ hung' = hung
  <2> DEFINE a == Alloc(n)  d == <<a>>
  <2>1. /\ a \in BlockType /\ BlockOK(a) /\ a.bytes = <<>> /\ a.rdpos = 0
        /\ a.len \in Nat /\ a.len >= n
    BY <1>2, AllocIs
  <2> HIDE DEF a
  <2>2. WrPos(a) = 0
    BY <2>1 DEF WrPos
  <2>3. Well(d) /\ d # <<>> /\ Len(d) = 1 /\ LastOf(d) = a /\ Flat(d) = <<>>
    BY <2>1, WellOne, FlatOfOne
  <2>4. Flat(chain) = <<>>
    BY <1>6, FlatOfNone
  <2>5. \A i \in 2 .. Len(d) - 1 : FALSE
    BY <2>3
  <2>6. WrPos(LastOf(d)) + n <= LastOf(d).len
    BY <1>2, <2>1, <2>2, <2>3
  <2>7. chain' = d
    BY <1>6 DEF a
  <2> HIDE DEF d
  <2> QED BY <1>1, <1>3, <1>6, <2>3, <2>4, <2>5, <2>6, <2>7
<1>7. CASE chain # <<>> /\ hung' = TRUE /\ chain' = chain /\ room' = room
             /\ ~CanReplace(chain)
  <2>1. Len(chain) > 2
    BY <1>3, <1>7, LenProperties DEF CanReplace
  <2>2. totallen > CopySize
    BY <2>1, ThirdBlock
  <2> QED BY <1>1, <1>3, <1>7, <2>2
<1>8. CASE chain # <<>> /\ chain' = Expand(chain, n) /\ room' = n /\ hung' = hung
  <2> DEFINE d == Expand(chain, n)
  <2>1. /\ Well(d) /\ d # <<>> /\ Flat(d) = Flat(chain)
        /\ WrPos(LastOf(d)) + n <= LastOf(d).len
        /\ \A i \in 2 .. Len(d) - 1 : \/ i \in 2 .. Len(chain) - 1 /\ d[i] = chain[i]
                                      \/ Len(d[i].bytes) >= CopySize
    BY <1>2, <1>3, <1>8, ExpandIs
  <2> HIDE DEF d
  <2>2. \A i \in 2 .. Len(d) - 1 : Len(d[i].bytes) >= CopySize
    BY <1>3, <2>1
  <2>3. chain' = d
    BY <1>8 DEF d
  <2> QED BY <1>1, <1>3, <1>8, <2>1, <2>2, <2>3
<1> QED BY <1>1, <1>5, <1>6, <1>7, <1>8

LEMMA FinishKeeps ==
  ASSUME Known, NEW n \in Calls, FinishBufferWrite(n), side' = side
  PROVE  Known' /\ Moved
<1> DEFINE t == LastOf(chain)  data == Fresh(n)  now == t.bytes \o data
           b == [t EXCEPT !.bytes = now]
<1>1. /\ room # NoRoom /\ n <= room
      /\ chain' = WithLast(chain, b)
      /\ totallen' = totallen + n /\ written' = (written + n) % Byte
      /\ room' = NoRoom /\ hung' = hung
  BY DEF FinishBufferWrite
<1>2. /\ Well(chain) /\ totallen = Unread(chain) /\ totallen \in Nat
      /\ side \in {"recv", "send"} /\ hung \in BOOLEAN /\ ~hung
      /\ room \in Nat /\ totallen + room <= MaxTotal /\ chain # <<>>
      /\ WrPos(t) + room <= t.len
      /\ side = "recv" =>
           \A i \in 2 .. Len(chain) - 1 : Len(chain[i].bytes) >= CopySize
  BY <1>1, Constants DEF Known
<1>3. n \in Nat /\ n > 0 /\ MaxTotal \in Nat
  BY Constants DEF Calls
<1>4. data \in Seq(Bytes) /\ Len(data) = n /\ (written + n) % Byte \in Bytes
  BY <1>3, FreshIs DEF Known
<1>5. /\ t \in BlockType /\ BlockOK(t) /\ t.bytes \in Seq(Bytes)
      /\ Flat(chain) \in Seq(Bytes) /\ Len(chain) \in Nat
  BY <1>2, TailBlock
<1>6. /\ t.rlen \in Nat /\ t.len \in Nat /\ t.rdpos \in Nat /\ Len(t.bytes) \in Nat
      /\ WrPos(t) = t.rdpos + Len(t.bytes) /\ WrPos(t) \in Nat /\ t.rlen > 0
  BY <1>5, BlockNumbers DEF BlockOK
<1> HIDE DEF t, data
<1>7. now \in Seq(Bytes) /\ Len(now) = Len(t.bytes) + n
  BY <1>4, <1>5, ConcatProperties
<1> HIDE DEF now, b
<1>8. b = [rlen |-> t.rlen, len |-> t.len, rdpos |-> t.rdpos, bytes |-> now]
  BY <1>5, BlockWith, Zenon DEF b
<1>9. b.rlen = t.rlen /\ b.len = t.len /\ b.rdpos = t.rdpos /\ b.bytes = now
  BY <1>8
<1>10. b \in BlockType
  BY <1>6, <1>7, <1>8 DEF BlockType, Bytes
<1>11. WrPos(b) = WrPos(t) + n
  <2>1. WrPos(b) = t.rdpos + Len(now)
    BY <1>9 DEF WrPos
  <2> QED BY <1>3, <1>6, <1>7, <2>1
<1>12. now # <<>>
  BY <1>3, <1>6, <1>7, EmptySeq
<1>13. BlockOK(b)
  BY <1>1, <1>2, <1>3, <1>6, <1>9, <1>11, <1>12 DEF BlockOK
<1>14. /\ Well(chain') /\ Len(chain') = Len(chain)
       /\ \A i \in 1 .. Len(chain) - 1 : chain'[i] = chain[i]
       /\ \A x \in Seq(Bytes) :
            b.bytes = LastOf(chain).bytes \o x => Flat(chain') = Flat(chain) \o x
  BY <1>1, <1>2, <1>10, <1>13, WithLastIs
<1>15. Flat(chain') = Flat(chain) \o data
  BY <1>4, <1>9, <1>14 DEF t, now
<1>16. Unread(chain') = Unread(chain) + n
  BY <1>4, <1>5, <1>15, ConcatProperties DEF Unread
<1>17. Moved
  BY <1>4, <1>15 DEF Moved, Content
<1>18. Known'
  <2>1. totallen' = Unread(chain') /\ totallen' \in Nat /\ totallen' <= MaxTotal
    BY <1>1, <1>2, <1>3, <1>16
  <2>2. side' = "recv" =>
          \A i \in 2 .. Len(chain') - 1 : Len(chain'[i].bytes) >= CopySize
    BY <1>2, <1>5, <1>14
  <2>3. /\ room' \in 0 .. MaxCall \cup {NoRoom} /\ room' = NoRoom
        /\ hung' \in BOOLEAN /\ ~hung' /\ written' \in Bytes /\ side' \in {"recv", "send"}
    BY <1>1, <1>2, <1>4
  <2> QED BY <1>14, <2>1, <2>2, <2>3, NextKnown
<1> QED BY <1>17, <1>18

\* A step that leaves the bytes alone.
LEMMA StillKnown ==
  ASSUME Known, UNCHANGED <<side, chain, totallen, written, hung>>,
         room' \in {room, NoRoom}
  PROVE  Known' /\ Moved
<1>1. Flat(chain) \in Seq(Bytes)
  BY FlatType DEF Known, Well
<1>2. Moved
  BY <1>1, ConcatEmptySeq, EmptySeq DEF Moved, Content
<1>3. Known'
  BY DEF Known
<1> QED BY <1>2, <1>3

LEMMA MoveKeeps ==
  ASSUME Known, NEW n \in Nat, Move(n), side' = side
  PROVE  Known' /\ Moved
<1>1. room = NoRoom /\ ~hung /\ room' = room /\ written' = written /\ hung' = hung
  BY DEF Move
<1>2. CASE chain = <<>>
  <2>1. chain' = chain /\ totallen' = totallen
    BY <1>2 DEF Move
  <2> QED BY <1>1, <2>1, StillKnown
<1>3. CASE chain # <<>>
  <2> DEFINE d == Tidy(LeftBy(chain, n))
  <2>1. /\ got' = Read(chain, n) /\ chain' = d /\ totallen' = totallen - got'.len
    BY <1>3 DEF Move
  <2>2. /\ Well(chain) /\ totallen = Unread(chain) /\ totallen \in Nat
        /\ side \in {"recv", "send"} /\ hung \in BOOLEAN /\ written \in Bytes
        /\ totallen <= MaxTotal
        /\ side = "recv" =>
             \A i \in 2 .. Len(chain) - 1 : Len(chain[i].bytes) >= CopySize
    BY DEF Known
  <2>3. /\ Well(d)
        /\ \E x \in Seq(Bytes) : /\ Flat(chain) = x \o Flat(d)
                                 /\ Len(x) = Smaller(n, Unread(chain))
        /\ \A i \in 2 .. Len(d) - 1 : \E j \in 2 .. Len(chain) - 1 : d[i] = chain[j]
    <3>1. Well(chain) /\ chain # <<>>
      BY <1>3, <2>2
    <3>2. LeftWhole(chain, n, d)
      BY <3>1, TakenIs, Zenon
    <3> HIDE DEF d
    <3> QED BY <3>2 DEF LeftWhole
  <2>4. got'.len = Smaller(n, Unread(chain))
    BY <1>3, <2>1, <2>2, WalkEnds DEF Read
  <2> HIDE DEF d
  <2>5. PICK x \in Seq(Bytes) : /\ Flat(chain) = x \o Flat(d)
                                /\ Len(x) = Smaller(n, Unread(chain))
    BY <2>3
  <2>6. Flat(d) \in Seq(Bytes) /\ Unread(d) \in Nat
    BY <2>3, FlatType DEF Well
  <2>7. Unread(chain) = Len(x) + Unread(d) /\ Len(x) \in Nat
    BY <2>5, <2>6, Halves DEF Unread
  <2>8. Moved
    BY <2>1, <2>5 DEF Moved, Content
  <2>9. totallen' = Unread(chain') /\ totallen' \in Nat /\ totallen' <= MaxTotal
    BY <2>1, <2>2, <2>4, <2>5, <2>6, <2>7, Constants
  <2>10. side' = "recv" =>
           \A i \in 2 .. Len(chain') - 1 : Len(chain'[i].bytes) >= CopySize
    BY <2>1, <2>2, <2>3
  <2>11. /\ room' \in 0 .. MaxCall \cup {NoRoom} /\ room' = NoRoom
         /\ hung' \in BOOLEAN /\ ~hung' /\ written' \in Bytes
         /\ side' \in {"recv", "send"} /\ Well(chain')
    BY <1>1, <2>1, <2>2, <2>3
  <2>12. Known'
    BY <2>9, <2>10, <2>11, NextKnown
  <2> QED BY <2>8, <2>12
<1> QED BY <1>2, <1>3

\* Every step keeps the invariant, and moves bytes as a queue does.
LEMMA Step == Known /\ [Next]_vars => Known' /\ Moved
<1> SUFFICES ASSUME Known, [Next]_vars PROVE Known' /\ Moved
  OBVIOUS
<1>1. CASE UNCHANGED vars
  BY <1>1, StillKnown DEF vars
<1>2. CASE side = "recv" /\ RecvSide /\ UNCHANGED side
  <2>1. ASSUME NEW n \in 0 .. MaxCall, GetBufferToWrite(n) PROVE Known' /\ Moved
    BY <1>2, <2>1, GetBufferKeeps
  <2>2. ASSUME NEW n \in Calls, FinishBufferWrite(n) PROVE Known' /\ Moved
    BY <1>2, <2>2, FinishKeeps
  <2>3. CASE RecvFails
    BY <1>2, <2>3, StillKnown DEF RecvFails
  <2>4. ASSUME NEW n \in Calls, Copy(n) PROVE Known' /\ Moved
    BY <1>2, <2>4, StillKnown DEF Copy
  <2>5. ASSUME NEW n \in Calls, Move(n) PROVE Known' /\ Moved
    <3>1. n \in Nat
      BY Constants DEF Calls
    <3> QED BY <1>2, <2>5, <3>1, MoveKeeps
  <2> QED BY <1>2, <2>1, <2>2, <2>3, <2>4, <2>5 DEF RecvSide
<1>3. CASE side = "send" /\ SendSide /\ UNCHANGED side
  <2>1. ASSUME NEW n \in Calls, Insert(n) PROVE Known' /\ Moved
    BY <1>3, <2>1, InsertKeeps
  <2>2. CASE Flush
    <3>1. PICK n \in 1 .. Len(Head(chain).bytes) : Move(n)
      BY <2>2 DEF Flush
    <3>2. n \in Nat
      OBVIOUS
    <3> QED BY <1>3, <3>1, <3>2, MoveKeeps
  <2> QED BY <1>3, <2>1, <2>2 DEF SendSide
<1> QED BY <1>1, <1>2, <1>3 DEF Next

LEMMA Start == Init => Known
<1> SUFFICES ASSUME Init PROVE Known
  OBVIOUS
<1>1. /\ side \in {"recv", "send"} /\ chain = <<>> /\ totallen = 0 /\ room = NoRoom
      /\ written = 0 /\ hung = FALSE
  BY DEF Init
<1>2. Well(<<>>) /\ Unread(<<>>) = 0 /\ Len(<<>>) = 0
  BY WellNone, FlatOfNone DEF Unread
<1>3. 0 \in Bytes
  BY BlockBufferAssumption DEF Bytes
<1>4. \A i \in 2 .. Len(<<>>) - 1 : FALSE
  BY <1>2
<1>5. Well(chain) /\ totallen = Unread(chain)
  BY <1>1, <1>2
<1>6. \A i \in 2 .. Len(chain) - 1 : FALSE
  BY <1>1, <1>4
<1>7. totallen \in Nat /\ totallen <= MaxTotal
  <2>1. MaxTotal \in Nat /\ totallen = 0
    BY <1>1, Constants
  <2> QED BY <2>1
<1>9. hung \in BOOLEAN /\ ~hung
  BY <1>1
<1>8. written \in Bytes /\ room = NoRoom /\ room \in 0 .. MaxCall \cup {NoRoom}
  BY <1>1, <1>3
<1> QED BY <1>1, <1>5, <1>6, <1>7, <1>8, <1>9, Zenon DEF Known

LEMMA AlwaysKnown == Spec => []Known
<1> QED BY Start, Step, PTL DEF Spec

\* The head block of a chain with bytes has some.
LEMMA HeadHasBytes ==
  ASSUME NEW c, Well(c), c # <<>>, Unread(c) > 0
  PROVE  Head(c).bytes # <<>>
<1>1. c \in Seq(BlockType) /\ Len(c) \in Nat /\ Len(c) > 0 /\ 1 \in 1 .. Len(c)
  BY TailBlock
<1>2. Head(c) = c[1]
  OBVIOUS
<1>3. CASE Len(c) > 1
  <2>1. 1 \in 1 .. Len(c) - 1
    BY <1>1, <1>3
  <2> QED BY <1>2, <2>1 DEF Well
<1>4. CASE Len(c) = 1
  <2>1. Len(c) = 1
    BY <1>4
  <2>2. Unread(c) = Before(c, 1 + 1) /\ Before(c, 1) = 0
    BY <1>1, <2>1, BeforeFirst
  <2>3. Before(c, 1 + 1) = Before(c, 1) + Len(c[1].bytes) /\ Len(c[1].bytes) \in Nat
    BY <1>1, UnreadParts
  <2>4. Len(c[1].bytes) # 0
    BY <2>2, <2>3
  <2> QED BY <1>1, <1>2, <2>4, Blocks, BlockNumbers
<1>5. Len(c) > 1 \/ Len(c) = 1
  <2>1. \A m \in Nat : m > 0 => m > 1 \/ m = 1
    OBVIOUS
  <2> QED BY <1>1, <2>1
<1> QED BY <1>3, <1>4, <1>5

\* A walk of the chain finds every byte: only its last block may have room.
LEMMA AllReachable ==
  ASSUME NEW c, Well(c)
  PROVE  Reachable(c) = Unread(c)
<1>1. CASE c = <<>>
  BY <1>1, FlatOfNone DEF Reachable, Unread
<1>2. CASE c # <<>>
  <2>1. c \in Seq(BlockType) /\ Len(c) \in Nat /\ Len(c) > 0
    BY <1>2, TailBlock
  <2> DEFINE Ends(i) == /\ i = Len(c) \/ ~IsFull(c[i])
                        /\ \A j \in 1 .. i - 1 : IsFull(c[j])
             last == CHOOSE i \in 1 .. Len(c) : Ends(i)
  <2>2. Len(c) \in 1 .. Len(c) /\ Ends(Len(c))
    BY <2>1 DEF Well
  <2>3. last \in 1 .. Len(c) /\ Ends(last)
    <3> HIDE DEF Ends
    <3> QED BY <2>2
  <2>4. Reachable(c) = Before(c, last + 1)
    BY <1>2 DEF Reachable
  <2> HIDE DEF last
  <2>5. last = Len(c)
    <3>1. SUFFICES ASSUME last # Len(c) PROVE FALSE
      OBVIOUS
    <3>2. last \in 1 .. Len(c) - 1
      BY <2>1, <2>3, <3>1
    <3> QED BY <2>3, <3>1, <3>2 DEF Well
  <2> QED BY <2>1, <2>4, <2>5, BeforeFirst
<1> QED BY <1>1, <1>2

LEMMA AssertionsKnown == Known => AssertionsHold
<1> SUFFICES ASSUME Known PROVE AssertionsHold
  OBVIOUS
<1>1. Well(chain) /\ totallen = Unread(chain)
  BY DEF Known
<1>2. TotalAgrees
  BY <1>1, AllReachable DEF TotalAgrees
<1>3. WriteFits
  BY DEF Known, WriteFits
<1>4. HeadReadable
  <2>1. SUFFICES ASSUME totallen > 0 PROVE chain # <<>> /\ Head(chain).bytes # <<>>
    BY DEF HeadReadable
  <2>2. chain # <<>>
    BY <1>1, <2>1, FlatOfNone DEF Unread
  <2> QED BY <1>1, <2>1, <2>2, HeadHasBytes
<1> QED BY <1>2, <1>3, <1>4 DEF AssertionsHold

\* Read gives the oldest bytes when the first block with bytes has enough: that
\* is the head block, and no other writes over what it gave.
LEMMA OldestIs ==
  ASSUME NEW c, Well(c), c # <<>>, NEW n \in Nat, n > 0,
         NEW i \in 1 .. Len(c), Len(c[i].bytes) >= n,
         \A j \in 1 .. i - 1 : c[j].bytes = <<>>
  PROVE  Read(c, n).data = SubSeq(Flat(c), 1, n)
<1> DEFINE h == c[1].bytes  k == StopsAt(c, n)
           first == [p \in 1 .. n |-> h[p]]
<1>1. c \in Seq(BlockType) /\ Len(c) \in Nat /\ Len(c) > 0 /\ 1 \in 1 .. Len(c)
  BY TailBlock
<1>2. i = 1
  <2>1. SUFFICES ASSUME i # 1 PROVE FALSE
    OBVIOUS
  <2>2. 1 \in 1 .. i - 1 /\ 1 \in 1 .. Len(c) - 1
    BY <1>1, <2>1
  <2> QED BY <2>2 DEF Well
<1>3. /\ h \in Seq(Bytes) /\ Len(h) \in Nat /\ Len(h) >= n
      /\ \A p \in 1 .. Len(h) : h[p] \in Bytes
  BY <1>1, <1>2, Blocks, LenProperties, ElementOfSeq
<1>4. Before(c, 1) = 0 /\ Before(c, 1 + 1) = Len(h)
  <2>1. Before(c, 1) = 0
    BY <1>1, BeforeFirst
  <2>2. Before(c, 1 + 1) = Before(c, 1) + Len(h)
    BY <1>1, UnreadParts
  <2> QED BY <1>3, <2>1, <2>2
<1>5. 1 + 1 = 2
  OBVIOUS
<1>6. k \in 1 .. Len(c) /\ \A j \in 1 .. k - 1 : ~Stops(c, n, j)
  BY WalkEnds
<1> HIDE DEF h, k
<1>7. Lands(c, n, 1) = 1 .. n
  <2>1. Given(c, n, 1) = Smaller(Len(h), n - 0)
    BY <1>4 DEF Given, h
  <2>2. Given(c, n, 1) = n
    BY <1>3, <2>1 DEF Smaller
  <2> QED BY <2>2 DEF Lands
<1>8. k = 1 \/ (k = 2 /\ Lands(c, n, 2) = {})
  <2>1. SUFFICES ASSUME k # 1 PROVE k = 2 /\ Lands(c, n, 2) = {}
    OBVIOUS
  <2>2. 1 \in 1 .. k - 1 /\ 2 \in 1 .. Len(c)
    BY <1>1, <1>6, <2>1
  <2>3. ~(n - Before(c, 1) < Len(c[1].bytes))
    BY <1>6, <2>2 DEF Stops
  <2>4. Len(h) = n
    BY <1>3, <1>4, <2>3 DEF h
  <2>5. Before(c, 2) = n
    BY <1>4, <1>5, <2>4
  <2>6. Stops(c, n, 2)
    BY <2>5 DEF Stops
  <2>7. k = 2
    BY <1>1, <1>6, <2>1, <2>6
  <2>8. Len(c[2].bytes) \in Nat
    BY <1>1, <2>2, UnreadParts
  <2>9. Given(c, n, 2) = 0
    BY <2>5, <2>8 DEF Given, Smaller
  <2> QED BY <2>7, <2>9 DEF Lands
<1>9. ASSUME NEW p \in 1 .. n
      PROVE  (\E j \in 1 .. k : p \in Lands(c, n, j)) /\ LastOver(c, n, k, p) = 1
  <2>1. 1 \in 1 .. k /\ p \in Lands(c, n, 1)
    BY <1>7, <1>8
  <2>2. \A j \in 1 + 1 .. k : p \notin Lands(c, n, j)
    BY <1>8
  <2>3. \A j \in 1 .. k : p \in Lands(c, n, j) => j = 1
    BY <1>8
  <2> QED BY <2>1, <2>2, <2>3 DEF LastOver
<1>10. Read(c, n).data = first
  <2>1. Read(c, n).data = [p \in 1 .. n |->
                             IF \E j \in 1 .. k : p \in Lands(c, n, j)
                             THEN c[LastOver(c, n, k, p)].bytes[p] ELSE Garbage]
    BY DEF Read, k
  <2> QED BY <1>9, <2>1 DEF h
<1>11. SubSeq(h, 1, n) = first
  <2>1. \A p \in 1 .. n : h[p] \in Bytes
    BY <1>3
  <2>2. /\ SubSeq(h, 1, n) \in Seq(Bytes)
        /\ Len(SubSeq(h, 1, n)) = IF 1 <= n THEN n - 1 + 1 ELSE 0
        /\ \A p \in 1 .. n - 1 + 1 : SubSeq(h, 1, n)[p] = h[1 + p - 1]
    BY <2>1, SubSeqProperties
  <2>3. first \in Seq(Bytes) /\ Len(first) = n
    BY <2>1
  <2>4. Len(SubSeq(h, 1, n)) = n
    BY <2>2
  <2>5. ASSUME NEW p \in 1 .. n PROVE SubSeq(h, 1, n)[p] = first[p]
    <3>1. p \in 1 .. n - 1 + 1 /\ 1 + p - 1 = p
      OBVIOUS
    <3> QED BY <2>2, <3>1
  <2> HIDE DEF first
  <2> QED BY <2>2, <2>3, <2>4, <2>5, SeqEqual
<1>12. SubSeq(Flat(c), 1, n) = SubSeq(h, 1, n)
  <2> DEFINE rest == SubSeq(c, 1 + 1, Len(c))
  <2>1. /\ rest \in Seq(BlockType)
        /\ Flat(c) = Flat(SubSeq(c, 1, 1 - 1)) \o (h \o Flat(rest))
    BY <1>1, CutAt DEF h
  <2>2. SubSeq(c, 1, 1 - 1) = <<>>
    BY SubSeqEmpty
  <2> HIDE DEF rest
  <2>3. Flat(rest) \in Seq(Bytes) /\ h \o Flat(rest) \in Seq(Bytes)
    BY <1>3, <2>1, FlatType, ConcatProperties
  <2>4. Flat(c) = h \o Flat(rest)
    <3>1. Flat(c) = <<>> \o (h \o Flat(rest))
      BY <2>1, <2>2, FlatOfNone, Zenon
    <3> QED BY <2>3, <3>1, ConcatEmptySeq
  <2>5. 1 \in 1 .. Len(h) /\ n \in 1 .. Len(h)
    BY <1>3
  <2> QED BY <1>3, <2>3, <2>4, <2>5, SubSeqOfConcat1
<1> QED BY <1>10, <1>11, <1>12

-----------------------------------------------------------------------------
(* The theorems.                                                            *)

\* The blocks stay linked as the code needs them, totallen_ counts the bytes in
\* them, and what GetBufferToWrite and expand rely on is so.
THEOREM BufferInvariant == Spec => []IInv
<1>1. Known => IInv
  BY KnownIs DEF BufInv
<1> QED BY <1>1, AlwaysKnown, PTL

\* No assertion of BlockBuffer.cc fails, for any sizes and any calls.
THEOREM NoAssertionFails == Spec => []AssertionsHold
<1> QED BY AssertionsKnown, AlwaysKnown, PTL

\* replaceBlock's endless loop needs more unread bytes than COPY_BLOCK_SIZE.
THEOREM HangsOnlyFull == Spec => []HangNeedsBacklog
<1>1. Known => HangNeedsBacklog
  BY KnownIs DEF BufInv
<1> QED BY <1>1, AlwaysKnown, PTL

\* The buffer implements a queue of bytes: moving, copying, closing, resetting
\* and recycling blocks loses none, repeats none and changes no order.
THEOREM KeepsBytesInOrder == Spec => ImplementsByteQueue
<1>1. Init => BQ!Init
  BY FlatOfNone DEF Init, BQ!Init, Content
<1>2. Known /\ [Next]_vars => [BQ!Put \/ BQ!Take]_Content
  <2> SUFFICES ASSUME Known, [Next]_vars PROVE BQ!Put \/ BQ!Take
    OBVIOUS
  <2>1. Known'
    BY Step
  <2>2. Content \in Seq(Bytes) /\ Content' \in Seq(Bytes)
    BY <2>1, FlatType DEF Known, Well, Content
  <2>3. PICK x \in Seq(Bytes) : Content' = Content \o x \/ Content = x \o Content'
    BY Step DEF Moved
  <2> DEFINE old == Content  new == Content'
  <2> HIDE DEF old, new
  <2>4. old \in Seq(Bytes) /\ new \in Seq(Bytes)
    BY <2>2 DEF old, new
  <2>5. CASE new = old \o x
    <3>1. Len(new) >= Len(old) /\ SubSeq(new, 1, Len(old)) = old
      BY <2>4, <2>5, Halves
    <3> QED BY <3>1 DEF BQ!Put, old, new
  <2>6. CASE old = x \o new
    <3>1. /\ Len(old) = Len(x) + Len(new) /\ Len(x) \in Nat /\ Len(new) \in Nat
          /\ SubSeq(old, Len(x) + 1, Len(x) + Len(new)) = new
      BY <2>4, <2>6, Halves
    <3>2. Len(new) <= Len(old) /\ Len(old) - Len(new) = Len(x)
      BY <3>1
    <3>3. new = SubSeq(old, Len(old) - Len(new) + 1, Len(old))
      BY <3>1, <3>2
    <3> QED BY <3>2, <3>3 DEF BQ!Take, old, new
  <2> QED BY <2>3, <2>5, <2>6 DEF old, new
<1> QED BY <1>1, <1>2, AlwaysKnown, PTL DEF Spec, ImplementsByteQueue, BQ!Spec

\* Copy and Move count all the bytes asked for, or all there are: the loop never
\* stops short at a block that is not the last.
THEOREM CountsWhatItGives == Spec => ReadsCounted
<1>1. ASSUME Known, NEW n \in Calls, Copy(n) \/ Move(n)
      PROVE  got'.len = Smaller(n, Len(Content))
  <2>1. Well(chain) /\ n \in Nat /\ n > 0
    BY <1>1, Constants DEF Known, Calls
  <2>2. CASE chain = <<>>
    <3>1. got' = Blank(n)
      BY <1>1, <2>2 DEF Copy, Move
    <3>2. Len(Content) = 0
      BY <2>2, FlatOfNone DEF Content
    <3> QED BY <2>1, <3>1, <3>2 DEF Blank, Smaller
  <2>3. CASE chain # <<>>
    <3>1. got' = Read(chain, n)
      BY <1>1, <2>3 DEF Copy, Move
    <3> QED BY <2>1, <2>3, <3>1, WalkEnds DEF Read, Content, Unread
  <2> QED BY <2>2, <2>3
<1>2. Known => \A n \in Calls : Copy(n) \/ Move(n) => got'.len = Smaller(n, Len(Content))
  BY <1>1
<1> QED BY <1>2, AlwaysKnown, PTL DEF ReadsCounted

\* A read that one block can serve gives the oldest bytes, whatever the calls
\* before it did to the chain.
THEOREM GivesTheOldest == Spec => OldestOfBlock
<1>1. ASSUME Known, NEW n \in Calls, Copy(n) \/ Move(n), OneBlockHas(n)
      PROVE  got'.data = SubSeq(Content, 1, n)
  <2>1. Well(chain) /\ n \in Nat /\ n > 0
    BY <1>1, Constants DEF Known, Calls
  <2>2. PICK i \in 1 .. Len(chain) : /\ Len(chain[i].bytes) >= n
                                    /\ \A j \in 1 .. i - 1 : chain[j].bytes = <<>>
    BY <1>1 DEF OneBlockHas
  <2>3. chain # <<>>
    <3>1. chain = <<>> => Len(chain) = 0
      OBVIOUS
    <3> QED BY <2>2, <3>1
  <2>4. got' = Read(chain, n)
    BY <1>1, <2>3 DEF Copy, Move
  <2>5. Read(chain, n).data = SubSeq(Flat(chain), 1, n)
    BY <2>1, <2>2, <2>3, OldestIs
  <2> QED BY <2>4, <2>5 DEF Content
<1>2. Known => \A n \in Calls : OneBlockHas(n) /\ (Copy(n) \/ Move(n)) =>
                                  got'.data = SubSeq(Content, 1, n)
  BY <1>1
<1> QED BY <1>2, AlwaysKnown, PTL DEF OldestOfBlock
=============================================================================
