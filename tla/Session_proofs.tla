---------------------------- MODULE Session_proofs ----------------------------
(***************************************************************************)
(* One connection, for any number and length of requests and replies:      *)
(* requests are cut where they begin, bytes are sent once and in order,    *)
(* and only SINGLE mode goes on with a connection that is closed.          *)
(***************************************************************************)
EXTENDS Session, SequenceTheorems, WellFoundedInduction, TLAPS

-----------------------------------------------------------------------------
(* The sum of a sequence, which Total computes recursively.  What a library *)
(* theorem would say by induction follows from the least counterexample.    *)

LEMMA Least ==
  ASSUME NEW S, S \subseteq Nat, S # {}
  PROVE  \E x \in S : \A y \in S : x <= y
<1> DEFINE R == {p \in Nat \X Nat : p[1] < p[2]}
<1>1. IsWellFoundedOn(R, Nat)
  BY NatLessThanWellFounded DEF OpToRel
<1>2. PICK x \in S : \A y \in S : ~(<<y, x>> \in R)
  <2> HIDE DEF R
  <2> QED BY <1>1, WFMin
<1>3. ASSUME NEW y \in S PROVE x <= y
  <2>1. x \in Nat /\ y \in Nat /\ <<y, x>> \in Nat \X Nat
    OBVIOUS
  <2>2. ~(<<y, x>>[1] < <<y, x>>[2])
    BY <2>1, <1>2
  <2> QED BY <2>1, <2>2
<1> QED BY <1>3

\* g holds the sums of the first elements of s, up to n of them.
Sums(g, s, n) ==
  /\ g \in [0 .. n -> Int]
  /\ g[0] = 0
  /\ \A i \in 1 .. n : g[i] = g[i - 1] + s[i]

LEMMA SumsExist ==
  ASSUME NEW s \in Seq(Nat)
  PROVE  \E g : Sums(g, s, Len(s))
<1> DEFINE Without == {n \in 0 .. Len(s) : ~\E g : Sums(g, s, n)}
<1>0. Len(s) \in Nat /\ \A i \in 1 .. Len(s) : s[i] \in Nat
  BY LenProperties
<1>1. SUFFICES ASSUME Without # {} PROVE FALSE
  BY <1>0
<1>2. PICK n \in Without : \A k \in Without : n <= k
  <2> Without \subseteq Nat
    BY <1>0
  <2> HIDE DEF Without
  <2> QED BY <1>1, Least
<1>3. n \in 0 .. Len(s) /\ ~\E g : Sums(g, s, n)
  OBVIOUS
<1>4. CASE n = 0
  <2>1. Sums([i \in {0} |-> 0], s, 0)
    <3>1. 0 .. 0 = {0}
      OBVIOUS
    <3> QED BY <3>1 DEF Sums
  <2> QED BY <1>3, <1>4, <2>1
<1>5. CASE n # 0
  <2>1. n - 1 \in 0 .. Len(s) /\ n - 1 < n /\ n \in 1 .. Len(s)
    BY <1>0, <1>3, <1>5
  <2>2. n - 1 \notin Without
    BY <1>0, <1>2, <2>1
  <2>3. PICK g : Sums(g, s, n - 1)
    BY <2>1, <2>2
  <2> DEFINE h == [i \in 0 .. n |-> IF i < n THEN g[i] ELSE g[n - 1] + s[n]]
  <2>4. Sums(h, s, n)
    <3>1. h \in [0 .. n -> Int]
      <4>1. \A i \in 0 .. n : i < n => i \in 0 .. n - 1
        BY <2>1
      <4> QED BY <1>0, <2>1, <2>3, <4>1 DEF Sums
    <3>2. h[0] = 0
      BY <2>1, <2>3 DEF Sums
    <3>3. ASSUME NEW i \in 1 .. n PROVE h[i] = h[i - 1] + s[i]
      <4>1. i - 1 \in 0 .. n - 1 /\ i - 1 < n /\ i \in 0 .. n /\ (i < n \/ i = n)
        BY <2>1
      <4>2. h[i - 1] = g[i - 1]
        BY <2>1, <4>1
      <4> QED BY <2>1, <2>3, <4>1, <4>2 DEF Sums
    <3> HIDE DEF h
    <3> QED BY <3>1, <3>2, <3>3 DEF Sums
  <2> QED BY <1>3, <2>4
<1> QED BY <1>4, <1>5

LEMMA TotalIs ==
  ASSUME NEW s \in Seq(Nat), NEW g, Sums(g, s, Len(s))
  PROVE  Total(s) = g[Len(s)]
<1> DEFINE Step(f) == [i \in 0 .. Len(s) |-> IF i = 0 THEN 0 ELSE f[i - 1] + s[i]]
           u == CHOOSE f : f = Step(f)
<1>0. Len(s) \in Nat /\ \A i \in 1 .. Len(s) : s[i] \in Nat
  BY LenProperties
<1>1. g = Step(g)
  <2>1. g \in [0 .. Len(s) -> Int] /\ g[0] = 0
        /\ \A i \in 1 .. Len(s) : g[i] = g[i - 1] + s[i]
    BY DEF Sums
  <2>2. \A i \in 0 .. Len(s) : i = 0 \/ i \in 1 .. Len(s)
    BY <1>0
  <2>3. \A i \in 0 .. Len(s) : g[i] = Step(g)[i]
    BY <2>1, <2>2
  <2> QED BY <2>1, <2>3
<1>2. u = Step(u)
  <2> HIDE DEF Step
  <2> QED BY <1>1
<1>3. u[Len(s)] = g[Len(s)]
  <2> DEFINE Differ == {i \in 0 .. Len(s) : u[i] # g[i]}
  <2>1. SUFFICES ASSUME Differ # {} PROVE FALSE
    <3> HIDE DEF u
    <3> QED BY <1>0
  <2>2. PICK n \in Differ : \A k \in Differ : n <= k
    <3> Differ \subseteq Nat
      BY <1>0
    <3> HIDE DEF Differ
    <3> QED BY <2>1, Least
  <2>3. n \in 0 .. Len(s) /\ u[n] # g[n]
    OBVIOUS
  <2>4. \A i \in 0 .. Len(s) : /\ u[i] = IF i = 0 THEN 0 ELSE u[i - 1] + s[i]
                               /\ g[i] = IF i = 0 THEN 0 ELSE g[i - 1] + s[i]
    <3> HIDE DEF u
    <3> QED BY <1>1, <1>2
  <2>5. n # 0
    BY <2>3, <2>4
  <2>6. n - 1 \in 0 .. Len(s) /\ n - 1 \notin Differ
    <3> HIDE DEF Differ
    <3> QED BY <1>0, <2>2, <2>3, <2>5
  <2> HIDE DEF u
  <2> QED BY <2>3, <2>4, <2>5, <2>6
<1>4. Total(s) = u[Len(s)]
  BY DEF Total
<1> QED BY <1>3, <1>4

(* What a request adds, and what the oldest takes away.                     *)
LEMMA TotalOfNone == Total(<<>>) = 0
<1>1. Sums([i \in {0} |-> 0], <<>>, Len(<<>>))
  <2>1. 0 .. 0 = {0} /\ Len(<<>>) = 0
    OBVIOUS
  <2> QED BY <2>1 DEF Sums
<1>2. <<>> \in Seq(Nat)
  OBVIOUS
<1> QED BY <1>1, <1>2, TotalIs

LEMMA TotalWithOne ==
  ASSUME NEW s \in Seq(Nat), NEW n \in Nat
  PROVE  Total(Append(s, n)) = Total(s) + n /\ Total(s) \in Int
<1> DEFINE t == Append(s, n)
<1>1. /\ t \in Seq(Nat) /\ Len(t) = Len(s) + 1 /\ Len(s) \in Nat
      /\ \A i \in 1 .. Len(s) : t[i] = s[i]
      /\ t[Len(s) + 1] = n
  BY AppendProperties, LenProperties
<1> HIDE DEF t
<1>2. PICK g : Sums(g, s, Len(s))
  BY SumsExist
<1> DEFINE h == [i \in 0 .. Len(t) |-> IF i <= Len(s) THEN g[i] ELSE g[Len(s)] + n]
<1>3. /\ g \in [0 .. Len(s) -> Int] /\ g[0] = 0
      /\ \A i \in 1 .. Len(s) : g[i] = g[i - 1] + s[i]
  BY <1>2 DEF Sums
<1>4. h \in [0 .. Len(t) -> Int] /\ h[0] = 0
  <2>1. \A i \in 0 .. Len(t) : i <= Len(s) => i \in 0 .. Len(s)
    BY <1>1
  <2>2. Len(s) \in 0 .. Len(s) /\ 0 \in 0 .. Len(t) /\ 0 <= Len(s)
    BY <1>1
  <2>3. g[Len(s)] \in Int
    BY <1>3, <2>2
  <2> DEFINE last == g[Len(s)] + n
  <2>4. last \in Int
    BY <2>3
  <2> HIDE DEF last
  <2>5. \A i \in 0 .. Len(t) : (IF i <= Len(s) THEN g[i] ELSE last) \in Int
    BY <1>3, <2>1, <2>4
  <2>6. h \in [0 .. Len(t) -> Int]
    BY <2>5 DEF last
  <2>7. h[0] = g[0]
    BY <2>2
  <2> QED BY <1>3, <2>6, <2>7
<1>5. ASSUME NEW i \in 1 .. Len(t) PROVE h[i] = h[i - 1] + t[i]
  <2>1. /\ i - 1 \in 0 .. Len(s) /\ i - 1 \in 0 .. Len(t) /\ i \in 0 .. Len(t)
        /\ i \in 1 .. Len(s) \/ i = Len(s) + 1
    BY <1>1
  <2>2. h[i - 1] = g[i - 1]
    BY <2>1
  <2>3. CASE i \in 1 .. Len(s)
    BY <1>1, <1>3, <2>1, <2>2, <2>3
  <2>4. CASE i = Len(s) + 1
    BY <1>1, <1>3, <2>1, <2>2, <2>4
  <2> QED BY <2>1, <2>3, <2>4
<1>6. h[Len(t)] = g[Len(s)] + n
  BY <1>1
<1> HIDE DEF h
<1>7. Sums(h, t, Len(t))
  BY <1>4, <1>5 DEF Sums
<1>8. Total(s) = g[Len(s)] /\ Total(t) = h[Len(t)]
  BY <1>1, <1>2, <1>7, TotalIs
<1> QED BY <1>1, <1>3, <1>6, <1>8 DEF t

LEMMA TotalWithoutOldest ==
  ASSUME NEW s \in Seq(Nat), s # <<>>
  PROVE  Total(Tail(s)) = Total(s) - Head(s)
<1> DEFINE t == Tail(s)
<1>1. /\ t \in Seq(Nat) /\ Len(t) = Len(s) - 1 /\ Len(s) \in Nat \ {0}
      /\ \A i \in 1 .. Len(s) - 1 : t[i] = s[i + 1]
      /\ Head(s) = s[1] /\ Head(s) \in Nat
  BY HeadTailProperties, EmptySeq
<1> HIDE DEF t
<1>2. PICK g : Sums(g, s, Len(s))
  BY SumsExist
<1> DEFINE h == [i \in 0 .. Len(t) |-> g[i + 1] - s[1]]
<1>3. /\ g \in [0 .. Len(s) -> Int] /\ g[0] = 0
      /\ \A i \in 1 .. Len(s) : g[i] = g[i - 1] + s[i]
  BY <1>2 DEF Sums
<1>4. g[1] = s[1]
  BY <1>1, <1>3
<1>5. h \in [0 .. Len(t) -> Int] /\ h[0] = 0
  BY <1>1, <1>3, <1>4
<1>6. ASSUME NEW i \in 1 .. Len(t) PROVE h[i] = h[i - 1] + t[i]
  <2>1. /\ i + 1 \in 1 .. Len(s) /\ i - 1 \in 0 .. Len(t) /\ i \in 0 .. Len(t)
        /\ i + 1 - 1 = i /\ i - 1 + 1 = i /\ i \in 0 .. Len(s)
    BY <1>1
  <2>2. g[i + 1] = g[i] + s[i + 1] /\ t[i] = s[i + 1]
    BY <1>1, <1>3, <2>1
  <2>3. h[i] = g[i + 1] - s[1] /\ h[i - 1] = g[i] - s[1]
    BY <2>1
  <2>4. g[i] \in Int /\ s[1] \in Int /\ s[i + 1] \in Int
    <3>1. \A k \in 1 .. Len(s) : s[k] \in Nat
      BY LenProperties
    <3>2. 1 \in 1 .. Len(s)
      BY <1>1
    <3>3. g[i] \in Int
      BY <1>3, <2>1
    <3>4. s[1] \in Nat
      BY <3>1, <3>2
    <3>5. s[i + 1] \in Nat
      BY <3>1, <2>1
    <3> QED BY <3>3, <3>4, <3>5
  <2> HIDE DEF h
  <2> QED BY <2>2, <2>3, <2>4
<1>7. h[Len(t)] = g[Len(s)] - s[1]
  BY <1>1
<1> HIDE DEF h
<1>8. Sums(h, t, Len(t))
  BY <1>5, <1>6 DEF Sums
<1>9. Total(s) = g[Len(s)] /\ Total(t) = h[Len(t)]
  BY <1>1, <1>2, <1>8, TotalIs
<1> QED BY <1>1, <1>7, <1>9 DEF t

-----------------------------------------------------------------------------
(* Bytes as positions: parts that follow each other.                        *)

LEMMA PositionsAre ==
  ASSUME NEW lo \in Nat, NEW hi \in Nat, lo <= hi
  PROVE  /\ Positions(lo, hi) \in Seq(Nat) /\ Len(Positions(lo, hi)) = hi - lo
         /\ \A i \in 1 .. hi - lo : Positions(lo, hi)[i] = lo + i
         /\ \A n \in Nat : hi <= n => Positions(lo, hi) \in Seq(1 .. n)
  BY DEF Positions

\* Two sequences with the same elements are the same.
LEMMA SamePositions ==
  ASSUME NEW lo \in Nat, NEW hi \in Nat, lo <= hi,
         NEW s \in Seq(Nat), Len(s) = hi - lo,
         \A i \in 1 .. hi - lo : s[i] = lo + i
  PROVE  s = Positions(lo, hi)
<1>1. s = [i \in 1 .. Len(s) |-> s[i]]
  BY LenProperties
<1> QED BY <1>1 DEF Positions

LEMMA Joined ==
  ASSUME NEW lo \in Nat, NEW mid \in Nat, NEW hi \in Nat, lo <= mid, mid <= hi
  PROVE  Positions(lo, mid) \o Positions(mid, hi) = Positions(lo, hi)
<1> DEFINE a == Positions(lo, mid)  b == Positions(mid, hi)
<1>1. /\ a \in Seq(Nat) /\ Len(a) = mid - lo /\ \A i \in 1 .. mid - lo : a[i] = lo + i
      /\ b \in Seq(Nat) /\ Len(b) = hi - mid /\ \A i \in 1 .. hi - mid : b[i] = mid + i
  BY PositionsAre
<1> HIDE DEF a, b
<1>2. /\ a \o b \in Seq(Nat) /\ Len(a \o b) = Len(a) + Len(b)
      /\ \A i \in 1 .. Len(a) + Len(b) :
           (a \o b)[i] = IF i <= Len(a) THEN a[i] ELSE b[i - Len(a)]
  BY <1>1, ConcatProperties
<1>3. ASSUME NEW i \in 1 .. hi - lo PROVE (a \o b)[i] = lo + i
  <2>1. CASE i <= mid - lo
    BY <1>1, <1>2, <2>1
  <2>2. CASE ~(i <= mid - lo)
    <3>1. i - (mid - lo) \in 1 .. hi - mid
      BY <2>2
    <3> QED BY <1>1, <1>2, <2>2, <3>1
  <2> QED BY <2>1, <2>2
<1>4. lo <= hi /\ Len(a \o b) = hi - lo
  BY <1>1, <1>2
<1>5. a \o b = Positions(lo, hi)
  BY <1>2, <1>3, <1>4, SamePositions
<1> QED BY <1>5 DEF a, b

LEMMA Split ==
  ASSUME NEW lo \in Nat, NEW hi \in Nat, NEW n \in 0 .. hi - lo, lo <= hi
  PROVE  /\ Take(Positions(lo, hi), n) = Positions(lo, lo + n)
         /\ Rest(Positions(lo, hi), n) = Positions(lo + n, hi)
<1> DEFINE s == Positions(lo, hi)
<1>1. s \in Seq(Nat) /\ Len(s) = hi - lo /\ \A i \in 1 .. hi - lo : s[i] = lo + i
  BY PositionsAre
<1> HIDE DEF s
<1>2. /\ \A i \in 1 .. n : s[i] \in Nat /\ s[i] = lo + i
      /\ \A i \in n + 1 .. Len(s) : s[i] \in Nat /\ s[i] = lo + i
  BY <1>1
<1>3. /\ Take(s, n) \in Seq(Nat)
      /\ Len(Take(s, n)) = IF 1 <= n THEN n - 1 + 1 ELSE 0
      /\ \A i \in 1 .. n - 1 + 1 : Take(s, n)[i] = s[1 + i - 1]
  BY <1>2, SubSeqProperties DEF Take
<1>4. /\ Rest(s, n) \in Seq(Nat)
      /\ Len(Rest(s, n)) = IF n + 1 <= Len(s) THEN Len(s) - (n + 1) + 1 ELSE 0
      /\ \A i \in 1 .. Len(s) - (n + 1) + 1 : Rest(s, n)[i] = s[n + 1 + i - 1]
  BY <1>1, <1>2, SubSeqProperties DEF Rest
<1>5. Take(s, n) = Positions(lo, lo + n)
  <2> DEFINE h == lo + n
  <2>1. /\ h \in Nat /\ lo <= h /\ Len(Take(s, n)) = h - lo
        /\ \A i \in 1 .. h - lo : Take(s, n)[i] = lo + i
    BY <1>1, <1>2, <1>3
  <2> HIDE DEF h
  <2>2. Take(s, n) = Positions(lo, h)
    BY <1>3, <2>1, SamePositions
  <2> QED BY <2>2 DEF h
<1>6. Rest(s, n) = Positions(lo + n, hi)
  <2> DEFINE l == lo + n
  <2>1. /\ l \in Nat /\ l <= hi /\ Len(Rest(s, n)) = hi - l
        /\ \A i \in 1 .. hi - l : Rest(s, n)[i] = l + i
    BY <1>1, <1>2, <1>4
  <2> HIDE DEF l
  <2>2. Rest(s, n) = Positions(l, hi)
    BY <1>4, <2>1, SamePositions
  <2> QED BY <2>2 DEF l
<1> QED BY <1>5, <1>6 DEF s

LEMMA TailOf ==
  ASSUME NEW lo \in Nat, NEW hi \in Nat, lo < hi
  PROVE  Tail(Positions(lo, hi)) = Positions(lo + 1, hi)
<1>1. /\ Positions(lo, hi) \in Seq(Nat) /\ Positions(lo, hi) # <<>>
      /\ Len(Positions(lo, hi)) = hi - lo
      /\ \A i \in 1 .. hi - lo : Positions(lo, hi)[i] = lo + i
  BY PositionsAre
<1>2. /\ Tail(Positions(lo, hi)) \in Seq(Nat)
      /\ Len(Tail(Positions(lo, hi))) = hi - lo - 1
      /\ \A i \in 1 .. Len(Tail(Positions(lo, hi))) :
           Tail(Positions(lo, hi))[i] = Positions(lo, hi)[i + 1]
  BY <1>1, HeadTailProperties
<1> DEFINE l == lo + 1  t == Tail(Positions(lo, hi))
<1>3. /\ l \in Nat /\ l <= hi /\ t \in Seq(Nat) /\ Len(t) = hi - l
      /\ \A i \in 1 .. hi - l : t[i] = l + i
  BY <1>1, <1>2
<1> HIDE DEF l, t
<1>4. t = Positions(l, hi)
  BY <1>3, SamePositions
<1> QED BY <1>4 DEF l, t

LEMMA NoPositions ==
  ASSUME NEW n \in Nat
  PROVE  Positions(n, n) = <<>>
<1>1. /\ <<>> \in Seq(Nat) /\ n <= n /\ Len(<<>>) = n - n
      /\ \A i \in 1 .. n - n : <<>>[i] = n + i
  OBVIOUS
<1> HIDE DEF Positions
<1> QED BY <1>1, SamePositions

LEMMA Parts ==
  ASSUME NEW S, NEW s \in Seq(S), NEW n \in 0 .. Len(s)
  PROVE  /\ Take(s, n) \in Seq(S) /\ Len(Take(s, n)) = n
         /\ Rest(s, n) \in Seq(S) /\ Len(Rest(s, n)) = Len(s) - n
<1>1. Len(s) \in Nat /\ \A i \in 1 .. Len(s) : s[i] \in S
  BY LenProperties
<1>2. /\ Take(s, n) \in Seq(S)
      /\ Len(Take(s, n)) = IF 1 <= n THEN n - 1 + 1 ELSE 0
  <2>1. \A i \in 1 .. n : s[i] \in S
    BY <1>1
  <2> QED BY <1>1, <2>1, SubSeqProperties DEF Take
<1>3. /\ Rest(s, n) \in Seq(S)
      /\ Len(Rest(s, n)) = IF n + 1 <= Len(s) THEN Len(s) - (n + 1) + 1 ELSE 0
  <2>1. \A i \in n + 1 .. Len(s) : s[i] \in S
    BY <1>1
  <2> QED BY <1>1, <2>1, SubSeqProperties DEF Rest
<1> QED BY <1>1, <1>2, <1>3

-----------------------------------------------------------------------------
(* The sending half.                                                        *)

SendInv == SendTypeOK /\ Pieces /\ Phases

LEMMA Lengths ==
  ASSUME SendTypeOK
  PROVE  /\ {Len(wire), Len(sendBuffer), Len(hand)} \subseteq Nat
         /\ {delivered, written, MaxBytes} \subseteq Nat
         /\ {wire, sendBuffer, hand} \subseteq Seq(1 .. MaxBytes)
  BY LenProperties, BufferEventAssumption DEF SendTypeOK

LEMMA SendInitInv == SendInit => SendInv
<1> SUFFICES ASSUME SendInit PROVE SendInv
  OBVIOUS
<1>1. Positions(0, 0) = <<>>
  BY NoPositions
<1>2. <<>> \in Seq(1 .. MaxBytes) /\ Len(<<>>) = 0
  OBVIOUS
<1>3. SendTypeOK
  BY <1>2, BufferEventAssumption DEF SendInit, SendTypeOK
<1>4. Pieces /\ Phases
  BY <1>1, <1>2 DEF SendInit, Pieces, Phases
<1> QED BY <1>3, <1>4 DEF SendInv

LEMMA PeerReadsKeeps == SendInv /\ PeerReads => SendInv'
<1> SUFFICES ASSUME SendInv, PeerReads PROVE SendInv'
  OBVIOUS
<1>1. /\ wire # <<>> /\ wire' = Tail(wire) /\ delivered' = delivered + 1
      /\ UNCHANGED <<evwr, written, hand, sendBuffer, doing, conn>>
  BY DEF PeerReads
<1>2. /\ {Len(wire), Len(sendBuffer), Len(hand), delivered, written, MaxBytes} \subseteq Nat
      /\ wire \in Seq(1 .. MaxBytes)
  BY Lengths DEF SendInv
<1>3. wire' \in Seq(1 .. MaxBytes) /\ Len(wire') = Len(wire) - 1 /\ Len(wire) > 0
  BY <1>1, <1>2, HeadTailProperties, EmptySeq
<1>4. Phases'
  BY <1>1, <1>2, <1>3 DEF SendInv, Phases
<1>5. SendTypeOK'
  BY <1>1, <1>2, <1>3, <1>4 DEF SendInv, SendTypeOK, Phases
<1>6. Pieces'
  <2> DEFINE sent == delivered + Len(wire)
  <2>1. delivered' + Len(wire') = sent /\ sent \in Nat /\ delivered < sent
    BY <1>1, <1>2, <1>3
  <2> HIDE DEF sent
  <2>2. CASE conn = "open"
    <3>1. /\ wire = Positions(delivered, sent)
          /\ sendBuffer = Positions(sent, sent + Len(sendBuffer))
          /\ hand = Positions(sent + Len(sendBuffer), written)
      BY <2>2 DEF SendInv, Pieces, sent
    <3>2. Tail(Positions(delivered, sent)) = Positions(delivered + 1, sent)
      BY <1>2, <2>1, TailOf
    <3> QED BY <1>1, <2>1, <3>1, <3>2 DEF Pieces
  <2> QED BY <1>1, <2>2 DEF Pieces
<1> QED BY <1>4, <1>5, <1>6 DEF SendInv

LEMMA WriteKeeps ==
  ASSUME NEW n \in Size, SendInv, Write(n)
  PROVE  SendInv' /\ written' > 0
<1>1. /\ doing = "loop" /\ conn # "closed" /\ written + n <= MaxBytes
      /\ hand' = Positions(written, written + n) /\ written' = written + n
      /\ doing' = "write-flush"
      /\ UNCHANGED <<evwr, sendBuffer, wire, delivered, conn>>
  BY DEF Write
<1>2. /\ {Len(wire), Len(sendBuffer), Len(hand), delivered, written, MaxBytes} \subseteq Nat
      /\ n \in Nat \ {0}
  BY Lengths, BufferEventAssumption DEF SendInv
<1>3. hand = <<>> /\ Len(hand) = 0
  BY <1>1 DEF SendInv, Phases
<1> DEFINE end == written + n
<1>4. end \in Nat /\ written <= end /\ end <= MaxBytes /\ end - written = n
  BY <1>1, <1>2
<1> HIDE DEF end
<1>5. hand' \in Seq(1 .. MaxBytes) /\ Len(hand') = n
  BY <1>1, <1>2, <1>4, PositionsAre DEF end
<1>6. SendTypeOK' /\ Phases' /\ written' > 0
  BY <1>1, <1>2, <1>3, <1>5 DEF SendInv, SendTypeOK, Phases
<1>7. Pieces'
  <2> DEFINE kept == delivered + Len(wire) + Len(sendBuffer)
  <2>1. CASE conn = "open"
    <3>1. /\ wire = Positions(delivered, delivered + Len(wire))
          /\ sendBuffer = Positions(delivered + Len(wire), kept)
          /\ hand = Positions(kept, written)
      BY <2>1 DEF SendInv, Pieces
    <3>2. kept \in Nat /\ kept <= written
      BY <1>2, <1>3 DEF SendInv, Phases
    <3> HIDE DEF kept
    <3>3. Len(hand) = written - kept
      BY <1>2, <3>1, <3>2, PositionsAre
    <3>4. kept = written
      BY <1>2, <1>3, <3>2, <3>3
    <3> QED BY <1>1, <3>1, <3>4 DEF Pieces, kept
  <2> QED BY <1>1, <2>1 DEF Pieces
<1> QED BY <1>6, <1>7 DEF SendInv

(* send() moves bytes of the message, or of the send buffer, to the wire.   *)
LEMMA SendSomeKeeps == SendInv /\ SendSome => SendInv'
<1> SUFFICES ASSUME SendInv, SendSome PROVE SendInv'
  OBVIOUS
<1>1. PICK n \in Sendable(hand) : wire' = wire \o Take(hand, n) /\ hand' = Rest(hand, n)
  BY DEF SendSome
<1>2. /\ doing = "write" /\ conn = "open"
      /\ UNCHANGED <<evwr, written, sendBuffer, delivered, doing, conn>>
  BY DEF SendSome
<1>3. /\ {Len(wire), Len(sendBuffer), Len(hand), delivered, written, MaxBytes} \subseteq Nat
      /\ wire \in Seq(1 .. MaxBytes) /\ hand \in Seq(1 .. MaxBytes)
  BY Lengths DEF SendInv
<1>4. n \in 0 .. Len(hand)
  BY <1>3 DEF Sendable
<1>5. sendBuffer = <<>> /\ Len(sendBuffer) = 0
  BY <1>2 DEF SendInv, Phases
<1>6. /\ Take(hand, n) \in Seq(1 .. MaxBytes) /\ Len(Take(hand, n)) = n
      /\ hand' \in Seq(1 .. MaxBytes) /\ Len(hand') = Len(hand) - n
  BY <1>1, <1>3, <1>4, Parts
<1>7. wire' \in Seq(1 .. MaxBytes) /\ Len(wire') = Len(wire) + n
  BY <1>1, <1>3, <1>6, ConcatProperties
<1>8. SendTypeOK' /\ Phases'
  BY <1>2, <1>3, <1>4, <1>5, <1>6, <1>7 DEF SendInv, SendTypeOK, Phases
<1>9. Pieces'
  <2> DEFINE sent == delivered + Len(wire)  more == sent + n
  <2>1. /\ wire = Positions(delivered, sent)
        /\ hand = Positions(sent + 0, written)
    BY <1>2, <1>5 DEF SendInv, Pieces
  <2>2. /\ sent \in Nat /\ delivered <= sent /\ sent <= written /\ sent + 0 = sent
        /\ more \in Nat /\ sent <= more
    BY <1>3, <1>4, <1>5 DEF SendInv, Phases
  <2>3. delivered' + Len(wire') = more /\ more + Len(sendBuffer') = more
    BY <1>2, <1>3, <1>4, <1>5, <1>7
  <2> HIDE DEF sent
  <2>4. Len(hand) = written - sent
    BY <1>3, <2>1, <2>2, PositionsAre
  <2>5. Take(hand, n) = Positions(sent, more) /\ hand' = Positions(more, written)
    <3>1. sent \in Nat /\ written \in Nat /\ sent <= written /\ n \in 0 .. written - sent
      BY <1>3, <1>4, <2>2, <2>4
    <3>2. hand = Positions(sent, written)
      BY <2>1, <2>2
    <3> QED BY <1>1, <3>1, <3>2, Split
  <2> HIDE DEF more
  <2>6. wire' = Positions(delivered, more)
    <3>1. delivered \in Nat /\ sent \in Nat /\ more \in Nat /\ delivered <= sent /\ sent <= more
      BY <1>3, <2>2
    <3>2. Positions(delivered, sent) \o Positions(sent, more) = Positions(delivered, more)
      BY <3>1, Joined
    <3> QED BY <1>1, <2>1, <2>5, <3>2
  <2>7. sendBuffer' = Positions(more, more)
    BY <1>2, <1>5, <2>2, NoPositions
  <2> QED BY <1>2, <2>3, <2>5, <2>6, <2>7 DEF Pieces
<1> QED BY <1>8, <1>9 DEF SendInv

LEMMA FlushSomeKeeps == SendInv /\ FlushSome => SendInv'
<1> SUFFICES ASSUME SendInv, FlushSome PROVE SendInv'
  OBVIOUS
<1>1. PICK n \in Sendable(sendBuffer) :
        wire' = wire \o Take(sendBuffer, n) /\ sendBuffer' = Rest(sendBuffer, n)
  BY DEF FlushSome
<1>2. /\ doing \in {"flush", "write-flush"} /\ conn = "open"
      /\ UNCHANGED <<evwr, written, hand, delivered, doing, conn>>
  BY DEF FlushSome, Flushing
<1>3. /\ {Len(wire), Len(sendBuffer), Len(hand), delivered, written, MaxBytes} \subseteq Nat
      /\ wire \in Seq(1 .. MaxBytes) /\ sendBuffer \in Seq(1 .. MaxBytes)
  BY Lengths DEF SendInv
<1>4. n \in 0 .. Len(sendBuffer)
  BY <1>3 DEF Sendable
<1>5. /\ Take(sendBuffer, n) \in Seq(1 .. MaxBytes) /\ Len(Take(sendBuffer, n)) = n
      /\ sendBuffer' \in Seq(1 .. MaxBytes) /\ Len(sendBuffer') = Len(sendBuffer) - n
  BY <1>1, <1>3, <1>4, Parts
<1>6. wire' \in Seq(1 .. MaxBytes) /\ Len(wire') = Len(wire) + n
  BY <1>1, <1>3, <1>5, ConcatProperties
<1>7. SendTypeOK' /\ Phases'
  BY <1>2, <1>3, <1>4, <1>5, <1>6 DEF SendInv, SendTypeOK, Phases
<1>8. Pieces'
  <2> DEFINE sent == delivered + Len(wire)  kept == sent + Len(sendBuffer)
             more == sent + n
  <2>1. /\ wire = Positions(delivered, sent)
        /\ sendBuffer = Positions(sent, kept)
        /\ hand = Positions(kept, written)
    BY <1>2 DEF SendInv, Pieces
  <2>2. /\ sent \in Nat /\ delivered <= sent /\ sent <= kept /\ kept \in Nat
        /\ more \in Nat /\ sent <= more /\ n \in 0 .. kept - sent
    <3>1. /\ delivered \in Nat /\ Len(wire) \in Nat /\ Len(sendBuffer) \in Nat
          /\ n \in Nat /\ n <= Len(sendBuffer)
      BY <1>3, <1>4
    <3> QED BY <3>1
  <2>3. delivered' + Len(wire') = more /\ more + Len(sendBuffer') = kept
    BY <1>2, <1>3, <1>4, <1>5, <1>6
  <2> HIDE DEF sent, kept
  <2>4. Take(sendBuffer, n) = Positions(sent, more) /\ sendBuffer' = Positions(more, kept)
    BY <1>1, <2>1, <2>2, Split
  <2> HIDE DEF more
  <2>5. wire' = Positions(delivered, more)
    <3>1. delivered \in Nat /\ sent \in Nat /\ more \in Nat /\ delivered <= sent /\ sent <= more
      BY <1>3, <2>2
    <3>2. Positions(delivered, sent) \o Positions(sent, more) = Positions(delivered, more)
      BY <3>1, Joined
    <3> QED BY <1>1, <2>1, <2>4, <3>2
  <2> QED BY <1>2, <2>1, <2>3, <2>4, <2>5 DEF Pieces
<1> QED BY <1>7, <1>8 DEF SendInv

(* What send() does not take goes behind what the send buffer holds, which  *)
(* at that point of Write is nothing.                                       *)
LEMMA KeepRestKeeps == SendInv /\ KeepRest => SendInv'
<1> SUFFICES ASSUME SendInv, KeepRest PROVE SendInv'
  OBVIOUS
<1>1. /\ doing = "write" /\ conn = "open"
      /\ sendBuffer' = sendBuffer \o hand /\ hand' = <<>>
      /\ evwr' = "active" /\ doing' = "loop"
      /\ UNCHANGED <<written, wire, delivered, conn>>
  BY DEF KeepRest
<1>2. /\ {Len(wire), Len(sendBuffer), Len(hand), delivered, written, MaxBytes} \subseteq Nat
      /\ sendBuffer \in Seq(1 .. MaxBytes) /\ hand \in Seq(1 .. MaxBytes)
  BY Lengths DEF SendInv
<1>3. /\ sendBuffer' \in Seq(1 .. MaxBytes)
      /\ Len(sendBuffer') = Len(sendBuffer) + Len(hand)
      /\ <<>> \in Seq(1 .. MaxBytes) /\ Len(<<>>) = 0
  BY <1>1, <1>2, ConcatProperties
<1>4. SendTypeOK' /\ Phases'
  BY <1>1, <1>2, <1>3 DEF SendInv, SendTypeOK, Phases
<1>5. Pieces'
  <2> DEFINE sent == delivered + Len(wire)  kept == sent + Len(sendBuffer)
  <2>1. /\ wire = Positions(delivered, sent)
        /\ sendBuffer = Positions(sent, kept)
        /\ hand = Positions(kept, written)
    BY <1>1 DEF SendInv, Pieces
  <2>2. /\ sent \in Nat /\ kept \in Nat /\ sent <= kept /\ kept <= written
        /\ sent + Len(sendBuffer') = kept + Len(hand)
    <3>1. kept + Len(hand) <= written
      BY <1>2 DEF SendInv, Phases
    <3> QED BY <1>2, <1>3, <3>1
  <2>3. delivered' + Len(wire') = sent
    BY <1>1
  <2> HIDE DEF sent, kept
  <2>4. Len(hand) = written - kept
    BY <1>2, <2>1, <2>2, PositionsAre
  <2>5. sent + Len(sendBuffer') = written
    BY <1>2, <2>2, <2>4
  <2>6. sendBuffer' = Positions(sent, written)
    BY <1>1, <1>2, <2>1, <2>2, Joined
  <2>7. hand' = Positions(written, written)
    BY <1>1, <1>2, NoPositions
  <2> QED BY <1>1, <2>1, <2>3, <2>5, <2>6, <2>7 DEF Pieces
<1> QED BY <1>4, <1>5 DEF SendInv

LEMMA CloseConnKeeps == SendInv /\ CloseConn => SendInv'
<1> SUFFICES ASSUME SendInv, CloseConn PROVE SendInv'
  OBVIOUS
<1>1. <<>> \in Seq(1 .. MaxBytes) /\ Len(<<>>) = 0
  OBVIOUS
<1>2. {Len(wire), Len(sendBuffer), Len(hand), delivered, written} \subseteq Nat
  BY Lengths DEF SendInv
<1>3. SendTypeOK'
  BY <1>1 DEF SendInv, SendTypeOK, CloseConn
<1>4. Pieces' /\ Phases'
  BY <1>1, <1>2 DEF SendInv, Pieces, Phases, CloseConn
<1> QED BY <1>3, <1>4 DEF SendInv

\* A call that does not come back leaves all as it is.
LEMMA StopKeeps ==
  ASSUME SendInv, doing = "loop", doing' \in {"hung", "crashed"},
         UNCHANGED <<evwr, written, hand, sendBuffer, wire, delivered, conn>>
  PROVE  SendInv'
<1>1. SendTypeOK'
  BY DEF SendInv, SendTypeOK
<1>2. Pieces' /\ Phases'
  BY DEF SendInv, Pieces, Phases
<1> QED BY <1>1, <1>2 DEF SendInv

LEMMA SendVarsKeep == SendInv /\ UNCHANGED sendVars => SendInv'
  BY DEF SendInv, SendTypeOK, Pieces, Phases, sendVars

LEMMA SendStepKeeps ==
  ASSUME SendInv, SendStep \/ WriteCb \/ PeerResets
  PROVE  SendInv'
<1>1. CASE StopWatcher
  <2>1. SendTypeOK' /\ Phases'
    BY <1>1 DEF StopWatcher, SendInv, SendTypeOK, Phases
  <2>2. Pieces'
    BY <1>1 DEF StopWatcher, SendInv, Pieces
  <2> QED BY <2>1, <2>2 DEF SendInv
<1>2. CASE AllSent \/ FlushEnd \/ WriteCb \/ PeerResets
  <2>1. SendTypeOK' /\ Phases'
    BY <1>2 DEF AllSent, FlushEnd, WriteCb, PeerResets, SendInv, SendTypeOK, Phases
  <2>2. Pieces'
    BY <1>2 DEF AllSent, FlushEnd, WriteCb, PeerResets, SendInv, Pieces
  <2> QED BY <2>1, <2>2 DEF SendInv
<1> QED
  BY <1>1, <1>2, SendSomeKeeps, KeepRestKeeps, FlushSomeKeeps, CloseConnKeeps
     DEF SendStep, SendFails

(* The send buffer holds positions in the order written, and so does what   *)
(* surrounds it.                                                            *)
LEMMA PiecesInOrder == SendInv => InOrder
<1> SUFFICES ASSUME SendInv, conn = "open"
             PROVE Positions(0, delivered) \o wire \o sendBuffer \o hand
                   = Positions(0, written)
  BY DEF InOrder
<1> DEFINE sent == delivered + Len(wire)  kept == sent + Len(sendBuffer)
<1>1. {Len(wire), Len(sendBuffer), Len(hand), delivered, written} \subseteq Nat
  BY Lengths DEF SendInv
<1>2. /\ wire = Positions(delivered, sent) /\ sendBuffer = Positions(sent, kept)
      /\ hand = Positions(kept, written)
  BY DEF SendInv, Pieces
<1>3. /\ 0 \in Nat /\ delivered \in Nat /\ sent \in Nat /\ kept \in Nat /\ written \in Nat
      /\ 0 <= delivered /\ delivered <= sent /\ sent <= kept /\ kept <= written
  BY <1>1 DEF SendInv, Phases
<1> HIDE DEF sent, kept
<1>4. Positions(0, delivered) \o wire = Positions(0, sent)
  BY <1>2, <1>3, Joined
<1>5. 0 <= sent /\ 0 <= kept
  BY <1>3
<1>6. Positions(0, sent) \o sendBuffer = Positions(0, kept)
  BY <1>2, <1>3, <1>5, Joined
<1>7. Positions(0, kept) \o hand = Positions(0, written)
  BY <1>2, <1>3, <1>5, Joined
<1> QED BY <1>4, <1>6, <1>7

-----------------------------------------------------------------------------
(* The receiving half.                                                      *)

RecvTypeOK ==
  /\ mode \in {"SINGLE", "MULTI"}
  /\ asked \in 0 .. MaxReq
  /\ stream \in Seq(ReqLen)
  /\ {coming, buffered} \subseteq Nat /\ seams \subseteq Nat
  /\ {finished, refused, piled, lost} \subseteq BOOLEAN
  /\ reading \in {"no", "recv", "crashed"}
RecvInv == RecvTypeOK /\ SeamsInside /\ NoneLeft /\ LostKnown /\ HangNeedsLong

LEMMA Numbers ==
  ASSUME RecvInv
  PROVE  /\ {coming, buffered} \subseteq Nat /\ seams \subseteq Nat
         /\ stream \in Seq(ReqLen) /\ stream \in Seq(Nat)
         /\ stream # <<>> => /\ Head(stream) \in Nat /\ Head(stream) >= LenWord
                             /\ Tail(stream) \in Seq(ReqLen)
<1>1. ReqLen \subseteq Nat /\ \A n \in ReqLen : n >= LenWord
  BY SessionAssumption
<1>2. stream \in Seq(ReqLen) /\ Seq(ReqLen) \subseteq Seq(Nat)
  BY <1>1, SeqMonotonic DEF RecvInv, RecvTypeOK
<1>3. stream # <<>> => Head(stream) \in ReqLen /\ Tail(stream) \in Seq(ReqLen)
  BY <1>2, HeadTailProperties
<1> QED BY <1>1, <1>2, <1>3 DEF RecvInv, RecvTypeOK

\* Bytes in the buffer are of some request.
LEMMA SomeRequest ==
  ASSUME RecvInv, ~lost, buffered # 0
  PROVE  stream # <<>>
<1>1. Framed
  BY DEF RecvInv, LostKnown
<1>2. stream = <<>> => Total(stream) = 0
  BY TotalOfNone
<1> HIDE DEF Total
<1> QED BY <1>1, <1>2, Numbers DEF Framed

\* Without a pile the length word is read as it was sent.
LEMMA ReadsLength ==
  ASSUME RecvInv, ~piled, buffered >= LenWord
  PROVE  ~lost /\ stream # <<>> /\ LengthRead = {Head(stream)}
<1>1. ~lost
  BY DEF RecvInv, LostKnown
<1>2. LenWord \in Nat \ {0} /\ CopySize \in Nat /\ LenWord <= CopySize
  BY SessionAssumption
<1>3. stream # <<>>
  BY <1>1, <1>2, Numbers, SomeRequest
<1>4. \A x \in seams : x \in Nat /\ x >= CopySize
  BY Numbers DEF RecvInv, SeamsInside
<1>5. \A x \in seams : x >= LenWord
  BY <1>2, <1>4
<1> QED BY <1>1, <1>3, <1>5 DEF LengthRead

LEMMA RecvInitInv == Init => RecvInv
<1> SUFFICES ASSUME Init PROVE RecvInv
  OBVIOUS
<1>1. <<>> \in Seq(ReqLen)
  OBVIOUS
<1>2. RecvTypeOK
  <2>1. 0 \in 0 .. MaxReq
    BY SessionAssumption
  <2>2. {coming, buffered} \subseteq Nat /\ seams \subseteq Nat
    BY DEF Init
  <2>3. stream \in Seq(ReqLen)
    BY <1>1 DEF Init
  <2>4. {finished, refused, piled, lost} \subseteq BOOLEAN
    BY DEF Init
  <2> QED BY <2>1, <2>2, <2>3, <2>4 DEF Init, RecvTypeOK
<1>3. coming + buffered = 0 /\ stream = <<>>
  BY DEF Init
<1>4. LostKnown
  <2>1. Framed
    <3>1. Total(stream) = 0
      BY <1>3, TotalOfNone
    <3> HIDE DEF Total
    <3> QED BY <1>3, <3>1 DEF Framed
  <2> QED BY <2>1 DEF LostKnown, Init
<1>5. SeamsInside /\ NoneLeft /\ HangNeedsLong
  BY <1>3 DEF SeamsInside, NoneLeft, WholeWaits, HangNeedsLong, Init, SendInit
<1> QED BY <1>2, <1>4, <1>5 DEF RecvInv

\* The steps of the sending half, and the end of the connection.
LEMMA RecvVarsKeep ==
  ASSUME RecvInv, UNCHANGED recvVars,
         doing' = "hung" => doing = "hung",
         conn' # "closed" => conn # "closed"
  PROVE  RecvInv'
<1>1. UNCHANGED <<mode, asked, stream, coming, buffered, seams,
                  finished, reading, refused, piled, lost>>
  BY DEF recvVars
<1>2. RecvTypeOK' /\ SeamsInside'
  BY <1>1 DEF RecvInv, RecvTypeOK, SeamsInside, TooLong
<1>3. LostKnown'
  <2>1. Framed' = Framed
    BY <1>1 DEF Framed
  <2> QED BY <1>1, <2>1 DEF RecvInv, LostKnown
<1>4. NoneLeft' /\ HangNeedsLong'
  BY <1>1 DEF RecvInv, NoneLeft, WholeWaits, HangNeedsLong, TooLong
<1> QED BY <1>2, <1>3, <1>4 DEF RecvInv

LEMMA AskKeeps ==
  ASSUME NEW n \in ReqLen, RecvInv, Ask(n)
  PROVE  RecvInv'
<1>1. /\ asked < MaxReq /\ asked' = asked + 1
      /\ stream' = Append(stream, n) /\ coming' = coming + n
      /\ UNCHANGED <<mode, buffered, seams, finished, reading>>
      /\ UNCHANGED <<refused, piled, lost, doing, conn>>
  BY DEF Ask, sendVars
<1>2. n \in Nat /\ n >= LenWord /\ LenWord \in Nat \ {0} /\ MaxReq \in Nat
  BY SessionAssumption
<1>3. /\ stream' \in Seq(ReqLen) /\ stream' # <<>>
      /\ Head(stream') = IF stream = <<>> THEN n ELSE Head(stream)
  <2>1. /\ stream' \in Seq(ReqLen) /\ Len(stream') = Len(stream) + 1
        /\ Len(stream) \in Nat
        /\ \A i \in 1 .. Len(stream) : stream'[i] = stream[i]
        /\ stream'[Len(stream) + 1] = n
    BY <1>1, Numbers, AppendProperties, LenProperties
  <2>2. stream' # <<>> /\ Head(stream') = stream'[1]
    BY <2>1, EmptySeq, HeadTailProperties
  <2>3. CASE stream = <<>>
    <3>1. Len(stream) = 0
      BY <2>3
    <3> QED BY <2>1, <2>2, <2>3, <3>1
  <2>4. CASE stream # <<>>
    <3>1. Len(stream) >= 1 /\ Head(stream) = stream[1]
      BY <2>1, <2>4, Numbers, EmptySeq, HeadTailProperties
    <3> QED BY <2>1, <2>2, <2>4, <3>1
  <2> QED BY <2>3, <2>4
<1>4. RecvTypeOK'
  <2>1. coming \in Nat /\ asked \in 0 .. MaxReq
    BY Numbers DEF RecvInv, RecvTypeOK
  <2>2. coming' \in Nat /\ asked' \in 0 .. MaxReq
    BY <1>1, <1>2, <2>1
  <2> QED BY <1>1, <1>3, <2>2 DEF RecvInv, RecvTypeOK
<1>5. LostKnown'
  <2>1. Framed => Framed'
    <3>1. Total(Append(stream, n)) = Total(stream) + n /\ Total(stream) \in Int
      BY <1>2, Numbers, TotalWithOne
    <3>2. Total(stream)' = Total(Append(stream, n))
      BY <1>1
    <3> HIDE DEF Total
    <3> QED BY <1>1, <1>2, <3>1, <3>2, Numbers DEF Framed
  <2> QED BY <1>1, <2>1 DEF RecvInv, LostKnown
<1>6. SeamsInside' /\ HangNeedsLong'
  BY <1>1, <1>3 DEF RecvInv, SeamsInside, HangNeedsLong, TooLong
<1>7. NoneLeft'
  <2>1. SUFFICES ASSUME reading = "no", ~refused, conn # "closed"
                 PROVE  ~WholeWaits'
    BY <1>1 DEF NoneLeft
  <2>2. ~WholeWaits /\ ~lost
    BY <2>1 DEF RecvInv, NoneLeft, LostKnown
  <2>3. CASE stream = <<>>
    <3>1. buffered = 0
      BY <2>2, <2>3, SomeRequest
    <3> QED BY <1>1, <1>2, <1>3, <2>3, <3>1 DEF WholeWaits
  <2>4. CASE stream # <<>>
    BY <1>1, <1>3, <2>2, <2>4 DEF WholeWaits
  <2> QED BY <2>3, <2>4
<1> QED BY <1>4, <1>5, <1>6, <1>7 DEF RecvInv

\* A block is closed behind the oldest request only when recvQue refused it.
LEMMA MakeRoomKeeps ==
  ASSUME RecvInv, MakeRoom, reading = "no", conn # "closed",
         buffered' \in Nat, buffered' >= buffered, stream' = stream
  PROVE  /\ seams' \subseteq Nat /\ piled' \in BOOLEAN
         /\ SeamsInside' /\ (piled' => refused) /\ (piled => piled')
<1>1. /\ seams' \in RB!Reserved(buffered, seams)
      /\ piled' = (piled \/ (seams' # seams /\ WholeWaits))
  BY DEF MakeRoom
<1>2. /\ buffered \in Nat /\ seams \subseteq Nat
      /\ LenWord \in Nat \ {0} /\ CopySize \in Nat /\ LenWord <= CopySize
      /\ MaxMsgLen \in Nat
  BY Numbers, SessionAssumption
<1>3. \/ seams' = seams
      \/ /\ seams' = seams \cup {buffered}
         /\ buffered >= CopySize /\ \A x \in seams : buffered - x >= CopySize
  BY <1>1 DEF RB!Reserved, RB!TailHolds
<1>4. seams' \subseteq Nat
  BY <1>2, <1>3
<1>5. piled \in BOOLEAN /\ piled' \in BOOLEAN /\ (piled => piled')
  BY <1>1 DEF RecvInv, RecvTypeOK, WholeWaits
<1>6. piled' => refused
  BY <1>1 DEF RecvInv, NoneLeft, LostKnown
<1>7. SeamsInside'
  <2>1. SUFFICES ASSUME ~piled'
                 PROVE  /\ \A x \in seams' :
                             /\ x >= CopySize /\ x <= buffered'
                             /\ TooLong' \/ (stream' # <<>> /\ x < Head(stream'))
                        /\ \A x, y \in seams' : x < y => x + CopySize <= y
    BY DEF SeamsInside
  <2>2. ~piled /\ ~lost /\ TooLong' = TooLong
    BY <1>5, <2>1 DEF RecvInv, LostKnown, TooLong
  <2>3. /\ \A x \in seams : /\ x \in Nat /\ x >= CopySize /\ x <= buffered
                            /\ TooLong \/ (stream # <<>> /\ x < Head(stream))
        /\ \A x, y \in seams : x < y => x + CopySize <= y
    BY <1>2, <2>2 DEF RecvInv, SeamsInside
  <2>4. \A x \in seams : x <= buffered'
    BY <1>2, <2>3
  <2>5. CASE seams' = seams
    BY <2>2, <2>3, <2>4, <2>5
  <2>6. CASE /\ seams' # seams /\ seams' = seams \cup {buffered}
             /\ buffered >= CopySize /\ \A x \in seams : buffered - x >= CopySize
    <3>1. ~WholeWaits
      BY <1>1, <2>1, <2>6
    <3>2. stream # <<>> /\ Head(stream) \in Nat
      BY <1>2, <2>2, <2>6, SomeRequest, Numbers
    <3>3. TooLong \/ buffered < Head(stream)
      BY <1>2, <3>1, <3>2 DEF WholeWaits, TooLong
    <3>4. ASSUME NEW x \in seams'
          PROVE  /\ x >= CopySize /\ x <= buffered'
                 /\ TooLong \/ (stream # <<>> /\ x < Head(stream))
      BY <2>3, <2>4, <2>6, <3>2, <3>3
    <3>5. ASSUME NEW x \in seams', NEW y \in seams', x < y
          PROVE  x + CopySize <= y
      BY <1>2, <2>3, <2>6, <3>5
    <3> QED BY <2>2, <3>4, <3>5
  <2> QED BY <1>3, <2>5, <2>6
<1> QED BY <1>4, <1>5, <1>6, <1>7

LEMMA ReadKeeps ==
  ASSUME RecvInv, ReadSocket \/ ReadFails
  PROVE  RecvInv'
<1>1. /\ reading = "no" /\ conn # "closed" /\ doing = "loop" /\ MakeRoom
      /\ reading' \in {"no", "recv"}
      /\ UNCHANGED <<mode, asked, stream, finished, refused, lost>>
      /\ UNCHANGED <<doing, conn>>
  BY DEF ReadSocket, ReadFails, Readable, sendVars
<1>2. /\ {coming', buffered'} \subseteq Nat /\ buffered' >= buffered
      /\ coming' + buffered' = coming + buffered
      /\ reading' = "no" => buffered' = buffered
  BY Numbers DEF ReadSocket, ReadFails
<1>3. /\ seams' \subseteq Nat /\ piled' \in BOOLEAN
      /\ SeamsInside' /\ (piled' => refused) /\ (piled => piled')
  BY <1>1, <1>2, MakeRoomKeeps
<1>4. RecvTypeOK'
  BY <1>1, <1>2, <1>3 DEF RecvInv, RecvTypeOK
<1>5. LostKnown'
  <2>1. Framed' = Framed
    <3>1. Total(stream)' = Total(stream)
      BY <1>1
    <3> HIDE DEF Total
    <3> QED BY <1>2, <3>1 DEF Framed
  <2> QED BY <1>1, <1>3, <2>1 DEF RecvInv, LostKnown
<1>6. NoneLeft' /\ HangNeedsLong'
  BY <1>1, <1>2 DEF RecvInv, NoneLeft, WholeWaits, HangNeedsLong
<1> QED BY <1>3, <1>4, <1>5, <1>6 DEF RecvInv

\* Two seams within one request are 2 * CopySize bytes of it or more.
LEMMA ReadHangsKeeps ==
  ASSUME RecvInv, ReadHangs
  PROVE  RecvInv'
<1>1. /\ reading = "no" /\ conn # "closed" /\ conn' = conn /\ UNCHANGED recvVars
      /\ \E x, y \in seams : x # y
  BY DEF ReadHangs, Readable, RB!MayHang
<1>2. UNCHANGED <<mode, asked, stream, coming, buffered, seams,
                  finished, reading, refused, piled, lost>>
  BY <1>1 DEF recvVars
<1>3. RecvTypeOK' /\ SeamsInside'
  BY <1>2 DEF RecvInv, RecvTypeOK, SeamsInside, TooLong
<1>4. LostKnown'
  <2>1. Framed' = Framed
    BY <1>2 DEF Framed
  <2> QED BY <1>2, <2>1 DEF RecvInv, LostKnown
<1>5. NoneLeft'
  BY <1>1, <1>2 DEF RecvInv, NoneLeft, WholeWaits
<1>6. piled \/ TooLong \/ (stream # <<>> /\ Head(stream) > 2 * CopySize)
  <2>1. SUFFICES ASSUME ~piled, ~TooLong
                 PROVE stream # <<>> /\ Head(stream) > 2 * CopySize
    OBVIOUS
  <2>2. seams \subseteq Nat /\ CopySize \in Nat
    BY Numbers, SessionAssumption
  <2>3. PICK x \in seams, y \in seams : x < y
    BY <1>1, <2>2
  <2>4. /\ x \in Nat /\ y \in Nat /\ x >= CopySize /\ x + CopySize <= y
        /\ stream # <<>> /\ y < Head(stream)
    BY <2>1, <2>2, <2>3 DEF RecvInv, SeamsInside
  <2>5. Head(stream) \in Nat
    BY <2>4, Numbers
  <2> QED BY <2>2, <2>4, <2>5
<1>7. HangNeedsLong'
  BY <1>2, <1>6 DEF HangNeedsLong, TooLong
<1> QED BY <1>3, <1>4, <1>5, <1>7 DEF RecvInv

LEMMA HandleKeeps ==
  ASSUME RecvInv, Handle
  PROVE  RecvInv'
<1>1. PICK len \in LengthRead \ {0} : HasRequest(len) /\ CutOut(len)
  BY DEF Handle
<1>2. /\ buffered >= LenWord /\ reading = "recv" /\ reading' = "recv"
      /\ UNCHANGED <<mode, asked, coming, finished, refused, piled>>
      /\ len <= MaxMsgLen /\ len <= buffered
      /\ buffered' = buffered - len /\ seams' = RB!After(seams, len)
      /\ lost' = (lost \/ len # Head(stream))
      /\ stream' = IF stream = <<>> THEN stream ELSE Tail(stream)
  BY <1>1 DEF Handle, InLoop, HasRequest, CutOut, WithoutOldest
<1>3. doing' # "hung"
  BY DEF Handle, InLoop, Answer, Write, sendVars
<1>4. len \in Nat /\ LenWord \in Nat \ {0} /\ MaxMsgLen \in Nat
  <2>1. LenWord \in Nat \ {0} /\ MaxMsgLen \in Nat
    BY SessionAssumption
  <2>2. CASE lost
    BY <1>1, <2>1, <2>2 DEF LengthRead
  <2>3. CASE ~lost
    <3>1. Head(stream) \in Nat
      BY <1>2, <2>1, <2>3, SomeRequest, Numbers
    <3> QED BY <1>1, <2>1, <3>1 DEF LengthRead
  <2> QED BY <2>1, <2>2, <2>3
<1>5. RecvTypeOK'
  <2>1. stream' \in Seq(ReqLen)
    BY <1>2, Numbers
  <2>2. seams' \subseteq Nat
    BY <1>2, <1>4, Numbers DEF RB!After
  <2>3. lost' \in BOOLEAN /\ buffered' \in Nat
    BY <1>2, <1>4, Numbers DEF RecvInv, RecvTypeOK
  <2> QED BY <1>2, <2>1, <2>2, <2>3 DEF RecvInv, RecvTypeOK
<1>6. ~piled => ~lost /\ stream # <<>> /\ len = Head(stream)
  BY <1>1, <1>2, ReadsLength
<1>7. LostKnown'
  <2>1. ~lost' => Framed'
    <3>1. SUFFICES ASSUME ~lost, len = Head(stream) PROVE Framed'
      BY <1>2
    <3>2. Framed /\ stream # <<>> /\ Head(stream) \in Nat
      BY <1>2, <1>4, <3>1, SomeRequest, Numbers DEF RecvInv, LostKnown
    <3>3. Total(Tail(stream)) = Total(stream) - Head(stream)
      BY <3>2, Numbers, TotalWithoutOldest
    <3>4. Total(stream)' = Total(Tail(stream))
      BY <1>2, <3>2
    <3> HIDE DEF Total
    <3> QED BY <1>2, <3>1, <3>2, <3>3, <3>4, Numbers DEF Framed
  <2>2. lost' => piled'
    BY <1>2, <1>6
  <2> QED BY <1>2, <2>1, <2>2 DEF RecvInv, LostKnown
<1>8. SeamsInside'
  <2>1. SUFFICES ASSUME ~piled PROVE seams' = {}
    BY <1>2 DEF SeamsInside
  <2>2. stream # <<>> /\ len = Head(stream) /\ Head(stream) \in Nat /\ ~TooLong
    BY <1>2, <1>4, <1>6, <2>1, Numbers DEF TooLong
  <2>3. \A x \in seams : x \in Nat /\ x < len
    BY <2>1, <2>2, Numbers DEF RecvInv, SeamsInside
  <2> QED BY <1>2, <1>4, <2>3 DEF RB!After
<1>9. NoneLeft' /\ HangNeedsLong'
  BY <1>2, <1>3 DEF NoneLeft, HangNeedsLong
<1> QED BY <1>5, <1>7, <1>8, <1>9 DEF RecvInv

\* The ways out of RecvMsg's loop.
LEMMA LoopEndKeeps ==
  ASSUME RecvInv, RecvQueFull \/ Done \/ ReadNothing \/ UseClosed
  PROVE  RecvInv'
<1>1. /\ UNCHANGED <<mode, asked, stream, coming, buffered, seams>>
      /\ UNCHANGED <<finished, piled, lost, conn>>
      /\ doing' # "hung" /\ reading' \in {"no", "crashed"}
      /\ \/ refused' = refused
         \/ refused' = TRUE /\ mode = "MULTI"
  BY DEF RecvQueFull, Done, ReadNothing, UseClosed, InLoop, sendVars
<1>2. RecvTypeOK'
  <2>1. refused' \in BOOLEAN
    BY <1>1 DEF RecvInv, RecvTypeOK
  <2> QED BY <1>1, <2>1 DEF RecvInv, RecvTypeOK
<1>3. LostKnown'
  <2>1. Framed' = Framed
    BY <1>1 DEF Framed
  <2> QED BY <1>1, <2>1 DEF RecvInv, LostKnown
<1>4. SeamsInside' /\ HangNeedsLong'
  BY <1>1 DEF RecvInv, SeamsInside, TooLong, HangNeedsLong
<1>5. NoneLeft'
  <2>1. SUFFICES ASSUME ~refused, ~refused', conn # "closed", reading' = "no"
                 PROVE  ~WholeWaits
    BY <1>1 DEF NoneLeft, WholeWaits
  <2>2. ~piled /\ ~lost
    BY <2>1 DEF RecvInv, LostKnown
  <2>3. LenWord \in Nat \ {0} /\ MaxMsgLen \in Nat
    BY SessionAssumption
  <2>4. Done \/ ReadNothing
    BY <2>1 DEF RecvQueFull, UseClosed
  <2>5. CASE buffered < LenWord
    BY <2>3, <2>5, Numbers DEF WholeWaits
  <2>6. CASE buffered >= LenWord
    <3>1. /\ stream # <<>> /\ LengthRead = {Head(stream)}
          /\ Head(stream) \in Nat /\ Head(stream) >= LenWord
      BY <2>2, <2>6, ReadsLength, Numbers
    <3>2. ~ReadNothing
      BY <2>3, <3>1 DEF ReadNothing
    <3>3. ~HasRequest(Head(stream))
      BY <2>4, <2>6, <3>1, <3>2 DEF Done
    <3> QED BY <3>3 DEF HasRequest, WholeWaits
  <2> QED BY <2>3, <2>5, <2>6, Numbers
<1> QED BY <1>2, <1>3, <1>4, <1>5 DEF RecvInv

LEMMA FinishKeeps ==
  ASSUME RecvInv, Finish
  PROVE  RecvInv'
<1>1. /\ UNCHANGED <<mode, asked, stream, coming, buffered, seams, reading>>
      /\ UNCHANGED <<refused, piled, lost, doing, conn>>
      /\ finished' = TRUE
  BY DEF Finish, sendVars
<1>2. RecvTypeOK'
  BY <1>1 DEF RecvInv, RecvTypeOK
<1>3. LostKnown'
  <2>1. Framed' = Framed
    BY <1>1 DEF Framed
  <2> QED BY <1>1, <2>1 DEF RecvInv, LostKnown
<1>4. SeamsInside' /\ HangNeedsLong' /\ NoneLeft'
  BY <1>1 DEF RecvInv, SeamsInside, TooLong, HangNeedsLong, NoneLeft, WholeWaits
<1> QED BY <1>2, <1>3, <1>4 DEF RecvInv

-----------------------------------------------------------------------------
(* The two halves together.                                                 *)

SessionInv == SendInv /\ RecvInv /\ LoopLeft /\ CrashNeedsSingle

LEMMA InitInv == Init => SessionInv
<1>1. Init => SendInv /\ RecvInv
  BY SendInitInv, RecvInitInv DEF Init
<1>2. Init => LoopLeft /\ CrashNeedsSingle
  BY DEF Init, LoopLeft, CrashNeedsSingle
<1> QED BY <1>1, <1>2 DEF SessionInv

\* Which steps leave the loop that reads, or end it.
LEMMA LoopStep ==
  ASSUME SessionInv, SendInv', [Next]_vars
  PROVE  LoopLeft' /\ CrashNeedsSingle'
<1>1. written \in Nat
  BY Lengths DEF SessionInv, SendInv
<1>2. ASSUME UNCHANGED recvVars, written' = written,
             (doing' # "loop" \/ conn' = "closed") =>
               (doing # "loop" \/ conn = "closed") \/ reading = "no"
      PROVE LoopLeft' /\ CrashNeedsSingle'
  BY <1>2 DEF SessionInv, LoopLeft, CrashNeedsSingle, recvVars
<1>3. ASSUME NEW n \in Size, Write(n), UNCHANGED mode, reading' = reading,
             mode = "SINGLE" \/ reading = "no"
      PROVE LoopLeft' /\ CrashNeedsSingle'
  <2>1. written' > 0
    BY <1>3, WriteKeeps DEF SessionInv
  <2> QED BY <1>3, <2>1 DEF SessionInv, LoopLeft, CrashNeedsSingle
<1>4. ASSUME UNCHANGED sendVars, UNCHANGED mode, reading' = reading
      PROVE LoopLeft' /\ CrashNeedsSingle'
  BY <1>4 DEF SessionInv, LoopLeft, CrashNeedsSingle, sendVars
<1>5. ASSUME NEW n \in ReqLen, Ask(n) PROVE LoopLeft' /\ CrashNeedsSingle'
  BY <1>4, <1>5 DEF Ask
<1>6. CASE Finish
  BY <1>4, <1>6 DEF Finish
<1>7. CASE ClientReads \/ (PeerResets /\ UNCHANGED recvVars)
  BY <1>2, <1>7 DEF ClientReads, PeerReads, PeerResets
<1>8. CASE ReadFails \/ ReadSocket
  <2>1. /\ doing = "loop" /\ conn # "closed" /\ reading' \in {"no", "recv"}
        /\ UNCHANGED sendVars /\ UNCHANGED mode
    BY <1>8 DEF ReadFails, ReadSocket, Readable
  <2> QED BY <2>1 DEF LoopLeft, CrashNeedsSingle, sendVars
<1>9. ASSUME NEW n \in Size, SendMsg(n) PROVE LoopLeft' /\ CrashNeedsSingle'
  BY <1>3, <1>9 DEF SendMsg, recvVars
<1>10. CASE EndOfFile
  BY <1>10 DEF EndOfFile, Readable, LoopLeft, CrashNeedsSingle, recvVars
<1>11. CASE Handle
  <2>1. UNCHANGED mode /\ reading' = reading /\ Answer
    BY <1>11 DEF Handle
  <2> QED BY <1>3, <1>4, <2>1 DEF Answer
<1>12. CASE ReadHangs \/ Done \/ RecvQueFull \/ ReadNothing
  <2>1. reading' = "no"
    BY <1>12 DEF ReadHangs, Readable, recvVars, Done, RecvQueFull, ReadNothing
  <2> QED BY <2>1 DEF LoopLeft, CrashNeedsSingle
<1>13. CASE UseClosed
  <2>1. /\ reading = "recv" /\ conn = "closed" /\ reading' = "crashed"
        /\ UNCHANGED sendVars /\ UNCHANGED mode
    BY <1>13 DEF UseClosed
  <2> QED BY <2>1 DEF SessionInv, LoopLeft, CrashNeedsSingle, sendVars
<1>14. CASE SendStep /\ UNCHANGED recvVars
  <2>1. doing # "loop" /\ written' = written
    BY <1>14 DEF SendStep, StopWatcher, SendSome, KeepRest, AllSent, FlushSome,
                 FlushEnd, SendFails, Flushing, CloseConn
  <2> QED BY <1>2, <1>14, <2>1
<1>15. CASE reading = "no" /\ WriteCb /\ UNCHANGED recvVars
  BY <1>2, <1>15 DEF WriteCb
<1>16. CASE UNCHANGED vars
  BY <1>4, <1>16 DEF vars, recvVars
<1> QED
  <2>1. CASE Thread
    BY <1>8, <1>10, <1>11, <1>12, <1>13, <1>14, <1>15, <2>1 DEF Thread
  <2>2. CASE Next
    BY <1>5, <1>6, <1>7, <1>8, <1>9, <2>1, <2>2 DEF Next
  <2> QED BY <1>16, <2>2

LEMMA SessionStep == SessionInv /\ [Next]_vars => SessionInv'
<1> SUFFICES ASSUME SessionInv, [Next]_vars PROVE SessionInv'
  OBVIOUS
<1>1. SendInv /\ RecvInv
  BY DEF SessionInv
<1>2. SUFFICES SendInv' /\ RecvInv'
  BY <1>2, LoopStep DEF SessionInv
<1>3. ASSUME NEW n \in ReqLen, Ask(n) PROVE SendInv' /\ RecvInv'
  BY <1>1, <1>3, AskKeeps, SendVarsKeep DEF Ask
<1>4. CASE ReadFails \/ ReadSocket
  <2>1. UNCHANGED sendVars
    BY <1>4 DEF ReadFails, ReadSocket
  <2> QED BY <1>1, <1>4, <2>1, ReadKeeps, SendVarsKeep
<1>5. CASE ReadHangs
  BY <1>1, <1>5, ReadHangsKeeps, StopKeeps DEF ReadHangs, Readable
<1>6. CASE Finish
  BY <1>1, <1>6, FinishKeeps, SendVarsKeep DEF Finish
<1>7. CASE RecvQueFull \/ Done \/ ReadNothing \/ UseClosed
  <2>1. RecvInv'
    BY <1>1, <1>7, LoopEndKeeps
  <2>2. CASE RecvQueFull \/ Done \/ UseClosed
    BY <1>1, <2>1, <2>2, SendVarsKeep DEF RecvQueFull, Done, UseClosed
  <2>3. CASE ReadNothing
    BY <1>1, <2>1, <2>3, StopKeeps DEF ReadNothing, InLoop
  <2> QED BY <1>7, <2>2, <2>3
<1>8. CASE ClientReads
  <2>1. SendInv' /\ UNCHANGED recvVars /\ UNCHANGED <<doing, conn>>
    BY <1>1, <1>8, PeerReadsKeeps DEF ClientReads, PeerReads
  <2> QED BY <1>1, <2>1, RecvVarsKeep
<1>9. CASE \/ PeerResets /\ UNCHANGED recvVars
           \/ SendStep /\ UNCHANGED recvVars
           \/ reading = "no" /\ WriteCb /\ UNCHANGED recvVars
  <2>1. SendInv'
    BY <1>1, <1>9, SendStepKeeps
  <2>2. /\ doing' = "hung" => doing = "hung"
        /\ conn' # "closed" => conn # "closed"
    BY <1>9 DEF PeerResets, WriteCb, SendStep, StopWatcher, SendSome, KeepRest,
                AllSent, FlushSome, FlushEnd, SendFails, CloseConn
  <2> QED BY <1>1, <1>9, <2>1, <2>2, RecvVarsKeep
<1>10. ASSUME NEW n \in Size, SendMsg(n) PROVE SendInv' /\ RecvInv'
  <2>1. Write(n) /\ UNCHANGED recvVars
    BY <1>10 DEF SendMsg
  <2>2. doing' # "hung" /\ conn' = conn
    BY <2>1 DEF Write
  <2> QED BY <1>1, <2>1, <2>2, WriteKeeps, RecvVarsKeep
<1>11. CASE EndOfFile
  <2>1. CloseConn /\ UNCHANGED recvVars
    BY <1>11 DEF EndOfFile
  <2>2. doing' # "hung" /\ conn' = "closed"
    BY <2>1 DEF CloseConn
  <2> QED BY <1>1, <2>1, <2>2, CloseConnKeeps, RecvVarsKeep
<1>12. CASE Handle
  <2>1. Answer
    BY <1>12 DEF Handle
  <2>2. SendInv'
    BY <1>1, <2>1, WriteKeeps, SendVarsKeep DEF Answer
  <2> QED BY <1>1, <1>12, <2>2, HandleKeeps
<1>13. CASE UNCHANGED vars
  <2>1. UNCHANGED sendVars /\ UNCHANGED recvVars /\ UNCHANGED <<doing, conn>>
    BY <1>13 DEF vars, sendVars
  <2> QED BY <1>1, <2>1, SendVarsKeep, RecvVarsKeep
<1> QED
  <2>1. CASE Thread
    BY <1>4, <1>5, <1>7, <1>9, <1>11, <1>12, <2>1 DEF Thread
  <2>2. CASE Next
    BY <1>3, <1>4, <1>6, <1>8, <1>9, <1>10, <2>1, <2>2 DEF Next
  <2> QED BY <1>13, <2>2

LEMMA SessionInvariant == Spec => []SessionInv
<1>1. SessionInv /\ [Next]_vars => SessionInv'
  BY SessionStep
<1> QED BY <1>1, InitInv, PTL DEF Spec

(* What the kernel, the send buffer and a message in Write hold follow each *)
(* other, and a phase of Write finds the parts empty that it assumes empty; *)
(* only a reply written inside the loop that reads leaves that loop; blocks *)
(* end inside the request whose turn it is, unless recvQue refused one; and *)
(* GetBufferToWrite returns but for a long request.                         *)
THEOREM PiecesFollow == Spec => []IInv
<1>1. SessionInv => IInv
  BY DEF SessionInv, SendInv, RecvInv, RecvTypeOK, IInv, TypeOK
<1> QED BY <1>1, SessionInvariant, PTL

(* Requests are cut where they begin, however their bytes arrive and however *)
(* the blocks of the buffer end, unless in MULTI mode recvQue refused a      *)
(* request and the bytes behind it piled up until a block was closed.        *)
THEOREM CutsInFrame == Spec => []InFrame
<1>1. SessionInv => InFrame
  BY DEF SessionInv, RecvInv, LostKnown, InFrame
<1> QED BY <1>1, SessionInvariant, PTL

(* The peer gets every byte once and in the order of the writes, whatever   *)
(* send() takes and whatever waits in the send buffer.                      *)
THEOREM SentInOrder == Spec => []InOrder
<1>1. SessionInv => InOrder
  BY PiecesInOrder DEF SessionInv
<1> QED BY <1>1, SessionInvariant, PTL

(* Only SINGLE mode goes on with a connection that its own reply closed.    *)
THEOREM OnlySingleCrashes == Spec => []CrashNeedsSingle
<1>1. SessionInv => CrashNeedsSingle
  BY DEF SessionInv
<1> QED BY <1>1, SessionInvariant, PTL
=============================================================================
