------------------------------ MODULE Udp_proofs ------------------------------
(***************************************************************************)
(* The one buffer of a UDP port mixes nobody's requests up: for any number *)
(* of clients, of datagrams and of bytes in them.                          *)
(***************************************************************************)
EXTENDS Udp, SequenceTheorems, TLAPS

Byte == 0 .. Base - 1

(* An address and a port come back as they were packed.                    *)
LEMMA DivMod ==
  ASSUME NEW h \in Nat, NEW q \in Nat, NEW r \in 0 .. h - 1
  PROVE  (q * h + r) \div h = q /\ (q * h + r) % h = r
  OBVIOUS

LEMMA Packing ==
  ASSUME NEW c \in Client
  PROVE  Pack(c) \in Remote /\ Unpack(Pack(c)) = c
<1>1. c \in Nat \X (0 .. Half - 1) /\ Half \in Nat
  BY UdpAssumption
<1>2. c = <<c[1], c[2]>> /\ c[1] \in Nat /\ c[2] \in 0 .. Half - 1
  BY <1>1
<1> QED BY <1>1, <1>2, DivMod DEF Pack, Unpack, Remote

LEMMA Cutting ==
  ASSUME NEW s \in Seq(Byte), NEW n \in 0 .. Len(s)
  PROVE  /\ Take(s, n) \in Seq(Byte) /\ Len(Take(s, n)) = n
         /\ \A i \in 1 .. n : Take(s, n)[i] = s[i]
         /\ Rest(s, n) \in Seq(Byte) /\ Len(Rest(s, n)) = Len(s) - n
         /\ \A i \in 1 .. Len(s) - n : Rest(s, n)[i] = s[n + i]
<1>1. Len(s) \in Nat /\ \A i \in 1 .. Len(s) : s[i] \in Byte
  BY LenProperties
<1>2. \A i \in 1 .. n : s[i] \in Byte
  BY <1>1
<1>3. \A i \in n + 1 .. Len(s) : s[i] \in Byte
  BY <1>1
<1> HIDE DEF Byte
<1>4. /\ Take(s, n) \in Seq(Byte)
      /\ Len(Take(s, n)) = IF 1 <= n THEN n - 1 + 1 ELSE 0
      /\ \A i \in 1 .. n - 1 + 1 : Take(s, n)[i] = s[1 + i - 1]
  BY <1>2, SubSeqProperties DEF Take
<1>5. /\ Rest(s, n) \in Seq(Byte)
      /\ Len(Rest(s, n)) = IF n + 1 <= Len(s) THEN Len(s) - (n + 1) + 1 ELSE 0
      /\ \A i \in 1 .. Len(s) - (n + 1) + 1 : Rest(s, n)[i] = s[n + 1 + i - 1]
  BY <1>1, <1>3, SubSeqProperties DEF Rest
<1> QED BY <1>1, <1>4, <1>5

LEMMA ClaimsNat ==
  ASSUME NEW s \in Seq(Byte), Len(s) >= 2
  PROVE  Claims(s) \in Nat
<1>1. 1 \in 1 .. Len(s) /\ 2 \in 1 .. Len(s)
  BY LenProperties
<1>2. s[1] \in Byte /\ s[2] \in Byte
  BY <1>1
<1>3. s[1] \in Nat /\ s[2] \in Nat /\ Base \in Nat
  BY <1>2, UdpAssumption DEF Byte
<1>4. \A x, y \in Nat : x * y \in Nat
  OBVIOUS
<1>5. s[1] * Base \in Nat
  BY <1>3, <1>4
<1> QED BY <1>3, <1>5 DEF Claims

(* What recvUdpMsg does with whole requests: it cuts one, and what is left *)
(* has one less.                                                           *)
LEMMA WholeRequests ==
  ASSUME NEW s \in Seq(Byte), Requests(s) > 0
  PROVE  /\ Len(s) >= 2 /\ Claims(s) \in 2 .. Len(s) /\ Claims(s) <= MaxMsgLen
         /\ Rest(s, Claims(s)) = <<>> \/ Requests(Rest(s, Claims(s))) > 0
         /\ Requests(Rest(s, Claims(s))) = Requests(s) - 1
<1>1. Len(s) \in Nat /\ MaxMsgLen \in Nat
  BY LenProperties, UdpAssumption
<1>2. Requests(<<>>) = 0
  BY DEF Requests, Whole
<1>3. CASE Whole(s)
  <2>1. Len(s) >= 2 /\ Claims(s) = Len(s) /\ Len(s) <= MaxMsgLen /\ Requests(s) = 1
    BY <1>3 DEF Whole, Requests
  <2>2. Rest(s, Len(s)) = <<>>
    BY <1>1, SubSeqEmpty DEF Rest
  <2>3. Rest(s, Claims(s)) = <<>>
    BY <2>1, <2>2
  <2>4. Requests(Rest(s, Claims(s))) = 0
    BY <1>2, <2>3
  <2> QED BY <1>1, <2>1, <2>3, <2>4
<1>4. CASE ~Whole(s)
  <2>1. PICK n \in 2 .. Len(s) : Whole(Take(s, n)) /\ Whole(Rest(s, n))
    BY <1>4 DEF Requests
  <2>2. Requests(s) = 2
    BY <1>4, <2>1 DEF Requests
  <2>3. /\ Len(Take(s, n)) = n /\ Take(s, n)[1] = s[1] /\ Take(s, n)[2] = s[2]
        /\ Len(s) >= 2
    <3>1. n \in 0 .. Len(s) /\ 1 \in 1 .. n /\ 2 \in 1 .. n /\ Len(s) >= 2
      BY <1>1, <2>1
    <3> QED BY <3>1, Cutting
  <2>4. Claims(s) = n /\ n <= MaxMsgLen
    BY <2>1, <2>3 DEF Whole, Claims
  <2>5. Requests(Rest(s, n)) = 1
    BY <2>1 DEF Requests
  <2> QED BY <1>1, <2>2, <2>3, <2>4, <2>5
<1> QED BY <1>3, <1>4

-----------------------------------------------------------------------------
UdpInv == IInv /\ EachItsOwn

LEMMA InitInv == Init => UdpInv
<1> SUFFICES ASSUME Init PROVE UdpInv
  OBVIOUS
<1>1. remote \in Remote
  <2>1. \E c : c \in Client
    BY UdpAssumption
  <2>2. Remote # {}
    BY <2>1 DEF Remote
  <2> QED BY <2>2 DEF Init
<1>2. TypeOK
  <2>1. /\ waiting \in [Remote -> Nat] /\ asked \in [Client -> Nat]
        /\ answered \in [Client -> Nat] /\ dropped \in [Client -> Nat]
    BY DEF Init
  <2>2. buffer \in Seq(0 .. Base - 1) /\ reads \in 0 .. MaxGram
    BY UdpAssumption DEF Init
  <2>3. fatal \in BOOLEAN /\ sound \in BOOLEAN
    BY DEF Init
  <2>4. mode \in {"SINGLE", "MULTI"} /\ doing \in {"loop", "recv", "aborted", "wild"}
    BY DEF Init
  <2> QED BY <1>1, <2>1, <2>2, <2>3, <2>4 DEF TypeOK
<1>3. CutWhole /\ NoneFatal
  BY DEF Init, CutWhole, NoneFatal
<1>4. EachItsOwn
  BY Packing DEF Init, EachItsOwn
<1> QED BY <1>2, <1>3, <1>4 DEF UdpInv, IInv

LEMMA TypeStep ==
  ASSUME TypeOK, [Next]_vars
  PROVE  TypeOK'
<1> USE DEF TypeOK
<1>1. ASSUME NEW c \in Client, NEW p \in Payload, Receive(c, p) PROVE TypeOK'
  <2>1. buffer' \in Seq(0 .. Base - 1)
    BY <1>1, UdpAssumption, ConcatProperties DEF Receive
  <2>2. Requests(p) \in Nat
    BY DEF Requests
  <2>3. reads' \in 0 .. MaxGram
    BY <1>1, UdpAssumption DEF Receive
  <2> QED BY <1>1, <2>1, <2>2, <2>3, Packing DEF Receive
<1>2. CASE ReceiveFails
  <2>1. buffer' \in Seq(0 .. Base - 1)
    <3>1. CASE buffer # <<>>
      <4>1. Len(buffer) - 1 \in 0 .. Len(buffer)
        BY <3>1, EmptySeq
      <4> QED BY <1>2, <3>1, <4>1, Cutting DEF ReceiveFails, Byte
    <3> QED BY <1>2, <3>1 DEF ReceiveFails
  <2>2. reads' \in 0 .. MaxGram
    BY <1>2, UdpAssumption DEF ReceiveFails
  <2> QED BY <1>2, <2>1, <2>2 DEF ReceiveFails
<1>3. CASE Handle
  <2>1. Claims(buffer) \in 0 .. Len(buffer)
    BY <1>3, ClaimsNat, LenProperties DEF Handle, HasRequest, Byte
  <2>2. buffer' \in Seq(0 .. Base - 1)
    BY <1>3, <2>1, Cutting DEF Handle, Byte
  <2>3. fatal' \in BOOLEAN /\ sound' \in BOOLEAN
    BY <1>3 DEF Handle
  <2> QED BY <1>3, <2>2, <2>3 DEF Handle
<1>4. CASE ReadNothing \/ QueueFull \/ Done \/ WorkerAborts
  BY <1>4 DEF ReadNothing, QueueFull, Done, WorkerAborts
<1>5. ASSUME NEW r \in Remote, Reply(r) \/ NoReply(r) PROVE TypeOK'
  <2>1. UNCHANGED <<mode, reads, buffer, remote, doing, asked, fatal, sound>>
    BY <1>5 DEF Reply, NoReply
  <2>2. waiting[r] > 0 /\ waiting' = [waiting EXCEPT ![r] = @ - 1]
    BY <1>5 DEF Reply, NoReply
  <2>3. waiting' \in [Remote -> Nat]
    BY <2>2
  <2>4. CASE Reply(r)
    <3>1. answered' \in [Client -> Nat] /\ dropped' = dropped
      BY <2>4 DEF Reply
    <3> QED BY <2>1, <2>3, <3>1
  <2>5. CASE NoReply(r)
    <3>1. dropped' \in [Client -> Nat] /\ answered' = answered
      BY <2>5 DEF NoReply
    <3> QED BY <2>1, <2>3, <3>1
  <2> QED BY <1>5, <2>4, <2>5
<1>6. CASE UNCHANGED vars
  BY <1>6 DEF vars
<1> QED BY <1>1, <1>2, <1>3, <1>4, <1>5, <1>6 DEF Next, RecvMsg, Answers

LEMMA UdpStep ==
  ASSUME UdpInv, [Next]_vars
  PROVE  UdpInv'
<1>1. TypeOK /\ TypeOK'
  BY TypeStep DEF UdpInv, IInv
<1>2. SUFFICES ASSUME sound' PROVE CutWhole' /\ NoneFatal' /\ EachItsOwn'
  BY <1>1 DEF UdpInv, IInv, CutWhole, NoneFatal, EachItsOwn
<1>a. NoneFatal' /\ ~WorkerAborts
  <2>1. sound => ~fatal
    BY DEF UdpInv, IInv, NoneFatal
  <2>2. fatal' => fatal \/ ~sound'
    BY DEF Next, Receive, ReceiveFails, QueueFull, RecvMsg, ReadNothing, Handle,
           Done, Answers, Reply, NoReply, WorkerAborts, vars
  <2>3. sound' => sound
    BY DEF Next, Receive, ReceiveFails, QueueFull, RecvMsg, ReadNothing, Handle,
           Done, Answers, Reply, NoReply, WorkerAborts, vars
  <2> QED BY <1>2, <2>1, <2>2, <2>3 DEF NoneFatal, WorkerAborts
<1> DEFINE Due(c) == waiting[Pack(c)] + answered[c] + dropped[c]
                     + (IF doing = "recv" /\ remote = Pack(c) THEN Requests(buffer) ELSE 0)
           Goal == /\ doing' \in {"loop", "recv"}
                   /\ doing' = "loop" => buffer' = <<>>
                   /\ doing' = "recv" => buffer' = <<>> \/ Requests(buffer') > 0
                   /\ \A c \in Client : asked'[c] = Due(c)'
<1>3. SUFFICES Goal
  BY <1>a DEF CutWhole, EachItsOwn
<1>4. ASSUME sound
      PROVE  /\ doing \in {"loop", "recv"}
             /\ doing = "loop" => buffer = <<>>
             /\ doing = "recv" => buffer = <<>> \/ Requests(buffer) > 0
             /\ \A c \in Client : asked[c] = Due(c)
  BY <1>4 DEF UdpInv, IInv, CutWhole, EachItsOwn
<1>5. /\ buffer \in Seq(Byte) /\ remote \in Remote
      /\ waiting \in [Remote -> Nat]
      /\ asked \in [Client -> Nat] /\ answered \in [Client -> Nat]
      /\ dropped \in [Client -> Nat]
  BY <1>1 DEF TypeOK, Byte
<1>6. \A c \in Client : /\ Pack(c) \in Remote /\ Unpack(Pack(c)) = c
                        /\ waiting[Pack(c)] \in Nat /\ asked[c] \in Nat
                        /\ answered[c] \in Nat /\ dropped[c] \in Nat
  BY <1>5, Packing
<1>7. \A s : Requests(s) \in {0, 1, 2}
  BY DEF Requests
<1>8. Requests(<<>>) = 0
  BY DEF Requests, Whole
<1>9. ASSUME NEW c \in Client, NEW p \in Payload, Receive(c, p) PROVE Goal
  <2>1. sound /\ doing = "loop" /\ buffer = <<>> /\ Requests(p) > 0
    BY <1>2, <1>4, <1>7, <1>9 DEF Receive
  <2>2. buffer' = p
    <3>1. p \in Seq(Byte)
      BY UdpAssumption DEF Byte
    <3> QED BY <1>9, <2>1, <3>1, ConcatEmptySeq DEF Receive
  <2>3. /\ remote' = Pack(c) /\ doing' = "recv"
        /\ UNCHANGED <<waiting, answered, dropped>>
        /\ asked' = [asked EXCEPT ![c] = @ + Requests(p)]
    BY <1>9 DEF Receive
  <2>4. ASSUME NEW d \in Client PROVE asked'[d] = Due(d)'
    <3>1. asked[d] = waiting[Pack(d)] + answered[d] + dropped[d]
      BY <1>4, <1>6, <2>1
    <3>2. CASE d = c
      <4>1. asked'[d] = asked[d] + Requests(p)
        BY <1>5, <2>3, <3>2
      <4> QED BY <1>6, <1>7, <2>2, <2>3, <3>1, <3>2, <4>1
    <3>3. CASE d # c
      <4>1. asked'[d] = asked[d] /\ Pack(d) # Pack(c)
        BY <1>5, <1>6, <2>3, <3>3
      <4> QED BY <1>6, <2>3, <3>1, <4>1
    <3> QED BY <3>2, <3>3
  <2> QED BY <2>1, <2>2, <2>3, <2>4
<1>10. CASE ReceiveFails \/ QueueFull
  BY <1>2, <1>10 DEF ReceiveFails, QueueFull
<1>11. CASE Handle
  <2>1. sound /\ doing = "recv" /\ Len(buffer) >= 2
    BY <1>2, <1>11 DEF Handle, HasRequest
  <2>2. Requests(buffer) > 0
    BY <1>4, <2>1, EmptySeq
  <2>3. /\ buffer' = Rest(buffer, Claims(buffer))
        /\ buffer' = <<>> \/ Requests(buffer') > 0
        /\ Requests(buffer') = Requests(buffer) - 1
    BY <1>5, <1>11, <2>2, WholeRequests DEF Handle
  <2>4. /\ waiting' = [waiting EXCEPT ![remote] = @ + 1]
        /\ UNCHANGED <<remote, doing, asked, answered, dropped>>
    BY <1>11 DEF Handle
  <2>5. ASSUME NEW d \in Client PROVE asked'[d] = Due(d)'
    <3>1. CASE remote = Pack(d)
      <4>1. waiting'[Pack(d)] = waiting[Pack(d)] + 1
        BY <1>5, <1>6, <2>4, <3>1
      <4>2. asked[d] = waiting[Pack(d)] + answered[d] + dropped[d]
                       + Requests(buffer)
        BY <1>4, <2>1, <3>1
      <4>3. Due(d)' = waiting'[Pack(d)] + answered[d] + dropped[d]
                    + Requests(buffer')
        BY <2>1, <2>4, <3>1
      <4>4. /\ waiting[Pack(d)] \in Nat /\ answered[d] \in Nat /\ dropped[d] \in Nat
            /\ Requests(buffer) \in {0, 1, 2}
        BY <1>6, <1>7
      <4> QED BY <2>3, <2>4, <4>1, <4>2, <4>3, <4>4
    <3>2. CASE remote # Pack(d)
      <4>1. waiting'[Pack(d)] = waiting[Pack(d)]
        BY <1>5, <1>6, <2>4, <3>2
      <4> QED BY <1>4, <1>6, <2>1, <2>4, <3>2, <4>1
    <3> QED BY <3>1, <3>2
  <2> QED BY <2>1, <2>3, <2>4, <2>5
<1>12. CASE ReadNothing \/ Done
  <2>1. sound /\ doing = "recv" /\ UNCHANGED <<buffer, remote, waiting, asked, answered, dropped>>
    BY <1>2, <1>12 DEF ReadNothing, Done
  <2>2. CASE buffer = <<>>
    <3>1. ~HasRequest
      BY <2>2, EmptySeq DEF HasRequest
    <3>2. doing' = "loop"
      BY <1>12, <3>1 DEF ReadNothing, Done
    <3>3. ASSUME NEW d \in Client PROVE asked'[d] = Due(d)'
      <4>1. asked[d] = waiting[Pack(d)] + answered[d] + dropped[d]
        BY <1>4, <1>6, <1>8, <2>1, <2>2
      <4> QED BY <1>6, <2>1, <3>2, <4>1
    <3> QED BY <2>1, <2>2, <3>2, <3>3
  <2>3. CASE Requests(buffer) > 0
    <3>1. /\ Len(buffer) >= 2 /\ Claims(buffer) \in 2 .. Len(buffer)
          /\ Claims(buffer) <= MaxMsgLen
      BY <1>5, <2>3, WholeRequests
    <3> QED BY <1>5, <1>12, <3>1, LenProperties DEF ReadNothing, Done, HasRequest
  <2> QED BY <1>4, <2>1, <2>2, <2>3
<1>13. ASSUME NEW r \in Remote, Reply(r) \/ NoReply(r) PROVE Goal
  <2>1. PICK c \in Client : r = Pack(c)
    BY DEF Remote
  <2>2. /\ sound /\ UNCHANGED <<doing, buffer, remote, asked>>
        /\ waiting[r] > 0 /\ waiting' = [waiting EXCEPT ![r] = @ - 1]
        /\ \/ /\ answered' = [d \in Client |-> IF d = c THEN answered[d] + 1
                                                         ELSE answered[d]]
              /\ dropped' = dropped
           \/ /\ dropped' = [d \in Client |-> IF d = c THEN dropped[d] + 1
                                                        ELSE dropped[d]]
              /\ answered' = answered
    BY <1>2, <1>6, <1>13, <2>1 DEF Reply, NoReply
  <2>3. ASSUME NEW d \in Client PROVE asked'[d] = Due(d)'
    <3>1. CASE d = c
      <4>1. /\ waiting'[Pack(d)] = waiting[Pack(d)] - 1
            /\ \/ answered'[d] = answered[d] + 1 /\ dropped'[d] = dropped[d]
               \/ answered'[d] = answered[d] /\ dropped'[d] = dropped[d] + 1
        BY <1>5, <1>6, <2>1, <2>2, <3>1
      <4> DEFINE e == IF doing = "recv" /\ remote = Pack(d) THEN Requests(buffer) ELSE 0
      <4>2. e \in Int /\ e' = e
        BY <1>7, <2>2
      <4>3. /\ asked[d] = waiting[Pack(d)] + answered[d] + dropped[d] + e
            /\ asked'[d] = asked[d]
        BY <1>4, <2>2
      <4>4. Due(d)' = waiting'[Pack(d)] + answered'[d] + dropped'[d] + e'
        OBVIOUS
      <4> HIDE DEF e, Due
      <4> QED BY <1>6, <4>1, <4>2, <4>3, <4>4
    <3>2. CASE d # c
      <4>1. /\ waiting'[Pack(d)] = waiting[Pack(d)]
            /\ answered'[d] = answered[d] /\ dropped'[d] = dropped[d]
        BY <1>5, <1>6, <2>1, <2>2, <3>2
      <4> QED BY <1>4, <2>2, <4>1
    <3> QED BY <3>1, <3>2
  <2> QED BY <1>4, <2>2, <2>3
<1>14. CASE UNCHANGED vars
  BY <1>2, <1>4, <1>14 DEF vars
<1> QED
  BY <1>a, <1>9, <1>10, <1>11, <1>12, <1>13, <1>14 DEF UdpInv, Next, RecvMsg, Answers

LEMMA UdpInvariant == Spec => []UdpInv
<1>1. UdpInv /\ [Next]_vars => UdpInv'
  BY UdpStep
<1> QED BY <1>1, InitInv, PTL DEF Spec

(* Until something else than whole requests is met, no bytes wait in the    *)
(* buffer for the next datagram and it is cut where requests begin.         *)
THEOREM CutsWhole == Spec => []IInv
<1>1. UdpInv => IInv
  BY DEF UdpInv
<1> QED BY <1>1, UdpInvariant, PTL

(* Every request read from a client is waiting, answered exactly once or     *)
(* ended without a reply, as that client's, whatever the network loses,      *)
(* repeats or reorders.                                                      *)
THEOREM OwnAnswers == Spec => []EachItsOwn
<1>1. UdpInv => EachItsOwn
  BY DEF UdpInv
<1> QED BY <1>1, UdpInvariant, PTL
=============================================================================
