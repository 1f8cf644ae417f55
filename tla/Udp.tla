---------------------------------- MODULE Udp ----------------------------------
(***************************************************************************)
(* A bound UDP port: one descriptor and one receive buffer for all         *)
(* clients.  recvUdpData appends each datagram to the buffer, recvUdpMsg   *)
(* cuts requests out of it as if it were a stream; a request belongs to    *)
(* the remote whose datagram is read when it is cut.                       *)
(*                                                                         *)
(* The network loses, repeats and reorders datagrams, and clients send any *)
(* at any time: the server may read any sequence of them.  A request is    *)
(* two bytes that say its whole length, and the rest.  A byte is a number, *)
(* so that what is cut at the wrong place is read as the code reads it.    *)
(* The buffer stays within one block.  A reply for which sendto fails is   *)
(* gone like one the network loses: sendlen is unsigned, never negative.   *)
(***************************************************************************)
EXTENDS Integers, Sequences

CONSTANTS
  Client,      \* remotes: <<address, port>>
  Half,        \* 2^32, the place of the address in a remote
  Base,        \* values of a byte
  Payload,     \* what a datagram may hold
  MaxMsgLen,   \* max_msglen
  HeadLen,     \* bytes of a block's header in recvQue
  MaxGram      \* bound: calls of recvfrom

ASSUME UdpAssumption ==
  /\ Half \in Nat /\ Base \in Nat /\ MaxMsgLen \in Nat /\ MaxGram \in Nat
  /\ HeadLen \in Nat
  /\ Client \subseteq Nat \X (0 .. Half - 1) /\ Client # {}
  /\ Payload \subseteq Seq(0 .. Base - 1)

VARIABLES
  mode,      \* modeType_
  reads,     \* number of calls of recvfrom
  buffer,    \* recvBuffer_
  remote,    \* rmtaddr of the datagram RecvMsg was called for
  doing,     \* where the network thread is
  waiting,   \* for each remote, its requests that are not done with
  asked,     \* for each client, the requests it has had read
  answered,  \* for each client, the replies sent to it
  dropped,   \* for each client, its requests that ended without a reply
  fatal,     \* the workers have a request that fails their assertion
  sound      \* only whole requests were read, each was taken, and none is fatal

vars == <<mode, reads, buffer, remote, doing, waiting, asked, answered, dropped,
          fatal, sound>>

Take(s, n) == SubSeq(s, 1, n)
Rest(s, n) == SubSeq(s, n + 1, Len(s))

\* Mutant of Pack: the port is left out.
PackAddress(c) == c[1] * Half

\* rmtaddr, and what sendUdpData makes of it.
Pack(c) == c[1] * Half + c[2]
Unpack(r) == <<r \div Half, r % Half>>

Remote == {Pack(c) : c \in Client}

Claims(s) == s[1] * Base + s[2]

\* A datagram of one request, or of two.
Whole(p) == Len(p) >= 2 /\ Claims(p) = Len(p) /\ Len(p) <= MaxMsgLen
Requests(p) ==
  IF Whole(p) THEN 1
  ELSE IF \E n \in 2 .. Len(p) : Whole(Take(p, n)) /\ Whole(Rest(p, n)) THEN 2
  ELSE 0

Init == /\ mode \in {"SINGLE", "MULTI"}
        /\ reads = 0
        /\ buffer = <<>>
        /\ remote = CHOOSE r \in Remote : TRUE
        /\ doing = "loop"
        /\ waiting = [r \in Remote |-> 0]
        /\ asked = [c \in Client |-> 0]
        /\ answered = [c \in Client |-> 0]
        /\ dropped = [c \in Client |-> 0]
        /\ fatal = FALSE /\ sound = TRUE

-----------------------------------------------------------------------------
(* recvUdpData.                                                            *)

\* A datagram of c's is read.
Receive(c, p) ==
  /\ doing = "loop" /\ reads < MaxGram
  /\ reads' = reads + 1
  /\ buffer' = buffer \o p
  /\ remote' = Pack(c)
  /\ asked' = [asked EXCEPT ![c] = @ + Requests(p)]
  /\ sound' = (sound /\ Requests(p) > 0)
  /\ doing' = "recv"
  /\ UNCHANGED <<mode, waiting, answered, dropped, fatal>>

\* recvfrom fails: FinishBufferWrite(-1) takes a byte back, and RecvMsg is
\* called with an address nobody has set.  In an empty buffer that puts the
\* write position before the read position.
ReceiveFails ==
  /\ doing = "loop" /\ reads < MaxGram
  /\ reads' = reads + 1
  /\ IF buffer = <<>>
     THEN doing' = "wild" /\ UNCHANGED buffer
     ELSE doing' = "recv" /\ buffer' = Take(buffer, Len(buffer) - 1)
  /\ remote' \in Remote
  /\ sound' = FALSE
  /\ UNCHANGED <<mode, waiting, asked, answered, dropped, fatal>>

-----------------------------------------------------------------------------
(* RecvMsg's loop and recvUdpMsg.                                          *)

HasRequest == /\ Len(buffer) >= 2
              /\ Claims(buffer) <= MaxMsgLen
              /\ Claims(buffer) <= Len(buffer)

\* Read's assertion: a request of no bytes.
ReadNothing ==
  /\ doing = "recv" /\ HasRequest /\ Claims(buffer) = 0
  /\ doing' = "aborted"
  /\ UNCHANGED <<mode, reads, buffer, remote, waiting, asked, answered, dropped,
                 fatal, sound>>

\* Mutant of Handle: one request for each datagram.
HandleOne ==
  /\ doing = "recv" /\ HasRequest /\ Claims(buffer) > 0
  /\ buffer' = Rest(buffer, Claims(buffer))
  /\ waiting' = [waiting EXCEPT ![remote] = @ + 1]
  /\ doing' = "loop"
  /\ UNCHANGED <<mode, reads, remote, asked, answered, dropped, fatal, sound>>

\* A worker compares max_msglen with the request and its header.
FailsWorker(n) == mode = "MULTI" /\ n + HeadLen > MaxMsgLen

\* The request goes to the service, or into the workers' queue.
Handle ==
  /\ doing = "recv" /\ HasRequest /\ Claims(buffer) > 0
  /\ buffer' = Rest(buffer, Claims(buffer))
  /\ waiting' = [waiting EXCEPT ![remote] = @ + 1]
  /\ fatal' = (fatal \/ FailsWorker(Claims(buffer)))
  /\ sound' = (sound /\ ~FailsWorker(Claims(buffer)))
  /\ UNCHANGED <<mode, reads, remote, doing, asked, answered, dropped>>

\* BufferForPush gives no room.  The request stays, for the next datagram's
\* remote.
QueueFull ==
  /\ doing = "recv" /\ mode = "MULTI" /\ HasRequest
  /\ doing' = "loop"
  /\ sound' = FALSE
  /\ UNCHANGED <<mode, reads, buffer, remote, waiting, asked, answered, dropped,
                 fatal>>

Done ==
  /\ doing = "recv" /\ ~HasRequest
  /\ doing' = "loop"
  /\ UNCHANGED <<mode, reads, buffer, remote, waiting, asked, answered, dropped,
                 fatal, sound>>

-----------------------------------------------------------------------------
\* Mutant of Reply: the service answers what it was not asked.
ReplyUnasked(r) ==
  /\ doing # "aborted"
  /\ waiting' = [waiting EXCEPT ![r] = @ - 1]
  /\ answered' = [c \in Client |-> IF c = Unpack(r) THEN answered[c] + 1
                                                    ELSE answered[c]]
  /\ UNCHANGED <<mode, reads, buffer, remote, doing, asked, dropped, fatal, sound>>

\* sendUdpData, with the remote the request came with: the service answers
\* inside Handle or any time later, the workers in any order.
Reply(r) ==
  /\ doing # "aborted" /\ waiting[r] > 0
  /\ waiting' = [waiting EXCEPT ![r] = @ - 1]
  /\ answered' = [c \in Client |-> IF c = Unpack(r) THEN answered[c] + 1
                                                    ELSE answered[c]]
  /\ UNCHANGED <<mode, reads, buffer, remote, doing, asked, dropped, fatal, sound>>

\* The request ends without a reply: the rpc cannot decode it, the service has
\* nothing to say or an answer that cannot be encoded, or, in MULTI mode, the
\* reply finds sendQue full.
NoReply(r) ==
  /\ doing # "aborted" /\ waiting[r] > 0
  /\ waiting' = [waiting EXCEPT ![r] = @ - 1]
  /\ dropped' = [c \in Client |-> IF c = Unpack(r) THEN dropped[c] + 1
                                                   ELSE dropped[c]]
  /\ UNCHANGED <<mode, reads, buffer, remote, doing, asked, answered, fatal, sound>>

\* The worker that takes the fatal request ends the process.
WorkerAborts ==
  /\ fatal /\ doing \in {"loop", "recv"}
  /\ doing' = "aborted"
  /\ UNCHANGED <<mode, reads, buffer, remote, waiting, asked, answered, dropped,
                 fatal, sound>>

-----------------------------------------------------------------------------
RecvMsg == ReadNothing \/ Handle \/ Done
Answers == \E r \in Remote : Reply(r) \/ NoReply(r)

Next == \/ \E c \in Client, p \in Payload : Receive(c, p)
        \/ ReceiveFails \/ QueueFull
        \/ RecvMsg
        \/ Answers \/ WorkerAborts

\* The thread ends the loop it is in, and a request that was taken is done with
\* some time, with a reply or without.  Nothing is assumed of the network.
Spec == Init /\ [][Next]_vars /\ WF_vars(RecvMsg) /\ WF_vars(Answers)

-----------------------------------------------------------------------------
(* Properties.                                                             *)

TypeOK ==
  /\ mode \in {"SINGLE", "MULTI"}
  /\ reads \in 0 .. MaxGram
  /\ buffer \in Seq(0 .. Base - 1)
  /\ remote \in Remote
  /\ doing \in {"loop", "recv", "aborted", "wild"}
  /\ waiting \in [Remote -> Nat]
  /\ asked \in [Client -> Nat] /\ answered \in [Client -> Nat]
  /\ dropped \in [Client -> Nat]
  /\ fatal \in BOOLEAN /\ sound \in BOOLEAN

\* Until something else than whole requests has been met, nothing waits in the
\* buffer from one datagram to the next, and it is always cut at a request:
\* with this EachItsOwn is inductive.
CutWhole ==
  sound => /\ doing = "loop" => buffer = <<>>
           /\ doing = "recv" => buffer = <<>> \/ Requests(buffer) > 0

\* The assertion of a worker is not met before that.
NoneFatal == sound => ~fatal

IInv == TypeOK /\ CutWhole /\ NoneFatal

\* As long as clients send whole requests, in MULTI mode none within a header of
\* max_msglen, recvfrom works and recvQue has room, every request read is waiting,
\* was answered exactly once, or ended without a reply, and under the remote that
\* sent it: recvUdpMsg's one buffer mixes nobody's requests up, whatever the
\* network loses, repeats or reorders.  No request is left for the next datagram,
\* and none fails an assertion.
EachItsOwn ==
  sound =>
    /\ doing \in {"loop", "recv"}
    /\ \A c \in Client :
         asked[c] = waiting[Pack(c)] + answered[c] + dropped[c]
                    + (IF doing = "recv" /\ remote = Pack(c)
                       THEN Requests(buffer) ELSE 0)

\* Every request read is taken out of the buffer and done with, and its own client
\* was sent the reply if there is one, under the same conditions: no request waits
\* for a datagram that may never come.
EveryRequestEnds ==
  \A c \in Client, n \in 1 .. MaxGram :
    asked[c] >= n ~> answered[c] + dropped[c] >= n \/ ~sound
=============================================================================
