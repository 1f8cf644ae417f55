-------------------------------- MODULE Session --------------------------------
(***************************************************************************)
(* One TCP connection from the client's request to the bytes of its reply: *)
(* recvTcpData reads what has arrived into the receive buffer, RecvMsg     *)
(* cuts requests out of it, the service's reply goes out through           *)
(* BufferEvent.  A request is LenWord bytes that say its whole length, and *)
(* the rest.  The bytes come in the order sent (ByteQueue), so the buffer  *)
(* is a number of bytes, its seams (RecvBuffer), and a list of the         *)
(* requests the bytes belong to.                                           *)
(*                                                                         *)
(* In SINGLE mode the reply is written inside the loop that reads; in      *)
(* MULTI mode the workers' replies are written when that loop is over, and *)
(* a request may find recvQue full.                                        *)
(***************************************************************************)
EXTENDS BufferEvent

CONSTANTS
  LenWord,       \* bytes of the length word
  CopySize,      \* COPY_BLOCK_SIZE
  MaxMsgLen,     \* max_msglen
  ReqLen,        \* lengths of the requests a client sends
  MaxReq         \* bound: requests sent on the connection

ASSUME SessionAssumption ==
  /\ LenWord \in Nat \ {0} /\ MaxMsgLen \in Nat /\ MaxReq \in Nat
  /\ CopySize \in Nat /\ LenWord <= CopySize
  /\ ReqLen \subseteq Nat /\ \A n \in ReqLen : n >= LenWord

VARIABLES
  mode,       \* modeType_
  asked,      \* number of requests the client has begun to send
  stream,     \* lengths of those not handled yet, oldest first
  coming,     \* bytes of them that are not read yet: with the client or in the socket
  buffered,   \* bytes in recvBuffer_
  seams,      \* where its blocks end
  finished,   \* the client has shut the connection down
  reading,    \* is the network thread in RecvMsg?
  refused,    \* history: recvQue was full for a request
  piled,      \* history: ... and a block was closed while that request waited
  lost        \* history: a cut took a number of bytes that is no request's

recvVars == <<mode, asked, stream, coming, buffered, seams,
              finished, reading, refused, piled, lost>>
vars == <<sendVars, recvVars>>

RB == INSTANCE RecvBuffer WITH unread <- buffered, hung <- doing = "hung"

handled == asked - Len(stream)

Init == /\ SendInit
        /\ mode \in {"SINGLE", "MULTI"}
        /\ asked = 0 /\ stream = <<>> /\ coming = 0 /\ finished = FALSE
        /\ buffered = 0 /\ seams = {}
        /\ reading = "no"
        /\ refused = FALSE /\ piled = FALSE /\ lost = FALSE

-----------------------------------------------------------------------------
(* The client.                                                             *)

Ask(n) ==
  /\ asked < MaxReq /\ ~finished /\ conn = "open"
  /\ asked' = asked + 1
  /\ stream' = Append(stream, n)
  /\ coming' = coming + n
  /\ UNCHANGED <<mode, buffered, seams, finished, reading>>
  /\ UNCHANGED <<refused, piled, lost>> /\ UNCHANGED sendVars

\* It writes no more: what it has not written by now never comes.
Finish ==
  /\ ~finished
  /\ finished' = TRUE
  /\ UNCHANGED <<mode, asked, stream, coming, buffered, seams, reading>>
  /\ UNCHANGED <<refused, piled, lost>> /\ UNCHANGED sendVars

-----------------------------------------------------------------------------
(* recvTcpData, on a connection that listenCb enabled.                     *)

Readable == doing = "loop" /\ reading = "no" /\ conn # "closed" /\ evwr # "null"

\* The oldest request is whole in the buffer, and not too long.
WholeWaits == stream # <<>> /\ Head(stream) <= MaxMsgLen /\ Head(stream) <= buffered

\* GetBufferToWrite makes room behind the bytes that are there.
MakeRoom ==
  /\ seams' \in RB!Reserved(buffered, seams)
  /\ piled' = (piled \/ (seams' # seams /\ WholeWaits))

\* FIONREAD gave the number of bytes that have arrived, at least one; any number
\* may have: requests come cut and joined.
ReadSocket ==
  /\ Readable
  /\ \E n \in 1 .. coming : buffered' = buffered + n /\ coming' = coming - n
  /\ MakeRoom
  /\ reading' = "recv"
  /\ UNCHANGED <<mode, asked, stream, finished, refused, lost>>
  /\ UNCHANGED sendVars

\* recv failed: with EINTR all begins again, with another error the buffer is
\* parsed all the same.
ReadFails ==
  /\ Readable
  /\ coming > 0 \/ conn = "reset"
  /\ MakeRoom
  /\ reading' \in {"no", "recv"}
  /\ UNCHANGED <<mode, asked, stream, coming, buffered, finished>>
  /\ UNCHANGED <<refused, lost>> /\ UNCHANGED sendVars

\* GetBufferToWrite does not return.
ReadHangs ==
  /\ Readable
  /\ coming > 0
  /\ RB!MayHang(buffered, seams)
  /\ doing' = "hung"
  /\ UNCHANGED <<evwr, written, hand, sendBuffer, wire, delivered, conn>>
  /\ UNCHANGED recvVars

\* All that the client wrote before has been read; the rest never comes.
EndOfFile ==
  /\ Readable
  /\ finished \/ conn = "reset"
  /\ CloseConn
  /\ UNCHANGED recvVars

-----------------------------------------------------------------------------
(* RecvMsg's loop and recvTcpMsg.                                          *)

InLoop == reading = "recv" /\ doing = "loop" /\ conn # "closed"

\* What CopyReadBuff reads as the length: the oldest request's, but anything if
\* the word goes over a seam (Copy garbles it) or no request begins here.
LengthRead == IF ~lost /\ \A x \in seams : x >= LenWord
              THEN {Head(stream)} ELSE 0 .. MaxMsgLen + 1

\* len bytes are there to be taken.
HasRequest(len) == len <= MaxMsgLen /\ len <= buffered

\* SINGLE mode: the service answers, or has nothing to say, before OnRecvMsg
\* returns.  MULTI mode: the request goes to the workers.
Answer == \/ mode = "SINGLE" /\ \E n \in Size : Write(n)
          \/ UNCHANGED sendVars

WithoutOldest(s) == IF s = <<>> THEN s ELSE Tail(s)

\* Read(len) takes what was taken for the oldest request.
CutOut(len) ==
  /\ buffered' = buffered - len
  /\ seams' = RB!After(seams, len)
  /\ lost' = (lost \/ len # Head(stream))
  /\ stream' = WithoutOldest(stream)

\* Mutants of Handle: the length word is left in the buffer; one request for
\* each read.
HandleLeavesWord ==
  /\ InLoop /\ buffered >= LenWord
  /\ \E len \in LengthRead \ {0} :
       /\ HasRequest(len)
       /\ buffered' = buffered - len + LenWord
       /\ seams' = RB!After(seams, len - LenWord)
       /\ stream' = WithoutOldest(stream)
  /\ Answer
  /\ UNCHANGED <<mode, asked, coming, finished, reading, refused>>
  /\ UNCHANGED <<piled, lost>>

HandleOne ==
  /\ InLoop /\ buffered >= LenWord
  /\ \E len \in LengthRead \ {0} : HasRequest(len) /\ CutOut(len)
  /\ reading' = "no"
  /\ Answer
  /\ UNCHANGED <<mode, asked, coming, finished, refused, piled>>

Handle ==
  /\ InLoop /\ buffered >= LenWord
  /\ \E len \in LengthRead \ {0} : HasRequest(len) /\ CutOut(len)
  /\ Answer
  /\ UNCHANGED <<mode, asked, coming, finished, reading, refused, piled>>

\* recvQue has no room: the request stays, and the loop is over.
RecvQueFull ==
  /\ InLoop /\ buffered >= LenWord
  /\ mode = "MULTI"
  /\ \E len \in LengthRead : HasRequest(len)
  /\ reading' = "no"
  /\ refused' = TRUE
  /\ UNCHANGED <<mode, asked, stream, coming, buffered, seams>>
  /\ UNCHANGED <<finished, piled, lost>> /\ UNCHANGED sendVars

\* It finds no whole request, or one longer than max_msglen.
Done ==
  /\ InLoop
  /\ buffered >= LenWord => \E len \in LengthRead : ~HasRequest(len)
  /\ reading' = "no"
  /\ UNCHANGED <<mode, asked, stream, coming, buffered, seams>>
  /\ UNCHANGED <<finished, refused, piled, lost>> /\ UNCHANGED sendVars

\* Read's assertion: a length of 0.
ReadNothing ==
  /\ InLoop /\ buffered >= LenWord
  /\ 0 \in LengthRead
  /\ doing' = "crashed"
  /\ reading' = "no"
  /\ UNCHANGED <<evwr, written, hand, sendBuffer, wire, delivered, conn>>
  /\ UNCHANGED <<mode, asked, stream, coming, buffered, seams>>
  /\ UNCHANGED <<finished, refused, piled, lost>>

\* A reply found its connection broken and closed it; the loop goes on with the
\* entry, whose bev is NULL now.
UseClosed ==
  /\ reading = "recv" /\ doing = "loop" /\ conn = "closed"
  /\ reading' = "crashed"
  /\ UNCHANGED <<mode, asked, stream, coming, buffered, seams>>
  /\ UNCHANGED <<finished, refused, piled, lost>> /\ UNCHANGED sendVars

\* Mutant of SendMsg: the reply is written as soon as it is there.
SendMsgAtOnce(n) == Write(n) /\ UNCHANGED recvVars

\* A worker's reply, or a message another handler sends here.
SendMsg(n) == reading = "no" /\ Write(n) /\ UNCHANGED recvVars

-----------------------------------------------------------------------------
Thread == \/ ReadSocket \/ ReadHangs \/ EndOfFile
          \/ Handle \/ RecvQueFull \/ Done \/ ReadNothing \/ UseClosed
          \/ SendStep /\ UNCHANGED recvVars
          \/ reading = "no" /\ WriteCb /\ UNCHANGED recvVars

ClientReads == PeerReads /\ UNCHANGED recvVars

Next == \/ \E n \in ReqLen : Ask(n)
        \/ ClientReads \/ Finish
        \/ PeerResets /\ UNCHANGED recvVars
        \/ ReadFails
        \/ \E n \in Size : SendMsg(n)
        \/ Thread

\* The network thread runs; the client writes the requests it has begun, a read of
\* them does not fail for ever, and is not put off for ever by replies to write.
\* The client reads what it is sent.
Spec == /\ Init /\ [][Next]_vars
        /\ WF_vars(Thread) /\ SF_vars(ReadSocket) /\ WF_vars(ClientReads)

-----------------------------------------------------------------------------
(* Properties.                                                             *)

TypeOK ==
  /\ SendTypeOK
  /\ mode \in {"SINGLE", "MULTI"}
  /\ asked \in 0 .. MaxReq
  /\ stream \in Seq(ReqLen)
  /\ {coming, buffered} \subseteq Nat /\ seams \subseteq Nat
  /\ {finished, refused, piled, lost} \subseteq BOOLEAN
  /\ reading \in {"no", "recv", "crashed"}

\* The bytes still coming and in the buffer are exactly those of the requests
\* not handled: cutting never takes a byte of the next request or leaves one.
\* The client relies on it, and the code breaks it in MULTI mode.
Total(s) ==
  LET upTo[i \in 0 .. Len(s)] == IF i = 0 THEN 0 ELSE upTo[i - 1] + s[i]
  IN upTo[Len(s)]
Framed == coming + buffered = Total(stream)

\* Requests are cut where they begin, however their bytes arrive: a block never
\* ends inside a length word that is read, unless recvQue had refused a whole
\* request and a block was closed with that request still in the buffer.
InFrame == Framed \/ (mode = "MULTI" /\ refused /\ piled)

\* The loop that reads goes on with a closed connection only in SINGLE mode,
\* when its client was reset before the reply: with workers nothing closes a
\* connection inside that loop.
CrashNeedsSingle == reading = "crashed" => mode = "SINGLE" /\ written > 0

\* With this CrashNeedsSingle is inductive: only a reply written inside the loop
\* that reads can leave that loop for a flush, or close the connection in it.
LoopLeft ==
  reading = "recv" /\ (doing # "loop" \/ conn = "closed") =>
    mode = "SINGLE" /\ written > 0

\* The request whose turn it is claims too much: it stays where it is.
TooLong == stream # <<>> /\ Head(stream) > MaxMsgLen

\* What makes InFrame inductive.  Without a pile every seam is in the request
\* whose turn it is, CopySize bytes or more from its start and from each other;
\* a whole request waits between two reads only if recvQue refused one; and
\* what pile and loss presuppose.
SeamsInside ==
  ~piled =>
    /\ \A x \in seams : /\ x >= CopySize /\ x <= buffered
                        /\ TooLong \/ (stream # <<>> /\ x < Head(stream))
    /\ \A x, y \in seams : x < y => x + CopySize <= y
NoneLeft == reading = "no" /\ ~refused /\ conn # "closed" => ~WholeWaits
LostKnown == /\ ~lost => Framed
             /\ lost => piled
             /\ piled => refused
             /\ refused => mode = "MULTI"

\* GetBufferToWrite returns, but for a pile, a request that is too long, or one
\* that fills two blocks which expand would not copy.
HangNeedsLong ==
  doing = "hung" =>
    piled \/ TooLong \/ (stream # <<>> /\ Head(stream) > 2 * CopySize)

IInv == /\ TypeOK /\ Pieces /\ Phases /\ LoopLeft
        /\ SeamsInside /\ NoneLeft /\ LostKnown /\ HangNeedsLong

\* Every request sent is handled, however its bytes arrive and whatever reads
\* fail, if the client stays, it was accepted here, no request before it is too
\* long, recvQue never refused one, and GetBufferToWrite returned (HangNeedsLong
\* says when), while the process runs (a worker's assertion may end it,
\* MultiServer): replies of any size and a slow reader only delay it, and again and
\* again (there are MaxReq to send) none is left.
EveryRequestHandled ==
  []<>(\/ handled = asked \/ TooLong
       \/ finished \/ conn # "open" \/ evwr = "null"
       \/ refused \/ doing = "hung")
=============================================================================
