----------------------------- MODULE BufferEvent -----------------------------
(***************************************************************************)
(* BufferEventEv, the sending half of a TCP connection on the network      *)
(* thread: Write, the send buffer behind it, and the watcher evwr_ that    *)
(* has it flushed when the socket is writable again.                       *)
(*                                                                         *)
(* A byte is its position in what the server wrote.  The kernel takes at   *)
(* most Room bytes ahead of the peer; send() takes what fits and fails     *)
(* with EAGAIN when nothing does.  FlushSendBuffer does not leave its loop *)
(* on EAGAIN, so the thread stays in it until the peer has read enough:    *)
(* that is a thread at "flush" or "write-flush" with no step to take.      *)
(* Session adds the receiving half.                                        *)
(***************************************************************************)
EXTENDS Integers, Sequences

CONSTANTS
  Room,      \* bytes the kernel keeps for the peer
  Size,      \* sizes of the messages
  MaxBytes   \* bound: bytes written in all

ASSUME BufferEventAssumption ==
  /\ Room \in Nat \ {0} /\ MaxBytes \in Nat
  /\ Size \subseteq Nat \ {0}

VARIABLES
  evwr,        \* evwr_: a null pointer, or a watcher stopped or active
  written,     \* bytes given to Write so far
  hand,        \* bytes of the message in Write that are not sent
  sendBuffer,  \* sendBuffer_
  wire,        \* bytes the kernel holds for the peer
  delivered,   \* bytes the peer has read
  doing,       \* where the network thread is; "hung" and "crashed" are for good
  conn         \* the connection: open, reset by the peer, or closed here

sendVars == <<evwr, written, hand, sendBuffer, wire, delivered, doing, conn>>

\* Mutants of Positions and Rest: off by one.
PositionsOff(lo, hi) == [i \in 1 .. hi - lo |-> lo + i + 1]
RestOff(s, n) == SubSeq(s, n, Len(s))

Positions(lo, hi) == [i \in 1 .. hi - lo |-> lo + i]
Take(s, n) == SubSeq(s, 1, n)
Rest(s, n) == SubSeq(s, n + 1, Len(s))

\* listenCb calls Enable, which makes the watcher; after Connect nobody does.
SendInit == /\ evwr \in {"stopped", "null"}
            /\ written = 0 /\ hand = <<>> /\ sendBuffer = <<>>
            /\ wire = <<>> /\ delivered = 0
            /\ doing = "loop"
            /\ conn = "open"

-----------------------------------------------------------------------------
(* The socket and the peer.                                                *)

\* Numbers of bytes that send(s) may take.
Sendable(s) == {n \in 1 .. Len(s) : Len(wire) + n <= Room}

PeerReads ==
  /\ wire # <<>>
  /\ wire' = Tail(wire)
  /\ delivered' = delivered + 1
  /\ UNCHANGED <<evwr, written, hand, sendBuffer, doing, conn>>

PeerResets ==
  /\ conn = "open"
  /\ conn' = "reset"
  /\ UNCHANGED <<evwr, written, hand, sendBuffer, wire, delivered, doing>>

-----------------------------------------------------------------------------
(* sendTcpData.                                                            *)

Write(n) ==
  /\ doing = "loop" /\ conn # "closed"
  /\ written + n <= MaxBytes
  /\ hand' = Positions(written, written + n)
  /\ written' = written + n
  /\ doing' = "write-flush"
  /\ UNCHANGED <<evwr, sendBuffer, wire, delivered, conn>>

\* The flush is over: the watcher is stopped, if it is one.  (ev_is_active
\* reads through evwr_.)
StopWatcher ==
  /\ doing = "write-flush" /\ sendBuffer = <<>>
  /\ IF evwr = "null"
     THEN doing' = "crashed" /\ UNCHANGED evwr
     ELSE doing' = "write" /\ evwr' = "stopped"
  /\ UNCHANGED <<written, hand, sendBuffer, wire, delivered, conn>>

SendSome ==
  /\ doing = "write" /\ conn = "open"
  /\ \E n \in Sendable(hand) : wire' = wire \o Take(hand, n) /\ hand' = Rest(hand, n)
  /\ UNCHANGED <<evwr, written, sendBuffer, delivered, doing, conn>>

\* Mutant of KeepRest: the watcher is not started.
KeepRestUnwatched ==
  /\ doing = "write" /\ conn = "open"
  /\ hand # <<>> /\ Sendable(hand) = {}
  /\ sendBuffer' = sendBuffer \o hand
  /\ hand' = <<>>
  /\ doing' = "loop"
  /\ UNCHANGED <<evwr, written, wire, delivered, conn>>

\* EAGAIN: the rest goes to the send buffer, and the watcher is started.
KeepRest ==
  /\ doing = "write" /\ conn = "open"
  /\ hand # <<>> /\ Sendable(hand) = {}
  /\ sendBuffer' = sendBuffer \o hand
  /\ hand' = <<>>
  /\ evwr' = "active"
  /\ doing' = "loop"
  /\ UNCHANGED <<written, wire, delivered, conn>>

AllSent ==
  /\ doing = "write" /\ hand = <<>>
  /\ doing' = "loop"
  /\ UNCHANGED <<evwr, written, hand, sendBuffer, wire, delivered, conn>>

-----------------------------------------------------------------------------
(* FlushSendBuffer, from sendTcpData or from the watcher.                  *)

Flushing == doing \in {"flush", "write-flush"}

WriteCb ==
  /\ doing = "loop" /\ evwr = "active" /\ conn # "closed"
  /\ Len(wire) < Room \/ conn = "reset"
  /\ doing' = "flush"
  /\ UNCHANGED <<evwr, written, hand, sendBuffer, wire, delivered, conn>>

FlushSome ==
  /\ Flushing /\ conn = "open"
  /\ \E n \in Sendable(sendBuffer) :
       /\ wire' = wire \o Take(sendBuffer, n)
       /\ sendBuffer' = Rest(sendBuffer, n)
  /\ UNCHANGED <<evwr, written, hand, delivered, doing, conn>>

\* The callback's flush is over; the watcher stays as it is.
FlushEnd ==
  /\ doing = "flush" /\ sendBuffer = <<>>
  /\ doing' = "loop"
  /\ UNCHANGED <<evwr, written, hand, sendBuffer, wire, delivered, conn>>

\* evcb_ closes the connection and deletes this event with what it holds.
CloseConn ==
  /\ conn' = "closed"
  /\ evwr' = "stopped"
  /\ hand' = <<>> /\ sendBuffer' = <<>>
  /\ doing' = "loop"
  /\ UNCHANGED <<written, wire, delivered>>

\* send() fails for good.
SendFails ==
  /\ conn = "reset"
  /\ \/ Flushing /\ sendBuffer # <<>>
     \/ doing = "write" /\ hand # <<>>
  /\ CloseConn

-----------------------------------------------------------------------------
\* The steps of Write and of the flush.
SendStep == \/ StopWatcher \/ SendSome \/ KeepRest \/ AllSent
            \/ FlushSome \/ FlushEnd \/ SendFails

-----------------------------------------------------------------------------
(* Properties.                                                             *)

SendTypeOK ==
  /\ evwr \in {"null", "stopped", "active"}
  /\ written \in 0 .. MaxBytes /\ delivered \in 0 .. MaxBytes
  /\ {hand, sendBuffer, wire} \subseteq Seq(1 .. MaxBytes)
  /\ doing \in {"loop", "write", "write-flush", "flush", "hung", "crashed"}
  /\ conn \in {"open", "reset", "closed"}

\* The peer gets the bytes in the order they were written, each once: what it
\* has read, the kernel holds, the send buffer holds and Write still has in
\* hand are the bytes written.
InOrder ==
  conn = "open" =>
    Positions(0, delivered) \o wire \o sendBuffer \o hand = Positions(0, written)

\* What makes InOrder inductive: each part holds the positions that follow the
\* part before it, and the parts that a phase of Write assumes empty are.
Pieces ==
  LET sent == delivered + Len(wire)  kept == sent + Len(sendBuffer)
  IN conn = "open" => /\ wire = Positions(delivered, sent)
                      /\ sendBuffer = Positions(sent, kept)
                      /\ hand = Positions(kept, written)
Phases ==
  /\ delivered + Len(wire) + Len(sendBuffer) + Len(hand) <= written
  /\ doing \in {"loop", "flush"} => hand = <<>>
  /\ doing = "write" => sendBuffer = <<>>

\* Every byte written reaches the peer, unless the connection is lost or was
\* never enabled, or the thread does not return from a call of the receiving half:
\* again and again (there are MaxBytes to write) the peer has been given all of them.
EveryByteDelivered ==
  []<>(delivered = written \/ conn # "open" \/ doing \in {"hung", "crashed"})
=============================================================================
