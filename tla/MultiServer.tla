----------------------------- MODULE MultiServer -----------------------------
(***************************************************************************)
(* The server with work_num > 0 (SERVER_MODE_MULTI): the network thread,   *)
(* the worker threads, and the two queues between them.                    *)
(*                                                                         *)
(* The network thread reads requests from its connections and pushes them  *)
(* on recvQue without a lock, then takes recvLocker only to signal.  A     *)
(* worker looks at recvQue under recvLocker and waits on its condition     *)
(* variable when there is nothing.  It pushes its reply on sendQue under   *)
(* sendLocker and triggers an ev_async watcher; the network thread drains  *)
(* sendQue when the watcher fires, without a lock.                         *)
(*                                                                         *)
(* Both queues are first-in first-out here and refuse a push when full     *)
(* (LoopQueue says when the real ones are that).  One action is what a     *)
(* thread does between two points where another thread can matter.         *)
(***************************************************************************)
EXTENDS Integers, Sequences, FiniteSets

CONSTANTS
  Worker,      \* the worker threads
  Net,         \* the network thread, as an owner of a lock
  None,        \* no message, or no owner
  MaxMsg,      \* bound: number of requests that arrive
  ReqLen,      \* lengths (reallen) of the requests that arrive
  MaxMsgLen,   \* max_msglen
  HeadLen,     \* sizeof(block_t)
  RecvCap,     \* blocks that recvQue can hold
  SendCap      \* blocks that sendQue can hold

ASSUME MultiServerAssumption ==
  /\ MaxMsg \in Nat /\ MaxMsgLen \in Nat /\ HeadLen \in Nat
  /\ RecvCap \in Nat /\ SendCap \in Nat
  /\ ReqLen \subseteq Nat
  /\ Worker # {}
  /\ Net \notin Worker /\ None \notin Worker \cup {Net}
  /\ None \notin [id : 1 .. MaxMsg, len : ReqLen]

VARIABLES
  arrived,     \* number of requests that have arrived so far
  inbox,       \* read buffer of the connection: requests not consumed yet
  recvQ,       \* recvQue_
  recvLock,    \* owner of recvLocker_'s mutex, or None
  sendQ,       \* sendQue_
  sendLock,    \* owner of sendLocker_'s mutex, or None
  async,       \* msgEvent_ has been triggered and its callback has not run
  net,         \* where the network thread is
  pc,          \* where each worker is
  block,       \* the block a worker has in hand
  replied,     \* replies written to the connection
  dropped      \* replies refused by a full sendQue

vars == <<arrived, inbox, recvQ, recvLock, sendQ, sendLock, async, net, pc,
          block, replied, dropped>>
netVars    == <<arrived, inbox, net, replied>>
workerVars == <<pc, block, dropped>>

Request == [id : 1 .. MaxMsg, len : ReqLen]

Init == /\ arrived = 0 /\ inbox = <<>>
        /\ recvQ = <<>> /\ recvLock = None
        /\ sendQ = <<>> /\ sendLock = None
        /\ async = FALSE
        /\ net = "loop"
        /\ pc = [w \in Worker |-> "lock"]
        /\ block = [w \in Worker |-> None]
        /\ replied = <<>> /\ dropped = {}

-----------------------------------------------------------------------------
(* The network thread: RecvMsg and recvTcpMsg.                             *)

\* Bytes of a whole request arrive: the read callback calls RecvMsg.
Readable(len) ==
  /\ net = "loop"
  /\ arrived < MaxMsg
  /\ arrived' = arrived + 1
  /\ inbox' = Append(inbox, [id |-> arrived + 1, len |-> len])
  /\ net' = "recv"
  /\ UNCHANGED <<recvQ, recvLock, sendQ, sendLock, async, replied>>
  /\ UNCHANGED workerVars

\* Mutant of CanPush: the length is not looked at.
CanPushLong == inbox # <<>> /\ Len(recvQ) < RecvCap

CanPush == /\ inbox # <<>>
           /\ Head(inbox).len <= MaxMsgLen
           /\ Len(recvQ) < RecvCap

\* recvTcpMsg leaves RecvMsg's loop: no whole request is there, it is longer
\* than max_msglen, or recvQue is full.  What is in the buffer stays.
RecvEnd ==
  /\ net = "recv"
  /\ ~CanPush
  /\ net' = "loop"
  /\ UNCHANGED <<arrived, inbox, recvQ, recvLock, sendQ, sendLock, async,
                 replied>>
  /\ UNCHANGED workerVars

\* Mutants of RecvPush: no signal; a signal without the lock.
RecvPushUnsignalled ==
  /\ net = "recv" /\ CanPush
  /\ recvQ' = Append(recvQ, Head(inbox))
  /\ inbox' = Tail(inbox)
  /\ UNCHANGED <<arrived, recvLock, sendQ, sendLock, async, net, replied>>
  /\ UNCHANGED workerVars

RecvPushUnlocked ==
  /\ net = "recv" /\ CanPush
  /\ recvQ' = Append(recvQ, Head(inbox))
  /\ inbox' = Tail(inbox)
  /\ net' = "signal"
  /\ UNCHANGED <<arrived, recvLock, sendQ, sendLock, async, replied>>
  /\ UNCHANGED workerVars

\* recvTcpMsg moves a request from the buffer to recvQue.
RecvPush ==
  /\ net = "recv"
  /\ CanPush
  /\ recvQ' = Append(recvQ, Head(inbox))
  /\ inbox' = Tail(inbox)
  /\ net' = "rlock"
  /\ UNCHANGED <<arrived, recvLock, sendQ, sendLock, async, replied>>
  /\ UNCHANGED workerVars

RecvLock ==
  /\ net = "rlock"
  /\ recvLock = None
  /\ recvLock' = Net
  /\ net' = "signal"
  /\ UNCHANGED <<arrived, inbox, recvQ, sendQ, sendLock, async, replied>>
  /\ UNCHANGED workerVars

\* pthread_cond_signal wakes one of the threads that wait, if there is one.
RecvSignal ==
  /\ net = "signal"
  /\ IF \E w \in Worker : pc[w] = "waiting"
     THEN \E w \in Worker : /\ pc[w] = "waiting"
                            /\ pc' = [pc EXCEPT ![w] = "woken"]
     ELSE UNCHANGED pc
  /\ net' = "runlock"
  /\ UNCHANGED <<arrived, inbox, recvQ, recvLock, sendQ, sendLock, async,
                 block, replied, dropped>>

RecvUnlock ==
  /\ net = "runlock"
  /\ recvLock' = None
  /\ net' = "recv"
  /\ UNCHANGED <<arrived, inbox, recvQ, sendQ, sendLock, async, replied>>
  /\ UNCHANGED workerVars

-----------------------------------------------------------------------------
(* The network thread: OnSendMsgEvent.                                     *)

AsyncFires ==
  /\ net = "loop"
  /\ async
  /\ async' = FALSE
  /\ net' = "drain"
  /\ UNCHANGED <<arrived, inbox, recvQ, recvLock, sendQ, sendLock, replied>>
  /\ UNCHANGED workerVars

\* Mutant of DrainOne: one reply for each notification.
DrainOnlyOne ==
  /\ net = "drain" /\ sendQ # <<>>
  /\ replied' = Append(replied, Head(sendQ))
  /\ sendQ' = Tail(sendQ)
  /\ net' = "loop"
  /\ UNCHANGED <<arrived, inbox, recvQ, recvLock, sendLock, async>>
  /\ UNCHANGED workerVars

\* One turn of its loop: FrontBlock, SendMsg, PopBlock.
DrainOne ==
  /\ net = "drain"
  /\ sendQ # <<>>
  /\ replied' = Append(replied, Head(sendQ))
  /\ sendQ' = Tail(sendQ)
  /\ UNCHANGED <<arrived, inbox, recvQ, recvLock, sendLock, async, net>>
  /\ UNCHANGED workerVars

DrainEnd ==
  /\ net = "drain"
  /\ sendQ = <<>>
  /\ net' = "loop"
  /\ UNCHANGED <<arrived, inbox, recvQ, recvLock, sendQ, sendLock, async,
                 replied>>
  /\ UNCHANGED workerVars

-----------------------------------------------------------------------------
(* A worker: dealRecvQue.                                                  *)

Goto(w, l) == pc' = [pc EXCEPT ![w] = l]

Lock(w) ==
  /\ pc[w] = "lock"
  /\ recvLock = None
  /\ recvLock' = w
  /\ Goto(w, "front")
  /\ UNCHANGED <<recvQ, sendQ, sendLock, async, block, dropped>>
  /\ UNCHANGED netVars

\* Both calls of FrontBlock: only the first is followed by a wait.
FrontBlock(w) ==
  /\ pc[w] \in {"front", "front2"}
  /\ IF recvQ # <<>>
     THEN /\ block' = [block EXCEPT ![w] = Head(recvQ)]
          /\ Goto(w, "copy")
     ELSE /\ Goto(w, IF pc[w] = "front" THEN "wait" ELSE "unlock")
          /\ UNCHANGED block
  /\ UNCHANGED <<recvQ, recvLock, sendQ, sendLock, async, dropped>>
  /\ UNCHANGED netVars

\* WaitTimeout gives up the mutex and starts to wait in one step.
Wait(w) ==
  /\ pc[w] = "wait"
  /\ recvLock' = None
  /\ Goto(w, "waiting")
  /\ UNCHANGED <<recvQ, sendQ, sendLock, async, block, dropped>>
  /\ UNCHANGED netVars

\* The wait ends without a signal: by its timeout of 10 ms, or spuriously.
StopWaiting(w) ==
  /\ pc[w] = "waiting"
  /\ \/ Goto(w, "timedout")
     \/ Goto(w, "woken")
  /\ UNCHANGED <<recvQ, recvLock, sendQ, sendLock, async, block, dropped>>
  /\ UNCHANGED netVars

\* WaitTimeout returns with the mutex: 0 if woken, ETIMEDOUT otherwise.
WaitReturns(w) ==
  /\ pc[w] \in {"woken", "timedout"}
  /\ recvLock = None
  /\ recvLock' = w
  /\ Goto(w, IF pc[w] = "woken" THEN "front2" ELSE "unlock")
  /\ UNCHANGED <<recvQ, sendQ, sendLock, async, block, dropped>>
  /\ UNCHANGED netVars

\* Mutant of CopyBlock: no PopBlock.
CopyWithoutPop(w) ==
  /\ pc[w] = "copy"
  /\ Goto(w, "unlock")
  /\ UNCHANGED <<recvQ, recvLock, sendQ, sendLock, async, block, dropped>>
  /\ UNCHANGED netVars

\* The assertion, the copy to recvBuffer_, PopBlock.
CopyBlock(w) ==
  /\ pc[w] = "copy"
  /\ IF HeadLen + block[w].len <= MaxMsgLen
     THEN recvQ' = Tail(recvQ) /\ Goto(w, "unlock")
     ELSE Goto(w, "aborted") /\ UNCHANGED recvQ
  /\ UNCHANGED <<recvLock, sendQ, sendLock, async, block, dropped>>
  /\ UNCHANGED netVars

Unlock(w) ==
  /\ pc[w] = "unlock"
  /\ recvLock' = None
  /\ Goto(w, IF block[w] = None THEN "lock" ELSE "slock")
  /\ UNCHANGED <<recvQ, sendQ, sendLock, async, block, dropped>>
  /\ UNCHANGED netVars

-----------------------------------------------------------------------------
(* A worker: dealMessage runs the service, which replies with Server's     *)
(* SendMsg.                                                                *)

\* Mutant of SendLock: the lock is not waited for.
SendLockAtOnce(w) ==
  /\ pc[w] = "slock"
  /\ sendLock' = w
  /\ Goto(w, "push")
  /\ UNCHANGED <<recvQ, recvLock, sendQ, async, block, dropped>>
  /\ UNCHANGED netVars

SendLock(w) ==
  /\ pc[w] = "slock"
  /\ sendLock = None
  /\ sendLock' = w
  /\ Goto(w, "push")
  /\ UNCHANGED <<recvQ, recvLock, sendQ, async, block, dropped>>
  /\ UNCHANGED netVars

\* Push, which a full sendQue refuses: then there is no notification.
SendPush(w) ==
  /\ pc[w] = "push"
  /\ IF Len(sendQ) < SendCap
     THEN /\ sendQ' = Append(sendQ, block[w])
          /\ Goto(w, "sunlock")
          /\ UNCHANGED dropped
     ELSE /\ dropped' = dropped \cup {block[w]}
          /\ Goto(w, "sunlock-refused")
          /\ UNCHANGED sendQ
  /\ UNCHANGED <<recvQ, recvLock, sendLock, async, block>>
  /\ UNCHANGED netVars

\* Mutant of SendUnlock: sendLocker stays locked after a push that was refused.
SendUnlockAccepted(w) ==
  /\ pc[w] \in {"sunlock", "sunlock-refused"}
  /\ IF pc[w] = "sunlock"
     THEN Goto(w, "trigger") /\ sendLock' = None /\ UNCHANGED block
     ELSE /\ Goto(w, "lock") /\ block' = [block EXCEPT ![w] = None]
          /\ UNCHANGED sendLock
  /\ UNCHANGED <<recvQ, recvLock, sendQ, async, dropped>>
  /\ UNCHANGED netVars

SendUnlock(w) ==
  /\ pc[w] \in {"sunlock", "sunlock-refused"}
  /\ sendLock' = None
  /\ IF pc[w] = "sunlock"
     THEN Goto(w, "trigger") /\ UNCHANGED block
     ELSE Goto(w, "lock") /\ block' = [block EXCEPT ![w] = None]
  /\ UNCHANGED <<recvQ, recvLock, sendQ, async, dropped>>
  /\ UNCHANGED netVars

\* SendQueNoti; then back to the top of dealRecvQue's loop.
Trigger(w) ==
  /\ pc[w] = "trigger"
  /\ async' = TRUE
  /\ block' = [block EXCEPT ![w] = None]
  /\ Goto(w, "lock")
  /\ UNCHANGED <<recvQ, recvLock, sendQ, sendLock, dropped>>
  /\ UNCHANGED netVars

-----------------------------------------------------------------------------
Receive == RecvEnd \/ RecvPush \/ RecvLock \/ RecvSignal \/ RecvUnlock
Send    == AsyncFires \/ DrainOne \/ DrainEnd

\* What worker w does unless it waits for a signal.
Work(w) == \/ Lock(w) \/ FrontBlock(w) \/ Wait(w) \/ WaitReturns(w)
           \/ CopyBlock(w) \/ Unlock(w)
           \/ SendLock(w) \/ SendPush(w) \/ SendUnlock(w) \/ Trigger(w)

Aborted == \E w \in Worker : pc[w] = "aborted"

\* An assertion that fails ends the process: no thread takes another step.
Ended == Aborted /\ UNCHANGED vars

Next == \/ /\ ~Aborted
           /\ \/ \E len \in ReqLen : Readable(len)
              \/ Receive
              \/ Send
              \/ \E w \in Worker : Work(w) \/ StopWaiting(w)
        \/ Ended

Spec == Init /\ [][Next]_vars

\* The threads are scheduled, and the network thread gets recvLocker in the
\* end: a worker that finds nothing leaves the mutex free for up to 10 ms, so
\* only an unlucky race each time could keep it out.  No fairness is asked of
\* StopWaiting: the wake-ups must work without the help of the timeout.
FairSpec == /\ Spec
            /\ WF_vars(~Aborted /\ (Receive \/ Send))
            /\ SF_vars(~Aborted /\ RecvLock)
            /\ \A w \in Worker : WF_vars(~Aborted /\ Work(w))

-----------------------------------------------------------------------------
(* Properties.                                                             *)

Ids(s) == {s[i].id : i \in 1 .. Len(s)}

Blocks == Request \cup {None}

TypeOK ==
  /\ arrived \in 0 .. MaxMsg
  /\ inbox \in Seq(Request) /\ recvQ \in Seq(Request)
  /\ sendQ \in Seq(Request) /\ replied \in Seq(Request)
  /\ recvLock \in Worker \cup {Net, None}
  /\ sendLock \in Worker \cup {None}
  /\ async \in BOOLEAN
  /\ net \in {"loop", "recv", "rlock", "signal", "runlock", "drain"}
  /\ pc \in [Worker -> {"lock", "front", "wait", "waiting", "woken",
                        "timedout", "front2", "copy", "aborted", "unlock",
                        "slock", "push", "sunlock", "sunlock-refused",
                        "trigger"}]
  /\ block \in [Worker -> Blocks]
  /\ dropped \subseteq Request

\* A request is in one place: waiting in the buffer, in recvQue, with one
\* worker, in sendQue, answered or refused.  None is lost between two threads,
\* answered twice or handled by two workers.
Holding(w) ==
  IF pc[w] \in {"unlock", "slock", "push"} /\ block[w] # None
  THEN {block[w].id} ELSE {}
WithWorkers == UNION {Holding(w) : w \in Worker}
DroppedIds == {r.id : r \in dropped}

OnePlace ==
  /\ WithWorkers \cup DroppedIds \cup Ids(inbox \o recvQ \o sendQ \o replied)
       = 1 .. arrived
  /\ Cardinality(WithWorkers) + Cardinality(DroppedIds)
       + Len(inbox) + Len(recvQ) + Len(sendQ) + Len(replied) = arrived
  /\ \A v, w \in Worker : v # w => Holding(v) \cap Holding(w) = {}

\* The block a worker copies and pops is the one FrontBlock showed it, though
\* the network thread pushes without the lock.
PopsWhatItSaw ==
  \A w \in Worker : pc[w] = "copy" => recvQ # <<>> /\ block[w] = Head(recvQ)

\* No wake-up is lost: while recvQue holds a request, the network thread is on
\* its way to signal or some worker is on its way to look.
Awake(w) == pc[w] \notin {"wait", "waiting", "aborted"}
NoLostWakeup ==
  recvQ # <<>> /\ ~Aborted =>
    net \in {"rlock", "signal"} \/ \E w \in Worker : Awake(w)

\* No notification is lost: while sendQue holds a reply, the network thread is
\* draining it, its watcher is pending, or a worker is about to trigger it.
NoLostNotification ==
  sendQ # <<>> =>
    \/ async
    \/ net = "drain"
    \/ \E w \in Worker : pc[w] \in {"sunlock", "trigger"}

\* The mutex of recvLocker_ is held by the thread whose place says so, and a
\* worker about to wait has seen every request but the one not signalled yet:
\* with this NoLostWakeup is inductive.
InRecvLock(w) == pc[w] \in {"front", "front2", "wait", "copy", "unlock", "aborted"}
LockOwner ==
  /\ \A w \in Worker : InRecvLock(w) <=> recvLock = w
  /\ net \in {"signal", "runlock"} <=> recvLock = Net
WaitsUpToDate ==
  \A w \in Worker : pc[w] = "wait" /\ recvQ # <<>> => net = "rlock"

\* A worker that copies, or is past its lock with a block, has one in hand.
HasBlock ==
  \A w \in Worker :
    pc[w] \in {"copy", "slock", "push", "sunlock", "sunlock-refused", "trigger"}
      => block[w] # None

WakeupInv == /\ TypeOK
             /\ HasBlock
             /\ LockOwner
             /\ WaitsUpToDate
             /\ PopsWhatItSaw
             /\ NoLostWakeup

\* Until a worker has found a block, it has none in hand.
EmptyHanded ==
  \A w \in Worker :
    pc[w] \in {"lock", "front", "wait", "waiting", "woken", "timedout", "front2"}
      => block[w] = None

\* No request is in a queue twice, and none is in two places: with the counts,
\* what makes OnePlace inductive.
IdsOnce ==
  \A s \in {inbox, recvQ, sendQ, replied} :
    \A i, j \in 1 .. Len(s) : i # j => s[i].id # s[j].id
Places == [inbox   |-> Ids(inbox), recvQ   |-> Ids(recvQ),
           workers |-> WithWorkers, sendQ   |-> Ids(sendQ),
           replied |-> Ids(replied), dropped |-> DroppedIds]
PlacesApart ==
  \A p, q \in DOMAIN Places : p # q => Places[p] \cap Places[q] = {}

\* The mutex of sendLocker_ is held by the thread whose place says so: with
\* LockOwner it keeps the workers apart at the queues.
SendOwner ==
  \A w \in Worker :
    pc[w] \in {"push", "sunlock", "sunlock-refused"} <=> sendLock = w

\* The assertion in dealRecvQue fails for no other request than one that fits in
\* max_msglen (which recvTcpMsg has checked) and does not with its header.
AbortsKnown ==
  \A w \in Worker :
    pc[w] = "aborted" => block[w].len \in (MaxMsgLen - HeadLen) + 1 .. MaxMsgLen

\* What is past recvTcpMsg is no longer than max_msglen: with it AbortsKnown is
\* inductive.
FitsPushed ==
  /\ \A i \in 1 .. Len(recvQ) : recvQ[i].len <= MaxMsgLen
  /\ \A w \in Worker : block[w] # None => block[w].len <= MaxMsgLen

\* All that the hand-over rests on, between any two steps of any threads: with OnePlace
\* it is inductive.
HandOverInv == /\ WakeupInv /\ EmptyHanded /\ IdsOnce /\ PlacesApart
               /\ SendOwner /\ FitsPushed /\ AbortsKnown

\* The queues have no lock of their own and are made for one thread at each end:
\* no two workers are between FrontBlock and PopBlock of recvQue, nor in Push of
\* sendQue, whatever the waits, timeouts and refused pushes between.
PopsRecvQue(w)  == pc[w] \in {"front", "front2", "copy"}
PushesSendQue(w) == pc[w] = "push"
OneAtEachEnd ==
  \A v, w \in Worker : v # w =>
    ~(PopsRecvQue(v) /\ PopsRecvQue(w)) /\ ~(PushesSendQue(v) /\ PushesSendQue(w))

\* A request that a worker can take does not stay: it is answered, or its reply
\* is refused by a full sendQue, whoever waits, is woken or times out, unless a
\* block too long for recvBuffer_ ends the process.
EveryPushEnds ==
  \A i \in 1 .. MaxMsg :
    i \in Ids(recvQ) ~> i \in Ids(replied) \cup DroppedIds \/ Aborted
=============================================================================
