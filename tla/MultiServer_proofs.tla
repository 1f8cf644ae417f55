-------------------------- MODULE MultiServer_proofs --------------------------
(***************************************************************************)
(* The hand-over of requests between the network thread and the workers,   *)
(* for any number of workers and of requests: the wake-up protocol, the    *)
(* places of the requests, the ends of the queues.                         *)
(***************************************************************************)
EXTENDS MultiServer, SequenceTheorems, FunctionTheorems,
        FiniteSetTheorems, TLAPS

(* The elements of the queues are requests, so they are not None.          *)
LEMMA Constants ==
  /\ Worker # {}
  /\ Net \notin Worker
  /\ None \notin Worker
  /\ None # Net
  /\ MaxMsg \in Nat
  /\ None \notin Request
  BY MultiServerAssumption DEF Request

LEMMA InitWakeupInv == Init => WakeupInv
<1> SUFFICES ASSUME Init PROVE WakeupInv
  OBVIOUS
<1>1. TypeOK
  <2>1. /\ arrived \in 0 .. MaxMsg
        /\ inbox \in Seq(Request) /\ recvQ \in Seq(Request)
        /\ sendQ \in Seq(Request) /\ replied \in Seq(Request)
    BY Constants DEF Init
  <2>2. block \in [Worker -> Blocks]
    BY DEF Init, Blocks
  <2>3. pc \in [Worker -> {"lock"}]
    BY DEF Init
  <2> QED
    BY <2>1, <2>2, <2>3 DEF Init, TypeOK
<1>2. LockOwner /\ HasBlock
  BY Constants DEF Init, LockOwner, InRecvLock, HasBlock
<1> QED
  BY <1>1, <1>2 DEF Init, WakeupInv, WaitsUpToDate, PopsWhatItSaw, NoLostWakeup

(* Every step keeps the types.                                             *)
LEMMA TypeStep ==
  ASSUME WakeupInv, [Next]_vars
  PROVE  TypeOK'
<1> USE DEF TypeOK, Blocks
<1>0. TypeOK /\ HasBlock /\ PopsWhatItSaw
  BY DEF WakeupInv
<1>1. CASE \E len \in ReqLen : Readable(len)
  <2> PICK len \in ReqLen : Readable(len)
    BY <1>1
  <2>1. arrived + 1 \in 1 .. MaxMsg
    BY <1>0, Constants DEF Readable
  <2>2. [id |-> arrived + 1, len |-> len] \in Request
    BY <2>1 DEF Request
  <2>3. inbox' \in Seq(Request)
    BY <1>0, <2>2 DEF Readable
  <2> QED
    BY <1>0, <2>1, <2>3 DEF Readable, workerVars
<1>2. CASE RecvEnd
  BY <1>0, <1>2 DEF RecvEnd, workerVars
<1>3. CASE RecvPush
  <2>1. Head(inbox) \in Request /\ Tail(inbox) \in Seq(Request)
    BY <1>0, <1>3 DEF RecvPush, CanPush
  <2> QED
    BY <1>0, <1>3, <2>1 DEF RecvPush, workerVars
<1>4. CASE RecvLock \/ RecvUnlock
  BY <1>0, <1>4 DEF RecvLock, RecvUnlock, workerVars
<1>5. CASE RecvSignal
  BY <1>0, <1>5 DEF RecvSignal
<1>6. CASE AsyncFires \/ DrainEnd
  BY <1>0, <1>6 DEF AsyncFires, DrainEnd, workerVars
<1>7. CASE DrainOne
  <2>1. Head(sendQ) \in Request /\ Tail(sendQ) \in Seq(Request)
    BY <1>0, <1>7 DEF DrainOne
  <2> QED
    BY <1>0, <1>7, <2>1 DEF DrainOne, workerVars
<1>8. ASSUME NEW w \in Worker, Work(w) \/ StopWaiting(w) PROVE TypeOK'
  <2> USE DEF Goto, netVars
  <2>1. CASE Lock(w) \/ Wait(w) \/ WaitReturns(w) \/ StopWaiting(w)
    BY <1>0, <2>1 DEF Lock, Wait, WaitReturns, StopWaiting
  <2>2. CASE FrontBlock(w)
    <3>1. recvQ # <<>> => Head(recvQ) \in Request
      BY <1>0
    <3> QED
      BY <1>0, <2>2, <3>1 DEF FrontBlock
  <2>3. CASE CopyBlock(w)
    <3>1. Tail(recvQ) \in Seq(Request)
      BY <1>0, <2>3 DEF CopyBlock, PopsWhatItSaw
    <3> QED
      BY <1>0, <2>3, <3>1 DEF CopyBlock
  <2>4. CASE Unlock(w) \/ SendLock(w)
    BY <1>0, <2>4 DEF Unlock, SendLock
  <2>5. CASE SendPush(w)
    <3>1. block[w] \in Request
      BY <1>0, <2>5 DEF SendPush, HasBlock
    <3>2. /\ sendQ' = Append(sendQ, block[w]) \/ sendQ' = sendQ
          /\ dropped' = dropped \cup {block[w]} \/ dropped' = dropped
      BY <2>5 DEF SendPush
    <3>3. sendQ' \in Seq(Request)
      <4> sendQ \in Seq(Request)
        BY <1>0
      <4> HIDE DEF TypeOK
      <4> QED
        BY <3>1, <3>2
    <3>4. dropped' \subseteq Request
      BY <1>0, <3>1, <3>2
    <3>5. pc' \in [Worker -> {"lock", "front", "wait", "waiting", "woken",
                        "timedout", "front2", "copy", "aborted", "unlock",
                        "slock", "push", "sunlock", "sunlock-refused",
                        "trigger"}]
      BY <1>0, <2>5 DEF SendPush
    <3>6. UNCHANGED <<recvQ, recvLock, sendLock, async, block>> /\ UNCHANGED netVars
      BY <2>5 DEF SendPush
    <3> QED
      BY <1>0, <3>3, <3>4, <3>5, <3>6
  <2>6. CASE SendUnlock(w) \/ Trigger(w)
    BY <1>0, <2>6 DEF SendUnlock, Trigger
  <2> QED
    BY <1>8, <2>1, <2>2, <2>3, <2>4, <2>5, <2>6 DEF Work
<1>9. CASE UNCHANGED vars
  BY <1>0, <1>9 DEF vars
<1> QED
  BY <1>1, <1>2, <1>3, <1>4, <1>5, <1>6, <1>7, <1>8, <1>9
     DEF Next, Ended, Receive, Send

(* An action that leaves recvQ, the mutex, the workers and whether the      *)
(* network thread is about to signal alone keeps the rest of the invariant. *)
LEMMA WakeupStep ==
  ASSUME WakeupInv, [Next]_vars
  PROVE  WakeupInv'
<1>1. TypeOK'
  BY TypeStep
<1>2. /\ HasBlock /\ LockOwner /\ WaitsUpToDate /\ PopsWhatItSaw
      /\ NoLostWakeup
      /\ recvQ \in Seq(Request)
      /\ pc \in [Worker -> {"lock", "front", "wait", "waiting", "woken",
                        "timedout", "front2", "copy", "aborted", "unlock",
                        "slock", "push", "sunlock", "sunlock-refused",
                        "trigger"}]
      /\ block \in [Worker -> Blocks]
  BY DEF WakeupInv, TypeOK
<1> DEFINE Rest == HasBlock /\ LockOwner /\ WaitsUpToDate /\ PopsWhatItSaw
                     /\ NoLostWakeup
<1> SUFFICES Rest'
  BY <1>1 DEF WakeupInv
<1> USE DEF HasBlock, LockOwner, InRecvLock, WaitsUpToDate, PopsWhatItSaw,
            NoLostWakeup, Awake, Aborted
<1>3. CASE \E len \in ReqLen : Readable(len)
  BY <1>2, <1>3 DEF Readable, workerVars
<1>4. CASE RecvEnd \/ AsyncFires \/ DrainOne \/ DrainEnd
  BY <1>2, <1>4 DEF RecvEnd, AsyncFires, DrainOne, DrainEnd, workerVars
<1>5. CASE RecvPush
  <2>1. /\ recvQ' # <<>>
        /\ recvQ # <<>> => Head(recvQ') = Head(recvQ)
    <3>1. Head(inbox) \in Request
      BY <1>5 DEF RecvPush, CanPush, WakeupInv, TypeOK
    <3> QED
      BY <1>2, <1>5, <3>1, AppendProperties DEF RecvPush
  <2> QED
    BY <1>2, <1>5, <2>1 DEF RecvPush, workerVars
<1>6. CASE RecvLock
  BY <1>2, <1>6, Constants DEF RecvLock, workerVars
<1>7. CASE RecvSignal
  <2>1. CASE \E w \in Worker : pc[w] = "waiting"
    <3> PICK w \in Worker : pc[w] = "waiting" /\ pc' = [pc EXCEPT ![w] = "woken"]
      BY <1>7, <2>1 DEF RecvSignal
    <3>1. Awake(w)'
      BY <1>2
    <3> QED
      BY <1>2, <1>7, <3>1, Constants DEF RecvSignal
  <2>2. CASE ~\E w \in Worker : pc[w] = "waiting"
    <3>1. \A w \in Worker : pc[w] # "waiting" /\ pc[w] # "wait" /\ pc[w] # "aborted"
      BY <1>2, <1>7, <2>2, Constants DEF RecvSignal
    <3>2. \E w \in Worker : Awake(w)'
      BY <1>7, <2>2, <3>1, Constants DEF RecvSignal
    <3> QED
      BY <1>2, <1>7, <2>2, <3>2 DEF RecvSignal
  <2> QED
    BY <2>1, <2>2
<1>8. CASE RecvUnlock
  BY <1>2, <1>8, Constants DEF RecvUnlock, workerVars
<1>9. ASSUME NEW w \in Worker, Work(w) \/ StopWaiting(w) PROVE Rest'
  <2> USE DEF Goto, netVars
  <2>1. CASE Lock(w)
    BY <1>2, <2>1, Constants DEF Lock
  <2>2. CASE FrontBlock(w)
    <3>1. recvQ # <<>> => Head(recvQ) # None
      <4>1. recvQ # <<>> => Head(recvQ) \in Request
        BY <1>2
      <4> QED
        BY <4>1, Constants
    <3>2. recvLock = w /\ \A v \in Worker : InRecvLock(v) => v = w
      BY <1>2, <2>2 DEF FrontBlock
    <3>3. CASE recvQ # <<>>
      BY <1>2, <2>2, <3>1, <3>2, <3>3, Constants DEF FrontBlock
    <3>4. CASE recvQ = <<>>
      BY <1>2, <2>2, <3>2, <3>4, Constants DEF FrontBlock
    <3> QED
      BY <3>3, <3>4
  <2>3. CASE Wait(w)
    BY <1>2, <2>3, Constants DEF Wait
  <2>4. CASE WaitReturns(w)
    BY <1>2, <2>4, Constants DEF WaitReturns
  <2>5. CASE CopyBlock(w)
    BY <1>2, <2>5, Constants DEF CopyBlock
  <2>6. CASE Unlock(w)
    BY <1>2, <2>6, Constants DEF Unlock
  <2>7. CASE SendLock(w) \/ SendPush(w)
    BY <1>2, <2>7, Constants DEF SendLock, SendPush
  <2>8. CASE SendUnlock(w) \/ Trigger(w)
    BY <1>2, <2>8, Constants DEF SendUnlock, Trigger
  <2>9. CASE StopWaiting(w)
    BY <1>2, <2>9, Constants DEF StopWaiting
  <2> QED
    BY <1>9, <2>1, <2>2, <2>3, <2>4, <2>5, <2>6, <2>7, <2>8, <2>9 DEF Work
<1>10. CASE UNCHANGED vars
  BY <1>2, <1>10 DEF vars
<1> QED
  BY <1>3, <1>4, <1>5, <1>6, <1>7, <1>8, <1>9, <1>10
     DEF Next, Ended, Receive, Send

-----------------------------------------------------------------------------
(* The wake-up protocol keeps its invariant whatever the number of workers  *)
(* and requests.                                                            *)
THEOREM WakeupInvariant == Spec => []WakeupInv
<1>1. Init => WakeupInv
  BY InitWakeupInv
<1>2. WakeupInv /\ [Next]_vars => WakeupInv'
  BY WakeupStep
<1> QED
  BY <1>1, <1>2, PTL DEF Spec

(* No worker sleeps through a request: neither the timeout of the wait nor  *)
(* a spurious wake-up is needed.                                            *)
THEOREM WakeupsKept == Spec => []NoLostWakeup
<1>1. WakeupInv => NoLostWakeup
  BY DEF WakeupInv
<1> QED
  BY <1>1, WakeupInvariant, PTL

(* A worker pops the block it looked at, though the push is not locked.     *)
THEOREM PopsMatch == Spec => []PopsWhatItSaw
<1>1. WakeupInv => PopsWhatItSaw
  BY DEF WakeupInv
<1> QED
  BY <1>1, WakeupInvariant, PTL

(* A reply in sendQue is always being drained or about to be: ev_async      *)
(* merges triggers, and a drain that empties the queue serves them all.     *)
THEOREM NotificationsKept == Spec => []NoLostNotification
<1>1. Init => NoLostNotification
  BY DEF Init, NoLostNotification
<1>2. WakeupInv /\ NoLostNotification /\ [Next]_vars => NoLostNotification'
  <2> SUFFICES ASSUME WakeupInv, NoLostNotification, [Next]_vars
               PROVE  NoLostNotification'
    OBVIOUS
  <2> USE DEF NoLostNotification
  <2>1. pc \in [Worker -> {"lock", "front", "wait", "waiting", "woken",
                        "timedout", "front2", "copy", "aborted", "unlock",
                        "slock", "push", "sunlock", "sunlock-refused",
                        "trigger"}]
    BY DEF WakeupInv, TypeOK
  <2>2. CASE \E len \in ReqLen : Readable(len)
    BY <2>2 DEF Readable, workerVars
  <2>3. CASE Receive
    BY <2>1, <2>3 DEF Receive, RecvEnd, RecvPush, RecvLock, RecvSignal,
                      RecvUnlock, workerVars
  <2>4. CASE Send
    BY <2>4 DEF Send, AsyncFires, DrainOne, DrainEnd, workerVars
  <2>5. ASSUME NEW w \in Worker, Work(w) \/ StopWaiting(w)
        PROVE  NoLostNotification'
    <3> USE DEF Goto, netVars
    <3>1. CASE SendPush(w)
      BY <2>1, <3>1 DEF SendPush
    <3>2. CASE SendUnlock(w)
      BY <2>1, <3>2 DEF SendUnlock
    <3>3. CASE Trigger(w)
      BY <3>3 DEF Trigger
    <3>4. CASE Lock(w) \/ FrontBlock(w) \/ Wait(w) \/ StopWaiting(w)
      BY <2>1, <3>4 DEF Lock, FrontBlock, Wait, StopWaiting
    <3>5. CASE WaitReturns(w) \/ CopyBlock(w) \/ Unlock(w) \/ SendLock(w)
      BY <2>1, <3>5 DEF WaitReturns, CopyBlock, Unlock, SendLock
    <3> QED
      BY <2>5, <3>1, <3>2, <3>3, <3>4, <3>5 DEF Work
  <2>6. CASE UNCHANGED vars
    BY <2>6 DEF vars
  <2> QED
    BY <2>2, <2>3, <2>4, <2>5, <2>6 DEF Next, Ended
<1> QED
  BY <1>1, <1>2, WakeupInvariant, PTL DEF Spec

-----------------------------------------------------------------------------
(* Every request is in one place: where it goes, step by step.             *)

(* A queue's ids after a push and after a pop.                             *)
LEMMA PushedIds ==
  ASSUME NEW s \in Seq(Request), NEW r \in Request
  PROVE  Ids(Append(s, r)) = Ids(s) \cup {r.id}
<1>1. /\ Len(Append(s, r)) = Len(s) + 1 /\ Len(s) \in Nat
      /\ \A i \in 1 .. Len(s) : Append(s, r)[i] = s[i]
      /\ Append(s, r)[Len(s) + 1] = r
  BY AppendProperties
<1>2. \A i \in 1 .. Len(s) + 1 : i \in 1 .. Len(s) \/ i = Len(s) + 1
  BY <1>1
<1> HIDE DEF Request
<1> QED BY <1>1, <1>2 DEF Ids

\* No id is twice in s.
Once(s) == \A i, j \in 1 .. Len(s) : i # j => s[i].id # s[j].id

LEMMA PoppedIds ==
  ASSUME NEW s \in Seq(Request), s # <<>>, Once(s)
  PROVE  /\ Head(s) \in Request /\ Head(s).id \in Ids(s)
         /\ Tail(s) \in Seq(Request)
         /\ Ids(Tail(s)) = Ids(s) \ {Head(s).id}
         /\ Once(Tail(s))
<1>1. /\ Head(s) = s[1] /\ Head(s) \in Request /\ Len(s) \in Nat \ {0}
      /\ Tail(s) \in Seq(Request) /\ Len(Tail(s)) = Len(s) - 1
      /\ \A i \in 1 .. Len(s) - 1 : Tail(s)[i] = s[i + 1]
  BY HeadTailProperties, EmptySeq
<1>2. ASSUME NEW x \in Ids(s), x # s[1].id PROVE x \in Ids(Tail(s))
  <2>1. PICK i \in 1 .. Len(s) : x = s[i].id
    BY DEF Ids
  <2>2. i - 1 \in 1 .. Len(Tail(s)) /\ Tail(s)[i - 1] = s[i]
    BY <1>1, <1>2, <2>1
  <2> QED BY <2>1, <2>2 DEF Ids
<1>3. ASSUME NEW x \in Ids(Tail(s)) PROVE x \in Ids(s) /\ x # s[1].id
  <2>1. PICK i \in 1 .. Len(Tail(s)) : x = Tail(s)[i].id
    BY DEF Ids
  <2>2. /\ i \in 1 .. Len(s) - 1 /\ i + 1 \in 1 .. Len(s) /\ 1 \in 1 .. Len(s)
        /\ i + 1 # 1
    BY <1>1
  <2>3. x = s[i + 1].id
    BY <1>1, <2>1, <2>2
  <2> QED BY <2>2, <2>3 DEF Ids, Once
<1>4. Once(Tail(s))
  <2>1. ASSUME NEW i \in 1 .. Len(Tail(s)), NEW j \in 1 .. Len(Tail(s)), i # j
        PROVE  Tail(s)[i].id # Tail(s)[j].id
    <3>1. /\ i + 1 \in 1 .. Len(s) /\ j + 1 \in 1 .. Len(s) /\ i + 1 # j + 1
          /\ i \in 1 .. Len(s) - 1 /\ j \in 1 .. Len(s) - 1
      BY <1>1, <2>1
    <3> QED BY <1>1, <3>1 DEF Once
  <2> QED BY <2>1 DEF Once
<1>5. Head(s).id \in Ids(s)
  BY <1>1 DEF Ids
<1> QED BY <1>1, <1>2, <1>3, <1>4, <1>5

LEMMA JoinedIds ==
  ASSUME NEW s \in Seq(Request), NEW t \in Seq(Request)
  PROVE  s \o t \in Seq(Request) /\ Ids(s \o t) = Ids(s) \cup Ids(t)
<1>1. /\ s \o t \in Seq(Request) /\ Len(s \o t) = Len(s) + Len(t)
      /\ Len(s) \in Nat /\ Len(t) \in Nat
      /\ \A i \in 1 .. Len(s) + Len(t) :
           (s \o t)[i] = IF i <= Len(s) THEN s[i] ELSE t[i - Len(s)]
  BY ConcatProperties, LenProperties
<1>2. ASSUME NEW x \in Ids(s \o t) PROVE x \in Ids(s) \cup Ids(t)
  <2>1. PICK i \in 1 .. Len(s) + Len(t) : x = (s \o t)[i].id
    BY <1>1 DEF Ids
  <2>2. CASE i <= Len(s)
    BY <1>1, <2>1, <2>2 DEF Ids
  <2>3. CASE ~(i <= Len(s))
    <3>1. i - Len(s) \in 1 .. Len(t) /\ x = t[i - Len(s)].id
      BY <1>1, <2>1, <2>3
    <3> QED BY <3>1 DEF Ids
  <2> QED BY <2>2, <2>3
<1>3. ASSUME NEW x \in Ids(s) PROVE x \in Ids(s \o t)
  <2>1. PICK i \in 1 .. Len(s) : x = s[i].id
    BY DEF Ids
  <2>2. i \in 1 .. Len(s) + Len(t) /\ (s \o t)[i] = s[i]
    BY <1>1, <2>1
  <2> QED BY <1>1, <2>1, <2>2 DEF Ids
<1>4. ASSUME NEW x \in Ids(t) PROVE x \in Ids(s \o t)
  <2>1. PICK i \in 1 .. Len(t) : x = t[i].id
    BY DEF Ids
  <2>2. /\ i + Len(s) \in 1 .. Len(s) + Len(t) /\ ~(i + Len(s) <= Len(s))
        /\ i + Len(s) - Len(s) = i
    BY <1>1, <2>1
  <2>3. (s \o t)[i + Len(s)] = t[i]
    BY <1>1, <2>2
  <2> QED BY <1>1, <2>1, <2>2, <2>3 DEF Ids
<1> QED BY <1>1, <1>2, <1>3, <1>4

(* A queue's length is the number of its ids, if none is in it twice.      *)
LEMMA CountedIds ==
  ASSUME NEW s \in Seq(Request), Once(s)
  PROVE  IsFiniteSet(Ids(s)) /\ Cardinality(Ids(s)) = Len(s) /\ Len(s) \in Nat
<1> DEFINE f == [i \in 1 .. Len(s) |-> s[i].id]
<1>1. Len(s) \in Nat
  BY LenProperties
<1>2. f \in [1 .. Len(s) -> Ids(s)]
  BY DEF Ids
<1>3. \A a, b \in 1 .. Len(s) : f[a] = f[b] => a = b
  BY DEF Once
<1>4. \A t \in Ids(s) : \E i \in 1 .. Len(s) : f[i] = t
  BY DEF Ids
<1>5. f \in Bijection(1 .. Len(s), Ids(s))
  <2> HIDE DEF f
  <2> QED BY <1>2, <1>3, <1>4, Fun_IsBij
<1>6. ExistsBijection(1 .. Len(s), Ids(s))
  BY <1>5 DEF ExistsBijection
<1> QED BY <1>1, <1>6, FS_CountingElements, FS_NatBijection

LEMMA PushedOnce ==
  ASSUME NEW s \in Seq(Request), NEW r \in Request, Once(s), r.id \notin Ids(s)
  PROVE  Append(s, r) \in Seq(Request) /\ Once(Append(s, r))
<1>1. /\ Append(s, r) \in Seq(Request)
      /\ Len(Append(s, r)) = Len(s) + 1 /\ Len(s) \in Nat
      /\ \A i \in 1 .. Len(s) : Append(s, r)[i] = s[i]
      /\ Append(s, r)[Len(s) + 1] = r
  BY AppendProperties
<1>2. \A i \in 1 .. Len(s) : s[i].id # r.id
  BY DEF Ids
<1>3. ASSUME NEW i \in 1 .. Len(s) + 1, NEW j \in 1 .. Len(s) + 1, i # j
      PROVE  Append(s, r)[i].id # Append(s, r)[j].id
  <2> DEFINE t == Append(s, r)
  <2>1. /\ \A k \in 1 .. Len(s) : t[k] = s[k]
        /\ t[Len(s) + 1] = r
    BY <1>1
  <2>2. \A k \in 1 .. Len(s) + 1 : k \in 1 .. Len(s) \/ k = Len(s) + 1
    BY <1>1
  <2>3. \A k, l \in 1 .. Len(s) : k # l => s[k].id # s[l].id
    BY DEF Once
  <2> HIDE DEF t
  <2> QED BY <1>2, <1>3, <2>1, <2>2, <2>3
<1> QED BY <1>1, <1>3 DEF Once

(* Six sets of ids of which no two meet.                                   *)
Apart(I, R, W, S, P, D) ==
  /\ I \cap (R \cup W \cup S \cup P \cup D) = {}
  /\ R \cap (W \cup S \cup P \cup D) = {}
  /\ W \cap (S \cup P \cup D) = {}
  /\ S \cap (P \cup D) = {}
  /\ P \cap D = {}

LEMMA ApartCounts ==
  ASSUME NEW I, NEW R, NEW W, NEW S, NEW P, NEW D, NEW n \in Nat,
         Apart(I, R, W, S, P, D),
         I \cup R \cup W \cup S \cup P \cup D = 1 .. n
  PROVE  Cardinality(W) + Cardinality(D) + Cardinality(I) + Cardinality(R)
           + Cardinality(S) + Cardinality(P) = n
<1>1. IsFiniteSet(1 .. n) /\ Cardinality(1 .. n) = n
  BY FS_Interval
<1>2. \A T \in SUBSET (1 .. n) : IsFiniteSet(T) /\ Cardinality(T) \in Nat
  BY <1>1, FS_Subset, FS_CardinalityType
<1>3. \A T, U \in SUBSET (1 .. n) :
        T \cap U = {} => Cardinality(T \cup U) = Cardinality(T) + Cardinality(U)
  <2> SUFFICES ASSUME NEW T \in SUBSET (1 .. n), NEW U \in SUBSET (1 .. n), T \cap U = {}
               PROVE  Cardinality(T \cup U) = Cardinality(T) + Cardinality(U)
    OBVIOUS
  <2>1. Cardinality(T \cup U) = Cardinality(T) + Cardinality(U) - Cardinality(T \cap U)
    BY <1>2, FS_Union
  <2>2. Cardinality(T \cap U) = 0
    BY FS_EmptySet
  <2>3. Cardinality(T) \in Nat /\ Cardinality(U) \in Nat
    BY <1>2
  <2> QED BY <2>1, <2>2, <2>3
<1> DEFINE A2 == W \cup D  A3 == A2 \cup I  A4 == A3 \cup R  A5 == A4 \cup S
<1>4. /\ {I, R, W, S, P, D, A2, A3, A4, A5} \subseteq SUBSET (1 .. n)
      /\ W \cap D = {} /\ A2 \cap I = {} /\ A3 \cap R = {} /\ A4 \cap S = {}
      /\ A5 \cap P = {} /\ A5 \cup P = 1 .. n
  BY DEF Apart
<1>5. Cardinality(A2) = Cardinality(W) + Cardinality(D)
  BY <1>3, <1>4
<1>6. Cardinality(A3) = Cardinality(A2) + Cardinality(I)
  BY <1>3, <1>4
<1>7. Cardinality(A4) = Cardinality(A3) + Cardinality(R)
  BY <1>3, <1>4
<1>8. Cardinality(A5) = Cardinality(A4) + Cardinality(S)
  BY <1>3, <1>4
<1>9. n = Cardinality(A5) + Cardinality(P)
  BY <1>1, <1>3, <1>4
<1> QED BY <1>5, <1>6, <1>7, <1>8, <1>9, Zenon

(* The inductive form of OnePlace and of the ids in HandOverInv: the counts *)
(* follow.                                                                  *)
HoldApart == \A v, w \in Worker : v # w => Holding(v) \cap Holding(w) = {}
Kept ==
  /\ Once(inbox) /\ Once(recvQ) /\ Once(sendQ) /\ Once(replied)
  /\ HoldApart
  /\ Apart(Ids(inbox), Ids(recvQ), WithWorkers, Ids(sendQ), Ids(replied), DroppedIds)
  /\ Ids(inbox) \cup Ids(recvQ) \cup WithWorkers \cup Ids(sendQ)
       \cup Ids(replied) \cup DroppedIds = 1 .. arrived
PlaceInv == WakeupInv /\ EmptyHanded /\ Kept

LEMMA PlaceInvMeans ==
  ASSUME PlaceInv
  PROVE  EmptyHanded /\ IdsOnce /\ PlacesApart /\ OnePlace
<1>1. /\ inbox \in Seq(Request) /\ recvQ \in Seq(Request)
      /\ sendQ \in Seq(Request) /\ replied \in Seq(Request)
      /\ arrived \in Nat
  BY Constants DEF PlaceInv, WakeupInv, TypeOK
<1>2. Kept
  BY DEF PlaceInv
<1>3. IdsOnce
  BY <1>2 DEF Kept, Once, IdsOnce
<1>4. PlacesApart
  <2>1. /\ DOMAIN Places = {"inbox", "recvQ", "workers", "sendQ", "replied", "dropped"}
        /\ Places["inbox"] = Ids(inbox) /\ Places["recvQ"] = Ids(recvQ)
        /\ Places["workers"] = WithWorkers /\ Places["sendQ"] = Ids(sendQ)
        /\ Places["replied"] = Ids(replied) /\ Places["dropped"] = DroppedIds
    BY DEF Places
  <2>2. ASSUME NEW p \in DOMAIN Places, NEW q \in DOMAIN Places, p # q
        PROVE  Places[p] \cap Places[q] = {}
    BY <1>2, <2>1, <2>2 DEF Kept, Apart
  <2> QED BY <2>2 DEF PlacesApart
<1>5. Ids(inbox \o recvQ \o sendQ \o replied)
        = Ids(inbox) \cup Ids(recvQ) \cup Ids(sendQ) \cup Ids(replied)
  <2>1. /\ inbox \o recvQ \in Seq(Request)
        /\ Ids(inbox \o recvQ) = Ids(inbox) \cup Ids(recvQ)
    BY <1>1, JoinedIds
  <2>2. /\ inbox \o recvQ \o sendQ \in Seq(Request)
        /\ Ids(inbox \o recvQ \o sendQ) = Ids(inbox \o recvQ) \cup Ids(sendQ)
    BY <1>1, <2>1, JoinedIds
  <2>3. Ids(inbox \o recvQ \o sendQ \o replied)
          = Ids(inbox \o recvQ \o sendQ) \cup Ids(replied)
    BY <1>1, <2>2, JoinedIds
  <2> QED BY <2>1, <2>2, <2>3
<1>6. /\ Cardinality(Ids(inbox)) = Len(inbox) /\ Len(inbox) \in Nat
      /\ Cardinality(Ids(recvQ)) = Len(recvQ) /\ Len(recvQ) \in Nat
      /\ Cardinality(Ids(sendQ)) = Len(sendQ) /\ Len(sendQ) \in Nat
      /\ Cardinality(Ids(replied)) = Len(replied) /\ Len(replied) \in Nat
  BY <1>1, <1>2, CountedIds DEF Kept
<1>7. Cardinality(WithWorkers) + Cardinality(DroppedIds) + Cardinality(Ids(inbox))
        + Cardinality(Ids(recvQ)) + Cardinality(Ids(sendQ)) + Cardinality(Ids(replied))
        = arrived
  <2>1. Apart(Ids(inbox), Ids(recvQ), WithWorkers, Ids(sendQ), Ids(replied), DroppedIds)
    BY <1>2 DEF Kept
  <2>2. Ids(inbox) \cup Ids(recvQ) \cup WithWorkers \cup Ids(sendQ) \cup Ids(replied)
          \cup DroppedIds = 1 .. arrived
    BY <1>2 DEF Kept
  <2> QED BY <1>1, <2>1, <2>2, ApartCounts
<1>8. Cardinality(WithWorkers) \in Nat /\ Cardinality(DroppedIds) \in Nat
  <2>1. IsFiniteSet(1 .. arrived)
    BY <1>1, FS_Interval
  <2>2. WithWorkers \in SUBSET (1 .. arrived) /\ DroppedIds \in SUBSET (1 .. arrived)
    BY <1>2 DEF Kept
  <2> QED BY <2>1, <2>2, FS_Subset, FS_CardinalityType
<1>9. OnePlace
  <2>1. WithWorkers \cup DroppedIds \cup Ids(inbox \o recvQ \o sendQ \o replied)
          = 1 .. arrived
    BY <1>2, <1>5 DEF Kept
  <2>2. Cardinality(WithWorkers) + Cardinality(DroppedIds)
          + Len(inbox) + Len(recvQ) + Len(sendQ) + Len(replied) = arrived
    BY <1>6, <1>7, Zenon
  <2>3. HoldApart
    BY <1>2 DEF Kept
  <2> QED BY <2>1, <2>2, <2>3 DEF OnePlace, HoldApart
<1> QED BY <1>3, <1>4, <1>9 DEF PlaceInv

LEMMA InitPlaceInv == Init => PlaceInv
<1> SUFFICES ASSUME Init PROVE PlaceInv
  OBVIOUS
<1>1. WakeupInv
  BY InitWakeupInv
<1>2. \A w \in Worker : Holding(w) = {}
  BY DEF Init, Holding
<1>3. WithWorkers = {}
  BY <1>2 DEF WithWorkers
<1>4. Ids(<<>>) = {} /\ Once(<<>>)
  BY DEF Ids, Once
<1>5. DroppedIds = {}
  BY DEF Init, DroppedIds
<1>6. 1 .. arrived = {}
  BY DEF Init
<1>7. EmptyHanded
  BY DEF Init, EmptyHanded
<1> QED
  BY <1>1, <1>2, <1>3, <1>4, <1>5, <1>6, <1>7
     DEF Init, PlaceInv, Kept, HoldApart, Apart

(* What the workers have when the hand of one of them changes.             *)
LEMMA WorkersChange ==
  ASSUME HoldApart, NEW w \in Worker, NEW H,
         \A v \in Worker \ {w} : Holding(v)' = Holding(v),
         Holding(w)' = H,
         H \cap (WithWorkers \ Holding(w)) = {}
  PROVE  WithWorkers' = (WithWorkers \ Holding(w)) \cup H /\ HoldApart'
<1>1. \A v \in Worker \ {w} : Holding(v) \cap Holding(w) = {}
  BY DEF HoldApart
<1>2. \A v \in Worker : Holding(v) \subseteq WithWorkers
  BY DEF WithWorkers
<1>3. ASSUME NEW x \in WithWorkers' PROVE x \in (WithWorkers \ Holding(w)) \cup H
  <2>1. PICK v \in Worker : x \in Holding(v)'
    BY <1>3 DEF WithWorkers
  <2> QED BY <1>1, <1>2, <2>1
<1>4. ASSUME NEW x \in (WithWorkers \ Holding(w)) \cup H PROVE x \in WithWorkers'
  <2>1. x \in H => x \in WithWorkers'
    BY DEF WithWorkers
  <2>2. ASSUME x \in WithWorkers, x \notin Holding(w) PROVE x \in WithWorkers'
    <3>1. PICK v \in Worker : x \in Holding(v)
      BY <2>2 DEF WithWorkers
    <3>2. v # w /\ x \in Holding(v)'
      BY <2>2, <3>1
    <3> QED BY <3>2 DEF WithWorkers
  <2> QED BY <1>4, <2>1, <2>2
<1>5. HoldApart'
  <2> SUFFICES ASSUME NEW v \in Worker, NEW u \in Worker, v # u
               PROVE  Holding(v)' \cap Holding(u)' = {}
    BY DEF HoldApart
  <2>1. Holding(v) \cap Holding(u) = {}
    BY DEF HoldApart
  <2> QED BY <1>1, <1>2, <2>1
<1> QED BY <1>3, <1>4, <1>5

LEMMA QuietStep ==
  ASSUME Kept,
         UNCHANGED <<arrived, inbox, recvQ, sendQ, replied, dropped>>,
         \A v \in Worker : Holding(v)' = Holding(v)
  PROVE  Kept'
<1>1. WithWorkers' = WithWorkers
  BY DEF WithWorkers
<1>2. HoldApart'
  BY DEF Kept, HoldApart
<1> QED BY <1>1, <1>2 DEF Kept, DroppedIds

(* The steps of the network thread: only the inbox, recvQue and the replies *)
(* change.                                                                  *)
LEMMA NetKeeps ==
  ASSUME PlaceInv, (\E len \in ReqLen : Readable(len)) \/ Receive \/ Send
  PROVE  Kept' /\ EmptyHanded'
<1>1. /\ inbox \in Seq(Request) /\ recvQ \in Seq(Request)
      /\ sendQ \in Seq(Request) /\ replied \in Seq(Request)
      /\ arrived \in Nat
      /\ pc \in [Worker -> {"lock", "front", "wait", "waiting", "woken",
                        "timedout", "front2", "copy", "aborted", "unlock",
                        "slock", "push", "sunlock", "sunlock-refused",
                        "trigger"}]
  BY Constants DEF PlaceInv, WakeupInv, TypeOK
<1>2. Kept /\ EmptyHanded
  BY DEF PlaceInv
<1>3. ASSUME block' = block, pc' = pc
      PROVE  /\ \A v \in Worker : Holding(v)' = Holding(v)
             /\ WithWorkers' = WithWorkers /\ HoldApart' = HoldApart
             /\ EmptyHanded'
  <2>1. \A v \in Worker : Holding(v)' = Holding(v)
    BY <1>3 DEF Holding
  <2> QED BY <1>2, <1>3, <2>1 DEF WithWorkers, HoldApart, EmptyHanded
<1>4. CASE \E len \in ReqLen : Readable(len)
  <2> PICK len \in ReqLen : Readable(len)
    BY <1>4
  <2> DEFINE r == [id |-> arrived + 1, len |-> len]
  <2>1. /\ arrived' = arrived + 1 /\ inbox' = Append(inbox, r)
        /\ UNCHANGED <<recvQ, sendQ, replied, dropped, pc, block>>
    BY DEF Readable, workerVars
  <2>2. r \in Request /\ r.id = arrived + 1
    BY <1>1, Constants DEF Readable, Request
  <2>3. arrived + 1 \notin 1 .. arrived /\ 1 .. arrived + 1 = (1 .. arrived) \cup {arrived + 1}
    BY <1>1
  <2> HIDE DEF r
  <2>4. Ids(inbox') = Ids(inbox) \cup {arrived + 1}
    BY <1>1, <2>1, <2>2, PushedIds
  <2>5. Once(inbox')
    <3>1. r.id \notin Ids(inbox)
      BY <1>2, <2>2, <2>3 DEF Kept
    <3> QED BY <1>1, <1>2, <2>1, <2>2, <3>1, PushedOnce DEF Kept
  <2>6. DroppedIds' = DroppedIds
    BY <2>1 DEF DroppedIds
  <2>7. WithWorkers' = WithWorkers /\ HoldApart' = HoldApart /\ EmptyHanded'
    BY <1>3, <2>1
  <2> QED BY <1>2, <2>1, <2>3, <2>4, <2>5, <2>6, <2>7 DEF Kept, Apart
<1>5. CASE RecvPush
  <2> DEFINE r == Head(inbox)
  <2>1. /\ inbox # <<>> /\ recvQ' = Append(recvQ, r) /\ inbox' = Tail(inbox)
        /\ UNCHANGED <<arrived, sendQ, replied, dropped, pc, block>>
    BY <1>5 DEF RecvPush, CanPush, workerVars
  <2>2. /\ r \in Request /\ r.id \in Ids(inbox)
        /\ Ids(inbox') = Ids(inbox) \ {r.id}
        /\ Once(inbox')
    <3>1. Once(inbox)
      BY <1>2 DEF Kept
    <3> QED BY <1>1, <2>1, <3>1, PoppedIds
  <2> HIDE DEF r
  <2>3. r.id \notin Ids(recvQ)
    BY <1>2, <2>2 DEF Kept, Apart
  <2>4. Ids(recvQ') = Ids(recvQ) \cup {r.id} /\ Once(recvQ')
    BY <1>1, <1>2, <2>1, <2>2, <2>3, PushedIds, PushedOnce DEF Kept
  <2>5. DroppedIds' = DroppedIds
    BY <2>1 DEF DroppedIds
  <2>6. WithWorkers' = WithWorkers /\ HoldApart' = HoldApart /\ EmptyHanded'
    BY <1>3, <2>1
  <2> QED BY <1>2, <2>1, <2>2, <2>4, <2>5, <2>6 DEF Kept, Apart
<1>6. CASE DrainOne
  <2> DEFINE r == Head(sendQ)
  <2>1. /\ sendQ # <<>> /\ replied' = Append(replied, r) /\ sendQ' = Tail(sendQ)
        /\ UNCHANGED <<arrived, inbox, recvQ, dropped, pc, block>>
    BY <1>6 DEF DrainOne, workerVars
  <2>2. /\ r \in Request /\ r.id \in Ids(sendQ)
        /\ Ids(sendQ') = Ids(sendQ) \ {r.id}
        /\ Once(sendQ')
    <3>1. Once(sendQ)
      BY <1>2 DEF Kept
    <3> QED BY <1>1, <2>1, <3>1, PoppedIds
  <2> HIDE DEF r
  <2>3. r.id \notin Ids(replied)
    BY <1>2, <2>2 DEF Kept, Apart
  <2>4. Ids(replied') = Ids(replied) \cup {r.id} /\ Once(replied')
    BY <1>1, <1>2, <2>1, <2>2, <2>3, PushedIds, PushedOnce DEF Kept
  <2>5. DroppedIds' = DroppedIds
    BY <2>1 DEF DroppedIds
  <2>6. WithWorkers' = WithWorkers /\ HoldApart' = HoldApart /\ EmptyHanded'
    BY <1>3, <2>1
  <2> QED BY <1>2, <2>1, <2>2, <2>4, <2>5, <2>6 DEF Kept, Apart
<1>7. CASE RecvEnd \/ RecvLock \/ RecvUnlock \/ AsyncFires \/ DrainEnd
  <2>1. UNCHANGED <<arrived, inbox, recvQ, sendQ, replied, dropped, pc, block>>
    BY <1>7 DEF RecvEnd, RecvLock, RecvUnlock, AsyncFires, DrainEnd, workerVars
  <2> QED BY <1>2, <1>3, <2>1, QuietStep
<1>8. CASE RecvSignal
  <2>1. UNCHANGED <<arrived, inbox, recvQ, sendQ, replied, dropped, block>>
    BY <1>8 DEF RecvSignal
  <2>2. \A v \in Worker : pc'[v] # pc[v] => pc[v] = "waiting" /\ pc'[v] = "woken"
    BY <1>1, <1>8 DEF RecvSignal
  <2>3. \A v \in Worker : Holding(v)' = Holding(v)
    BY <2>1, <2>2 DEF Holding
  <2>4. EmptyHanded'
    BY <1>2, <2>1, <2>2 DEF EmptyHanded
  <2> QED BY <1>2, <2>1, <2>3, <2>4, QuietStep
<1> QED BY <1>4, <1>5, <1>6, <1>7, <1>8 DEF Receive, Send

(* The steps of a worker: the block it pops, then pushes or sees refused.  *)
LEMMA WorkerKeeps ==
  ASSUME PlaceInv, NEW w \in Worker, Work(w) \/ StopWaiting(w)
  PROVE  Kept' /\ EmptyHanded'
<1> DEFINE Pc == {"lock", "front", "wait", "waiting", "woken", "timedout",
                  "front2", "copy", "aborted", "unlock", "slock", "push",
                  "sunlock", "sunlock-refused", "trigger"}
<1>1. /\ inbox \in Seq(Request) /\ recvQ \in Seq(Request)
      /\ sendQ \in Seq(Request) /\ replied \in Seq(Request)
      /\ pc \in [Worker -> Pc] /\ block \in [Worker -> Blocks]
  BY DEF PlaceInv, WakeupInv, TypeOK
<1>2. Kept /\ EmptyHanded /\ HasBlock /\ PopsWhatItSaw
  BY DEF PlaceInv, WakeupInv
<1>3. UNCHANGED <<arrived, inbox, replied>>
  BY DEF Work, StopWaiting, Lock, FrontBlock, Wait, WaitReturns, CopyBlock,
         Unlock, SendLock, SendPush, SendUnlock, Trigger, netVars
<1>4. \A v \in Worker \ {w} : pc'[v] = pc[v] /\ block'[v] = block[v]
  BY <1>1 DEF Work, StopWaiting, Lock, FrontBlock, Wait, WaitReturns, CopyBlock,
         Unlock, SendLock, SendPush, SendUnlock, Trigger, Goto
<1>5. \A v \in Worker \ {w} : Holding(v)' = Holding(v)
  BY <1>4 DEF Holding
<1>6. EmptyHanded'
  <2>1. CASE Lock(w) \/ FrontBlock(w) \/ Wait(w) \/ StopWaiting(w) \/ WaitReturns(w)
    BY <1>1, <1>2, <2>1 DEF EmptyHanded, Goto, Lock, FrontBlock, Wait, StopWaiting, WaitReturns
  <2>2. CASE CopyBlock(w) \/ Unlock(w) \/ SendLock(w) \/ SendPush(w)
    BY <1>1, <1>2, <2>2 DEF EmptyHanded, Goto, CopyBlock, Unlock, SendLock, SendPush
  <2>3. CASE SendUnlock(w) \/ Trigger(w)
    BY <1>1, <1>2, <2>3 DEF EmptyHanded, Goto, SendUnlock, Trigger
  <2> QED BY <2>1, <2>2, <2>3 DEF Work
<1>7. CASE CopyBlock(w) /\ HeadLen + block[w].len <= MaxMsgLen
  <2> DEFINE r == Head(recvQ)
  <2>1. /\ recvQ # <<>> /\ block[w] = r /\ recvQ' = Tail(recvQ)
        /\ pc[w] = "copy" /\ pc'[w] = "unlock"
        /\ UNCHANGED <<sendQ, dropped, block>>
    BY <1>1, <1>2, <1>7 DEF CopyBlock, PopsWhatItSaw, Goto
  <2>2. /\ r \in Request /\ r.id \in Ids(recvQ)
        /\ Ids(recvQ') = Ids(recvQ) \ {r.id}
        /\ Once(recvQ')
    <3>1. Once(recvQ)
      BY <1>2 DEF Kept
    <3> QED BY <1>1, <2>1, <3>1, PoppedIds
  <2> HIDE DEF r
  <2>3. Holding(w) = {} /\ Holding(w)' = {r.id}
    BY <2>1, <2>2, Constants DEF Holding
  <2>4. r.id \notin WithWorkers
    BY <1>2, <2>2 DEF Kept, Apart
  <2>5. WithWorkers' = WithWorkers \cup {r.id} /\ HoldApart'
    BY <1>2, <1>5, <2>3, <2>4, WorkersChange DEF Kept
  <2>6. DroppedIds' = DroppedIds
    BY <2>1 DEF DroppedIds
  <2>7. Kept'
    BY <1>2, <1>3, <2>1, <2>2, <2>5, <2>6 DEF Kept, Apart
  <2> QED BY <1>6, <2>7
<1>8. CASE SendPush(w)
  <2> DEFINE r == block[w]
  <2>1. /\ pc[w] = "push" /\ pc'[w] \in {"sunlock", "sunlock-refused"}
        /\ UNCHANGED <<recvQ, block>>
        /\ \/ sendQ' = Append(sendQ, r) /\ dropped' = dropped
           \/ sendQ' = sendQ /\ dropped' = dropped \cup {r}
    BY <1>1, <1>8 DEF SendPush, Goto
  <2>2. r \in Request /\ r # None
    BY <1>1, <1>2, <2>1 DEF HasBlock, Blocks
  <2> HIDE DEF r
  <2>3. Holding(w) = {r.id} /\ Holding(w)' = {}
    BY <2>1, <2>2 DEF Holding, r
  <2>4. WithWorkers' = WithWorkers \ {r.id} /\ HoldApart' /\ r.id \in WithWorkers
    <3>1. WithWorkers' = (WithWorkers \ Holding(w)) \cup {} /\ HoldApart'
      BY <1>2, <1>5, <2>3, WorkersChange DEF Kept
    <3>2. Holding(w) \subseteq WithWorkers
      BY DEF WithWorkers
    <3> QED BY <2>3, <3>1, <3>2
  <2>5. r.id \notin Ids(sendQ) /\ r.id \notin DroppedIds
    BY <1>2, <2>4 DEF Kept, Apart
  <2>6. \/ /\ Ids(sendQ') = Ids(sendQ) \cup {r.id} /\ Once(sendQ')
           /\ DroppedIds' = DroppedIds
        \/ /\ sendQ' = sendQ
           /\ DroppedIds' = DroppedIds \cup {r.id}
    <3>1. CASE sendQ' = Append(sendQ, r) /\ dropped' = dropped
      BY <1>1, <1>2, <2>2, <2>5, <3>1, PushedIds, PushedOnce DEF Kept, DroppedIds
    <3>2. CASE sendQ' = sendQ /\ dropped' = dropped \cup {r}
      BY <3>2 DEF DroppedIds
    <3> QED BY <2>1, <3>1, <3>2
  <2>7. Kept'
    BY <1>2, <1>3, <2>1, <2>4, <2>5, <2>6 DEF Kept, Apart
  <2> QED BY <1>6, <2>7
<1>9. ASSUME UNCHANGED <<recvQ, sendQ, dropped>>, Holding(w)' = Holding(w)
      PROVE  Kept' /\ EmptyHanded'
  <2>1. \A v \in Worker : Holding(v)' = Holding(v)
    BY <1>5, <1>9
  <2> QED BY <1>2, <1>3, <1>6, <1>9, <2>1, QuietStep
<1>10. CASE Lock(w) \/ Wait(w) \/ StopWaiting(w) \/ WaitReturns(w)
  BY <1>1, <1>2, <1>9, <1>10
     DEF Holding, EmptyHanded, Goto, Lock, Wait, StopWaiting, WaitReturns
<1>11. CASE FrontBlock(w)
  BY <1>1, <1>2, <1>9, <1>11 DEF Holding, EmptyHanded, Goto, FrontBlock
<1>12. CASE Unlock(w) \/ SendLock(w)
  BY <1>1, <1>9, <1>12 DEF Holding, Goto, Unlock, SendLock
<1>13. CASE SendUnlock(w) \/ Trigger(w)
  BY <1>1, <1>9, <1>13 DEF Holding, Goto, SendUnlock, Trigger
<1>14. CASE CopyBlock(w) /\ ~(HeadLen + block[w].len <= MaxMsgLen)
  BY <1>1, <1>9, <1>14 DEF Holding, Goto, CopyBlock
<1> QED
  BY <1>7, <1>8, <1>10, <1>11, <1>12, <1>13, <1>14 DEF Work

LEMMA PlaceInvariant == Spec => []PlaceInv
<1>1. PlaceInv /\ [Next]_vars => PlaceInv'
  <2> SUFFICES ASSUME PlaceInv, [Next]_vars PROVE PlaceInv'
    OBVIOUS
  <2>1. WakeupInv'
    BY WakeupStep DEF PlaceInv
  <2>2. Kept' /\ EmptyHanded'
    <3>1. CASE UNCHANGED vars
      <4>1. \A v \in Worker : Holding(v)' = Holding(v)
        BY <3>1 DEF vars, Holding
      <4>2. Kept'
        BY <3>1, <4>1, QuietStep DEF PlaceInv, vars
      <4> QED BY <3>1, <4>2 DEF PlaceInv, EmptyHanded, vars
    <3> QED BY <3>1, NetKeeps, WorkerKeeps DEF Next, Ended
  <2> QED BY <2>1, <2>2 DEF PlaceInv
<1> QED
  BY <1>1, InitPlaceInv, PTL DEF Spec

(* No request is lost between two threads, answered twice or handled by two *)
(* workers, whatever the number of workers and of requests and the sizes of *)
(* the queues: the places hold the ids of all that arrived, as many as did. *)
THEOREM EachInOnePlace == Spec => []OnePlace
<1>1. PlaceInv => OnePlace
  BY PlaceInvMeans
<1> QED BY <1>1, PlaceInvariant, PTL

-----------------------------------------------------------------------------
(* What the queues ask of the threads around them.                         *)

(* The mutex of sendLocker_ and its owner agree after every step.          *)
LEMMA SendOwnerStep ==
  ASSUME WakeupInv, SendOwner, [Next]_vars
  PROVE  SendOwner'
<1>1. pc \in [Worker -> {"lock", "front", "wait", "waiting", "woken",
                        "timedout", "front2", "copy", "aborted", "unlock",
                        "slock", "push", "sunlock", "sunlock-refused",
                        "trigger"}]
  BY DEF WakeupInv, TypeOK
<1> USE DEF SendOwner
<1>2. CASE (\E len \in ReqLen : Readable(len)) \/ Send
  BY <1>2 DEF Readable, Send, AsyncFires, DrainOne, DrainEnd, workerVars
<1>3. CASE RecvEnd \/ RecvPush \/ RecvLock \/ RecvUnlock
  BY <1>3 DEF RecvEnd, RecvPush, RecvLock, RecvUnlock, workerVars
<1>4. CASE RecvSignal
  BY <1>1, <1>4 DEF RecvSignal
<1>5. ASSUME NEW w \in Worker, Work(w) \/ StopWaiting(w) PROVE SendOwner'
  <2> USE DEF Goto
  <2>1. CASE Lock(w) \/ FrontBlock(w) \/ Wait(w) \/ StopWaiting(w)
    BY <1>1, <2>1 DEF Lock, FrontBlock, Wait, StopWaiting
  <2>2. CASE WaitReturns(w) \/ CopyBlock(w) \/ Unlock(w) \/ Trigger(w)
    BY <1>1, <2>2 DEF WaitReturns, CopyBlock, Unlock, Trigger
  <2>3. CASE SendLock(w)
    BY <1>1, <2>3, Constants DEF SendLock
  <2>4. CASE SendPush(w)
    BY <1>1, <2>4 DEF SendPush
  <2>5. CASE SendUnlock(w)
    BY <1>1, <2>5, Constants DEF SendUnlock
  <2> QED
    BY <1>5, <2>1, <2>2, <2>3, <2>4, <2>5 DEF Work
<1>6. CASE UNCHANGED vars
  BY <1>6 DEF vars
<1> QED
  BY <1>2, <1>3, <1>4, <1>5, <1>6 DEF Next, Ended, Receive

LEMMA SendOwnerInvariant == Spec => []SendOwner
<1>1. Init => SendOwner
  BY Constants DEF Init, SendOwner
<1>2. WakeupInv /\ SendOwner /\ [Next]_vars => SendOwner'
  BY SendOwnerStep
<1> QED
  BY <1>1, <1>2, WakeupInvariant, PTL DEF Spec

(* No two workers are at the same end of a queue, however many there are:   *)
(* what LoopQueue, which has no lock, is checked and proved under.          *)
THEOREM EndsApart == Spec => []OneAtEachEnd
<1>1. WakeupInv /\ SendOwner => OneAtEachEnd
  BY DEF WakeupInv, LockOwner, InRecvLock, SendOwner, OneAtEachEnd,
         PopsRecvQue, PushesSendQue
<1> QED
  BY <1>1, WakeupInvariant, SendOwnerInvariant, PTL

(* What a worker can have in hand comes through recvTcpMsg's check.        *)
LEMMA FitsStep ==
  ASSUME WakeupInv, FitsPushed, [Next]_vars
  PROVE  FitsPushed'
<1>1. /\ inbox \in Seq(Request) /\ recvQ \in Seq(Request)
      /\ block \in [Worker -> Blocks]
      /\ PopsWhatItSaw
  BY DEF WakeupInv, TypeOK
<1>2. /\ \A i \in 1 .. Len(recvQ) : recvQ[i].len <= MaxMsgLen
      /\ \A w \in Worker : block[w] # None => block[w].len <= MaxMsgLen
  BY DEF FitsPushed
<1>3. ASSUME UNCHANGED <<recvQ, block>> PROVE FitsPushed'
  BY <1>3 DEF FitsPushed
<1>4. CASE RecvPush
  <2>1. /\ Head(inbox) \in Request /\ Head(inbox).len <= MaxMsgLen
        /\ recvQ' = Append(recvQ, Head(inbox)) /\ block' = block
    BY <1>1, <1>4 DEF RecvPush, CanPush, workerVars
  <2>2. /\ Len(recvQ') = Len(recvQ) + 1 /\ Len(recvQ) \in Nat
        /\ \A i \in 1 .. Len(recvQ) : recvQ'[i] = recvQ[i]
        /\ recvQ'[Len(recvQ) + 1] = Head(inbox)
    BY <1>1, <2>1, AppendProperties
  <2>3. ASSUME NEW i \in 1 .. Len(recvQ') PROVE recvQ'[i].len <= MaxMsgLen
    <3>1. i \in 1 .. Len(recvQ) \/ i = Len(recvQ) + 1
      BY <2>2
    <3> QED BY <1>2, <2>1, <2>2, <3>1
  <2> QED BY <1>2, <2>1, <2>3 DEF FitsPushed
<1>5. CASE (\E len \in ReqLen : Readable(len)) \/ Send
  BY <1>3, <1>5 DEF Readable, Send, AsyncFires, DrainOne, DrainEnd, workerVars
<1>6. CASE RecvEnd \/ RecvLock \/ RecvSignal \/ RecvUnlock
  BY <1>3, <1>6 DEF RecvEnd, RecvLock, RecvSignal, RecvUnlock, workerVars
<1>7. ASSUME NEW w \in Worker, Work(w) \/ StopWaiting(w) PROVE FitsPushed'
  <2>1. CASE FrontBlock(w)
    <3>1. recvQ' = recvQ
      BY <2>1 DEF FrontBlock
    <3>2. CASE recvQ # <<>>
      <4>1. block' = [block EXCEPT ![w] = Head(recvQ)]
        BY <2>1, <3>2 DEF FrontBlock
      <4>2. Head(recvQ) = recvQ[1] /\ 1 \in 1 .. Len(recvQ)
        BY <1>1, <3>2
      <4>3. Head(recvQ).len <= MaxMsgLen
        BY <1>2, <4>2
      <4> QED BY <1>1, <1>2, <3>1, <4>1, <4>3 DEF FitsPushed
    <3>3. CASE recvQ = <<>>
      BY <1>3, <2>1, <3>1, <3>3 DEF FrontBlock
    <3> QED BY <3>2, <3>3
  <2>2. CASE CopyBlock(w)
    <3>1. block' = block /\ (recvQ' = recvQ \/ recvQ' = Tail(recvQ)) /\ recvQ # <<>>
      BY <1>1, <2>2 DEF CopyBlock, PopsWhatItSaw
    <3>2. CASE recvQ' = Tail(recvQ)
      <4>1. /\ Len(recvQ) \in Nat /\ Len(recvQ') = Len(recvQ) - 1
            /\ \A i \in 1 .. Len(recvQ) - 1 : recvQ'[i] = recvQ[i + 1]
        BY <1>1, <3>1, <3>2, HeadTailProperties
      <4>2. ASSUME NEW i \in 1 .. Len(recvQ') PROVE recvQ'[i].len <= MaxMsgLen
        <5>1. i \in 1 .. Len(recvQ) - 1 /\ i + 1 \in 1 .. Len(recvQ)
          BY <4>1
        <5> QED BY <1>2, <4>1, <5>1
      <4> QED BY <1>2, <3>1, <4>2 DEF FitsPushed
    <3> QED BY <1>3, <3>1, <3>2
  <2>3. CASE Lock(w) \/ Wait(w) \/ StopWaiting(w) \/ WaitReturns(w) \/ Unlock(w)
             \/ SendLock(w) \/ SendPush(w)
    BY <1>3, <2>3 DEF Lock, Wait, StopWaiting, WaitReturns, Unlock, SendLock, SendPush
  <2>4. CASE SendUnlock(w) \/ Trigger(w)
    <3>1. recvQ' = recvQ /\ (block' = block \/ block' = [block EXCEPT ![w] = None])
      BY <2>4 DEF SendUnlock, Trigger
    <3> QED BY <1>1, <1>2, <3>1 DEF FitsPushed
  <2> QED BY <1>7, <2>1, <2>2, <2>3, <2>4 DEF Work
<1>8. CASE UNCHANGED vars
  BY <1>3, <1>8 DEF vars
<1> QED
  BY <1>4, <1>5, <1>6, <1>7, <1>8 DEF Next, Ended, Receive

(* A step after which a worker has failed the assertion is one in which it  *)
(* does, or no step at all.                                                 *)
LEMMA AbortsStep ==
  ASSUME WakeupInv, FitsPushed, AbortsKnown, [Next]_vars
  PROVE  AbortsKnown'
<1>1. /\ pc \in [Worker -> {"lock", "front", "wait", "waiting", "woken",
                        "timedout", "front2", "copy", "aborted", "unlock",
                        "slock", "push", "sunlock", "sunlock-refused",
                        "trigger"}]
      /\ block \in [Worker -> Blocks] /\ HasBlock
      /\ MaxMsgLen \in Nat /\ HeadLen \in Nat /\ ReqLen \subseteq Nat
  BY MultiServerAssumption DEF WakeupInv, TypeOK
<1>2. CASE UNCHANGED vars
  BY <1>2 DEF vars, AbortsKnown
<1>3. ASSUME ~Aborted, NEW w \in Worker, CopyBlock(w) PROVE AbortsKnown'
  <2>1. \A v \in Worker : pc'[v] = "aborted" => v = w
    BY <1>1, <1>3 DEF CopyBlock, Goto, Aborted
  <2>2. pc'[w] = "aborted" => ~(HeadLen + block[w].len <= MaxMsgLen)
    BY <1>1, <1>3 DEF CopyBlock, Goto
  <2>3. /\ block[w] \in Request /\ block[w].len <= MaxMsgLen /\ block' = block
    BY <1>1, <1>3 DEF CopyBlock, HasBlock, Blocks, FitsPushed
  <2>4. block[w].len \in Nat
    BY <1>1, <2>3 DEF Request
  <2>5. pc'[w] = "aborted" => block'[w].len \in (MaxMsgLen - HeadLen) + 1 .. MaxMsgLen
    BY <1>1, <2>2, <2>3, <2>4
  <2> QED BY <2>1, <2>5 DEF AbortsKnown
<1>4. ASSUME ~Aborted, \A v \in Worker : pc'[v] = "aborted" => pc[v] = "aborted"
      PROVE  AbortsKnown'
  BY <1>4 DEF AbortsKnown, Aborted
<1>5. CASE ~Aborted /\ ((\E len \in ReqLen : Readable(len)) \/ Send)
  BY <1>4, <1>5 DEF Readable, Send, AsyncFires, DrainOne, DrainEnd, workerVars
<1>6. CASE ~Aborted /\ (RecvEnd \/ RecvPush \/ RecvLock \/ RecvUnlock)
  BY <1>4, <1>6 DEF RecvEnd, RecvPush, RecvLock, RecvUnlock, workerVars
<1>7. CASE ~Aborted /\ RecvSignal
  BY <1>1, <1>4, <1>7 DEF RecvSignal
<1>8. ASSUME ~Aborted, NEW w \in Worker, Work(w) \/ StopWaiting(w) PROVE AbortsKnown'
  <2> USE DEF Goto
  <2>1. CASE Lock(w) \/ FrontBlock(w) \/ Wait(w) \/ StopWaiting(w)
    BY <1>1, <1>4, <1>8, <2>1 DEF Lock, FrontBlock, Wait, StopWaiting
  <2>2. CASE WaitReturns(w) \/ Unlock(w) \/ SendLock(w)
    BY <1>1, <1>4, <1>8, <2>2 DEF WaitReturns, Unlock, SendLock
  <2>3. CASE SendPush(w) \/ SendUnlock(w) \/ Trigger(w)
    BY <1>1, <1>4, <1>8, <2>3 DEF SendPush, SendUnlock, Trigger
  <2>4. CASE CopyBlock(w)
    BY <1>3, <1>8, <2>4
  <2> QED BY <1>8, <2>1, <2>2, <2>3, <2>4 DEF Work
<1> QED
  BY <1>2, <1>5, <1>6, <1>7, <1>8 DEF Next, Ended, Receive

LEMMA LengthsInvariant == Spec => []FitsPushed /\ []AbortsKnown
<1>1. Init => FitsPushed /\ AbortsKnown
  BY DEF Init, FitsPushed, AbortsKnown
<1>2. WakeupInv /\ FitsPushed /\ AbortsKnown /\ [Next]_vars
        => FitsPushed' /\ AbortsKnown'
  BY FitsStep, AbortsStep
<1> QED
  BY <1>1, <1>2, WakeupInvariant, PTL DEF Spec

(* Nothing else ends the process: the request passed the check of           *)
(* max_msglen and the worker compares max_msglen with its whole block.      *)
THEOREM AbortsOnlyAsKnown == Spec => []AbortsKnown
  BY LengthsInvariant, PTL

(* All of it together: no request is in a queue twice or in two places, the *)
(* threads are where the mutexes say, and no worker meets a length that     *)
(* recvTcpMsg refuses.                                                      *)
THEOREM HandOverInvariant == Spec => []HandOverInv
<1>1. PlaceInv => WakeupInv /\ EmptyHanded /\ IdsOnce /\ PlacesApart
  BY PlaceInvMeans DEF PlaceInv
<1>2. WakeupInv /\ EmptyHanded /\ IdsOnce /\ PlacesApart
        /\ SendOwner /\ FitsPushed /\ AbortsKnown => HandOverInv
  BY DEF HandOverInv
<1> QED
  BY <1>1, <1>2, PlaceInvariant, SendOwnerInvariant, LengthsInvariant, PTL
=============================================================================
