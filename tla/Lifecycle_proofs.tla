--------------------------- MODULE Lifecycle_proofs ---------------------------
(***************************************************************************)
(* The timers: ids find them, for any range of ids and any number of       *)
(* timers.  TimerInv is inductive; its core is IdsInOrder, which says      *)
(* without arithmetic modulo MaxId that the ids given out during one turn  *)
(* of the counter are different.  Then the process around them, which      *)
(* takes TimerMgr's steps and no others: what main has made by the time    *)
(* other threads need it, and what is inside when the destructors run.     *)
(* Last the file main reads: that Parse finds in it what its author means. *)
(***************************************************************************)
EXTENDS Lifecycle, SequenceTheorems, WellFoundedInduction, TLAPS

\* GetTimerID gives an id of the range.
LEMMA NextIdInRange == ASSUME TimerTypeOK PROVE NextId \in Id
  BY TimersAssumption DEF TimerTypeOK, NextId, Id

\* A timer that was added before and keeps its id when one more is added does not
\* have the new one's.
LEMMA FreshId ==
  ASSUME TimerTypeOK, IdsInOrder, NEW t \in 1 .. added,
         added + 1 - t < MaxId
  PROVE  guid[t] # NextId
  BY TimersAssumption DEF TimerTypeOK, IdsInOrder, Young, NextId, Id, Timer

LEMMA TimerInvInit == TimerInit => TimerInv
  BY TimersAssumption
  DEF TimerInit, TimerInv, TimerTypeOK, OnlyAdded, IdsInOrder, IdsFindTimers,
      OneShotOnce, Id, Timer, None, Young

LEMMA AddTimerKeeps ==
  ASSUME TimerInv, NEW r \in BOOLEAN, AddTimer(r) PROVE TimerInv'
<1> DEFINE new == added + 1
<1> USE TimersAssumption
<1>1. /\ NextId \in Id
      /\ new \in Timer
      /\ added' = new
      /\ timerGuid' = NextId
      /\ objs' = [objs EXCEPT ![NextId] = new]
      /\ live' = live \cup {new}
      /\ guid' = [guid EXCEPT ![new] = NextId]
      /\ running' = running /\ fired' = fired
  BY NextIdInRange DEF TimerInv, AddTimer, TimerTypeOK, Timer
<1>2. TimerTypeOK'
  BY <1>1 DEF TimerInv, TimerTypeOK, AddTimer, Id, Timer
<1>3. OnlyAdded'
  BY <1>1 DEF TimerInv, TimerTypeOK, OnlyAdded, Timer, None
<1>4. \A t \in 1 .. added : t \in Timer /\ t # new /\ guid'[t] = guid[t]
  BY <1>1 DEF TimerInv, TimerTypeOK, Timer
<1>5. guid'[new] = NextId
  BY <1>1 DEF TimerInv, TimerTypeOK, Timer
<1>6. IdsInOrder'
  <2>1. (added > 0 => timerGuid > 0)'
    BY <1>1 DEF Id
  <2>2. ASSUME NEW t \in 1 .. added'
        PROVE  /\ guid'[t] \in Id
               /\ Young(t)' => \/ timerGuid' - guid'[t] = added' - t
                               \/ timerGuid' - guid'[t] + MaxId = added' - t
    <3>1. CASE t = new
      BY <3>1, <1>1, <1>5 DEF TimerInv, TimerTypeOK, Id, Timer
    <3>2. CASE t # new
      <4>1. t \in 1 .. added /\ guid'[t] = guid[t] /\ guid[t] \in Id
        BY <3>2, <1>1, <1>4 DEF TimerInv, TimerTypeOK, IdsInOrder
      <4>2. Young(t)' => /\ Young(t)
                         /\ \/ timerGuid - guid[t] = added - t
                            \/ timerGuid - guid[t] + MaxId = added - t
        BY <4>1, <1>1 DEF TimerInv, TimerTypeOK, IdsInOrder, Young
      <4>3. /\ timerGuid \in 0 .. MaxId /\ timerGuid' = NextId
            /\ added \in Nat /\ added' = added + 1
        BY <1>1 DEF TimerInv, TimerTypeOK
      <4> HIDE DEF new
      <4> QED
        BY <4>1, <4>2, <4>3 DEF NextId, Id, Young
    <3> QED BY <3>1, <3>2
  <2> QED BY <2>1, <2>2 DEF IdsInOrder
<1>7. IdsFindTimers'
  <2>1. ASSUME NEW i \in Id, objs'[i] # None
        PROVE  objs'[i] \in live' /\ guid'[objs'[i]] = i
    <3>1. CASE i = NextId
      BY <3>1, <1>1, <1>5 DEF TimerInv, TimerTypeOK
    <3>2. CASE i # NextId
      <4>1. objs'[i] = objs[i] /\ objs[i] \in live /\ guid[objs[i]] = i
        BY <3>2, <2>1, <1>1 DEF TimerInv, TimerTypeOK, IdsFindTimers
      <4> QED BY <4>1, <1>1, <1>4 DEF TimerInv, OnlyAdded
    <3> QED BY <3>1, <3>2
  <2>2. ASSUME NEW t \in live', Young(t)'
        PROVE  objs'[guid'[t]] = t
    <3>1. CASE t = new
      BY <3>1, <1>1, <1>5 DEF TimerInv, TimerTypeOK
    <3>2. CASE t # new
      <4>1. t \in live /\ t \in 1 .. added
        BY <3>2, <1>1 DEF TimerInv, OnlyAdded
      <4>2. Young(t) /\ added + 1 - t < MaxId
        BY <4>1, <2>2, <1>1 DEF TimerInv, TimerTypeOK, Young
      <4>3. guid[t] \in Id /\ guid[t] # NextId
        BY <4>1, <4>2, FreshId DEF TimerInv, IdsInOrder
      <4>4. objs[guid[t]] = t
        BY <4>1, <4>2 DEF TimerInv, IdsFindTimers
      <4> QED BY <4>1, <4>3, <4>4, <1>1, <1>4 DEF TimerInv, TimerTypeOK
    <3> QED BY <3>1, <3>2
  <2> QED BY <2>1, <2>2 DEF IdsFindTimers
<1>8. OneShotOnce'
  <2> SUFFICES ASSUME NEW t \in live' \cap fired', Young(t)'
               PROVE  t \in repeats' \/ t = running'
    BY DEF OneShotOnce
  <2>1. t \in live \cap fired /\ t \in 1 .. added
    BY <1>1 DEF TimerInv, TimerTypeOK, OnlyAdded
  <2>2. Young(t)
    BY <2>1, <1>1 DEF TimerInv, TimerTypeOK, Young
  <2> QED BY <2>1, <2>2, <1>1 DEF TimerInv, OneShotOnce, AddTimer
<1> QED BY <1>2, <1>3, <1>6, <1>7, <1>8 DEF TimerInv

\* Freeing what an id stands for, and only that.
LEMMA ForgetKeeps ==
  ASSUME TimerInv, NEW i \in Id, Forget(i),
         UNCHANGED <<timerGuid, guid, repeats, added, fired>>,
         \/ running' = running
         \/ running' = None /\ (running \in live' => ~Young(running))
  PROVE  TimerInv'
<1> USE TimersAssumption
<1>1. /\ objs' = [objs EXCEPT ![i] = None]
      /\ live' = live \ {objs[i]}
      /\ timerGuid' = timerGuid /\ guid' = guid /\ repeats' = repeats
      /\ added' = added /\ fired' = fired
  BY DEF Forget
<1>2. TimerTypeOK' /\ OnlyAdded'
  BY <1>1 DEF TimerInv, TimerTypeOK, OnlyAdded
<1>3. IdsInOrder'
  BY <1>1 DEF TimerInv, IdsInOrder, Young
<1>4. IdsFindTimers'
  <2>1. ASSUME NEW j \in Id, objs'[j] # None
        PROVE  objs'[j] \in live' /\ guid'[objs'[j]] = j
    <3>1. j # i /\ objs'[j] = objs[j]
      BY <1>1, <2>1 DEF TimerInv, TimerTypeOK
    <3>2. objs[j] \in live /\ guid[objs[j]] = j
      BY <3>1, <2>1 DEF TimerInv, IdsFindTimers
    <3>3. objs[i] # objs[j]
      BY <3>1, <3>2, <2>1 DEF TimerInv, IdsFindTimers
    <3> QED BY <3>1, <3>2, <3>3, <1>1
  <2>2. ASSUME NEW t \in live', Young(t)'
        PROVE  objs'[guid'[t]] = t
    <3>1. t \in live /\ t # objs[i] /\ Young(t)
      BY <1>1, <2>2 DEF Young
    <3>2. objs[guid[t]] = t /\ guid[t] # i
      BY <3>1 DEF TimerInv, IdsFindTimers
    <3>3. guid[t] \in Id
      BY <3>1 DEF TimerInv, IdsInOrder, OnlyAdded
    <3> QED BY <3>2, <3>3, <1>1 DEF TimerInv, TimerTypeOK
  <2> QED BY <2>1, <2>2 DEF IdsFindTimers
<1>5. OneShotOnce'
  <2> SUFFICES ASSUME NEW t \in live' \cap fired', Young(t)'
               PROVE  t \in repeats' \/ t = running'
    BY DEF OneShotOnce
  <2>1. t \in live \cap fired /\ Young(t)
    BY <1>1 DEF Young
  <2>2. t \in repeats \/ t = running
    BY <2>1 DEF TimerInv, OneShotOnce
  <2> QED BY <2>1, <2>2, <1>1
<1> QED BY <1>2, <1>3, <1>4, <1>5 DEF TimerInv

LEMMA FireKeeps ==
  ASSUME TimerInv, NEW t \in Timer, Fire(t) PROVE TimerInv'
  BY TimersAssumption
  DEF TimerInv, Fire, TimerTypeOK, OnlyAdded, IdsInOrder, IdsFindTimers,
      OneShotOnce, Young, Timer, None

LEMMA CallbackEndsKeeps ==
  ASSUME TimerInv, CallbackEnds PROVE TimerInv'
<1> USE TimersAssumption
<1>1. running \in live /\ running' = None
      /\ UNCHANGED <<timerGuid, guid, repeats, added, fired>>
  BY DEF CallbackEnds
<1>2. CASE running \in repeats
  <2>1. UNCHANGED <<objs, live>>
    BY <1>2 DEF CallbackEnds
  <2> QED
    BY <1>1, <1>2, <2>1
    DEF TimerInv, TimerTypeOK, OnlyAdded, IdsInOrder, IdsFindTimers,
        OneShotOnce, Young
<1>3. CASE running \notin repeats
  <2>1. Forget(guid[running])
    BY <1>3 DEF CallbackEnds
  <2>2. guid[running] \in Id
    BY <1>1 DEF TimerInv, OnlyAdded, IdsInOrder
  <2>3. running \in live' => ~Young(running)
    BY <1>1, <2>1 DEF TimerInv, IdsFindTimers, Forget
  <2> QED BY <1>1, <2>1, <2>2, <2>3, ForgetKeeps
<1> QED BY <1>2, <1>3

LEMMA TimerStep == TimerInv /\ [TimerNext]_timerVars => TimerInv'
<1> SUFFICES ASSUME TimerInv, [TimerNext]_timerVars PROVE TimerInv'
  OBVIOUS
<1>1. ASSUME NEW r \in BOOLEAN, AddTimer(r) PROVE TimerInv'
  BY <1>1, AddTimerKeeps
<1>2. ASSUME NEW i \in Id, DelTimer(i) PROVE TimerInv'
  BY <1>2, ForgetKeeps DEF DelTimer
<1>3. ASSUME NEW t \in Timer, Fire(t) PROVE TimerInv'
  BY <1>3, FireKeeps
<1>4. CASE CallbackEnds
  BY <1>4, CallbackEndsKeeps
<1>5. CASE UNCHANGED timerVars
  BY <1>5
  DEF timerVars, TimerInv, TimerTypeOK, OnlyAdded, IdsInOrder, IdsFindTimers,
      OneShotOnce, Young
<1> QED
  BY <1>1, <1>2, <1>3, <1>4, <1>5 DEF TimerNext

\* The ids, the table of timers and what has fired agree, whatever timers are
\* added, deleted and fire, and however often the counter starts again.
THEOREM TimerInvariant == TimerSpec => []TimerInv
  BY TimerInvInit, TimerStep, PTL DEF TimerSpec

\* DelTimer and the end of Callback free the timer they mean: GetTimerID's ids
\* are different for as long as the counter has not gone round.
THEOREM IdsKept == TimerSpec => []IdsFindTimers
<1>1. TimerInv => IdsFindTimers
  BY DEF TimerInv
<1> QED BY <1>1, TimerInvariant, PTL

\* A one-shot timer does not outlive its callback.
THEOREM OneShotsEnd == TimerSpec => []OneShotOnce
<1>1. TimerInv => OneShotOnce
  BY DEF TimerInv
<1> QED BY <1>1, TimerInvariant, PTL

\* Callback's DelTimer(guid_) at the end of a one-shot timer frees this timer and
\* no other.
THEOREM OwnExpiry == TimerSpec => ExpiryIsOwn
<1> DEFINE Own == running # None /\ running' = None /\ Young(running) =>
                    live \ live' \subseteq {running}
<1>1. TimerInv /\ [TimerNext]_timerVars => [Own]_timerVars
  <2> SUFFICES ASSUME TimerInv, TimerNext, running # None, running' = None,
                      Young(running)
               PROVE  live \ live' \subseteq {running}
    OBVIOUS
  <2>1. CallbackEnds
    <3>1. ASSUME NEW r \in BOOLEAN, AddTimer(r) PROVE FALSE
      BY <3>1 DEF AddTimer
    <3>2. ASSUME NEW i \in Id, DelTimer(i) PROVE FALSE
      BY <3>2 DEF DelTimer
    <3>3. ASSUME NEW t \in Timer, Fire(t) PROVE FALSE
      BY <3>3 DEF Fire
    <3> QED BY <3>1, <3>2, <3>3 DEF TimerNext
  <2>2. running \in live => objs[guid[running]] = running
    BY DEF TimerInv, IdsFindTimers
  <2> QED BY <2>1, <2>2 DEF CallbackEnds, Forget
<1> QED BY <1>1, TimerInvariant, PTL DEF TimerSpec, ExpiryIsOwn

-----------------------------------------------------------------------------
(* The process around the timers.                                          *)

\* Every step of the process is one of TimerMgr or leaves the timers alone.
LEMMA ProcessStepsTimers == [Next]_vars => [TimerNext]_timerVars
  BY DEF Next, MainThread, LoadCfg, InitParts, StartWorker, InitNet, Bind, Start,
         SignalCb, LoopEnds, Destroy, Signal, Receive, Stall, Resume, Enter, Take,
         Answer, TimersUsed, CallbackBreaks, TimerNext, vars

\* A server uses TimerMgr as TimerSpec says, so what is proved of that holds of the
\* timers in the process.
THEOREM ProcessUsesTimers == Spec => TimerSpec
  BY ProcessStepsTimers, PTL DEF Spec, TimerSpec, Init

\* The process's half of TypeOK: where it is, and what it counts.
PlacesOK ==
  /\ main \in {"main", "loaded", "init", "inited", "bound", "loop", "returned",
               "service deleted", "server deleted", "exited"}
  /\ parts \subseteq Needs \cup {"handler", "signal", "timerMgr", "listener"}
  /\ mode \in {"SINGLE", "MULTI"}
  /\ {term, stopped, stuck, broken} \subseteq BOOLEAN
  /\ killedBy \in {0, SIGINT, SIGTERM}

CountsOK ==
  /\ {workers, created, threads, waiting, busy, atReturn, notBegun} \subseteq Nat
  /\ busy <= threads /\ threads + created <= workers

LEMMA ProcTypes == TypeOK <=> TimerTypeOK /\ PlacesOK /\ CountsOK
  BY DEF TypeOK, PlacesOK, CountsOK

\* What the steps of the process keep: all but the timers' own invariant.
Kept == PlacesOK /\ CountsOK /\ Started /\ Requests /\ BreaksKnown

LEMMA KeptInit == Init => Kept
<1> SUFFICES ASSUME Init PROVE Kept
  OBVIOUS
<1>1. PlacesOK
  BY Zenon DEF Init, PlacesOK
<1>2. CountsOK /\ Requests
  BY DEF Init, CountsOK, Requests
<1>3. Started /\ BreaksKnown
  BY DEF Init, Started, BreaksKnown
<1> QED BY <1>1, <1>2, <1>3 DEF Kept

\* Starting: main makes the parts in its order, before there is a request.
LEMMA StartingKeeps ==
  ASSUME Kept,
         LoadCfg \/ InitParts \/ StartWorker \/ InitNet \/ Bind \/ Start
  PROVE  Kept'
<1> USE DEF Main, Alive, Kept
<1>1. main \in {"main", "loaded", "init", "inited", "bound"} /\ ~broken
  BY Zenon DEF LoadCfg, InitParts, StartWorker, InitNet, Bind, Start
<1>2. waiting = 0 /\ busy = 0
  BY <1>1 DEF Requests
<1>3. /\ UNCHANGED <<threads, waiting, busy, stuck, atReturn, notBegun>>
      /\ UNCHANGED <<term, stopped, killedBy, broken>>
      /\ main' \in {"loaded", "init", "inited", "bound", "loop"}
  BY DEF LoadCfg, InitParts, StartWorker, InitNet, Bind, Start, workVars, endVars
<1>4. Requests' /\ BreaksKnown'
  <2>1. main' = "loaded" => workers' = 0
    <3>1. ASSUME main' = "loaded" PROVE main = "main" /\ workers' = workers
      BY <3>1 DEF LoadCfg, InitParts, StartWorker, InitNet, Bind, Start
    <3> QED BY <3>1 DEF Requests
  <2> QED BY <1>1, <1>2, <1>3, <2>1 DEF Requests, BreaksKnown
<1>5. \/ UNCHANGED <<workers, created>>
      \/ StartWorker /\ workers' = workers + 1 /\ created' \in {created, created + 1}
  BY Zenon DEF LoadCfg, InitParts, StartWorker, InitNet, Bind, Start, bootVars, workVars
<1>6. CountsOK'
  BY <1>3, <1>5 DEF CountsOK
<1>7. PlacesOK'
  <2>1. /\ mode' \in {"SINGLE", "MULTI"}
        /\ parts' \subseteq Needs \cup {"handler", "signal", "timerMgr", "listener"}
    BY DEF LoadCfg, InitParts, StartWorker, InitNet, Bind, Start, PlacesOK, Needs,
           bootVars
  <2> QED BY <1>3, <2>1 DEF PlacesOK
<1>8. Started'
  <2>1. CASE StartWorker
    <3>1. /\ UNCHANGED <<main, mode, parts, fields>> /\ main = "init"
          /\ workers < WorkNum
      BY <2>1 DEF StartWorker
    <3>2. WorkNum' = WorkNum
      BY <3>1 DEF WorkNum
    <3>3. mode = "MULTI"
      <4>1. CASE workers = 0
        BY <3>1, <4>1 DEF Started
      <4>2. CASE workers # 0
        <5>1. workers > 0
          BY <4>2 DEF CountsOK
        <5> QED BY <5>1 DEF Started
      <4> QED BY <4>1, <4>2
    <3> QED BY <3>1, <3>2, <3>3 DEF Started
  <2>2. CASE InitParts
    <3>1. /\ UNCHANGED <<fields, workers>> /\ main' = "init" /\ main = "loaded"
          /\ mode' = IF WorkNum > 0 THEN "MULTI" ELSE "SINGLE"
          /\ parts' = {"handler", "signal", "timerMgr", "rpc"}
                        \cup (IF WorkNum > 0 THEN {"queues", "lockers"} ELSE {})
      BY <2>2 DEF InitParts
    <3>2. WorkNum' = WorkNum
      BY <3>1 DEF WorkNum
    <3>3. ~(workers > 0)
      BY <3>1 DEF Requests
    <3> QED BY <3>1, <3>2, <3>3, Zenon DEF Started
  <2>3. CASE LoadCfg \/ InitNet \/ Bind \/ Start
    <3>1. /\ UNCHANGED <<mode, workers>> /\ parts \subseteq parts'
          /\ main' # "init"
          /\ main' = "loaded" => main = "main"
          /\ main' \in {"inited", "bound", "loop"} => main \notin {"main", "loaded"}
          /\ main' \in {"bound", "loop"} => main \notin {"main", "loaded", "init"}
          /\ main' = "inited" => "net" \in parts'
      BY <2>3 DEF LoadCfg, InitNet, Bind, Start, bootVars
    <3> QED BY <1>3, <3>1 DEF Started
  <2> QED BY <2>1, <2>2, <2>3
<1> QED BY <1>4, <1>6, <1>7, <1>8

\* Stopping: what was inside when the loop returned is all there will be.
LEMMA StoppingKeeps ==
  ASSUME Kept, LoopEnds \/ Destroy PROVE Kept'
<1> USE DEF Main, Alive, Kept
<1>1. /\ UNCHANGED <<parts, mode, workers, created, threads, waiting, busy, stuck>>
      /\ UNCHANGED <<term, stopped, killedBy, broken>>
      /\ main' \in {"returned", "service deleted", "server deleted", "exited"}
      /\ main \notin {"main", "loaded", "init", "inited", "bound"}
      /\ ~broken
  BY Zenon DEF LoopEnds, Destroy, bootVars, workVars, endVars
<1>2. \/ atReturn' = waiting + busy /\ notBegun' = created
      \/ /\ atReturn' = atReturn /\ notBegun' = notBegun
         /\ main \in {"returned", "service deleted", "server deleted"}
  BY DEF LoopEnds, Destroy, workVars
<1>3. CountsOK'
  <2>1. waiting \in Nat /\ busy \in Nat
    BY DEF CountsOK
  <2>2. atReturn' \in {waiting + busy, atReturn} /\ notBegun' \in {created, notBegun}
    BY <1>2
  <2>3. atReturn' \in Nat /\ notBegun' \in Nat
    BY <2>1, <2>2 DEF CountsOK
  <2> QED BY <1>1, <2>3 DEF CountsOK
<1>4. waiting + busy <= atReturn' /\ created <= notBegun'
  <2>1. CASE atReturn' = waiting + busy /\ notBegun' = created
    BY <2>1 DEF CountsOK
  <2>2. CASE /\ atReturn' = atReturn /\ notBegun' = notBegun
             /\ main \in {"returned", "service deleted", "server deleted"}
    BY <2>2 DEF Requests
  <2> QED BY <1>2, <2>1, <2>2
<1>5. Requests'
  BY <1>1, <1>4 DEF Requests
<1>6. Started' /\ BreaksKnown' /\ PlacesOK'
  BY <1>1, Zenon DEF Started, BreaksKnown, PlacesOK
<1> QED BY <1>3, <1>5, <1>6

\* A thread that begins finds the queues and lockers, or the server was destroyed
\* before it had begun.
LEMMA EnterKeeps ==
  ASSUME Kept, Enter PROVE Kept'
<1> USE DEF Kept
<1>1. /\ UNCHANGED <<main, parts, mode, workers, waiting, busy, stuck>>
      /\ UNCHANGED <<atReturn, notBegun, term, stopped, killedBy, fields>>
      /\ broken' = (main = "server deleted" \/ {"queues", "lockers"} \ parts # {})
  BY DEF Enter, bootVars
<1>a. created > 0 /\ created' = created - 1 /\ threads' = threads + 1
  BY DEF Enter
<1>b. UNCHANGED <<workers, waiting, busy, atReturn, notBegun>>
  BY <1>1
<1>2. CountsOK'
  BY <1>a, <1>b DEF CountsOK
<1>3. Requests'
  <2>1. created <= notBegun => created' <= notBegun
    BY <1>a DEF CountsOK
  <2> QED BY <1>1, <2>1, Zenon DEF Requests
<1>4. {"queues", "lockers"} \subseteq parts
  <2>1. workers > 0
    BY <1>a DEF CountsOK
  <2> QED BY <2>1 DEF Started
<1>5. ASSUME main = "server deleted" PROVE notBegun > 0
  <2>1. created <= notBegun
    BY <1>5 DEF Requests
  <2> QED BY <1>a, <2>1 DEF CountsOK
<1>6. BreaksKnown' /\ broken' \in BOOLEAN
  <2>1. broken' = (main = "server deleted")
    BY <1>1, <1>4
  <2> QED BY <1>1, <1>5, <2>1, Zenon DEF BreaksKnown
<1>7. Started' /\ PlacesOK'
  <2>1. WorkNum' = WorkNum
    BY <1>1 DEF WorkNum
  <2> QED BY <1>1, <1>6, <2>1 DEF Started, PlacesOK
<1> QED BY <1>2, <1>3, <1>6, <1>7

\* A worker that takes or answers a request finds its parts, or main has gone on with
\* the request inside.
LEMMA WorkKeeps ==
  ASSUME Kept, Receive \/ Take \/ Answer PROVE Kept'
<1> USE DEF Main, Alive, Kept
<1>1. /\ UNCHANGED <<main, parts, mode, workers, created, threads, stuck, term,
                     stopped, killedBy, atReturn, notBegun, fields>>
      /\ \/ /\ main = "loop" /\ mode = "MULTI"
            /\ waiting' = waiting + 1 /\ busy' = busy
         \/ waiting' = waiting - 1 /\ busy' = busy + 1 /\ waiting > 0 /\ busy < threads
         \/ waiting' = waiting /\ busy' = busy - 1 /\ busy > 0
  BY Zenon DEF Receive, Take, Answer, bootVars, endVars
<1>2. CountsOK'
  BY <1>1 DEF CountsOK
<1>3. ASSUME ~(main = "loop" /\ mode = "MULTI") PROVE waiting' + busy' <= waiting + busy
  BY <1>1, <1>3 DEF CountsOK
<1>4. Requests'
  <2>1. mode = "MULTI" /\ main \notin {"main", "loaded", "init", "inited", "bound"}
    <3>1. ~(waiting = 0 /\ busy = 0) \/ (main = "loop" /\ mode = "MULTI")
      BY <1>1 DEF CountsOK
    <3> QED BY <3>1 DEF Requests
  <2>2. ASSUME main \in {"returned", "service deleted", "server deleted"}
        PROVE  waiting' + busy' <= atReturn
    <3>1. waiting' + busy' <= waiting + busy
      BY <1>3, <2>2
    <3>2. waiting + busy <= atReturn
      BY <2>2 DEF Requests
    <3>3. waiting + busy \in Int /\ waiting' + busy' \in Int /\ atReturn \in Int
      BY <1>1 DEF CountsOK
    <3> QED BY <3>1, <3>2, <3>3
  <2> QED BY <1>1, <2>1, <2>2 DEF Requests
<1>5. ASSUME Take \/ Answer PROVE waiting > 0 \/ busy > 0
  BY <1>5, Zenon DEF Take, Answer
<1>6. ASSUME Take \/ Answer PROVE ~(waiting = 0 /\ busy = 0)
  BY <1>5, <1>6
<1>7. ASSUME Take \/ Answer PROVE Needs \subseteq parts
  BY <1>6, <1>7 DEF Requests, Started, Needs
<1>8. ASSUME Take \/ Answer, Gone PROVE atReturn > 0
  <2>1. waiting + busy <= atReturn
    BY <1>8 DEF Requests, Gone
  <2>2. waiting > 0 \/ busy > 0
    BY <1>5, <1>8
  <2> QED BY <2>1, <2>2 DEF CountsOK
<1>9. BreaksKnown'
  <2>1. CASE Receive
    BY <2>1, Zenon DEF Receive, BreaksKnown, endVars
  <2>2. CASE Take
    BY <1>1, <1>8, <2>2, Zenon DEF Take, BreaksKnown, Gone
  <2>3. CASE Answer
    BY <1>1, <1>7, <1>8, <2>3, Zenon DEF Answer, BreaksKnown, Gone
  <2> QED BY <2>1, <2>2, <2>3
<1>10. broken' \in BOOLEAN
  BY Zenon DEF Receive, Take, Answer, endVars, PlacesOK
<1>11. Started' /\ PlacesOK'
  <2>1. WorkNum' = WorkNum
    BY <1>1 DEF WorkNum
  <2> QED BY <1>1, <1>10, <2>1 DEF Started, PlacesOK
<1> QED BY <1>2, <1>4, <1>9, <1>11

\* Signals, timers and callbacks touch no part and no request.
LEMMA EventsKeep ==
  ASSUME Kept, SignalCb \/ Stall \/ Resume \/ TimersUsed \/ CallbackBreaks
                 \/ \E sig \in {SIGINT, SIGTERM} : Signal(sig)
  PROVE  Kept'
<1> USE DEF Main, Alive, Kept
<1>1. UNCHANGED <<main, bootVars, created, threads, waiting, busy, atReturn, notBegun>>
  BY DEF SignalCb, Stall, Resume, TimersUsed, CallbackBreaks, Signal, workVars, procVars
<1>2. Started' /\ Requests' /\ CountsOK'
  <2>1. WorkNum' = WorkNum
    BY <1>1 DEF WorkNum, bootVars
  <2> QED BY <1>1, <2>1 DEF Started, Requests, CountsOK, bootVars
<1>3. /\ {term', stopped', stuck', broken'} \subseteq BOOLEAN
      /\ killedBy' \in {0, SIGINT, SIGTERM}
  <2>1. term' \in BOOLEAN
    BY Zenon DEF SignalCb, Stall, Resume, TimersUsed, CallbackBreaks, Signal, PlacesOK,
                 procVars, endVars
  <2>2. stopped' \in BOOLEAN
    BY Zenon DEF SignalCb, Stall, Resume, TimersUsed, CallbackBreaks, Signal, PlacesOK,
                 procVars, endVars
  <2>3. stuck' \in BOOLEAN /\ broken' \in BOOLEAN
    BY Zenon DEF SignalCb, Stall, Resume, TimersUsed, CallbackBreaks, Signal, PlacesOK,
                 procVars, workVars, endVars
  <2>4. killedBy' \in {0, SIGINT, SIGTERM}
    BY Zenon DEF SignalCb, Stall, Resume, TimersUsed, CallbackBreaks, Signal, PlacesOK,
                 procVars, endVars
  <2> QED BY <2>1, <2>2, <2>3, <2>4
<1>4. PlacesOK'
  BY <1>1, <1>3 DEF PlacesOK, bootVars
<1>5. CallbackBreaks => ReadsFreed'
  BY DEF CallbackBreaks, ReadsFreed, timerVars
<1>6. ASSUME ~CallbackBreaks PROVE broken' = broken /\ ~broken
  BY <1>6, Zenon DEF SignalCb, Stall, Resume, TimersUsed, Signal, procVars, endVars
<1>7. BreaksKnown'
  BY <1>5, <1>6, Zenon DEF BreaksKnown
<1> QED BY <1>2, <1>4, <1>7

LEMMA KeptStep == Kept /\ [Next]_vars => Kept'
<1> SUFFICES ASSUME Kept, [Next]_vars PROVE Kept'
  OBVIOUS
<1>1. CASE UNCHANGED vars
  <2>1. /\ UNCHANGED <<main, parts, mode, workers, created, threads, waiting, busy>>
        /\ UNCHANGED <<fields, stuck, atReturn, notBegun, term, stopped, killedBy>>
        /\ UNCHANGED <<broken, running, live>>
    BY <1>1 DEF vars, procVars, timerVars, bootVars, workVars, endVars
  <2>2. WorkNum' = WorkNum
    BY <2>1 DEF WorkNum
  <2>3. Started' /\ Requests' /\ CountsOK'
    BY <2>1, <2>2 DEF Kept, Started, Requests, CountsOK
  <2>4. PlacesOK' /\ BreaksKnown'
    BY <2>1 DEF Kept, PlacesOK, BreaksKnown, ReadsFreed, Gone
  <2> QED BY <2>3, <2>4 DEF Kept
<1>2. CASE Next
  BY <1>2, StartingKeeps, StoppingKeeps, EnterKeeps, WorkKeeps, EventsKeep
     DEF Next, MainThread
<1> QED BY <1>1, <1>2

\* What the steps of the process keep holds of every state of it.
LEMMA ProcessKeeps == Spec => []Kept
  BY KeptInit, KeptStep, PTL DEF Spec

\* Init's parts are there before the first request is, and no request enters after the
\* loop: the inductive invariant of the process, with any number of workers, any
\* configuration and any moment for the signals.
THEOREM LifeInvariant == Spec => []LifeInv
<1>1. Kept /\ TimerInv => LifeInv
  BY ProcTypes DEF Kept, TimerInv, LifeInv
<1> QED BY <1>1, ProcessKeeps, ProcessUsesTimers, TimerInvariant, PTL

\* The workers, started before net_ and the loop, never use what is not there, and the
\* destructors break nothing in a process with no request inside and no thread that
\* has not begun to run.
THEOREM BreaksOnlyAsKnown == Spec => []BreaksKnown
<1>1. Kept => BreaksKnown
  BY DEF Kept
<1> QED BY <1>1, ProcessKeeps, PTL

\* In the process too ids find their timers, one-shot timers go with their callbacks
\* and the end of a callback frees no other timer.
THEOREM TimersInProcess == Spec => []IdsFindTimers /\ []OneShotOnce /\ ExpiryIsOwn
  BY ProcessUsesTimers, IdsKept, OneShotsEnd, OwnExpiry

-----------------------------------------------------------------------------
(* The configuration.  Everything is said of places in the file: a part of *)
(* it is lo .. hi, and what the parser cuts is again such a part.          *)

\* Files and what is cut from them, of whatever characters.
IsText(f) == \E C : f \in Seq(C)

\* A text has a length and is its characters.
LEMMA TextIs ==
  ASSUME NEW f, IsText(f) PROVE Len(f) \in Nat /\ f = [i \in 1 .. Len(f) |-> f[i]]
<1>1. PICK C : f \in Seq(C)
  BY DEF IsText
<1> QED BY <1>1, LenProperties

\* The positions lo .. hi of f, of which there may be none.
Inside(f, lo, hi) == lo \in 1 .. Len(f) + 1 /\ hi \in lo - 1 .. Len(f)

\* A set of natural numbers that is not empty has a least one.
LEMMA Least ==
  ASSUME NEW S, S \subseteq Nat, S # {}
  PROVE  \E x \in S : \A y \in S : x <= y
<1> DEFINE R == {p \in Nat \X Nat : p[1] < p[2]}
<1>1. IsWellFoundedOn(R, Nat)
  BY NatLessThanWellFounded DEF OpToRel
<1>2. PICK x \in S : \A y \in S : ~(<<y, x>> \in R)
  <2> HIDE DEF R
  <2> QED BY <1>1, WFMin
<1>3. ASSUME NEW y \in S PROVE x <= y
  <2>1. x \in Nat /\ y \in Nat /\ <<y, x>> \in Nat \X Nat
    OBVIOUS
  <2>2. ~(<<y, x>>[1] < <<y, x>>[2])
    BY <2>1, <1>2
  <2> QED BY <2>1, <2>2
<1> QED BY <1>3

\* Min and Max are what they are named for, where the parser takes them.
LEMMA MinIs ==
  ASSUME NEW S, S \subseteq Nat, S # {}
  PROVE  Min(S) \in S /\ \A y \in S : Min(S) <= y
<1>1. PICK x \in S : \A y \in S : x <= y
  BY Least
<1> QED BY <1>1 DEF Min

LEMMA MaxIs ==
  ASSUME NEW n \in Nat, NEW S, S \subseteq 0 .. n, S # {}
  PROVE  Max(S) \in S /\ \A y \in S : Max(S) >= y
<1> DEFINE T == {m \in 0 .. n : n - m \in S}
<1>1. T \subseteq Nat /\ T # {}
  <2>1. PICK x \in S : TRUE
    OBVIOUS
  <2>2. n - x \in 0 .. n /\ n - (n - x) = x
    BY <2>1
  <2>3. n - x \in T
    BY <2>1, <2>2
  <2>4. T \subseteq Nat
    OBVIOUS
  <2> HIDE DEF T
  <2> QED BY <2>3, <2>4
<1>2. PICK m \in T : \A k \in T : m <= k
  <2> HIDE DEF T
  <2> QED BY <1>1, Least
<1>3. ASSUME NEW y \in S PROVE n - m >= y
  <2>1. y \in 0 .. n /\ n - y \in 0 .. n /\ n - (n - y) = y
    OBVIOUS
  <2>2. m <= n - y
    BY <1>2, <2>1
  <2> QED BY <2>1, <2>2
<1>4. n - m \in S
  OBVIOUS
<1>5. \E x \in S : \A y \in S : x >= y
  <2> HIDE DEF T
  <2> QED BY <1>3, <1>4
<1> QED BY <1>5 DEF Max

\* t is the part lo .. hi of f.
IsPart(t, f, lo, hi) ==
  /\ Len(t) = hi - lo + 1
  /\ \A i \in 1 .. hi - lo + 1 : t[i] = f[lo + i - 1]

\* t is cut from f at lo and after hi.
IsCutFrom(t, f, lo, hi) == t = SubSeq(f, lo, hi)

\* The bounds of a part as inequalities.
LEMMA Bounds ==
  ASSUME NEW f, IsText(f), NEW lo, NEW hi, Inside(f, lo, hi)
  PROVE  /\ lo \in Nat /\ hi \in Nat /\ Len(f) \in Nat
         /\ 1 <= lo /\ lo <= hi + 1 /\ hi <= Len(f)
  BY TextIs DEF Inside

\* What SubSeq cuts is a text, and the part it is asked for.
LEMMA PartIs ==
  ASSUME NEW f, IsText(f), NEW lo, NEW hi, Inside(f, lo, hi)
  PROVE  IsText(SubSeq(f, lo, hi)) /\ IsPart(SubSeq(f, lo, hi), f, lo, hi)
<1>1. /\ Len(f) \in Nat /\ lo \in Int /\ hi \in Int
      /\ lo <= hi + 1 /\ hi <= Len(f) /\ lo >= 1
  BY Bounds
<1>2. PICK C : f \in Seq(C)
  BY DEF IsText
<1>3. \A i \in lo .. hi : f[i] \in C
  BY <1>1, <1>2, LenProperties
<1>4. /\ SubSeq(f, lo, hi) \in Seq(C)
      /\ Len(SubSeq(f, lo, hi)) = IF lo <= hi THEN hi - lo + 1 ELSE 0
      /\ \A i \in 1 .. hi - lo + 1 : SubSeq(f, lo, hi)[i] = f[lo + i - 1]
  BY <1>1, <1>3, SubSeqProperties
<1>5. ~(lo <= hi) => hi - lo + 1 = 0
  BY <1>1
<1>6. IsText(SubSeq(f, lo, hi))
  BY <1>4, Zenon DEF IsText
<1> QED BY <1>4, <1>5, <1>6 DEF IsPart

\* A part of a part is a part of the file.
LEMMA PartOfPart ==
  ASSUME NEW f, IsText(f), NEW lo, NEW hi, Inside(f, lo, hi),
         NEW a \in lo .. hi + 1, NEW b \in a - 1 .. hi
  PROVE  /\ Inside(f, a, b)
         /\ IsCutFrom(SubSeq(SubSeq(f, lo, hi), a - lo + 1, b - lo + 1), f, a, b)
<1> DEFINE m == a - lo + 1
           n == b - lo + 1
<1>1. /\ lo \in Nat /\ hi \in Nat /\ a \in Nat /\ b \in Nat /\ Len(f) \in Nat
      /\ 1 <= lo /\ lo <= a /\ a <= b + 1 /\ b <= hi /\ hi <= Len(f)
  BY Bounds
<1>2. PICK s : s = SubSeq(f, lo, hi) /\ IsText(s) /\ IsPart(s, f, lo, hi)
  BY PartIs
<1>3. Len(s) = hi - lo + 1 /\ \A i \in 1 .. hi - lo + 1 : s[i] = f[lo + i - 1]
  BY <1>2 DEF IsPart
<1>4. Inside(f, a, b) /\ Inside(s, m, n)
  BY <1>1, <1>3 DEF Inside
<1>5. PICK t : t = SubSeq(f, a, b) /\ IsText(t) /\ IsPart(t, f, a, b)
  BY <1>4, PartIs
<1>6. PICK u : u = SubSeq(s, m, n) /\ IsText(u) /\ IsPart(u, s, m, n)
  <2> HIDE DEF m, n
  <2> QED BY <1>2, <1>4, PartIs
<1>7. Len(t) = b - a + 1 /\ Len(u) = b - a + 1
  BY <1>1, <1>5, <1>6 DEF IsPart
<1>8. ASSUME NEW i \in 1 .. b - a + 1 PROVE t[i] = u[i]
  <2>1. m + i - 1 \in 1 .. hi - lo + 1 /\ lo + (m + i - 1) - 1 = a + i - 1
    BY <1>1
  <2>2. s[m + i - 1] = f[a + i - 1]
    <3> HIDE DEF m
    <3> QED BY <1>3, <2>1
  <2>3. t[i] = f[a + i - 1]
    BY <1>5 DEF IsPart
  <2>4. u[i] = s[m + i - 1]
    <3>1. i \in 1 .. n - m + 1
      BY <1>1
    <3> HIDE DEF m, n
    <3> QED BY <1>6, <3>1 DEF IsPart
  <2> QED BY <2>2, <2>3, <2>4
<1>9. t = u
  <2>1. /\ t = [i \in 1 .. b - a + 1 |-> t[i]]
        /\ u = [i \in 1 .. b - a + 1 |-> u[i]]
    BY <1>5, <1>6, <1>7, TextIs
  <2> QED BY <1>8, <2>1
<1> QED BY <1>2, <1>4, <1>5, <1>6, <1>9 DEF IsCutFrom

\* The first c of the part lo .. hi is at z + 1, or there is none.
Cut(f, lo, hi, c, z) ==
  /\ z \in lo - 1 .. hi
  /\ \A i \in lo .. z : f[i] # c
  /\ z = hi \/ f[z + 1] = c

\* Before leaves what comes before the first c.
LEMMA BeforeAt ==
  ASSUME NEW f, IsText(f), NEW lo, NEW hi, Inside(f, lo, hi), NEW c
  PROVE  \E z : Cut(f, lo, hi, c, z)
                 /\ IsCutFrom(Before(SubSeq(f, lo, hi), c), f, lo, z)
<1>1. PICK s : s = SubSeq(f, lo, hi) /\ IsText(s) /\ IsPart(s, f, lo, hi)
  BY PartIs
<1>2. /\ lo \in Nat /\ hi \in Nat /\ Len(f) \in Nat
      /\ 1 <= lo /\ lo <= hi + 1 /\ hi <= Len(f)
  BY Bounds
<1>3. Len(s) = hi - lo + 1 /\ \A i \in 1 .. hi - lo + 1 : s[i] = f[lo + i - 1]
  BY <1>1 DEF IsPart
<1> DEFINE S == {i \in 1 .. Len(s) : s[i] = c} \cup {Len(s) + 1}
<1>4. PICK k : k = Min(S) /\ k \in S /\ \A y \in S : k <= y
  <2>1. S \subseteq Nat /\ S # {}
    BY <1>2, <1>3
  <2> HIDE DEF S
  <2> QED BY <2>1, MinIs
<1>5. k \in 1 .. Len(s) + 1 /\ (k = Len(s) + 1 \/ s[k] = c)
  BY <1>2, <1>3, <1>4
<1>6. \A i \in 1 .. Len(s) : i < k => s[i] # c
  BY <1>2, <1>3, <1>4
<1> DEFINE z == lo + k - 2
<1>7. z \in lo - 1 .. hi /\ z - lo + 1 = k - 1 /\ lo - lo + 1 = 1
  BY <1>2, <1>3, <1>5
<1>8. ASSUME NEW i \in lo .. z PROVE f[i] # c
  <2>1. i - lo + 1 \in 1 .. Len(s) /\ i - lo + 1 < k /\ lo + (i - lo + 1) - 1 = i
    BY <1>2, <1>3, <1>5, <1>7
  <2> HIDE DEF z
  <2> QED BY <1>3, <1>6, <2>1
<1>9. z = hi \/ f[z + 1] = c
  <2>1. CASE k = Len(s) + 1
    BY <1>2, <1>3, <2>1
  <2>2. CASE k # Len(s) + 1
    <3>1. k \in 1 .. hi - lo + 1 /\ lo + k - 1 = z + 1
      BY <1>2, <1>3, <1>5, <2>2
    <3> HIDE DEF z
    <3> QED BY <1>3, <1>5, <2>2, <3>1
  <2> QED BY <2>1, <2>2
<1>10. Cut(f, lo, hi, c, z)
  BY <1>7, <1>8, <1>9 DEF Cut
<1>11. SubSeq(SubSeq(f, lo, hi), 1, k - 1) = SubSeq(f, lo, z)
  <2>1. lo \in lo .. hi + 1
    BY <1>2
  <2> HIDE DEF z
  <2>2. IsCutFrom(SubSeq(SubSeq(f, lo, hi), lo - lo + 1, z - lo + 1), f, lo, z)
    BY <1>7, <2>1, PartOfPart
  <2> QED BY <1>7, <2>2 DEF IsCutFrom
<1>12. Before(SubSeq(f, lo, hi), c) = SubSeq(SubSeq(f, lo, hi), 1, k - 1)
  BY <1>1, <1>4 DEF Before
<1> QED BY <1>10, <1>11, <1>12 DEF IsCutFrom

\* The part lo .. hi of f has nothing but c before a, and something else there.
NotBefore(f, lo, hi, c, a) ==
  /\ a \in lo .. hi + 1
  /\ \A i \in lo .. a - 1 : f[i] = c
  /\ a = hi + 1 \/ f[a] # c

\* The same from its end.
NotAfter(f, lo, hi, c, b) ==
  /\ b \in lo - 1 .. hi
  /\ \A i \in b + 1 .. hi : f[i] = c
  /\ b = lo - 1 \/ f[b] # c

\* StripStart leaves what begins with the first character that is not c.
LEMMA StripStartAt ==
  ASSUME NEW f, IsText(f), NEW lo, NEW hi, Inside(f, lo, hi), NEW c
  PROVE  \E a : NotBefore(f, lo, hi, c, a)
                 /\ IsCutFrom(StripStart(SubSeq(f, lo, hi), c), f, a, hi)
<1>1. PICK s : s = SubSeq(f, lo, hi) /\ IsText(s) /\ IsPart(s, f, lo, hi)
  BY PartIs
<1>2. /\ lo \in Nat /\ hi \in Nat /\ Len(f) \in Nat
      /\ 1 <= lo /\ lo <= hi + 1 /\ hi <= Len(f)
  BY Bounds
<1>3. Len(s) = hi - lo + 1 /\ \A i \in 1 .. hi - lo + 1 : s[i] = f[lo + i - 1]
  BY <1>1 DEF IsPart
<1> DEFINE S == {i \in 1 .. Len(s) : s[i] # c} \cup {Len(s) + 1}
<1>4. PICK k : k = Min(S) /\ k \in S /\ \A y \in S : k <= y
  <2>1. S \subseteq Nat /\ S # {}
    BY <1>2, <1>3
  <2> HIDE DEF S
  <2> QED BY <2>1, MinIs
<1>5. k \in 1 .. Len(s) + 1 /\ (k = Len(s) + 1 \/ s[k] # c)
  BY <1>2, <1>3, <1>4
<1>6. \A i \in 1 .. Len(s) : i < k => s[i] = c
  BY <1>2, <1>3, <1>4
<1> DEFINE a == lo + k - 1
<1>7. a \in lo .. hi + 1 /\ a - lo + 1 = k /\ hi - lo + 1 = Len(s) /\ hi \in a - 1 .. hi
  BY <1>2, <1>3, <1>5
<1>8. ASSUME NEW i \in lo .. a - 1 PROVE f[i] = c
  <2>1. i - lo + 1 \in 1 .. Len(s) /\ i - lo + 1 < k /\ lo + (i - lo + 1) - 1 = i
    BY <1>2, <1>3, <1>5, <1>7
  <2> HIDE DEF a
  <2> QED BY <1>3, <1>6, <2>1
<1>9. a = hi + 1 \/ f[a] # c
  <2>1. CASE k = Len(s) + 1
    BY <1>2, <1>3, <2>1
  <2>2. CASE k # Len(s) + 1
    <3>1. k \in 1 .. hi - lo + 1 /\ lo + k - 1 = a
      BY <1>2, <1>3, <1>5, <2>2
    <3> HIDE DEF a
    <3> QED BY <1>3, <1>5, <2>2, <3>1
  <2> QED BY <2>1, <2>2
<1>10. SubSeq(SubSeq(f, lo, hi), k, Len(s)) = SubSeq(f, a, hi)
  <2> HIDE DEF a
  <2>1. IsCutFrom(SubSeq(SubSeq(f, lo, hi), a - lo + 1, hi - lo + 1), f, a, hi)
    BY <1>7, PartOfPart
  <2> QED BY <1>7, <2>1 DEF IsCutFrom
<1>11. StripStart(SubSeq(f, lo, hi), c) = SubSeq(SubSeq(f, lo, hi), k, Len(s))
  BY <1>1, <1>4 DEF StripStart
<1> HIDE DEF a
<1>12. NotBefore(f, lo, hi, c, a)
  BY <1>7, <1>8, <1>9, Zenon DEF NotBefore
<1> QED BY <1>10, <1>11, <1>12 DEF IsCutFrom

\* StripEnd leaves what ends with the last character that is not c.
LEMMA StripEndAt ==
  ASSUME NEW f, IsText(f), NEW lo, NEW hi, Inside(f, lo, hi), NEW c
  PROVE  \E b : NotAfter(f, lo, hi, c, b)
                 /\ IsCutFrom(StripEnd(SubSeq(f, lo, hi), c), f, lo, b)
<1>1. PICK s : s = SubSeq(f, lo, hi) /\ IsText(s) /\ IsPart(s, f, lo, hi)
  BY PartIs
<1>2. /\ lo \in Nat /\ hi \in Nat /\ Len(f) \in Nat
      /\ 1 <= lo /\ lo <= hi + 1 /\ hi <= Len(f)
  BY Bounds
<1>3. Len(s) = hi - lo + 1 /\ \A i \in 1 .. hi - lo + 1 : s[i] = f[lo + i - 1]
  BY <1>1 DEF IsPart
<1> DEFINE S == {i \in 1 .. Len(s) : s[i] # c} \cup {0}
<1>4. PICK k : k = Max(S) /\ k \in S /\ \A y \in S : k >= y
  <2>1. S \subseteq 0 .. Len(s) /\ S # {} /\ Len(s) \in Nat
    BY <1>2, <1>3
  <2> HIDE DEF S
  <2> QED BY <2>1, MaxIs
<1>5. k \in 0 .. Len(s) /\ (k = 0 \/ s[k] # c)
  BY <1>2, <1>3, <1>4
<1>6. \A i \in 1 .. Len(s) : i > k => s[i] = c
  <2>1. \A i \in 1 .. Len(s) : s[i] # c => k >= i
    BY <1>4
  <2> QED BY <1>2, <1>3, <1>5, <2>1
<1> DEFINE b == lo + k - 1
<1>7. b \in lo - 1 .. hi /\ b - lo + 1 = k /\ lo - lo + 1 = 1 /\ lo \in lo .. hi + 1
  BY <1>2, <1>3, <1>5
<1>8. ASSUME NEW i \in b + 1 .. hi PROVE f[i] = c
  <2>1. i - lo + 1 \in 1 .. Len(s) /\ i - lo + 1 > k /\ lo + (i - lo + 1) - 1 = i
    BY <1>2, <1>3, <1>5, <1>7
  <2> HIDE DEF b
  <2> QED BY <1>3, <1>6, <2>1
<1>9. b = lo - 1 \/ f[b] # c
  <2>1. CASE k = 0
    BY <1>2, <2>1
  <2>2. CASE k # 0
    <3>1. k \in 1 .. hi - lo + 1 /\ lo + k - 1 = b
      BY <1>2, <1>3, <1>5, <2>2
    <3> HIDE DEF b
    <3> QED BY <1>3, <1>5, <2>2, <3>1
  <2> QED BY <2>1, <2>2
<1>10. SubSeq(SubSeq(f, lo, hi), 1, k) = SubSeq(f, lo, b)
  <2> HIDE DEF b
  <2>1. IsCutFrom(SubSeq(SubSeq(f, lo, hi), lo - lo + 1, b - lo + 1), f, lo, b)
    BY <1>7, PartOfPart
  <2> QED BY <1>7, <2>1 DEF IsCutFrom
<1>11. StripEnd(SubSeq(f, lo, hi), c) = SubSeq(SubSeq(f, lo, hi), 1, k)
  BY <1>1, <1>4 DEF StripEnd
<1> HIDE DEF b
<1>12. NotAfter(f, lo, hi, c, b)
  BY <1>7, <1>8, <1>9, Zenon DEF NotAfter
<1> QED BY <1>10, <1>11, <1>12 DEF IsCutFrom

\* The part a .. b of s has no blank at its ends.
Tight(s, a, b) == a <= b => s[a] # " " /\ s[b] # " "

\* a .. b is what is left of the part lo .. hi without the blanks at its ends and
\* the newline it may end with.
Trimmed(f, lo, hi, a, b) ==
  /\ a \in lo .. hi + 1 /\ b \in a - 1 .. hi
  /\ Blank(f, lo, a - 1)
  /\ \A i \in b + 1 .. hi : f[i] = " " \/ (i = hi /\ f[i] = "\n")
  /\ a <= b => f[a] # " " /\ f[b] # " " /\ f[b] # "\n"

\* strTrim takes blanks at both ends and the newline of a line.
LEMMA TrimAt ==
  ASSUME NEW f, IsText(f), NEW lo, NEW hi, Inside(f, lo, hi),
         \A i \in lo .. hi - 1 : f[i] # "\n"
  PROVE  \E a, b : Trimmed(f, lo, hi, a, b)
                     /\ IsCutFrom(strTrim(SubSeq(f, lo, hi)), f, a, b)
<1>1. /\ lo \in Nat /\ hi \in Nat /\ Len(f) \in Nat
      /\ 1 <= lo /\ lo <= hi + 1 /\ hi <= Len(f)
  BY Bounds
<1>2. PICK a : NotBefore(f, lo, hi, " ", a)
                 /\ IsCutFrom(StripStart(SubSeq(f, lo, hi), " "), f, a, hi)
  BY StripStartAt
<1>3. a \in lo .. hi + 1 /\ Inside(f, a, hi)
  <2>1. a \in lo .. hi + 1
    BY <1>2, Zenon DEF NotBefore
  <2> QED BY <1>1, <2>1 DEF Inside
<1>4. PICK n : NotAfter(f, a, hi, "\n", n)
                 /\ IsCutFrom(StripEnd(SubSeq(f, a, hi), "\n"), f, a, n)
  BY <1>3, StripEndAt
<1>5. n \in a - 1 .. hi /\ Inside(f, a, n)
  <2>1. n \in a - 1 .. hi
    BY <1>4, Zenon DEF NotAfter
  <2> QED BY <1>1, <1>3, <2>1 DEF Inside
<1>6. PICK b : NotAfter(f, a, n, " ", b)
                 /\ IsCutFrom(StripEnd(SubSeq(f, a, n), " "), f, a, b)
  BY <1>5, StripEndAt
<1>7. strTrim(SubSeq(f, lo, hi)) = SubSeq(f, a, b)
  BY <1>2, <1>4, <1>6, Zenon DEF strTrim, IsCutFrom
<1>8. b \in a - 1 .. n /\ b \in a - 1 .. hi
  <2>1. b \in a - 1 .. n
    BY <1>6, Zenon DEF NotAfter
  <2> QED BY <1>1, <1>3, <1>5, <2>1
<1>9. \A i \in b + 1 .. hi : f[i] = " " \/ (i = hi /\ f[i] = "\n")
  <2>1. \A i \in b + 1 .. hi : i \in b + 1 .. n \/ i \in n + 1 .. hi
    BY <1>1, <1>3, <1>5, <1>8
  <2>2. \A i \in b + 1 .. hi : i \in lo .. hi - 1 \/ i = hi
    BY <1>1, <1>3, <1>5, <1>8
  <2> QED BY <1>4, <1>6, <2>1, <2>2, Zenon DEF NotAfter
<1>10. ASSUME a <= b PROVE f[a] # " " /\ f[b] # " " /\ f[b] # "\n"
  <2>1. a # hi + 1 /\ b # a - 1 /\ n # a - 1 /\ (b \in lo .. hi - 1 \/ b = n)
    BY <1>1, <1>3, <1>5, <1>8, <1>10
  <2> QED BY <1>2, <1>4, <1>6, <2>1, Zenon DEF NotBefore, NotAfter
<1>11. Blank(f, lo, a - 1)
  BY <1>2, Zenon DEF NotBefore, Blank
<1>12. Trimmed(f, lo, hi, a, b)
  BY <1>3, <1>8, <1>9, <1>10, <1>11, Zenon DEF Trimmed
<1> QED BY <1>7, <1>12 DEF IsCutFrom

\* A part without a blank at either end is the core of any that adds blanks to it.
LEMMA CoreIs ==
  ASSUME NEW f, IsText(f), NEW lo, NEW hi, Inside(f, lo, hi),
         NEW a \in lo .. hi + 1, NEW b \in a - 1 .. hi,
         Blank(f, lo, a - 1), Blank(f, b + 1, hi),
         Tight(f, a, b)
  PROVE  IsCore(SubSeq(f, lo, hi), SubSeq(f, a, b))
<1>1. PICK s : s = SubSeq(f, lo, hi) /\ IsText(s) /\ IsPart(s, f, lo, hi)
  BY PartIs
<1>2. /\ lo \in Nat /\ hi \in Nat /\ Len(f) \in Nat /\ a \in Nat /\ b \in Nat
      /\ 1 <= lo /\ lo <= hi + 1 /\ hi <= Len(f)
      /\ lo <= a /\ a <= b + 1 /\ b <= hi
  <2>1. /\ lo \in Nat /\ hi \in Nat /\ Len(f) \in Nat
        /\ 1 <= lo /\ lo <= hi + 1 /\ hi <= Len(f)
    BY Bounds
  <2> QED BY <2>1
<1>3. Len(s) = hi - lo + 1 /\ \A i \in 1 .. hi - lo + 1 : s[i] = f[lo + i - 1]
  BY <1>1 DEF IsPart
<1> DEFINE m == a - lo + 1
           n == b - lo + 1
<1>4. m \in 1 .. Len(s) + 1 /\ n \in m - 1 .. Len(s)
  BY <1>2, <1>3
<1>5. ASSUME NEW i \in 1 .. m - 1 PROVE s[i] = " "
  <2>1. i \in 1 .. hi - lo + 1 /\ lo + i - 1 \in lo .. a - 1
    BY <1>2
  <2> QED BY <1>3, <2>1 DEF Blank
<1>6. ASSUME NEW i \in n + 1 .. Len(s) PROVE s[i] = " "
  <2>1. i \in 1 .. hi - lo + 1 /\ lo + i - 1 \in b + 1 .. hi
    BY <1>2, <1>3
  <2> QED BY <1>3, <2>1 DEF Blank
<1>7. Tight(s, m, n)
  <2> SUFFICES ASSUME m <= n PROVE s[m] # " " /\ s[n] # " "
    BY DEF Tight
  <2>1. /\ m \in 1 .. hi - lo + 1 /\ lo + m - 1 = a
        /\ n \in 1 .. hi - lo + 1 /\ lo + n - 1 = b
        /\ a <= b
    BY <1>2
  <2>2. s[m] = f[a] /\ s[n] = f[b]
    <3> HIDE DEF m, n
    <3> QED BY <1>3, <2>1
  <2> QED BY <2>1, <2>2 DEF Tight
<1>8. SubSeq(f, a, b) = SubSeq(s, m, n)
  <2>1. IsCutFrom(SubSeq(SubSeq(f, lo, hi), m, n), f, a, b)
    BY PartOfPart
  <2> HIDE DEF m, n
  <2> QED BY <1>1, <2>1 DEF IsCutFrom
<1> HIDE DEF m, n
<1> QED BY <1>1, <1>4, <1>5, <1>6, <1>7, <1>8 DEF IsCore, Tight, Blank

\* A text has one core.
LEMMA OneCore ==
  ASSUME NEW s, IsText(s), NEW c, NEW d, IsCore(s, c), IsCore(s, d)
  PROVE  c = d
<1>0. Len(s) \in Nat
  BY TextIs
<1>1. PICK a, b :
        /\ a \in 1 .. Len(s) + 1 /\ b \in a - 1 .. Len(s)
        /\ Blank(s, 1, a - 1) /\ Blank(s, b + 1, Len(s))
        /\ c = SubSeq(s, a, b)
        /\ Tight(s, a, b)
  BY DEF IsCore, Tight
<1>2. PICK x, y :
        /\ x \in 1 .. Len(s) + 1 /\ y \in x - 1 .. Len(s)
        /\ Blank(s, 1, x - 1) /\ Blank(s, y + 1, Len(s))
        /\ d = SubSeq(s, x, y)
        /\ Tight(s, x, y)
  BY DEF IsCore, Tight
<1>3. a \in Int /\ b \in Int /\ x \in Int /\ y \in Int
  BY <1>0, <1>1, <1>2
<1>4. \A i \in 1 .. Len(s) : s[i] # " " => i \in a .. b /\ i \in x .. y
  <2>1. ASSUME NEW i \in 1 .. Len(s)
        PROVE  /\ i \in 1 .. a - 1 \/ i \in b + 1 .. Len(s) \/ i \in a .. b
               /\ i \in 1 .. x - 1 \/ i \in y + 1 .. Len(s) \/ i \in x .. y
    BY <1>0, <1>3
  <2> QED BY <1>1, <1>2, <2>1, Zenon DEF Blank
<1>5. a <= b => a \in x .. y /\ b \in x .. y
  <2>1. a <= b => a \in 1 .. Len(s) /\ b \in 1 .. Len(s)
    BY <1>0, <1>1, <1>3
  <2> QED BY <1>1, <1>4, <2>1 DEF Tight
<1>6. x <= y => x \in a .. b /\ y \in a .. b
  <2>1. x <= y => x \in 1 .. Len(s) /\ y \in 1 .. Len(s)
    BY <1>0, <1>2, <1>3
  <2> QED BY <1>2, <1>4, <2>1 DEF Tight
<1>7. (a = x /\ b = y) \/ (b < a /\ y < x)
  BY <1>3, <1>5, <1>6
<1>8. CASE b < a /\ y < x
  <2>1. SubSeq(s, a, b) = <<>> /\ SubSeq(s, x, y) = <<>>
    BY <1>3, <1>8, SubSeqEmpty
  <2> QED BY <1>1, <1>2, <2>1
<1> QED BY <1>1, <1>2, <1>7, <1>8

\* The key of lo .. hi ends before the "=" at eq, and the value at z.
SplitAt(f, lo, hi, eq, z) ==
  /\ eq \in lo .. hi /\ z \in eq .. hi
  /\ f[eq] = "=" /\ \A i \in lo .. eq - 1 : f[i] # "="
  /\ \A i \in lo .. z : f[i] # ";"
  /\ z = hi \/ f[z + 1] = ";"

\* What a line says is at its split.
LEMMA SaysSplit ==
  ASSUME NEW f, NEW lo, NEW hi, NEW k, NEW v
  PROVE  Says(f, lo, hi, k, v) <=>
           \E eq, z : /\ SplitAt(f, lo, hi, eq, z)
                      /\ IsCore(SubSeq(f, lo, eq - 1), k)
                      /\ IsCore(SubSeq(f, eq + 1, z), v)
  BY Zenon DEF Says, SplitAt

\* A line is split in one way.
LEMMA OneSplit ==
  ASSUME NEW f, NEW lo \in Nat, NEW hi \in Nat, NEW eq, NEW z, NEW eq2, NEW z2,
         SplitAt(f, lo, hi, eq, z), SplitAt(f, lo, hi, eq2, z2)
  PROVE  eq = eq2 /\ z = z2
<1>1. /\ eq \in lo .. hi /\ z \in eq .. hi
      /\ eq2 \in lo .. hi /\ z2 \in eq2 .. hi
  BY Zenon DEF SplitAt
<1>2. eq2 \notin lo .. eq - 1 /\ eq \notin lo .. eq2 - 1
  BY Zenon DEF SplitAt
<1>3. eq = eq2
  BY <1>1, <1>2
<1>4. /\ z = hi \/ z + 1 \notin lo .. z2
      /\ z2 = hi \/ z2 + 1 \notin lo .. z
  BY Zenon DEF SplitAt
<1>5. z = z2
  BY <1>1, <1>4
<1> QED BY <1>3, <1>5

\* The line that fgets reads from i on is i .. j, with its newline if it has one.
Reads(f, i, j) ==
  /\ i \in 1 .. Len(f) /\ j \in i .. Len(f)
  /\ \A n \in i .. j - 1 : f[n] # "\n"
  /\ f[j] = "\n" \/ j = Len(f)

\* Where the line that ends at j ends without its newline.
Stop(f, j) == IF f[j] = "\n" THEN j - 1 ELSE j

One(key, value) == [k \in {key} |-> value]

\* g is what the line lo .. hi says.
LineSets(f, lo, hi, g) ==
  \A k, v : Says(f, lo, hi, k, v) <=> k \in DOMAIN g /\ v = g[k]

\* There is no "=" up to z, and a comment after it or nothing.
Silent(f, lo, hi, z) == (\A i \in lo .. z : f[i] # "=") /\ (z >= hi \/ f[z + 1] = ";")

\* A line without a "=" before its comment says nothing.
LEMMA SaysNothing ==
  ASSUME NEW f, NEW lo \in Nat, NEW hi \in Nat, NEW z \in Int,
         lo <= z + 1, Silent(f, lo, hi, z)
  PROVE  LineSets(f, lo, hi, NoFields)
<1> SUFFICES ASSUME NEW k, NEW v, Says(f, lo, hi, k, v) PROVE FALSE
  <2> DOMAIN NoFields = {}
    BY DEF NoFields
  <2> QED BY Zenon DEF LineSets
<1>1. PICK eq, y : SplitAt(f, lo, hi, eq, y)
  BY SaysSplit
<1>2. eq \in lo .. hi /\ y \in eq .. hi
  BY Zenon, <1>1 DEF SplitAt
<1>3. eq \notin lo .. z
  BY Zenon, <1>1 DEF SplitAt, Silent
<1>4. z >= hi \/ z + 1 \notin lo .. y
  BY Zenon, <1>1 DEF SplitAt, Silent
<1> QED BY <1>2, <1>3, <1>4

\* A line with a split sets its key to its value and nothing else.
LEMMA SaysOne ==
  ASSUME NEW f, IsText(f), NEW lo, NEW hi, Inside(f, lo, hi),
         NEW eq, NEW z, NEW key, NEW value,
         SplitAt(f, lo, hi, eq, z),
         IsCore(SubSeq(f, lo, eq - 1), key), IsCore(SubSeq(f, eq + 1, z), value)
  PROVE  LineSets(f, lo, hi, One(key, value))
<1>0. /\ lo \in Nat /\ hi \in Nat /\ Len(f) \in Nat
      /\ 1 <= lo /\ lo <= hi + 1 /\ hi <= Len(f)
  BY Bounds
<1>1. IsText(SubSeq(f, lo, eq - 1)) /\ IsText(SubSeq(f, eq + 1, z))
  <2>1. eq \in lo .. hi /\ z \in eq .. hi
    BY Zenon DEF SplitAt
  <2>2. Inside(f, lo, eq - 1) /\ Inside(f, eq + 1, z)
    BY <1>0, <2>1 DEF Inside
  <2> QED BY <2>2, PartIs
<1>2. ASSUME NEW k, NEW v, Says(f, lo, hi, k, v) PROVE k = key /\ v = value
  <2>1. PICK e, y : /\ SplitAt(f, lo, hi, e, y)
                    /\ IsCore(SubSeq(f, lo, e - 1), k)
                    /\ IsCore(SubSeq(f, e + 1, y), v)
    BY <1>2, SaysSplit
  <2>2. e = eq /\ y = z
    BY <1>0, <2>1, OneSplit
  <2> QED BY <1>1, <2>1, <2>2, OneCore, Zenon
<1>3. Says(f, lo, hi, key, value)
  BY SaysSplit
<1>4. ASSUME NEW k, NEW v
      PROVE  Says(f, lo, hi, k, v) <=> k \in {key} /\ v = One(key, value)[k]
  BY <1>2, <1>3, Zenon DEF One
<1>5. DOMAIN One(key, value) = {key}
  BY DEF One
<1> QED BY <1>4, <1>5, Zenon DEF LineSets

\* A line that fgets read sets what it says.
LEMMA SettingSays ==
  ASSUME NEW f, IsText(f), NEW i, NEW j, Reads(f, i, j)
  PROVE  LineSets(f, i, Stop(f, j), Setting(SubSeq(f, i, j)))
<1>1. Len(f) \in Nat /\ i \in 1 .. Len(f) /\ j \in i .. Len(f)
  BY TextIs DEF Reads
<1>2. Inside(f, i, j)
  BY <1>1 DEF Inside
<1>3. PICK hi : hi = Stop(f, j)
  OBVIOUS
<1>4. (hi = j - 1 /\ f[j] = "\n") \/ (hi = j /\ f[j] # "\n")
  BY <1>3, Zenon DEF Stop
<1>5. hi \in j - 1 .. j /\ hi \in Nat /\ i <= hi + 1 /\ Inside(f, i, hi)
  <2>1. hi = j - 1 \/ hi = j
    BY <1>4, Zenon
  <2> QED BY <1>1, <2>1 DEF Inside
\* The comment goes.
<1>6. PICK z : Cut(f, i, j, ";", z)
                 /\ IsCutFrom(Before(SubSeq(f, i, j), ";"), f, i, z)
  BY <1>2, BeforeAt
<1>7. z \in i - 1 .. j
  BY <1>6, Zenon DEF Cut
<1>8. Inside(f, i, z) /\ \A n \in i .. z - 1 : f[n] # "\n"
  <2>1. \A n \in i .. z - 1 : n \in i .. j - 1
    BY <1>1, <1>7
  <2>2. \A n \in i .. z - 1 : f[n] # "\n"
    BY <2>1, Zenon DEF Reads
  <2>3. Inside(f, i, z)
    BY <1>1, <1>7 DEF Inside
  <2> QED BY <2>2, <2>3
\* The blanks and the newline go.
<1>9. PICK p, q : Trimmed(f, i, z, p, q)
                    /\ IsCutFrom(strTrim(SubSeq(f, i, z)), f, p, q)
  BY <1>8, TrimAt
<1>10. p \in i .. z + 1 /\ q \in p - 1 .. z
  BY <1>9, Zenon DEF Trimmed
<1>11. Inside(f, p, q)
  BY <1>1, <1>7, <1>10 DEF Inside
\* The key ends.
<1>12. PICK e : Cut(f, p, q, "=", e)
                  /\ IsCutFrom(Before(SubSeq(f, p, q), "="), f, p, e)
  BY <1>11, BeforeAt
<1>13. e \in p - 1 .. q
  BY <1>12, Zenon DEF Cut
<1>14. Inside(f, p, e)
  BY <1>1, <1>7, <1>10, <1>13 DEF Inside
<1>15. Len(SubSeq(f, p, q)) = q - p + 1 /\ Len(SubSeq(f, p, e)) = e - p + 1
  BY <1>11, <1>14, PartIs DEF IsPart
<1>16. Setting(SubSeq(f, i, j)) =
         IF e - p + 1 = q - p + 1 THEN NoFields
         ELSE [k \in {strTrim(SubSeq(f, p, e))} |->
                 strTrim(SubSeq(SubSeq(f, p, q), e - p + 1 + 2, q - p + 1))]
  BY <1>6, <1>9, <1>12, <1>15, Zenon DEF Setting, IsCutFrom
\* There is no "=" before e, and no ";" up to z.
<1>17. \A n \in i .. e : f[n] # "="
  <2>1. \A n \in i .. e : n \in i .. p - 1 \/ n \in p .. e
    BY <1>1, <1>7, <1>10, <1>13
  <2>2. \A n \in i .. p - 1 : f[n] # "="
    BY <1>9, Zenon DEF Trimmed, Blank
  <2>3. \A n \in p .. e : f[n] # "="
    BY <1>12, Zenon DEF Cut
  <2> QED BY <2>1, <2>2, <2>3, Zenon
<1>18. CASE e = q
  <2>1. \A n \in i .. z : f[n] # "="
    <3>1. \A n \in i .. z : n \in i .. e \/ n \in q + 1 .. z
      BY <1>1, <1>7, <1>10, <1>18
    <3>2. \A n \in q + 1 .. z : f[n] # "="
      BY <1>9, Zenon DEF Trimmed
    <3> QED BY <1>17, <3>1, <3>2, Zenon
  <2>2. z >= hi \/ f[z + 1] = ";"
    <3>1. z = j => z >= hi
      BY <1>1, <1>5
    <3> QED BY <1>6, <3>1, Zenon DEF Cut
  <2>3. LineSets(f, i, hi, NoFields)
    <3>1. i \in Nat /\ z \in Int /\ i <= z + 1
      BY <1>1, <1>7
    <3> QED BY <1>5, <2>1, <2>2, <3>1, SaysNothing DEF Silent
  <2> QED BY <1>3, <1>16, <1>18, <2>3
<1>19. CASE e # q
  <2> DEFINE eq == e + 1
  <2>1. eq \in p .. q /\ e \in Nat /\ eq - 1 = e /\ eq + 1 \in p .. q + 1
    BY <1>1, <1>7, <1>10, <1>13, <1>19
  <2>2. q <= hi
    <3>1. f[q] # "\n"
      <4>1. p <= q
        BY <1>1, <1>7, <1>10, <2>1
      <4> QED BY <1>9, <4>1, Zenon DEF Trimmed
    <3>2. hi = j \/ q # j
      BY <1>4, <3>1, Zenon
    <3> QED BY <1>1, <1>5, <1>7, <1>10, <3>2
  <2>3. PICK y : y = IF z <= hi THEN z ELSE hi
    OBVIOUS
  <2>4. y \in q .. hi /\ y \in eq .. hi /\ y <= z /\ eq \in i .. hi
    BY <1>1, <1>5, <1>7, <1>10, <2>1, <2>2, <2>3
  <2>5. SplitAt(f, i, hi, eq, y)
    <3>1. f[eq] = "="
      BY <1>12, <1>19, Zenon DEF Cut
    <3>2. \A n \in i .. eq - 1 : f[n] # "="
      BY <1>17, <2>1
    <3>3. \A n \in i .. y : f[n] # ";"
      <4>1. \A n \in i .. y : n \in i .. z
        BY <1>1, <1>7, <2>4
      <4> QED BY <1>6, <4>1, Zenon DEF Cut
    <3>4. y = hi \/ f[y + 1] = ";"
      <4>1. y = hi \/ (y = z /\ z # j)
        BY <1>1, <1>5, <1>7, <2>3
      <4> QED BY <1>6, <4>1, Zenon DEF Cut
    <3> HIDE DEF eq
    <3> QED BY <2>4, <3>1, <3>2, <3>3, <3>4, Zenon DEF SplitAt
  <2>6. PICK a, b : Trimmed(f, p, e, a, b)
                      /\ IsCutFrom(strTrim(SubSeq(f, p, e)), f, a, b)
    <3>1. \A n \in p .. e - 1 : n \in i .. z - 1
      BY <1>1, <1>7, <1>10, <1>13
    <3>2. \A n \in p .. e - 1 : f[n] # "\n"
      BY <1>8, <3>1, Zenon
    <3> QED BY <1>14, <3>2, TrimAt
  <2>7. Inside(f, eq + 1, q)
        /\ IsCutFrom(SubSeq(SubSeq(f, p, q), (eq + 1) - p + 1, q - p + 1), f, eq + 1, q)
    <3>1. q \in (eq + 1) - 1 .. q
      BY <1>1, <1>7, <1>10, <2>1
    <3> HIDE DEF eq
    <3> QED BY <1>11, <2>1, <3>1, PartOfPart
  <2>8. PICK c, d : Trimmed(f, eq + 1, q, c, d)
                      /\ IsCutFrom(strTrim(SubSeq(f, eq + 1, q)), f, c, d)
    <3>1. \A n \in eq + 1 .. q - 1 : n \in i .. z - 1
      BY <1>1, <1>7, <1>10, <2>1
    <3>2. \A n \in eq + 1 .. q - 1 : f[n] # "\n"
      BY <1>8, <3>1, Zenon
    <3> HIDE DEF eq
    <3> QED BY <2>7, <3>2, TrimAt
  <2>9. (eq + 1) - p + 1 = e - p + 1 + 2 /\ e - p + 1 # q - p + 1
    BY <1>1, <1>7, <1>10, <1>13, <1>19
  <2>10. Setting(SubSeq(f, i, j)) = One(SubSeq(f, a, b), SubSeq(f, c, d))
    <3> HIDE DEF eq
    <3> QED BY <1>16, <2>6, <2>7, <2>8, <2>9, Zenon DEF IsCutFrom, One
  <2>11. IsCore(SubSeq(f, i, e), SubSeq(f, a, b))
    <3>1. a \in p .. e + 1 /\ b \in a - 1 .. e
      BY <2>6, Zenon DEF Trimmed
    <3>2. a \in i .. e + 1 /\ Inside(f, i, e)
      BY <1>1, <1>7, <1>10, <1>13, <3>1 DEF Inside
    <3>3. Blank(f, i, a - 1)
      <4>1. \A n \in i .. a - 1 : n \in i .. p - 1 \/ n \in p .. a - 1
        BY <1>1, <1>7, <1>10, <3>1
      <4> QED BY <1>9, <2>6, <4>1, Zenon DEF Trimmed, Blank
    <3>4. Blank(f, b + 1, e)
      <4>1. \A n \in b + 1 .. e : n \in i .. j - 1
        BY <1>1, <1>7, <1>10, <1>13, <1>19, <3>1
      <4> QED BY <2>6, <4>1, Zenon DEF Trimmed, Blank, Reads
    <3>5. Tight(f, a, b)
      BY <2>6, Zenon DEF Trimmed, Tight
    <3> QED BY <3>1, <3>2, <3>3, <3>4, <3>5, CoreIs
  <2>12. IsCore(SubSeq(f, eq + 1, y), SubSeq(f, c, d))
    <3>1. c \in eq + 1 .. q + 1 /\ d \in c - 1 .. q
      BY <2>8, Zenon DEF Trimmed
    <3>2. /\ c \in eq + 1 .. y + 1 /\ d \in c - 1 .. y
          /\ Inside(f, eq + 1, y)
      BY <1>1, <1>5, <1>7, <1>10, <2>1, <2>4, <3>1 DEF Inside
    <3>3. Blank(f, d + 1, y)
      <4>1. \A n \in d + 1 .. y : \/ n \in d + 1 .. q
                                  \/ n \in q + 1 .. z /\ n <= hi
        BY <1>1, <1>5, <1>7, <1>10, <2>1, <2>4, <3>1
      <4>2. \A n \in d + 1 .. y : n \in i .. j - 1 \/ (n = j /\ hi = j)
        BY <1>1, <1>5, <1>7, <1>10, <2>1, <2>4, <3>1
      <4>3. \A n \in d + 1 .. y : f[n] # "\n"
        <5>1. j - 1 # j
          BY <1>1
        <5> QED BY <1>4, <4>2, <5>1, Zenon DEF Reads
      <4>4. \A n \in d + 1 .. q : f[n] = " " \/ f[n] = "\n"
        BY <2>8, Zenon DEF Trimmed
      <4>5. \A n \in q + 1 .. z : f[n] = " " \/ f[n] = "\n"
        BY <1>9, Zenon DEF Trimmed
      <4> QED BY <4>1, <4>3, <4>4, <4>5, Zenon DEF Blank
    <3>4. Blank(f, eq + 1, c - 1) /\ Tight(f, c, d)
      BY <2>8, Zenon DEF Trimmed, Tight
    <3> HIDE DEF eq
    <3> QED BY <3>2, <3>3, <3>4, CoreIs
  <2>13. LineSets(f, i, hi, One(SubSeq(f, a, b), SubSeq(f, c, d)))
    <3>1. IsCore(SubSeq(f, i, eq - 1), SubSeq(f, a, b))
      BY <2>1, <2>11
    <3> HIDE DEF eq
    <3> QED BY <1>5, <2>5, <2>12, <3>1, SaysOne
  <2> QED BY <1>3, <2>10, <2>13
<1> QED BY <1>18, <1>19

Starts(f, i) == i = 1 \/ f[i - 1] = "\n"

\* fgets reads whole lines of a file whose lines are short.
LEMMA FgetsReadsLine ==
  ASSUME NEW f, IsText(f), ShortLines(f), NEW i \in 1 .. Len(f), Starts(f, i)
  PROVE  Reads(f, i, LineEnd(f, i))
<1>0. Len(f) \in Nat /\ BuffLen \in Nat /\ BuffLen > 1
  BY TextIs, IniConfigAssumption
<1> DEFINE S == {j \in i .. Len(f) :
                   f[j] = "\n" \/ j = i + BuffLen - 2 \/ j = Len(f)}
<1>1. PICK j : j = LineEnd(f, i) /\ j \in S /\ \A y \in S : j <= y
  <2>1. Len(f) \in i .. Len(f) /\ \A y \in i .. Len(f) : y \in Nat
    BY <1>0
  <2>2. S \subseteq Nat /\ S # {}
    BY <2>1, Zenon
  <2> HIDE DEF S
  <2>3. Min(S) \in S /\ \A y \in S : Min(S) <= y
    BY <2>2, MinIs
  <2>4. LineEnd(f, i) = Min(S)
    BY DEF LineEnd, S
  <2> QED BY <2>3, <2>4
<1>2. j \in i .. Len(f) /\ (f[j] = "\n" \/ j = i + BuffLen - 2 \/ j = Len(f))
  BY <1>1, Zenon
<1>3. \A n \in i .. j - 1 : f[n] # "\n"
  <2>1. \A n \in i .. j - 1 : n \in i .. Len(f) /\ ~(j <= n)
    BY <1>0, <1>2
  <2> QED BY <1>1, <2>1, Zenon
<1>4. SUFFICES ASSUME f[j] # "\n", j # Len(f) PROVE FALSE
  BY <1>1, <1>2, <1>3, Zenon DEF Reads
<1>5. j = i + BuffLen - 2
  BY <1>2, <1>4, Zenon
<1> DEFINE T == {n \in i .. Len(f) : f[n] = "\n" \/ n = Len(f)}
<1>6. PICK n : n \in T /\ \A y \in T : n <= y
  <2>1. Len(f) \in i .. Len(f) /\ \A y \in i .. Len(f) : y \in Nat
    BY <1>0
  <2>2. T \subseteq Nat /\ T # {}
    BY <2>1, Zenon
  <2> HIDE DEF T
  <2> QED BY <2>2, Least
<1>7. n \in i .. Len(f) /\ (f[n] = "\n" \/ n = Len(f))
  BY <1>6, Zenon
<1>8. \A m \in i .. n - 1 : f[m] # "\n"
  <2>1. \A m \in i .. n - 1 : m \in i .. Len(f) /\ ~(n <= m)
    BY <1>0, <1>7
  <2> QED BY <1>6, <2>1, Zenon
<1>9. n \notin i .. j
  <2>1. \A m \in i .. j : m \in i .. j - 1 \/ m = j
    BY <1>0, <1>2
  <2>2. \A m \in i .. j : m # Len(f)
    <3>1. \A m \in i .. j - 1 : m # Len(f)
      BY <1>0, <1>2
    <3> QED BY <1>4, <2>1, <3>1, Zenon
  <2> QED BY <1>3, <1>4, <1>7, <2>1, <2>2, Zenon
<1>10. PICK hi : hi = Stop(f, n)
  OBVIOUS
<1>11. (hi = n - 1 /\ f[n] = "\n") \/ (hi = n /\ f[n] # "\n")
  BY <1>10, Zenon DEF Stop
<1>12. hi = n - 1 \/ hi = n
  BY <1>11, Zenon
<1>13. hi \in 1 .. Len(f) /\ hi >= j /\ i \in Nat
  BY <1>0, <1>2, <1>7, <1>9, <1>12
<1>14. IsLine(f, i, hi)
  <2>1. hi = Len(f) \/ f[hi + 1] = "\n"
    <3>1. hi = n - 1 => hi + 1 = n
      BY <1>7
    <3> QED BY <1>7, <1>11, <3>1, Zenon
  <2>2. \A m \in i .. hi : f[m] # "\n"
    <3>1. \A m \in i .. hi : m \in i .. n - 1 \/ (m = n /\ hi = n)
      BY <1>0, <1>7, <1>12
    <3>2. n - 1 # n
      BY <1>7
    <3> QED BY <1>8, <1>11, <3>1, <3>2, Zenon
  <2> QED BY <2>1, <2>2, Zenon DEF IsLine, Starts
<1>15. hi - i + 2 < BuffLen
  BY <1>13, <1>14, Zenon DEF ShortLines
<1> QED BY <1>0, <1>2, <1>5, <1>13, <1>15

\* The line that is read is one, and the only one from there.
LEMMA ReadLine ==
  ASSUME NEW f, IsText(f), NEW i, NEW j, Reads(f, i, j), Starts(f, i)
  PROVE  /\ IsLine(f, i, Stop(f, j))
         /\ \A hi \in i .. Len(f) : IsLine(f, i, hi) => hi = Stop(f, j)
         /\ \A lo \in 1 .. Len(f) : \A hi : IsLine(f, lo, hi) /\ lo > i => lo >= j + 1
         /\ j + 1 \in i + 1 .. Len(f) + 1
         /\ j = Len(f) \/ Starts(f, j + 1)
<1>1. Len(f) \in Nat /\ i \in 1 .. Len(f) /\ j \in i .. Len(f)
  BY TextIs DEF Reads
<1>2. (\A n \in i .. j - 1 : f[n] # "\n") /\ (f[j] = "\n" \/ j = Len(f))
  BY Zenon DEF Reads
<1>3. PICK st : st = Stop(f, j)
  OBVIOUS
<1>4. (st = j - 1 /\ f[j] = "\n") \/ (st = j /\ f[j] # "\n")
  BY <1>3, Zenon DEF Stop
<1>5. st = j - 1 \/ st = j
  BY <1>4, Zenon
<1>6. IsLine(f, i, st)
  <2>1. st = Len(f) \/ f[st + 1] = "\n"
    <3>1. st = j - 1 => st + 1 = j
      BY <1>1
    <3> QED BY <1>2, <1>4, <3>1, Zenon
  <2>2. \A m \in i .. st : f[m] # "\n"
    <3>1. \A m \in i .. st : m \in i .. j - 1 \/ (m = j /\ st = j)
      BY <1>1, <1>5
    <3>2. j - 1 # j
      BY <1>1
    <3> QED BY <1>2, <1>4, <3>1, <3>2, Zenon
  <2> QED BY <2>1, <2>2, Zenon DEF IsLine, Starts
<1>7. ASSUME NEW hi \in i .. Len(f), IsLine(f, i, hi) PROVE hi = st
  <2>1. (\A m \in i .. hi : f[m] # "\n") /\ (hi = Len(f) \/ f[hi + 1] = "\n")
    BY <1>7, Zenon DEF IsLine
  <2>2. f[j] = "\n" => j \notin i .. hi
    BY <2>1, Zenon
  <2>3. hi = Len(f) \/ hi + 1 \notin i .. j - 1
    BY <1>2, <2>1, Zenon
  <2>4. CASE f[j] = "\n"
    <3>1. st = j - 1
      BY <1>4, <2>4, Zenon
    <3>2. j \notin i .. hi
      BY <2>2, <2>4
    <3> QED BY <1>1, <2>3, <3>1, <3>2
  <2>5. CASE f[j] # "\n"
    <3>1. st = j /\ j = Len(f)
      BY <1>2, <1>4, <2>5, Zenon
    <3>2. hi = Len(f) \/ hi + 1 # j
      BY <2>1, <2>5, Zenon
    <3> QED BY <1>1, <2>3, <3>1, <3>2
  <2> QED BY <2>4, <2>5
<1>8. ASSUME NEW lo \in 1 .. Len(f), NEW hi, IsLine(f, lo, hi), lo > i PROVE lo >= j + 1
  <2>1. lo = 1 \/ f[lo - 1] = "\n"
    BY <1>8, Zenon DEF IsLine
  <2>2. lo = 1 \/ lo - 1 \notin i .. j - 1
    BY <1>2, <2>1, Zenon
  <2> QED BY <1>1, <1>8, <2>2
<1>9. j = Len(f) \/ Starts(f, j + 1)
  <2>1. (j + 1) - 1 = j
    BY <1>1
  <2> QED BY <1>2, <2>1, Zenon DEF Starts
<1>10. j + 1 \in i + 1 .. Len(f) + 1
  BY <1>1
<1> QED BY <1>3, <1>6, <1>7, <1>8, <1>9, <1>10

\* No line of f after the one at lo says something of key.
LastToSay(f, lo, key) ==
  \A l, h \in 1 .. Len(f) :
    IsLine(f, l, h) /\ l > lo => \A v : ~Says(f, l, h, key, v)

\* g is what the lines of f from i on say, the last of them the most.
SetFrom(f, i, g) ==
  /\ \A k \in DOMAIN g : \E lo, hi \in 1 .. Len(f) :
       /\ IsLine(f, lo, hi) /\ lo >= i
       /\ Says(f, lo, hi, k, g[k]) /\ LastToSay(f, lo, k)
  /\ \A lo, hi \in 1 .. Len(f) : IsLine(f, lo, hi) /\ lo >= i =>
       \A k, v : Says(f, lo, hi, k, v) => k \in DOMAIN g

\* At the end of the file nothing is set.
LEMMA SetFromEnd ==
  ASSUME NEW f, IsText(f) PROVE SetFrom(f, Len(f) + 1, NoFields)
<1>1. DOMAIN NoFields = {}
  BY DEF NoFields
<1>2. Len(f) \in Nat
  BY TextIs
<1>3. \A lo \in 1 .. Len(f) : ~(lo >= Len(f) + 1)
  BY <1>2
<1> QED BY <1>1, <1>3, Zenon DEF SetFrom

\* What the later fields have wins, the rest of the earlier stays.
LEMMA OverIs ==
  ASSUME NEW g, NEW h
  PROVE  /\ DOMAIN Over(g, h) = DOMAIN g \cup DOMAIN h
         /\ \A k \in DOMAIN g : Over(g, h)[k] = g[k]
         /\ \A k \in DOMAIN h : k \notin DOMAIN g => Over(g, h)[k] = h[k]
  BY DEF Over

\* One more line before those.
LEMMA SetFromLine ==
  ASSUME NEW f, IsText(f), NEW i, NEW j, Reads(f, i, j), Starts(f, i),
         NEW g, SetFrom(f, j + 1, g)
  PROVE  SetFrom(f, i, Over(g, Setting(SubSeq(f, i, j))))
<1>0. Len(f) \in Nat /\ i \in 1 .. Len(f) /\ j \in i .. Len(f)
  BY TextIs DEF Reads
<1>1. PICK st, one : st = Stop(f, j) /\ one = Setting(SubSeq(f, i, j))
  OBVIOUS
<1>2. LineSets(f, i, st, one)
  BY <1>1, SettingSays, Zenon
<1>3. /\ IsLine(f, i, st)
      /\ \A hi \in i .. Len(f) : IsLine(f, i, hi) => hi = st
      /\ \A lo \in 1 .. Len(f) : \A hi : IsLine(f, lo, hi) /\ lo > i => lo >= j + 1
  BY <1>1, ReadLine, Zenon
<1>4. \A lo, hi, k, v : Says(f, lo, hi, k, v) => \E eq \in lo .. hi : TRUE
  BY Zenon DEF Says
<1>5. \A lo \in 1 .. Len(f) : lo >= j + 1 => lo >= i
  BY <1>0
<1>6. ASSUME NEW lo \in 1 .. Len(f), NEW hi \in 1 .. Len(f), IsLine(f, lo, hi), lo >= i,
             NEW k, NEW v, Says(f, lo, hi, k, v)
      PROVE  (lo = i /\ hi = st) \/ lo >= j + 1
  <2>1. hi \in lo .. Len(f)
    <3>1. PICK eq \in lo .. hi : TRUE
      BY <1>4, <1>6, Zenon
    <3> QED BY <3>1, <1>0
  <2>2. lo = i \/ lo > i
    BY <1>0, <1>6
  <2> QED BY <1>3, <1>6, <2>1, <2>2, Zenon
<1> DEFINE all == Over(g, one)
<1>7. /\ DOMAIN all = DOMAIN g \cup DOMAIN one
      /\ \A k \in DOMAIN g : all[k] = g[k]
      /\ \A k \in DOMAIN one : k \notin DOMAIN g => all[k] = one[k]
  BY OverIs
<1> HIDE DEF all
<1>8. ASSUME NEW k \in DOMAIN all
      PROVE  \E lo, hi \in 1 .. Len(f) :
               /\ IsLine(f, lo, hi) /\ lo >= i
               /\ Says(f, lo, hi, k, all[k]) /\ LastToSay(f, lo, k)
  <2>1. CASE k \in DOMAIN g
    <3>1. PICK lo \in 1 .. Len(f), hi \in 1 .. Len(f) :
            /\ IsLine(f, lo, hi) /\ lo >= j + 1
            /\ Says(f, lo, hi, k, g[k]) /\ LastToSay(f, lo, k)
      BY <2>1, Zenon DEF SetFrom
    <3>2. lo >= i /\ all[k] = g[k]
      BY <1>5, <1>7, <2>1, <3>1, Zenon
    <3> QED BY <3>1, <3>2, Zenon
  <2>2. CASE k \notin DOMAIN g
    <3>1. k \in DOMAIN one /\ all[k] = one[k]
      BY <1>7, <2>2, Zenon
    <3>2. Says(f, i, st, k, all[k])
      BY <1>2, <3>1, Zenon DEF LineSets
    <3>3. st \in 1 .. Len(f)
      <4>1. PICK eq \in i .. st : TRUE
        BY <1>4, <3>2, Zenon
      <4>2. st \in Int /\ st <= j
        BY <1>0, <1>1 DEF Stop
      <4> QED BY <1>0, <4>1, <4>2
    <3>4. LastToSay(f, i, k)
      <4> SUFFICES ASSUME NEW l \in 1 .. Len(f), NEW h \in 1 .. Len(f),
                          IsLine(f, l, h), l > i, NEW v, Says(f, l, h, k, v)
                   PROVE  FALSE
        BY Zenon DEF LastToSay
      <4>1. l >= j + 1
        BY <1>3, Zenon
      <4> QED BY <2>2, <4>1, Zenon DEF SetFrom
    <3>5. i \in 1 .. Len(f) /\ i >= i
      BY <1>0
    <3> QED BY <1>3, <3>2, <3>3, <3>4, <3>5, Zenon
  <2> QED BY <2>1, <2>2
<1>9. ASSUME NEW lo \in 1 .. Len(f), NEW hi \in 1 .. Len(f), IsLine(f, lo, hi), lo >= i,
             NEW k, NEW v, Says(f, lo, hi, k, v)
      PROVE  k \in DOMAIN all
  <2>1. CASE lo = i /\ hi = st
    <3>1. k \in DOMAIN one
      BY <1>2, <1>9, <2>1, Zenon DEF LineSets
    <3> QED BY <1>7, <3>1, Zenon
  <2>2. CASE lo >= j + 1
    <3>1. k \in DOMAIN g
      BY <1>9, <2>2, Zenon DEF SetFrom
    <3> QED BY <1>7, <3>1, Zenon
  <2> QED BY <1>6, <1>9, <2>1, <2>2, Zenon
<1>10. SetFrom(f, i, all)
  BY <1>8, <1>9, Zenon DEF SetFrom
<1> QED BY <1>1, <1>10 DEF all

\* The fields from each place of f on, from its end back to place n.
Froms(h, f, n) ==
  /\ h = [i \in n .. Len(f) + 1 |-> h[i]]
  /\ \A i \in n .. Len(f) + 1 :
       h[i] = IF i > Len(f) THEN NoFields
              ELSE Over(h[LineEnd(f, i) + 1], Setting(SubSeq(f, i, LineEnd(f, i))))

\* A line that fgets reads ends in the file.
LEMMA LineEndIs ==
  ASSUME NEW f, IsText(f), NEW i \in 1 .. Len(f) PROVE LineEnd(f, i) \in i .. Len(f)
<1>0. Len(f) \in Nat
  BY TextIs
<1> DEFINE S == {j \in i .. Len(f) :
                   f[j] = "\n" \/ j = i + BuffLen - 2 \/ j = Len(f)}
<1>1. Len(f) \in i .. Len(f) /\ \A y \in i .. Len(f) : y \in Nat
  BY <1>0
<1>2. S \subseteq Nat /\ S # {}
  BY <1>1, Zenon
<1>3. \A j \in S : j \in i .. Len(f)
  BY Zenon
<1> HIDE DEF S
<1>4. Min(S) \in S
  BY <1>2, MinIs
<1> QED BY <1>3, <1>4 DEF LineEnd, S

\* There are fields from each place on: Parse's recursive function is one.
LEMMA FromsExist ==
  ASSUME NEW f, IsText(f) PROVE \E h : Froms(h, f, 1)
<1>0. Len(f) \in Nat
  BY TextIs
<1> DEFINE N == Len(f)
           Without == {m \in 0 .. N : ~\E h : Froms(h, f, N + 1 - m)}
<1>1. SUFFICES ASSUME Without # {} PROVE FALSE
  <2>1. N \in 0 .. N /\ N + 1 - N = 1
    BY <1>0
  <2>2. N \notin Without => \E h : Froms(h, f, N + 1 - N)
    BY <2>1, Zenon
  <2> HIDE DEF Without
  <2> QED BY <2>1, <2>2
<1>2. PICK m \in Without : \A k \in Without : m <= k
  <2>1. Without \subseteq Nat
    BY <1>0
  <2> HIDE DEF Without
  <2> QED BY <1>1, <2>1, Least
<1>3. m \in 0 .. N /\ ~\E h : Froms(h, f, N + 1 - m)
  BY Zenon
<1> DEFINE n == N + 1 - m
<1>4. CASE m = 0
  <2> DEFINE h == [i \in N + 1 .. N + 1 |-> NoFields]
  <2>1. \A i \in N + 1 .. N + 1 : i > N /\ h[i] = NoFields
    BY <1>0
  <2>2. Froms(h, f, N + 1)
    <3>1. h = [i \in N + 1 .. N + 1 |-> h[i]]
      OBVIOUS
    <3> HIDE DEF h
    <3> QED BY <2>1, <3>1, Zenon DEF Froms
  <2>3. N + 1 - m = N + 1
    BY <1>0, <1>4
  <2> HIDE DEF h
  <2> QED BY <1>3, <2>2, <2>3
<1>5. CASE m # 0
  <2>1. n \in 1 .. N /\ m - 1 \in 0 .. N /\ N + 1 - (m - 1) = n + 1 /\ ~(m <= m - 1)
    BY <1>0, <1>3, <1>5
  <2>2. \E h : Froms(h, f, n + 1)
    <3>1. m - 1 \notin Without
      <4> HIDE DEF Without
      <4> QED BY <1>2, <2>1, Zenon
    <3>2. \E h : Froms(h, f, N + 1 - (m - 1))
      BY <2>1, <3>1, Zenon
    <3> HIDE DEF n
    <3> QED BY <2>1, <3>2
  <2>3. PICK g : Froms(g, f, n + 1)
    BY <2>2
  <2>4. PICK j : j = LineEnd(f, n) /\ j \in n .. N
    BY <2>1, LineEndIs
  <2> DEFINE first == Over(g[j + 1], Setting(SubSeq(f, n, j)))
             h == [i \in n .. N + 1 |-> IF i = n THEN first ELSE g[i]]
  <2>5. h = [i \in n .. N + 1 |-> h[i]]
    OBVIOUS
  <2>6. h[n] = first /\ \A i \in n + 1 .. N + 1 : h[i] = g[i]
    <3>1. n \in n .. N + 1 /\ \A i \in n + 1 .. N + 1 : i \in n .. N + 1 /\ i # n
      BY <1>0, <2>1
    <3> HIDE DEF first, n
    <3> QED BY <3>1
  <2> HIDE DEF h
  <2>7. ASSUME NEW i \in n .. N + 1
        PROVE  h[i] = IF i > N THEN NoFields
                      ELSE Over(h[LineEnd(f, i) + 1],
                                Setting(SubSeq(f, i, LineEnd(f, i))))
    <3>1. CASE i = n
      <4>1. j + 1 \in n + 1 .. N + 1 /\ ~(i > N)
        BY <1>0, <2>1, <2>4, <3>1
      <4>2. h[j + 1] = g[j + 1]
        BY <2>6, <4>1, Zenon
      <4> HIDE DEF n
      <4> QED BY <2>4, <2>6, <3>1, <4>1, <4>2, Zenon
    <3>2. CASE i # n
      <4>1. i \in n + 1 .. N + 1
        BY <1>0, <2>1, <3>2
      <4>2. h[i] = g[i]
        BY <2>6, <4>1, Zenon
      <4>3. g[i] = IF i > N THEN NoFields
                   ELSE Over(g[LineEnd(f, i) + 1],
                             Setting(SubSeq(f, i, LineEnd(f, i))))
        BY <2>3, <4>1, Zenon DEF Froms
      <4>4. CASE i > N
        BY <4>2, <4>3, <4>4, Zenon
      <4>5. CASE ~(i > N)
        <5>1. i \in 1 .. N
          BY <1>0, <2>1, <4>1, <4>5
        <5>2. LineEnd(f, i) \in i .. N
          BY <5>1, LineEndIs
        <5>3. LineEnd(f, i) + 1 \in n + 1 .. N + 1
          BY <1>0, <2>1, <4>1, <5>2
        <5>4. h[LineEnd(f, i) + 1] = g[LineEnd(f, i) + 1]
          BY <2>6, <5>3, Zenon
        <5> QED BY <4>2, <4>3, <4>5, <5>4, Zenon
      <4> QED BY <4>4, <4>5
    <3> QED BY <3>1, <3>2
  <2>8. Froms(h, f, n)
    BY <2>5, <2>7, Zenon DEF Froms
  <2> QED BY <1>3, <2>8, Zenon
<1> QED BY <1>4, <1>5

\* Parse gives what the lines from the first on say.
LEMMA ParseSets ==
  ASSUME NEW f, IsText(f), ShortLines(f) PROVE SetFrom(f, 1, Parse(f))
<1>0. Len(f) \in Nat
  BY TextIs
<1> DEFINE N == Len(f)
           Step(h) == [i \in 1 .. N + 1 |->
                         IF i > N THEN NoFields
                         ELSE Over(h[LineEnd(f, i) + 1],
                                   Setting(SubSeq(f, i, LineEnd(f, i))))]
           u == CHOOSE h : h = Step(h)
<1>1. \E h : h = Step(h)
  <2>1. PICK h : Froms(h, f, 1)
    BY FromsExist
  <2>2. h = Step(h)
    <3>1. h = [i \in 1 .. N + 1 |-> h[i]]
      BY <2>1 DEF Froms
    <3>2. \A i \in 1 .. N + 1 : h[i] = Step(h)[i]
      BY <2>1 DEF Froms
    <3>3. Step(h) = [i \in 1 .. N + 1 |-> Step(h)[i]]
      OBVIOUS
    <3> HIDE DEF Step
    <3> QED BY <3>1, <3>2, <3>3
  <2> QED BY <2>2
<1>2. u = Step(u)
  <2> HIDE DEF Step
  <2> QED BY <1>1
<1>3. Parse(f) = u[1]
  BY DEF Parse
<1>4. \A i \in 1 .. N + 1 :
        u[i] = IF i > N THEN NoFields
               ELSE Over(u[LineEnd(f, i) + 1], Setting(SubSeq(f, i, LineEnd(f, i))))
  <2> HIDE DEF u
  <2> QED BY <1>2
<1> HIDE DEF u
\* No place of a line's start is the last one from which this would not hold.
<1> DEFINE Bad == {m \in 0 .. N : /\ m = 0 \/ Starts(f, N + 1 - m)
                                  /\ ~SetFrom(f, N + 1 - m, u[N + 1 - m])}
<1>5. ASSUME Bad # {} PROVE FALSE
  <2>1. PICK m \in Bad : \A k \in Bad : m <= k
    <3>1. Bad \subseteq Nat
      BY <1>0
    <3> HIDE DEF Bad
    <3> QED BY <1>5, <3>1, Least
  <2>2. /\ m \in 0 .. N /\ (m = 0 \/ Starts(f, N + 1 - m))
        /\ ~SetFrom(f, N + 1 - m, u[N + 1 - m])
    BY <2>1, Zenon
  <2> DEFINE i == N + 1 - m
  <2>3. CASE m = 0
    <3>1. i = N + 1 /\ i > N /\ i \in 1 .. N + 1
      BY <1>0, <2>3
    <3>2. u[i] = NoFields
      <4> HIDE DEF i
      <4> QED BY <1>4, <3>1, Zenon
    <3> HIDE DEF i
    <3> QED BY <2>2, <3>1, <3>2, SetFromEnd DEF i
  <2>4. CASE m # 0
    <3>1. i \in 1 .. N /\ ~(i > N) /\ i \in 1 .. N + 1
      BY <1>0, <2>2, <2>4
    <3>2. Starts(f, i)
      BY <2>2, <2>4
    <3>3. PICK j : j = LineEnd(f, i) /\ j \in i .. N /\ Reads(f, i, j)
      <4> HIDE DEF i
      <4> QED BY <3>1, <3>2, LineEndIs, FgetsReadsLine
    <3>4. u[i] = Over(u[j + 1], Setting(SubSeq(f, i, j)))
      <4> HIDE DEF i
      <4> QED BY <1>4, <3>1, <3>3, Zenon
    <3>5. j = N \/ Starts(f, j + 1)
      <4> HIDE DEF i
      <4> QED BY <3>2, <3>3, ReadLine, Zenon
    <3>6. N - j \in 0 .. N /\ N + 1 - (N - j) = j + 1 /\ ~(m <= N - j)
          /\ (j = N => N - j = 0)
      BY <1>0, <2>2, <3>1, <3>3
    <3>7. SetFrom(f, j + 1, u[j + 1])
      <4>1. N - j \notin Bad
        <5> HIDE DEF Bad
        <5> QED BY <2>1, <3>6, Zenon
      <4>2. N - j = 0 \/ Starts(f, N + 1 - (N - j))
        BY <3>5, <3>6
      <4>3. SetFrom(f, N + 1 - (N - j), u[N + 1 - (N - j)])
        BY <3>6, <4>1, <4>2, Zenon
      <4> QED BY <3>6, <4>3
    <3>8. SetFrom(f, i, u[i])
      <4> HIDE DEF i
      <4> QED BY <3>2, <3>3, <3>4, <3>7, SetFromLine
    <3> QED BY <2>2, <3>8
  <2> QED BY <2>3, <2>4
<1>6. SetFrom(f, 1, u[1])
  <2>1. CASE N = 0
    <3>1. 1 \in 1 .. N + 1 /\ 1 > N /\ N + 1 = 1
      BY <2>1
    <3>2. u[1] = NoFields
      BY <1>4, <3>1, Zenon
    <3> QED BY <3>1, <3>2, SetFromEnd
  <2>2. CASE N # 0
    <3>1. N \in 0 .. N /\ N + 1 - N = 1
      BY <1>0
    <3>2. N \notin Bad
      <4> HIDE DEF Bad
      <4> QED BY <1>5, Zenon
    <3>3. SetFrom(f, N + 1 - N, u[N + 1 - N])
      <4>1. Starts(f, N + 1 - N)
        BY <3>1 DEF Starts
      <4> QED BY <3>1, <3>2, <4>1, Zenon
    <3> QED BY <3>1, <3>3
  <2> QED BY <2>1, <2>2
<1> QED BY <1>3, <1>6

\* The keys and values of a line are cut from the file.
LEMMA SaysParts ==
  ASSUME NEW f, IsText(f), NEW lo \in 1 .. Len(f), NEW hi \in 1 .. Len(f),
         NEW k, NEW v, Says(f, lo, hi, k, v)
  PROVE  k \in Cuts(f) /\ v \in Cuts(f)
<1>0. Len(f) \in Nat
  BY TextIs
<1>1. PICK eq, z : /\ SplitAt(f, lo, hi, eq, z)
                   /\ IsCore(SubSeq(f, lo, eq - 1), k)
                   /\ IsCore(SubSeq(f, eq + 1, z), v)
  BY SaysSplit
<1>2. eq \in lo .. hi /\ z \in eq .. hi
  BY <1>1, Zenon DEF SplitAt
<1>3. ASSUME NEW l, NEW h, Inside(f, l, h), NEW c, IsCore(SubSeq(f, l, h), c)
      PROVE  c \in Cuts(f)
  <2>1. PICK s : s = SubSeq(f, l, h) /\ IsText(s) /\ Len(s) = h - l + 1
    BY <1>3, PartIs DEF IsPart
  <2>2. PICK a, b : /\ a \in 1 .. Len(s) + 1 /\ b \in a - 1 .. Len(s)
                    /\ c = SubSeq(s, a, b)
    BY <1>3, <2>1, Zenon DEF IsCore
  <2>3. /\ l \in Nat /\ h \in Nat /\ 1 <= l /\ l <= h + 1 /\ h <= Len(f)
    BY <1>3, Bounds
  <2>4. PICK m, n : m = l + a - 1 /\ n = l + b - 1
    OBVIOUS
  <2>5. /\ m \in l .. h + 1 /\ n \in m - 1 .. h
        /\ m - l + 1 = a /\ n - l + 1 = b
        /\ m \in 1 .. Len(f) + 1 /\ n \in 0 .. Len(f)
    BY <1>0, <2>1, <2>2, <2>3, <2>4
  <2>6. IsCutFrom(SubSeq(SubSeq(f, l, h), m - l + 1, n - l + 1), f, m, n)
    BY <1>3, <2>5, PartOfPart
  <2>7. c = SubSeq(f, m, n)
    BY <2>1, <2>2, <2>5, <2>6 DEF IsCutFrom
  <2> QED BY <2>5, <2>7 DEF Cuts
<1>4. Inside(f, lo, eq - 1) /\ Inside(f, eq + 1, z)
  BY <1>0, <1>2 DEF Inside
<1> QED BY <1>1, <1>3, <1>4

\* A file without a line too long for fgets sets what its author means by it: every
\* file, of whatever characters, lines, blanks, comments and settings made twice.
THEOREM FilesAsMeant ==
  ASSUME NEW C, NEW f \in Seq(C), ShortLines(f) PROVE Meant(f, Parse(f))
<1>1. IsText(f)
  BY DEF IsText
<1>2. PICK g : g = Parse(f) /\ SetFrom(f, 1, g)
  BY <1>1, ParseSets
<1>3. \A lo, hi \in 1 .. Len(f) : \A k, v :
        Says(f, lo, hi, k, v) => k \in Cuts(f) /\ v \in Cuts(f)
  BY <1>1, SaysParts
<1>4. \A lo \in 1 .. Len(f) : lo >= 1
  BY <1>1, TextIs
<1>5. \A l \in Lines(f) : /\ l[1] \in 1 .. Len(f) /\ l[2] \in 1 .. Len(f)
                          /\ IsLine(f, l[1], l[2])
  BY DEF Lines
<1>6. \A lo, hi \in 1 .. Len(f) : IsLine(f, lo, hi) =>
        <<lo, hi>> \in Lines(f) /\ <<lo, hi>>[1] = lo /\ <<lo, hi>>[2] = hi
  BY DEF Lines
<1>7. ASSUME NEW key \in DOMAIN g
      PROVE  \E l \in Last(f, key) : Says(f, l[1], l[2], key, g[key])
  <2>1. PICK lo \in 1 .. Len(f), hi \in 1 .. Len(f) :
          /\ IsLine(f, lo, hi)
          /\ Says(f, lo, hi, key, g[key]) /\ LastToSay(f, lo, key)
    BY <1>2, Zenon DEF SetFrom
  <2>2. PICK l : l \in Lines(f) /\ l[1] = lo /\ l[2] = hi
    <3>1. <<lo, hi>> \in Lines(f) /\ <<lo, hi>>[1] = lo /\ <<lo, hi>>[2] = hi
      BY <1>6, <2>1
    <3> QED BY <3>1
  <2>3. \A k \in Lines(f) : k[1] > l[1] =>
          \A v \in Cuts(f) : ~Says(f, k[1], k[2], key, v)
    BY <1>5, <2>1, <2>2, Zenon DEF LastToSay
  <2>4. Says(f, l[1], l[2], key, g[key]) /\ g[key] \in Cuts(f)
    BY <1>3, <2>1, <2>2, Zenon
  <2>5. l \in Last(f, key)
    BY <2>2, <2>3, <2>4, Zenon DEF Last
  <2> QED BY <2>4, <2>5
<1>8. ASSUME NEW key, Last(f, key) # {} PROVE key \in DOMAIN g
  <2>1. PICK l \in Lines(f) : \E v \in Cuts(f) : Says(f, l[1], l[2], key, v)
    BY <1>8, Zenon DEF Last
  <2> QED BY <1>2, <1>4, <1>5, <2>1, Zenon DEF SetFrom
<1> QED BY <1>2, <1>7, <1>8, Zenon DEF Meant

\* The configuration files of the runs, which the parser of the process reads, among
\* them.
THEOREM ConfigAsMeant == Spec => []CfgAsMeant
<1>1. CfgAsMeant
  <2> SUFFICES ASSUME NEW f \in Files, ShortLines(f) PROVE Meant(f, Parse(f))
    BY DEF CfgAsMeant
  <2> DEFINE C == {" ", "=", ";", "\n", "k", "1"}
  <2>1. PICK n \in 0 .. 5 : f \in [1 .. n -> C]
    BY DEF Files
  <2>2. f \in Seq(C)
    <3> HIDE DEF C
    <3> QED BY <2>1
  <2> HIDE DEF C
  <2> QED BY <2>2, FilesAsMeant
<1> QED BY <1>1, PTL

\* What GetStr and GetInt read from: nothing, before the file, without one or after
\* Bind, or what the author of a file means.
ReadsMeant == fields = NoFields \/ \E f \in Cfg : Meant(f, fields)

\* A server with files whose lines fgets can hold is built from what they mean: the
\* parser's result, whatever main does with it and whatever comes between.
THEOREM ServerReadsMeant ==
  ASSUME \A f \in Cfg : IsText(f) /\ ShortLines(f)
  PROVE  Spec => []ReadsMeant
<1>1. ASSUME NEW f \in Cfg PROVE Meant(f, Parse(f))
  BY <1>1, FilesAsMeant DEF IsText
<1>2. Init => ReadsMeant
  BY DEF Init, ReadsMeant
<1>3. ReadsMeant /\ [Next]_vars => ReadsMeant'
  <2> SUFFICES ASSUME ReadsMeant, [Next]_vars PROVE ReadsMeant'
    OBVIOUS
  <2>1. CASE LoadCfg
    <3>1. fields' = fields \/ \E f \in Cfg : fields' = Parse(f)
      BY <2>1 DEF LoadCfg, Parsed
    <3> QED BY <1>1, <3>1, Zenon DEF ReadsMeant
  <2>2. CASE Bind
    BY <2>2 DEF Bind, ReadsMeant
  <2>3. ASSUME UNCHANGED fields PROVE ReadsMeant'
    BY <2>3 DEF ReadsMeant
  <2>4. CASE InitParts \/ StartWorker \/ InitNet \/ Start \/ SignalCb \/ LoopEnds
             \/ Destroy
    BY <2>3, <2>4 DEF InitParts, StartWorker, InitNet, Start, SignalCb, LoopEnds,
                      Destroy, bootVars
  <2>5. CASE \E sig \in {SIGINT, SIGTERM} : Signal(sig)
    BY <2>3, <2>5 DEF Signal, bootVars
  <2>6. CASE Receive \/ Stall \/ Resume \/ Enter \/ Take \/ Answer \/ TimersUsed
             \/ CallbackBreaks
    BY <2>3, <2>6 DEF Receive, Stall, Resume, Enter, Take, Answer, TimersUsed,
                      CallbackBreaks, procVars, bootVars
  <2>7. CASE UNCHANGED vars
    BY <2>3, <2>7 DEF vars, procVars, bootVars
  <2> QED BY <2>1, <2>2, <2>4, <2>5, <2>6, <2>7 DEF Next, MainThread
<1> QED BY <1>2, <1>3, PTL DEF Spec
=============================================================================
