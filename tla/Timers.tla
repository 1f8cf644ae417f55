-------------------------------- MODULE Timers --------------------------------
(***************************************************************************)
(* TimerMgr and its TimerObjs, on the network thread.  A timer is a number *)
(* of its own here; the program knows it by an id, which AddTimer takes    *)
(* from a counter that starts again at 1 when it overflows.  The object of *)
(* a timer is freed by DelTimer, which the callback of a one-shot timer    *)
(* ends with and which any callback may call.                              *)
(***************************************************************************)
EXTENDS Integers

CONSTANTS
  MaxId,    \* the largest int64_t
  MaxAdd    \* bound: timers ever added

ASSUME TimersAssumption == MaxId \in Nat \ {0} /\ MaxAdd \in Nat

VARIABLES
  timerGuid,  \* timerGuid_
  objs,       \* objs_: the timer stored under each id, or None
  live,       \* timers whose object is not freed: their watchers are active
  guid,       \* guid_ of each timer
  repeats,    \* timers with repeatFlag_
  added,      \* number of the last timer added
  running,    \* the timer whose Callback is on the stack, or None
  fired       \* history: timers whose callback was called

timerVars == <<timerGuid, objs, live, guid, repeats, added, running, fired>>

None == 0
Id == 1 .. MaxId
Timer == 1 .. MaxAdd

TimerInit ==
  /\ timerGuid = 0
  /\ objs = [i \in Id |-> None]
  /\ live = {} /\ repeats = {} /\ fired = {}
  /\ guid = [t \in Timer |-> None]
  /\ added = 0
  /\ running = None

\* Mutant of NextId: the counter starts again one too early.
NextIdEarly == IF timerGuid >= MaxId - 1 THEN 1 ELSE timerGuid + 1

\* Another: it never starts again.
NextIdOn == timerGuid + 1

\* GetTimerID: timerGuid_++ overflows to a negative number.
NextId == IF timerGuid = MaxId THEN 1 ELSE timerGuid + 1

\* A timer without repeat asks ev_timer_init for one of -1.0, where libev wants
\* none below 0; here it expires once, as libev's timers do that have none.
AddTimer(repeat) ==
  /\ added < MaxAdd
  /\ added' = added + 1
  /\ timerGuid' = NextId
  /\ objs' = [objs EXCEPT ![NextId] = added + 1]
  /\ live' = live \cup {added + 1}
  /\ guid' = [guid EXCEPT ![added + 1] = NextId]
  /\ repeats' = IF repeat THEN repeats \cup {added + 1} ELSE repeats
  /\ UNCHANGED <<running, fired>>

\* Mutant of Forget: the object is not freed.
ForgetEntry(id) == objs' = [objs EXCEPT ![id] = None] /\ UNCHANGED live

\* What DelTimer does when it finds the id, and when it does not.
Forget(id) == /\ objs' = [objs EXCEPT ![id] = None]
              /\ live' = live \ {objs[id]}

DelTimer(id) ==
  /\ Forget(id)
  /\ UNCHANGED <<timerGuid, guid, repeats, added, running, fired>>

\* The loop finds the timer expired and calls Callback, which calls cb_.
Fire(t) ==
  /\ running = None /\ t \in live
  /\ running' = t
  /\ fired' = fired \cup {t}
  /\ UNCHANGED <<timerGuid, objs, live, guid, repeats, added>>

\* Mutant of CallbackEnds: it deletes the timer that was added last.
CallbackEndsLast ==
  /\ running \in live
  /\ IF running \in repeats THEN UNCHANGED <<objs, live>>
     ELSE Forget(timerGuid)
  /\ running' = None
  /\ UNCHANGED <<timerGuid, guid, repeats, added, fired>>

\* cb_ returns, and Callback goes on with an object that was not freed.
CallbackEnds ==
  /\ running \in live
  /\ IF running \in repeats THEN UNCHANGED <<objs, live>>
     ELSE Forget(guid[running])
  /\ running' = None
  /\ UNCHANGED <<timerGuid, guid, repeats, added, fired>>

\* cb_ deleted its own timer: Callback reads repeatFlag_ and owner_ of freed
\* memory.
ReadsFreed == running # None /\ running \notin live

-----------------------------------------------------------------------------
\* The timers alone.  (Lifecycle says when the program takes these steps.)
TimerNext == \/ \E r \in BOOLEAN : AddTimer(r)
             \/ \E i \in Id : DelTimer(i)
             \/ \E t \in Timer : Fire(t)
             \/ CallbackEnds

TimerSpec == TimerInit /\ [][TimerNext]_timerVars

-----------------------------------------------------------------------------
(* Properties.                                                             *)

TimerTypeOK ==
  /\ timerGuid \in 0 .. MaxId
  /\ objs \in [Id -> Timer \cup {None}]
  /\ live \subseteq Timer /\ repeats \subseteq Timer /\ fired \subseteq Timer
  /\ guid \in [Timer -> Id \cup {None}]
  /\ added \in 0 .. MaxAdd
  /\ running \in Timer \cup {None}

\* t's id has not been given out again.
Young(t) == added - t < MaxId

\* What an id stands for is a timer that has it, and until its id is used again
\* every timer can be deleted by it.
IdsFindTimers ==
  /\ \A i \in Id : objs[i] # None => objs[i] \in live /\ guid[objs[i]] = i
  /\ \A t \in live : Young(t) => objs[guid[t]] = t

\* A one-shot timer is gone when its callback has returned, so it never fires
\* twice, whatever timers were added and deleted meanwhile, unless it lived so
\* long that its id is another's.
OneShotOnce ==
  \A t \in live \cap fired : Young(t) => t \in repeats \/ t = running

\* The end of a callback frees no timer but its own.
ExpiryIsOwn ==
  [][running # None /\ running' = None /\ Young(running) =>
       live \ live' \subseteq {running}]_timerVars

-----------------------------------------------------------------------------
(* The inductive invariant.                                                *)

\* Timers that were not added have no object and have not fired.
OnlyAdded == /\ live \cup fired \subseteq 1 .. added
             /\ running # None => running <= added

\* Going back from the counter through the timers in the order they were added
\* one meets their ids in order, round the end of the range at most once.
IdsInOrder ==
  /\ added > 0 => timerGuid > 0
  /\ \A t \in 1 .. added :
       /\ guid[t] \in Id
       /\ Young(t) => \/ timerGuid - guid[t] = added - t
                      \/ timerGuid - guid[t] + MaxId = added - t

\* The table, the objects, the ids and the counter agree after every step of
\* TimerMgr: what the proofs of the properties above rest on.
TimerInv == TimerTypeOK /\ OnlyAdded /\ IdsInOrder /\ IdsFindTimers /\ OneShotOnce
=============================================================================
