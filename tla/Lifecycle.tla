------------------------------- MODULE Lifecycle -------------------------------
(***************************************************************************)
(* A server process from main to its end, as sample/server/server.cc runs  *)
(* it: the configuration is read, Init builds the parts and starts the     *)
(* workers, Bind listens, the services are added, Start runs the loop      *)
(* until SIGTERM, and the destructors run in a process whose workers are   *)
(* never joined.  The loop calls the timers of Timers.                     *)
(***************************************************************************)
EXTENDS Timers, IniConfig

CONSTANTS
  Cfg,       \* configuration files
  MaxReq     \* bound: requests received and not answered

ASSUME LifecycleAssumption == MaxReq \in Nat

VARIABLES
  main,      \* how far main is
  fields,    \* iniCfg_
  parts,     \* the parts of the server that exist
  mode,      \* modeType_
  workers,   \* length of workers_
  created,   \* worker threads that have not begun to run
  threads,   \* worker threads that run
  waiting,   \* requests read and not taken by a worker
  busy,      \* workers in OnRecvMsg
  stuck,     \* the loop is in a connection's callback that does not return yet
  term,      \* SIGTERM has come since setSignal
  stopped,   \* EvStop was called
  killedBy,  \* the signal that ended the process, or 0
  atReturn,  \* history: requests in the program when EvRun returned
  notBegun,  \* history: threads that had not begun to run then
  broken     \* a thread has used what was not there, or was there no more

bootVars == <<fields, parts, mode, workers>>
workVars == <<created, threads, waiting, busy, stuck, atReturn, notBegun>>
endVars  == <<term, stopped, killedBy, broken>>
procVars == <<main, bootVars, workVars, endVars>>
vars == <<timerVars, procVars>>

SIGINT == 2
SIGTERM == 15

\* The files the parser is checked on: up to five characters.
Files == UNION {[1 .. n -> {" ", "=", ";", "\n", "k", "1"}] : n \in 0 .. 5}

Init == /\ TimerInit
        /\ main = "main" /\ fields = NoFields /\ parts = {} /\ mode = "SINGLE"
        /\ workers = 0 /\ created = 0 /\ threads = 0
        /\ waiting = 0 /\ busy = 0 /\ stuck = FALSE
        /\ term = FALSE /\ stopped = FALSE /\ killedBy = 0
        /\ atReturn = 0 /\ notBegun = 0 /\ broken = FALSE

Alive == main # "exited" /\ killedBy = 0 /\ ~broken

\* main goes on from one call to the next.
Main(from, to) == Alive /\ main = from /\ main' = to

\* The loop is between two callbacks.
InLoop == main = "loop" /\ running = None /\ ~stuck

-----------------------------------------------------------------------------
(* Starting.                                                               *)

\* What the files set.
Parsed == {Parse(f) : f \in Cfg}

\* main ignores the result: without a file there are no fields.
LoadCfg ==
  /\ Main("main", "loaded")
  /\ fields' \in Parsed \cup {fields}
  /\ UNCHANGED <<parts, mode, workers, workVars, endVars, timerVars>>

WorkNum == GetInt(fields, <<"work_num">>, 0)

\* Mutant of InitParts: the rpc is made for the network thread only.
InitPartsNoRpc ==
  /\ Main("loaded", "init")
  /\ mode' = IF WorkNum > 0 THEN "MULTI" ELSE "SINGLE"
  /\ parts' = {"handler", "signal", "timerMgr"}
                \cup (IF WorkNum > 0 THEN {"queues", "lockers"} ELSE {"rpc"})
  /\ UNCHANGED <<fields, workers, workVars, endVars, timerVars>>

\* Init up to its loop over the workers; the event factory is installed.
InitParts ==
  /\ Main("loaded", "init")
  /\ mode' = IF WorkNum > 0 THEN "MULTI" ELSE "SINGLE"
  /\ parts' = {"handler", "signal", "timerMgr", "rpc"}
                \cup (IF WorkNum > 0 THEN {"queues", "lockers"} ELSE {})
  /\ UNCHANGED <<fields, workers, workVars, endVars, timerVars>>

\* One more worker and its thread, which runs when it runs (Enter); or
\* pthread_create has failed, which nobody looks at.
StartWorker ==
  /\ Main("init", "init")
  /\ workers < WorkNum
  /\ workers' = workers + 1
  /\ created' \in {created, created + 1}
  /\ UNCHANGED <<fields, parts, mode, threads, waiting, busy, stuck, atReturn,
                 notBegun, endVars, timerVars>>

InitNet ==
  /\ Main("init", "inited")
  /\ workers >= WorkNum
  /\ parts' = parts \cup {"net"}
  /\ UNCHANGED <<fields, mode, workers, workVars, endVars, timerVars>>

\* A url with another protocol than udp is one for tcp.  The bind may fail; main
\* ignores it.  The fields are not read again, and forgotten here.
Bind ==
  /\ Main("inited", "bound")
  /\ parts' \in IF GetStr(fields, <<"bindurl">>) = <<"url">>
                THEN {parts, parts \cup {"listener"}} ELSE {parts}
  /\ fields' = NoFields
  /\ UNCHANGED <<mode, workers, workVars, endVars, timerVars>>

\* The services are added between Bind and Start.
Start ==
  /\ Main("bound", "loop")
  /\ UNCHANGED <<bootVars, workVars, endVars, timerVars>>

-----------------------------------------------------------------------------
(* Signals.                                                                *)

\* Mutant of Watched: the second signal is forgotten.
WatchedFirst == SIGINT

\* The bits set in a signal number.
Bits(n) == {i \in 0 .. 4 : (n \div 2^i) % 2 = 1}

\* The one signal setSignal asks for: SIGINT | SIGTERM.
Watched == CHOOSE n \in 0 .. 31 : Bits(n) = Bits(SIGINT) \cup Bits(SIGTERM)

\* A signal that nobody watches ends the process.
Signal(sig) ==
  /\ Alive
  /\ IF sig = Watched /\ "signal" \in parts
     THEN UNCHANGED killedBy
     ELSE killedBy' = sig
  /\ term' = (term \/ (sig = SIGTERM /\ "signal" \in parts))
  /\ UNCHANGED <<main, stopped, broken, bootVars, workVars, timerVars>>

\* The loop runs sigclose.
SignalCb ==
  /\ Main("loop", "loop") /\ InLoop
  /\ term /\ ~stopped
  /\ stopped' = TRUE
  /\ UNCHANGED <<term, killedBy, broken, bootVars, workVars, timerVars>>

-----------------------------------------------------------------------------
(* The loop and the workers.                                               *)

\* A request arrives.  In SINGLE mode it is answered before the next event.
Receive ==
  /\ Main("loop", "loop") /\ InLoop
  /\ "listener" \in parts
  /\ mode = "MULTI" /\ waiting < MaxReq
  /\ waiting' = waiting + 1
  /\ UNCHANGED <<created, threads, busy, stuck, atReturn, notBegun, bootVars,
                 endVars, timerVars>>

\* A connection's callback does not return: FlushSendBuffer spins for a peer that
\* does not read, or GetBufferToWrite searches for ever.
Stall ==
  /\ Main("loop", "loop") /\ InLoop
  /\ "listener" \in parts
  /\ stuck' = TRUE
  /\ UNCHANGED <<created, threads, waiting, busy, atReturn, notBegun, bootVars,
                 endVars, timerVars>>

\* The peer has read.
Resume ==
  /\ Main("loop", "loop") /\ stuck
  /\ stuck' = FALSE
  /\ UNCHANGED <<created, threads, waiting, busy, atReturn, notBegun, bootVars,
                 endVars, timerVars>>

\* What a worker with a request goes through: its locker and queues, the rpc and
\* the service, and the network thread's watcher.
Needs == {"queues", "lockers", "rpc", "net"}

Gone == main \in {"service deleted", "server deleted"}

\* ThreadEntry calls Run, which asks the server for the queue and the locker.  The
\* worker itself is not there any more when the server has been destroyed.
Enter ==
  /\ Alive /\ created > 0
  /\ created' = created - 1
  /\ threads' = threads + 1
  /\ broken' = (main = "server deleted" \/ {"queues", "lockers"} \ parts # {})
  /\ UNCHANGED <<main, waiting, busy, stuck, atReturn, notBegun, term, stopped,
                 killedBy, bootVars, timerVars>>

\* A worker takes a request, and answers it.  When main has gone on to its
\* destructors, the service or the worker itself is not there any more.
Take ==
  /\ Alive /\ waiting > 0 /\ busy < threads
  /\ waiting' = waiting - 1
  /\ busy' = busy + 1
  /\ broken' = (main = "server deleted")
  /\ UNCHANGED <<main, created, threads, stuck, atReturn, notBegun, term, stopped,
                 killedBy, bootVars, timerVars>>

Answer ==
  /\ Alive /\ busy > 0
  /\ busy' = busy - 1
  /\ broken' = (Gone \/ ~(Needs \subseteq parts))
  /\ UNCHANGED <<main, created, threads, waiting, stuck, atReturn, notBegun, term,
                 stopped, killedBy, bootVars, timerVars>>

\* Timers are added before the loop and by callbacks.
TimersUsed ==
  /\ Alive
  /\ \/ /\ main = "bound" \/ (main = "loop" /\ running # None)
        /\ \E r \in BOOLEAN : AddTimer(r)
     \/ main = "loop" /\ running # None /\ \E i \in Id : DelTimer(i)
     \/ InLoop /\ \E t \in Timer : Fire(t)
     \/ main = "loop" /\ CallbackEnds
  /\ UNCHANGED procVars

CallbackBreaks ==
  /\ Alive /\ ReadsFreed
  /\ broken' = TRUE
  /\ UNCHANGED <<main, term, stopped, killedBy, bootVars, workVars, timerVars>>

-----------------------------------------------------------------------------
(* Stopping.                                                               *)

LoopEnds ==
  /\ Main("loop", "returned") /\ InLoop
  /\ stopped
  /\ atReturn' = waiting + busy
  /\ notBegun' = created
  /\ UNCHANGED <<created, threads, waiting, busy, stuck, bootVars, endVars,
                 timerVars>>

\* main's objects are destroyed in reverse order, and the process ends.
Destroy ==
  /\ \/ Main("returned", "service deleted")
     \/ Main("service deleted", "server deleted")
     \/ Main("server deleted", "exited")
  /\ UNCHANGED <<bootVars, workVars, endVars, timerVars>>

-----------------------------------------------------------------------------
MainThread == \/ LoadCfg \/ InitParts \/ StartWorker \/ InitNet \/ Bind
              \/ Start \/ SignalCb \/ LoopEnds \/ Destroy

Next == \/ MainThread
        \/ \E sig \in {SIGINT, SIGTERM} : Signal(sig)
        \/ Receive \/ Stall \/ Resume
        \/ Enter \/ Take \/ Answer
        \/ TimersUsed \/ CallbackBreaks

\* main goes on and its loop takes every kind of event in turn.  No callback has to
\* return.
Spec == /\ Init /\ [][Next]_vars
        /\ WF_vars(MainThread) /\ SF_vars(SignalCb) /\ SF_vars(LoopEnds)

-----------------------------------------------------------------------------
(* Properties.                                                             *)

TypeOK ==
  /\ TimerTypeOK
  /\ main \in {"main", "loaded", "init", "inited", "bound", "loop", "returned",
               "service deleted", "server deleted", "exited"}
  /\ parts \subseteq Needs \cup {"handler", "signal", "timerMgr", "listener"}
  /\ mode \in {"SINGLE", "MULTI"}
  /\ {workers, created, threads, waiting, busy, atReturn, notBegun} \subseteq Nat
  /\ busy <= threads /\ threads + created <= workers
  /\ {term, stopped, stuck, broken} \subseteq BOOLEAN
  /\ killedBy \in {0, SIGINT, SIGTERM}

\* A file says what it seems to say: comments, blanks, empty lines and settings
\* made twice included, if no line is too long for the parser's buffer.
CfgAsMeant ==
  main = "main" => \A f \in Files : ShortLines(f) => Meant(f, Parse(f))

\* The program breaks only when a callback deletes its own timer, or when it
\* ended with requests in its hands or with a worker's thread that had not begun
\* to run: the workers, which Init starts before the parts they use exist, always
\* find those, and any other shutdown is clean although no worker is joined.
BreaksKnown ==
  broken => \/ ReadsFreed
            \/ Gone /\ atReturn > 0
            \/ main = "server deleted" /\ notBegun > 0

\* What main has made by the time it is where it is, before any thread needs it.
Started ==
  /\ workers > 0 => mode = "MULTI"
  /\ main = "init" /\ WorkNum > 0 => mode = "MULTI"
  /\ mode = "MULTI" => {"queues", "lockers"} \subseteq parts
  /\ main \notin {"main", "loaded"} => "rpc" \in parts
  /\ main \notin {"main", "loaded", "init"} => "net" \in parts

\* There are workers from Init on, requests only in MULTI mode and from the loop on,
\* and after it only those, and the threads not begun, that it left behind.
Requests ==
  /\ main \in {"main", "loaded"} => workers = 0
  /\ main \in {"returned", "service deleted", "server deleted"} =>
       created <= notBegun
  /\ \/ waiting = 0 /\ busy = 0
     \/ mode = "MULTI" /\ main \notin {"main", "loaded", "init", "inited", "bound"}
  /\ main \in {"returned", "service deleted", "server deleted"} =>
       waiting + busy <= atReturn

\* What the workers lean on, as no one waits for them: the parts they use are made
\* before the first request is read, and a request of the destructors' time was
\* there before.  With it, the types and the order of the timers' ids.
LifeInv == TypeOK /\ OnlyAdded /\ IdsInOrder /\ Started /\ Requests

\* The loop is free again and again: no callback of a connection or of a timer goes
\* on for ever.
CallbacksReturn == []<>(running = None /\ ~stuck)

\* Once Init has watched for it, SIGTERM ends the process through its loop and
\* its destructors, not by itself, whenever it comes, in a callback too, if that
\* returns: with one that never does the process goes on for ever.
TermIsOrderly ==
  CallbacksReturn =>
    (term ~> main = "exited" \/ killedBy = SIGINT \/ broken)
=============================================================================
