# mkx in TLA+

mkx is a small C++ game server framework: one network thread built on libev, an
optional pool of worker threads, an RPC layer over length-prefixed messages,
timers, and a sample service.  This directory holds TLA+ models of the server
from its configuration file to its end, TLC configurations that check them on
small instances, and TLAPS proofs, for all sizes, of the safety properties of every
part.

    tlc -config Session.cfg Session        # one run; see the table
    tlapm LoopQueue_proofs.tla             # one component's proofs

## 1. The system

### Components, their state and their operations

| Component (source) | State | Operations | Module |
|---|---|---|---|
| Message queue (`framework/LoopQueue`) | `buff_`, `head_`, `tail_` | `BufferForPush`, `PushFinish`, `Push`, `FrontBlock`, `PopBlock` | `LoopQueue`, `LoopQueueFifo`, `Fifo` |
| Worker threads (`framework/Worker`, `common/Locker`) | place in `dealRecvQue`, block in hand, owner of `recvLocker_`, waiters | `dealRecvQue`, `dealMessage`, `Lock`, `WaitTimeout`, `Signal` | `MultiServer`, `RecvQueue` |
| Server (`framework/Server`) | mode, parts, the two queues, `svrConnectors_` | `LoadCfg`, `Init`, `Bind`, `Start`, `setSignal`, `~Server`; `SendMsg`, `OnRecvMsg`, `ConnectSvr`, `OnSvrClosed` | `Lifecycle`, `MultiServer`, `Session`, `Connections` |
| Connections (`framework/NetMessage`) | `conns_` by descriptor number | `Bind`, `Connect`, `OpenConn`, `CloseConn`, `GetConn`, `RecvMsg`, `SendMsg`, `OnSendMsgEvent` | `Connections`, `Session`, `Udp`, `MultiServer` |
| Connection I/O (`framework/IOEventEv`) | send buffer, receive buffer, the watchers `evrd_`, `evwr_` | `recvTcpData`, `Write`/`sendTcpData`, `FlushSendBuffer`; `recvUdpData`, `sendUdpData`; `doConnect`, `doBind` | `BufferEvent`, `Session`, `Udp`, `Connections` |
| Buffers (`framework/BlockBuffer`) | chain of blocks, `totallen_` | `Insert`, `GetBufferToWrite`/`FinishBufferWrite`, `Copy`, `Move` | `BlockBuffer`, `ByteQueue`, `RecvBuffer` |
| RPC (`framework/IRpc`, generated `game.rpc.pb`) | `rhead_`, `databuff_`, `requestMap_`, `respondMap_` | `AddService`, `OnRecvCliMsg`, `OnRecvSvrMsg`, `SendRespond`, `SendRequest`, the stubs | `Rpc` |
| Connectors (`framework/SvrConnector`) | close callback | destructor calls it | `Connections` |
| Timers (`framework/Timer`) | `objs_`, `timerGuid_`, the `TimerObj`s | `AddTimer`, `DelTimer`, `Callback` | `Timers`, within `Lifecycle` |
| Configuration (`framework/IniConfig`) | `fields_` | `Parse`, `GetStr`, `GetInt` | `IniConfig`, within `Lifecycle` |
| Log (`common/Log`) | one file per priority | `Write`, `FileRoll` | `Connections` (the roll) |
| Thread, sample `main` | | `Start`; `main` | `Lifecycle` |
| Event factory, generated messages, Python clients | | | section 7 |

### How they interact

    socket -> recvTcpData -> BlockBuffer -> recvTcpMsg --SINGLE--> IRpc -> service
                                               |                    ^        |
                                             MULTI                  |        v
                                               v                    |   SendRespond
                                            recvQue -> Worker ------+        |
                                                                             v
    socket <- BlockBuffer <- Write <- OnSendMsgEvent <- ev_async <- sendQue (MULTI)
                               ^------------------------------------ (SINGLE)

In SINGLE mode (`work_num = 0`) all of it runs on the network thread, and a
service answers inside the read callback.  In MULTI mode the network thread
pushes requests on `recvQue_` *without* a lock, then takes `recvLocker_` only to
signal; workers look at the queue under `recvLocker_`.  Replies go on `sendQue_`
under `sendLocker_` and a triggered `ev_async` watcher makes the network thread
drain it, again without a lock.  One `IRpc` object with one header object and
one buffer serves every thread.  Everything else lives on the network thread,
where the hard part is re-entrance: a reply may close the connection it is being
read from, a close callback may open another, a timer's callback may delete its
own timer.  A UDP port has one buffer for all its remotes.  The workers are
started by `Init`, before the network part exists, begin to run when the scheduler
lets them, and nothing ever joins them.

### What is hard, and what must be true

| Where | Hazard | Properties |
|---|---|---|
| `LoopQueue` | wrap-around, discard headers, headers of earlier laps, a full queue, a refused push, the two sides interleaved | `FrontAligned`, `HandIntact`, `CalmInv`, `CalmIsFifo`, `ImplementsFifo`, `DealtIntact` |
| `Worker` and `NetMessage` in MULTI mode | lost wake-ups and notifications, a request lost or handled twice, pop of another block than the one seen, two workers at one end of a queue, a full queue | `NoLostWakeup`, `NoLostNotification`, `OnePlace`, `HandOverInv` (with `AbortsKnown`), `EveryPushEnds` |
| `BlockBuffer` | blocks moved, copied, closed and appended under unread bytes | `AssertionsHold`, `ImplementsByteQueue`, `ImplementsRecvBuffer`, `ReadsCounted`, `OldestOfBlock`, `HangNeedsBacklog` |
| `NetMessage` connections | descriptor numbers are reused; `CloseConn` closes twice; callbacks and a log roll run half-way; opening fails | `TableMatchesKernel`, `NothingLeaked`, `ConnectorsMatch`, `NoForeignClose`, `ReplyGoesToAsker` |
| `IRpc` | state shared by all messages and all threads; two services of one name | `ReplyMatches`, `FirstServiceWins` |
| a TCP connection | requests cut and joined, piled up behind a full queue, read over two blocks, a read that hangs; partial sends, EAGAIN, the write watcher, a connection closed while it is read | `InFrame`, `EveryRequestHandled`, `InOrder`, `EveryByteDelivered`, `CrashNeedsSingle` |
| a UDP port | one buffer and one remote for all clients; lost, repeated and broken datagrams | `EachItsOwn`, `EveryRequestEnds` |
| start and end of the process | workers before the parts they use, threads that begin late; a signal at any moment, a callback that does not return; destructors while workers run | `BreaksKnown`, `TermIsOrderly` |
| `Timer` | callbacks that delete and add timers; ids that start again | `IdsFindTimers`, `OneShotOnce`, `ExpiryIsOwn`, `BreaksKnown` |
| `IniConfig` | comments, blanks, repeated keys, a last line without newline | `CfgAsMeant` |

`PROJECT.json` lists the hazards line by line, those no property covers too.

## 2. The modules

**`LoopQueue`** keeps the byte offsets of the code.  `mem` says, for every
offset, what a consumer that read a header there would find: a block, a discard
mark, zeros, or junk (bytes of data or of a header that starts elsewhere); a
read of junk may give any block or discard mark.  Headers of earlier laps stay
in `mem` until something overwrites them, as in the code.  `BufferForPush`,
`RefusePush` (the same call returning `nullptr`, with `tail_` and the discard
mark already changed), `PushFinish`, `FrontBlock` and `PopBlock` are one action
each; `Push` is the first and third in a row.  `hand` is what the consumer sees
through its `block_t*`.  `SerialSpec` is the sequential contract, `Spec` lets the
sides interleave.

**`LoopQueueFifo`** adds to the sequential contract a history of what is unread
and maps the queue to **`Fifo`**, a first-in first-out queue with a
look-then-remove consumer.  `calm` says that every push so far left room for
twice its block; the producer in the code keeps no such room, so `calm` says
under what load the queue is a queue, and `CalmInv` why.

**`RecvQueue`** adds to `LoopQueue` what `dealRecvQue` does with a block: it
pops it under the lock and goes on to use it in place.  The network thread's
calls interleave with the workers' here, as it takes no lock for them.

**`MultiServer`** is the server in MULTI mode.  The two queues are sequences of
bounded length that refuse a push when full; everything else is step by step:
the read callback's loop (`RecvPush`, `RecvLock`, `RecvSignal`, `RecvUnlock`,
`RecvEnd`), the drain of `sendQue_` (`AsyncFires`, `DrainOne`, `DrainEnd`), and
each worker (`Lock`, `FrontBlock`, `Wait`, `WaitReturns`, `CopyBlock` with its
assertion, `Unlock`, `SendLock`, `SendPush`, `SendUnlock`, `Trigger`).  A request
arrives whole here; `Session` is about how.  A wait may end by a signal, by its
timeout or spuriously (`StopWaiting`).  An assertion that fails ends the process:
nothing but `Ended` is left, which changes nothing.

**`BlockBuffer`** keeps each block's `rlen`, `len` and `rdpos` and the bytes
between `rdpos` and `wrpos`.  `Expand` is `expand` with its three ways to make
room.  `Copy`'s loop over the chain is said by where it stops (`StopsAt`), what it
takes of each block (`Given`) and where that lands in the caller's memory (`Lands`,
`LastOver`); the doubling of a size in `Alloc` and the bytes of the whole chain
(`Flat`) are recursive functions.  `got` is what `Copy` or `Move` left there, garbage
where nothing was written.  **`ByteQueue`** is the abstract buffer: bytes are
appended and leave from the front.  **`RecvBuffer`** is the other abstraction, of a receive
buffer: the number of unread bytes, the `seams` where one block ends and the next begins,
and `hung`; it says when `GetBufferToWrite` may close a block and when it may not return.
`side` says which of a connection's two buffers it
is, and with that which calls it gets.

**`BufferEvent`** is the sending half of a connection, a byte being its position
in what was written: `Write`, the flush in front of it, the parts the kernel
takes, and the watcher.  **`Session`** extends it by the receiving half and puts
the two together: `Handle` cuts a request out of the buffer, and in SINGLE mode
the service's reply is a `Write` inside that loop, which may find the connection
broken, close it and leave the loop with nothing to read from.  In MULTI mode
replies (`SendMsg`) come between events.  The receive buffer is its number of bytes with
its seams, by the operators of `RecvBuffer`, which `BlockBuffer` implements, and the
requests the bytes belong to.  `LengthRead` is what `CopyReadBuff` makes of the length
word: anything, if a seam is in it.  `RecvQueFull` leaves the request in the buffer and
the loop; `ReadHangs` is the call that does not return.  `Framed` says that the bytes not
handled are those of the requests not handled (`Total`, a recursive function, adds their
lengths); `InFrame` says when that can fail: `refused` and `piled` are histories of a refusal
and of a block closed while the refused request waited.

**`Udp`** is a bound port.  All remotes share one buffer; `Receive` appends a
datagram and sets the remote, `Handle` cuts requests as if the buffer were a
stream and gives them to the remote of the moment.  Bytes are numbers here, so
that a cut at the wrong place reads the length the code would read.  Clients and
network may do anything.  A request that was taken ends with a reply (`Reply`) or without
(`NoReply`: nothing to decode, nothing to say, or a full `sendQue`), or it is one that fails
the worker's assertion (`fatal`, `WorkerAborts`).  `sound` is a history that says whether only
datagrams of whole requests were read, with room in the queue, and none of them fatal.

**`Connections`** has the kernel's table of open descriptors, `conns_` and
`svrConnectors_` side by side.  A descriptor has a serial number the program
cannot see, which lets the properties say whose descriptor was hit.  Opening is
`BindTcp`, `BindUdp`, `Accept`, `ConnectSvr`, each with `OpenConn`'s refusal, and
`OpenFails`, the error paths of `doBind` and `doConnect`.  `CloseConn` is three
steps, `CloseFd`, the callback, `DeleteBufferEvent`, because the callback and the
log can open descriptors in between: `LogRolls` is possible at any point, as
`OnCliClosed` itself logs.  `logFate` remembers whether the log was rolled there, and
whether a close has hit its file since.

**`Rpc`** is one message's way through `OnRecvCliMsg` or `OnRecvSvrMsg`, the
generated stubs, the service and `SendRespond`, for every kind of request
(answered, refused, unparsable, with a response too long or incomplete, of
unknown name, malformed) and of answer (good, an error code, unreadable, under a
name nobody registered), with a service that may send a request of its own
first.  The services of `toAdd` are added one `AddService` at a time before
messages come; `added` is the order, and `AddFunction` decides which of two keeps a
name.  The cuts between actions are where another
thread can reach `rhead_` or `databuff_`.  Writing a name is one step; a name
torn by two threads is not modelled, as the plain interleaving breaks the
property already.  No answer reaches `OnRecvSvrMsg` in the program as it stands
(section 7): the answers are there for when one does, and `CallBackMatches` is only proved.

**`IniConfig`** is `Parse`, `strTrim`, `GetStr` and `GetInt` as functions of a file, a
sequence of characters: `Setting` is what a line sets, `Over` puts the settings of the
later lines over those of the earlier.  `Meant` says independently, by positions (`Says`,
and `Last` for the last line that says something of a key), what a file sets.  **`Timers`** is `TimerMgr` with its objects: `objs` is the map from ids,
`live` the objects not freed, `running` the timer whose callback is on the stack.
**`Lifecycle`** extends both: `main` goes through `LoadCfg`, `InitParts`,
`StartWorker`, `InitNet`, `Bind`, `Start`, the loop, and the destructors.  A thread that
`StartWorker` created begins when it does (`Enter`), after `~Server` if need be; from then on
it takes and answers requests.  Signals may come at any time; the loop runs timers, whose
callbacks add and delete timers, and a connection's callback may not return (`Stall`) until
its peer reads (`Resume`), or ever.  `parts` are the objects that exist, and `broken` says
that a thread has used one that does not.

`MC...` modules only give constants their values.  A definition whose comment
calls it a mutant is a variant of the one below it with a plausible bug; it
occurs in no specification and shows that a property can fail.

A run checks no invariant that another one it checks contains, but for `NoLostWakeup`,
which is named beside `HandOverInv` for what it says.  `TypeOK` is a
conjunct of the inductive invariant of each run.  `IInv` and
`PushInBounds` of `LoopQueue` are parts of `CalmInv`, `CalmPushAccepted` of `CalmIsFifo`,
`WakeupInv`, `EmptyHanded`, the conditions on ids, `SendOwner` and `AbortsKnown` of
`MultiServer` parts of `HandOverInv`, from which `OneAtEachEnd` follows.

## 3. The runs

Passing runs:

| Run | Shows |
|---|---|
| `LoopQueue` | with calls that do not interleave the consumer always lands on a whole block and nothing is written past the end, whatever was pushed and refused; with room for two blocks the queue acts as `Fifo` and never refuses |
| `MultiServer` | two workers, four requests, small queues: nothing lost, doubled or stranded between threads; no two workers at one end of a queue; what got into `recvQue` leaves it, its reply sent or refused, unless the assertion ends the process, which only a request of almost `max_msglen` makes it do |
| `BlockBuffer` | every byte kept and in order, counts and assertions right, in either buffer of a connection; `replaceBlock` ends as long as the unread bytes fit what `expand` copies; blocks are closed only where `RecvBuffer` says |
| `Connections` | binds, accepts, connects, closes, reconnects, failures and log rolls in any order leave nothing open without an owner; tables and kernel agree, until a close hits the log's file; no close hits a stranger until the log rolls inside `CloseConn`, and then only a forgotten directory or the log |
| `Rpc_one` | on one thread every kind of request gets its own reply, and the first service of a name keeps it |
| `Session` | requests are cut out whole, whatever arrives together, after failed reads and next to requests that are too long, unless `recvQue` refused one and a block was closed behind it; a read hangs only on long or piled requests; replies arrive once and in order; only SINGLE mode can go on with a closed connection; every request is handed over and every byte of a reply delivered, however slowly the peer reads, but for the cases `EveryRequestHandled` names |
| `Udp` | requests of several clients that share a buffer leave it at once and are each answered once or not at all, only to their sender, while only whole requests are read that no worker fails on |
| `Lifecycle` | the file is read as meant; workers find what they use from the start on; SIGTERM leads through the destructors if callbacks return; timers are found by their ids; the only ways to break are a callback that deletes its own timer, an end with requests inside, and an end before a worker's thread has begun |

Runs that end in a counterexample, each a disagreement between the code and
what its own text says or its clients rely on (`PROJECT.json`, findings):

| Run | Property violated | What happens |
|---|---|---|
| `LoopQueue_flood` | `ImplementsFifo` | a push that wraps while `head_` is 0 makes a full queue empty; a refused push has wrapped `tail_` |
| `RecvQueue` | `DealtIntact` | a worker uses a block the network thread overwrites, or takes one before its data is there |
| `Connections_reply` | `ReplyGoesToAsker` | a reply goes to the next owner of the number |
| `Rpc_workers` | `ReplyMatches` | two workers mix their replies |

Two more definitions say what a client or an operator would expect and the code does not
keep; the passing runs say exactly when.  With `LogInFile` among the invariants of
`Connections.cfg` TLC prints the shortest way to the first: `CloseConn` closes a number,
`OnCliClosed` logs, that line rolls the file, the new file gets the number, and `delete bev`
closes it again (`NoForeignClose` bounds the damage).  With `Framed` in `Session.cfg` it prints the
second: behind a request that `recvQue` refused a block ends inside a length word, and the
next cut takes the wrong number of bytes (`InFrame` says nothing else does that).

### States the passing runs reach or step round

The passing models follow the code into places where it goes wrong, and their
properties say what holds up to there or in spite of it:

* `MultiServer`, `Aborted`: `recvTcpMsg` compares `max_msglen` with the length of
  a request, the worker's `assert(block->len <= maxMsglen_)` (`Worker.cc:55`)
  with the request and its header.  A request of nearly `max_msglen` bytes ends
  the process.  `NoLostWakeup` and `EveryPushEnds` except that state, and `AbortsKnown`
  says that no other request leads there.
* `MultiServer`, `RecvEnd`: a request that finds `recvQue_` full stays in the
  read buffer (`NetMessage.cc:311`) with no event to come back to it.
  `EveryPushEnds` is about requests that got into the queue.  On a UDP port
  (`Udp`, `QueueFull`) the next datagram comes back to it, and its reply goes
  to that datagram's sender: `sound` ends there.
* `Session`, `RecvQueFull`: the same on a TCP connection.  The next read comes back to
  the request, if the client sends anything more; what it sends may pile up over several
  blocks, and a length word over two of them is garbled (`BlockBuffer.cc:97`).
  `InFrame` says nothing else loses the frame.
* `Session`, `ReadHangs`: a request that fills more than two blocks of
  `COPY_BLOCK_SIZE`, one that is too long, or a pile, and `GetBufferToWrite` may never return
  (`BlockBuffer.cc:303`).  `HangNeedsLong`, a part of `IInv`, says nothing less will do.
* `BlockBuffer`, `hung`: `replaceBlock`'s `while (block)` never moves on
  (`BlockBuffer.cc:303`) and does not end on a chain of three blocks.
  `HangNeedsBacklog` says when that can happen.
* `BlockBuffer`, `MemCpy`: `Copy` and `Move` never advance `data`
  (`BlockBuffer.cc:102`), so a read over two blocks garbles its result.
  `OldestOfBlock` is about reads that one block can serve.
* `Session`, `doing = "crashed"`: `Connect` does not enable its `BufferEvent`, and
  the first `Write` reads through a null `evwr_` (`IOEventEv.cc:397`).
* `Session`, `reading = "crashed"`: a reply that finds its connection broken
  closes it inside `RecvMsg`, whose loop goes on with a null `bev`
  (`NetMessage.cc:252`).  `CrashNeedsSingle` says that workers never get there.
* `Session`, `TooLong`: a request longer than `max_msglen` stays at the head of the
  buffer and everything after it waits for ever (`NetMessage.cc:293`).
* `Udp`, `wild` and `aborted`: a `recvfrom` that fails on an empty buffer takes a
  byte back from before its start (`IOEventEv.cc:340`); a length of 0 reaches
  `assert(size > 0)` (`IOEventEv.cc:258`).  `EachItsOwn` says whole requests
  never lead to either, if none is within a header of `max_msglen`.
* `Connections`, `logFate`: a log line inside `CloseConn` (`Server.cc:278`) may roll the
  file.  The second close of the number then hits a directory that `FileRoll` left open
  ("moved"), or the new log file ("struck").  From then on the
  log's number is another's, and its next roll closes that; until then
  `TableMatchesKernel` and `NoForeignClose` hold.
* `Lifecycle`, `broken`: `Callback` reads `repeatFlag_` after `cb_()` (`Timer.cc:47`),
  when `cb_` may have deleted the timer; `~Server` deletes workers whose threads
  run on, or have not even begun (`Server.cc:48`, `Thread.cc:6`).  `BreaksKnown` says there
  is no other way.
* `Lifecycle`, `stuck`: `FlushSendBuffer` spins while a peer does not read
  (`IOEventEv.cc:360`), and a SIGTERM is not served meanwhile.  `TermIsOrderly` asks that
  the loop is free again and again (`CallbacksReturn`).
* `Lifecycle`, `Watched`: `SIGINT | SIGTERM` is 15 (`Server.cc:317`), so only SIGTERM
  is watched and SIGINT ends the process at once.  `TermIsOrderly` is about SIGTERM.
* `Timers`: after `MaxId` more timers an id is given to a second timer, and the
  first can neither be deleted nor expire.  `Young` leaves those out.

## 4. Bounds, and why they are enough

* `LoopQueue`, `LoopQueue_flood`, `RecvQueue`: 16 bytes, headers of 2, blocks of
  3 and 5.  A lap holds three to five blocks and can end at every distance
  from the end of the buffer: room for no header, for a header, for the small
  block only, for any.  State is finite without a bound: the history `unread` is
  dropped when the queue is not calm any more (`KeepAll` keeps it for the run that
  shows what goes wrong).  `BufLen`, `HeadLen` and `DataLen` are arbitrary in the proofs.
* `MultiServer`: `MaxMsg` requests in all (four: three replies can overrun `sendQue_`
  and one more worker still want its lock), two workers (a signal can wake the
  wrong one), queues of two blocks, so that either can be full and one
  notification can stand for two replies.  Lengths 4, 7 and 9 against
  `max_msglen` 8 and a header of 2: one that fits, one that only the worker finds
  too long, one that is never taken.
* `BlockBuffer`: sizes 1, 2, 4, 8 for 512, 1024, 2048, 4096: the ratios of the
  code.  `MaxCall` = 5 bytes a call reaches each way of `expand`; `MaxTotal` = 13
  unread bytes is the least for a chain of three blocks with a partly filled
  tail.  Three byte values (`Byte`) tell any shift of the content by one or two
  bytes.
* `Connections`: five numbers, four of them below `max_fd`, so that refusals
  happen; `MaxOpen` = 9 descriptors ever opened: enough for a number to be reused
  twice beside a listener, or for two rolls of the log, two descriptors each, beside
  a close.  The run that ends in a counterexample needs 4.
* `Rpc`: a message of each kind and a second login; two threads in `Rpc_workers`;
  five orders of up to four services, two for clients and two for answers.
* `Session`: the kernel has room for one byte, replies are of 1 and 2, `MaxBytes` = 3
  in all, so that a reply fits, fits in part, or not at all and another follows;
  `MaxReq` = 2 requests of 2, 3, 5 or 6 bytes (6 is too long) with a length word of
  2 and a `CopySize` of 2, the least it can be: one read can end inside either word or body
  of the second, one request of 5 can have two seams and hang, and two can pile up.
* `Udp`: `MaxGram` = 3 calls of `recvfrom` on three clients, two of them on one
  address; datagrams of one request, of two, of one that fails a worker (`HeadLen` = 2),
  one that claims too much, one too short for a length, and one whose length is over
  `max_msglen` 5.  A broken datagram, one that completes it and one that comes after can be
  read.
* `Lifecycle`: files for no, one and two workers with a good, a broken and no url;
  `MaxReq` = 1 request waiting besides those the workers hold; `MaxAdd` = 3 timers with ids up
  to `MaxId` = 2, so that the third meets the first's.  `CfgAsMeant` reads every
  file of up to five characters from six, with lines that fit `BuffLen` = 6; a line
  that `fgets` splits (`IniConfig.cc:26`) is outside `ShortLines`.

Deadlock is checked except where a run may really stop: when a bound on bytes,
requests, datagrams or descriptors is reached and all is quiet (`Session`,
`Udp`, `Connections`), after a crash or at the end of the process (`Session`,
`Udp`, `Lifecycle`), and in `replaceBlock`'s endless loop, which the model shows
as a state without a step (`BlockBuffer`).  In `MultiServer` it is checked: idle
workers keep waking up.

## 5. Fairness

* `MultiServer.FairSpec`: weak fairness of the network thread and of each worker,
  as the operating system runs every thread that can run.  Strong fairness of
  `RecvLock`: the mutex is free for up to 10 ms whenever a worker waits, so the
  network thread only misses it for ever by losing every race.  No fairness of
  `sendLocker_` is needed beyond weak, and none is asked of `StopWaiting`: the
  liveness results do not lean on the timeout.  The environment (`Readable`)
  owes nothing.  Weak fairness of `DrainOne` takes it for granted that the `SendMsg` in it
  returns, that is, that no peer stops reading for ever while a flush spins for it.
* `Session.Spec`: weak fairness of the network thread; strong fairness of
  `ReadSocket`: a client that stays sends all of a request it has begun, libev is
  level-triggered and serves every ready watcher of a round, and `recv` does not fail for ever
  while there are bytes.  Weak fairness of the peer's reading; one that never reads gets
  nothing more, which is not the server's fault.  As `MaxReq` and `MaxBytes` end the traffic,
  `[]<>` (all is handled, all is delivered) says of every run that it does come to that end.
* `Udp.Spec`: weak fairness of `RecvMsg`'s loop, and of the requests that were taken: each
  ends some time, with a reply or without.  Which of the two nobody promises.  Nothing is
  assumed of the network.
* `Lifecycle.Spec`: weak fairness of `main`; strong fairness of `SignalCb` and
  `LoopEnds`, because the loop takes every pending event of a round and a timer that is
  always ready does not keep the signal watcher out.  Nothing is assumed of callbacks, which
  may run for ever: `TermIsOrderly` has as its hypothesis that the loop is free again
  and again.  Workers, their threads' beginning, clients and signals owe nothing.

## 6. What is proved

All theorems hold for every value of the constants that satisfies the named
assumptions of the modules, and of the hypotheses named below, which two theorem
modules (`Rpc_proofs`, `Lifecycle_proofs`) need because the property is false without them.  Runs check the inductive
invariants as well: `CalmInv`, `HandOverInv` with `OnePlace`, `LifeInv`, and `IInv` of the
others.

**`LoopQueue_proofs`**, about `SerialSpec`, from `LoopQueueAssumption` (headers
have a positive size and every block fits the buffer).  `FrontAligned` and
`HandIntact` are not inductive: whether the header at `head_` is a block depends
on everything written since the buffer was zeroed.  `IInv` adds what the code
relies on without saying so:

* `BlocksFit`: headers, of any lap, describe bytes inside the buffer;
* `BehindTail`: below `tail_` lie only whole blocks of this lap, so a write at
  `tail_` cannot cut a block in two;
* `Chained`: each whole block ends where another header is, at `tail_`, or too near the
  end for a header (`Standing`), so a consumer that follows lengths never gets lost,
  even when it runs on into an earlier lap;
* `FirstBlock`: offset 0, where everyone wraps to, holds a block after the first push;
* `Reserved`, `InHand`: the blocks being written and being read stay in place.

`LayoutInvariant` proves `[]IInv` action by action; `TypeCorrect`,
`ConsumerAligned`, `CopiesInBounds` and `WholeMessages` follow.  They say the
queue's memory is never misread when calls do not interleave; they do not say it
is first-in first-out, which it is not (`LoopQueue_flood`).

That it is while it is calm is the second half, about `HSpec`.  `CalmInv` says where the
unread messages are: whole (`Whole`), one behind the other going round from `head_`
(`Ordered`), each ending where the next begins or where the consumer goes round to
it, over a discard mark or a rest too short for a header (`Connected`), the one in
hand first (`HandIsOldest`).  A push that is not calm may break `Ordered`: its
block reaches `head_`.  The proof rests on one fact per call about what it writes:
nothing at or behind `head_` and before `tail_` (`CalmPlace`, `CellsKept`, `WaysKept`), and
for the consumer on `HeadMoves`, that the distances from `head_` all shrink alike.
`CalmInvariant` proves `[]CalmInv` and `CalmQueueIsFifo` that each step is one of `Fifo` or
leaves its variables alone, and that no calm push is refused.

**`MultiServer_proofs`**, about `Spec` with any number of workers, any queue
sizes and no fairness, from `MultiServerAssumption`.  `NoLostWakeup` is not
inductive: a worker at `wait` is asleep in a moment.  `WakeupInv` adds that the
mutex has the owner the threads' places say (`LockOwner`), that a worker at
`wait` has seen every request except one whose signal is still to come
(`WaitsUpToDate`), and that a worker past its look has a block (`HasBlock`).
`WakeupInvariant`, `WakeupsKept` and `PopsMatch` rest on it; `NotificationsKept`
is inductive on its own with `TypeOK`.

`OnePlace` counts: as many different requests are in the queues, with the workers, in the
drain, answered or refused as have arrived.  `HandOverInv` adds to `WakeupInv`, first,
that a worker before its look holds nothing, that no queue holds an id twice, and that
the places are apart.  The proof keeps the places as sets of ids, pairwise disjoint, whose
union is `1 .. arrived` (`PlaceInv`): a step moves one id from one set to another, and
`CountedIds` and `ApartCounts` turn that into lengths and cardinalities once.
`EachInOnePlace` is the theorem, and `HandOverInvariant` with the two below.

`LoopQueue` has no lock, and its own module has one consumer and one producer.
`EndsApart` proves that the server keeps to that with any number of workers
(`OneAtEachEnd`), from `LockOwner` for `recvQue` and its counterpart `SendOwner` for `sendQue`.
(That the network thread is the only one at the other ends is how `Next` is made, and how
the code is.)  `AbortsOnlyAsKnown` follows the check of `max_msglen` through the queue
(`FitsPushed`) to the worker's assertion.

**`Connections_proofs`**, from `ConnectionsAssumption` and no hypothesis: the log rolls
when it likes.  `ConnInv`, types and `ConnectorsKept`, is inductive whatever a roll does, so
`ConnInvariant`, `ConnectorsFollow` and `NoLeak` say that it can take a number away from its
owner but leaves nothing without one.  `KernelInv` says by serial number, until the log's
file is struck, that each entry's descriptor is the one it was opened with (`OwnSockets`),
that the number being closed is free in the kernel or has gone to the log or one of its
directories by a roll since (`ClosingFreed`), and that the log's file is open (`LogOpen`).
`FdInvariant` proves it, and `TableKept` and `ClosesOwn` follow: the second close is harmless,
or hits what the roll opened.

**`Rpc_proofs`**, from `RpcAssumption`.  `TypesKept` and `FirstWins` hold for any number of
threads; the latter says of the services added so far that each name went to the first
that had it, on both sides.  `HeadOwned`, `RepliesMatch` and `CallBacksMatch` assume
`OneThread`, SINGLE mode: `InHand` says for each place in the code what `rhead_`, `databuff_`
and the locals hold of the message in hand.  `Rpc_workers` shows the first step another
thread spoils.

**`Session_proofs`**, from the assumptions of `BufferEvent` and `Session`.  `Pieces`: what the
kernel, the send buffer and the message in `Write` hold are consecutive parts of what was
written, so a `send()` that takes any part of the first leaves the rest in order;
`Phases`: the branches of `Write` and `FlushSendBuffer` find empty what they assume empty;
`LoopLeft`: only a reply inside the loop that reads can leave it.  On the receiving side
`NoneLeft` says that no whole request waits between two reads unless `recvQue` refused one, so
that what `GetBufferToWrite` closes a block behind is the beginning of one request;
`SeamsInside` that, without a pile, all seams are therefore in the request whose turn it is,
`COPY_BLOCK_SIZE` apart, and none in a length word; `LostKnown` and `HangNeedsLong` what follows
for the frame and the hang.  `PiecesFollow` proves all of it; `SentInOrder`,
`OnlySingleCrashes` and `CutsInFrame` follow, and rest on what `Total` does when a request is
appended or taken (`TotalWithOne`, `TotalWithoutOldest`).

**`BlockBuffer_proofs`**, from `BlockBufferAssumption`, for any block sizes.  The invariant
in the lemmas' words is `Known`: `IInv` (only the last block has room and no other is
empty, `Linked`; `totallen_` is the sum, `Counted`; a third block is only behind a full
second, `Backlog`), the room a `GetBufferToWrite` has promised, and `HangNeedsBacklog`.
One lemma for each operator says what it does to the bytes of the chain (`AppendIs`,
`DropIs`, `TakenIs`, `FilledIs`, `ExpandIs`, ...), over `Flat`, the concatenation of the
blocks' bytes.  `BufferInvariant`, `NoAssertionFails`, `HangsOnlyFull`, `CountsWhatItGives` and
`GivesTheOldest` come out of them, and `KeepsBytesInOrder`, the refinement of `ByteQueue`:
every step appends bytes to the content, takes a prefix of it, or keeps it (`Moved`).

**`Udp_proofs`**, from `UdpAssumption`.  `CutWhole`: while only whole requests were
read that no worker fails on, the buffer is empty between two datagrams, and while `RecvMsg`
cuts it is empty or begins with a whole request.  `CutsWhole` proves it; `OwnAnswers` adds the
count of each client's requests: waiting, answered, or ended without a reply.

**`Lifecycle_proofs`** begins with `TimerSpec`, the steps of `TimerMgr` in any order,
from `TimersAssumption`.  That ids find their timers is not inductive: a new id must
not be one a young timer has, which depends on every id given out since.
`TimerInv` adds `IdsInOrder`: going back from the counter through the timers in
the order they were added, one meets their ids in order, round the end of the
range at most once.  That is linear in the number of timers, where "the n-th id
is n modulo `MaxId`" would not be, and `FreshId` follows from it.  `TimerInvariant`
proves `[]TimerInv`; `IdsKept` and `OneShotsEnd` are parts of it, and `OwnExpiry` is
the action property: the `DelTimer(guid_)` at the end of `Callback` frees the timer
that fired.  `ProcessUsesTimers` shows that the process implements `TimerSpec`, so all
of this holds in it (`TimersInProcess`).

The process itself breaks in no unknown way because of an order nobody checks at run
time: `Started` says what `Init` has made by each point of `main`, `Requests` that a
request is inside only from the loop on and in MULTI mode, and after the loop only
those `atReturn` counted, with no threads to begin but those `notBegun` counted.
`LifeInvariant` proves them, for any number of workers that begin whenever they do, any
files and signals at any moment, and `BreaksOnlyAsKnown` follows: a worker that begins, takes
or answers finds its parts, or the destructors have run past it.

The configuration is the last part of the module, from `IniConfigAssumption`.
`FilesAsMeant` says that `Parse` gives `Meant`, for files of any length and of any
characters, if `fgets` can hold their lines (`ShortLines`).  `Meant` speaks of places in the
file and `Parse` cuts pieces of pieces, so everything is said of parts `lo .. hi` of the
file: `PartOfPart` makes a piece of a piece one of these, and `BeforeAt`, `StripStartAt`,
`StripEndAt` and `TrimAt` say where the parser's cuts are.  A text has one core (`OneCore`) and
a line one split (`OneSplit`), so a line sets what it says and nothing else
(`SettingSays`), and a line that `fgets` returns is a line of the file (`ReadLine`).  `SetFrom`
is the invariant of `Parse`: what the lines from a place on set; it holds from the end of
the file backwards (`SetFromEnd`, `SetFromLine`).  `ConfigAsMeant` is the run's property, and
`ServerReadsMeant` carries the result into the process: while the server is built
`fields` is empty or what the author of a file means.  Its hypothesis, that the lines of
`Cfg` fit, is one the program leaves to the author of the file too.

A recursive function stands for a `CHOOSE`.  `SumsExist` (for `Total`), `FlatsExist` (for
`Flat`), `TurnsExist` (for `Alloc`'s loop) and `FromsExist` (for `Parse`) show that a
function with the equation exists, each by taking the least length without one: the
library's induction theorems take an operator and cannot be used here.

What the proofs found: `Rpc`'s `Reply` had cases that overlapped (a request of a kind
whose service was never added), which TLC's order of cases hid; and
`LoopQueueAssumption` has to say that `None` is nothing a consumer can hold.

Only model-checked:

* what `atoi` makes of a value, a recursion over data: `Lifecycle` runs with the numbers
  its files give, and no property states it for every string;
* all liveness properties (`EveryPushEnds`, `EveryByteDelivered`, `EveryRequestHandled`,
  `EveryRequestEnds`, `TermIsOrderly`), which are out of the prover's reach;
* `ImplementsRecvBuffer`, that `BlockBuffer` closes its blocks where `RecvBuffer` says;
* the four properties that fail, and `LogInFile` and `Framed`, which fail too.

## 7. What is not modelled

* `daemonize`, and the splitting of urls and addresses: sequential code that runs
  before there is anything to interleave with.
* Functions without a caller: `Server::SendMsgToSvr` and `GetSvrConnector`,
  `IRpc::SetRequestFunction`, `BufferEventEv::Disable`, `MutexLocker::Wait` and
  `Broadcast`, `SvrConnector::AttachRpc`.  Without the last one
  `SvrConnector::OnRecvMsg` has no `IRpc`, and as `Connect` does not enable its
  `BufferEvent` no message of a server is read at all.
* The event factory and the libev wrappers that hold no state.  libev itself,
  sockets, pthreads and peers are modelled by how the code uses them.
* A close callback that closes another connection, so that `CloseConn` runs inside
  `CloseConn`: no callback of the repository does.
* In `Rpc`, a name too long for the head, which `Decode` cuts short and the reply echoes
  short (`IRpc.cc:32`), and the wrap of `12 + nameLen` in `uint32_t`; names are whole.
* What libev does with the repeat of -1.0 that a one-shot timer asks for by default
  (`Timer.h:35`, `IOEventEv.cc:171`); `Timers` has it expire once.
* In `IniConfig` a blank is a space: `strTrim` knows no tab or carriage return.
* Text of log lines, the static buffer they are formatted in, names of rolled
  files, and a roll that finds no number left for its directory or file.
* The generated message classes (`game.pb.*`) and the Python clients.

## 8. Plan

Order of work: the queue and the hand-over of requests between threads carry all
traffic, so they came first, with their proofs; then what feeds them, then the
process around them.

1. done: `Fifo`, `LoopQueue`, `LoopQueueFifo`, `RecvQueue`, `MultiServer`,
   `BlockBuffer` against `ByteQueue`, `Connections`, `Rpc`; the two halves of a
   connection in `Session`; `Udp`; `IniConfig`, `Timers` and `Lifecycle`; the proofs of
   section 6, which cover every safety property and every action property of the passing runs
   but `ImplementsRecvBuffer`.
2. Next proofs: that `BlockBuffer` implements `RecvBuffer`; which guarantees of `Udp` are
   left when a datagram is broken.
3. Next models: a second connection beside `Session`, to show what the spinning
   flush holds up; `MultiServer` over `LoopQueue` itself, for a small buffer.
