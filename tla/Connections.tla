----------------------------- MODULE Connections -----------------------------
(***************************************************************************)
(* The connections of the network thread: NetMessage's table conns_,       *)
(* indexed by descriptor number, Server's map svrConnectors_ from the same *)
(* numbers, and the kernel's table of open descriptors behind them.        *)
(*                                                                         *)
(* A number is not an identity: the kernel gives the lowest free one to    *)
(* whatever is opened next.  Every thing that gets opened has a serial     *)
(* number of its own here, so the properties can say whose descriptor is   *)
(* closed and whose request is answered.                                   *)
(*                                                                         *)
(* CloseConn closes a descriptor twice: close(fd) at its start and the     *)
(* destructor of the BufferEvent at its end.  What runs in between (a      *)
(* close callback that connects again, a log line that rolls the log file) *)
(* can be given that number; then the second close is somebody else's.     *)
(***************************************************************************)
EXTENDS Integers

CONSTANTS
  FdNum,    \* descriptor numbers a process may have: an interval
  MaxFds,   \* maxfds_: conns_ has entries for the numbers below it
  MaxOpen   \* bound: descriptors ever opened

ASSUME ConnectionsAssumption ==
  /\ FdNum \subseteq Nat \ {0} /\ FdNum # {}
  /\ MaxFds \in Nat /\ MaxOpen \in Nat \ {0}

VARIABLES
  kernel,      \* for each number, the serial of what is open there, or Free
  opened,      \* serial of the last descriptor opened
  table,       \* conns_: type of the connection and serial of its socket
  listener,    \* serial of the socket that listens, or Free
  connectors,  \* svrConnectors_: serial of the socket it was made for, or Free
  closing,     \* the number CloseConn is at work on, or NoFd
  told,        \* its callback has run
  log,         \* number and serial of the log file
  dirs,        \* serials of directories FileRoll opened; it never closes them
  inFlight,    \* messages with the workers: number and serial they came by
  stray,       \* history: serials closed by someone they do not belong to
  logFate      \* history: "moved" since the log was rolled inside CloseConn,
               \* "struck" since another's close hit the file

vars == <<kernel, opened, table, listener, connectors, closing, told, log,
          dirs, inFlight, stray, logFate>>

Free == 0
NoFd == 0
Serial == 1 .. MaxOpen
TableFd == {f \in FdNum : f < MaxFds}
NoConn == [ctype |-> "none", sock |-> Free]

\* The lowest number that is free in k.
Lowest(k) == CHOOSE f \in FdNum : /\ k[f] = Free
                                  /\ \A g \in FdNum : k[g] = Free => f <= g
CanOpen(k) == opened < MaxOpen /\ \E f \in FdNum : k[f] = Free

\* What close(f) by the owner of serial s hits besides s.
Hit(k, f, s) == {k[f]} \ {Free, s}

\* close(f) of the connection whose socket is s.
Close(f, s) == /\ kernel' = [kernel EXCEPT ![f] = Free]
               /\ stray' = stray \cup Hit(kernel, f, s)
               /\ logFate' = IF log.serial \in Hit(kernel, f, s)
                             THEN "struck" ELSE logFate

Init == /\ opened = 1
        /\ log = [fd |-> Lowest([f \in FdNum |-> Free]), serial |-> 1]
        /\ kernel = [f \in FdNum |-> IF f = log.fd THEN 1 ELSE Free]
        /\ table = [f \in TableFd |-> NoConn]
        /\ listener = Free
        /\ connectors = [f \in FdNum |-> Free]
        /\ closing = NoFd /\ told = FALSE
        /\ dirs = {} /\ inFlight = {} /\ stray = {} /\ logFate = "safe"

-----------------------------------------------------------------------------
(* Opening.                                                                *)

\* OpenConn's early returns; its caller then deletes the BufferEvent, which
\* closes the socket.
Refused(f) == f \notin TableFd \/ table[f].ctype # "none"

\* Mutant of AfterRefusal: the BufferEvent is not deleted.
NotClosed(f) == [kernel EXCEPT ![f] = opened + 1]

\* The descriptors after the socket at f was refused.
AfterRefusal(f) == kernel

\* A socket is opened at the lowest number and OpenConn enters it.
Enter(ctype) ==
  LET f == Lowest(kernel)
  IN /\ CanOpen(kernel)
     /\ opened' = opened + 1
     /\ IF Refused(f)
        THEN kernel' = AfterRefusal(f) /\ UNCHANGED <<table, connectors>>
        ELSE /\ kernel' = [kernel EXCEPT ![f] = opened + 1]
             /\ table' = [table EXCEPT ![f] = [ctype |-> ctype,
                                               sock  |-> opened + 1]]
             /\ connectors' =
                  IF ctype = "svr" /\ connectors[f] = Free
                  THEN [connectors EXCEPT ![f] = opened + 1]
                  ELSE connectors

\* Bind of a TCP port: the socket listens, and has no entry in the table.
BindTcp ==
  /\ closing = NoFd /\ listener = Free
  /\ CanOpen(kernel)
  /\ opened' = opened + 1
  /\ kernel' = [kernel EXCEPT ![Lowest(kernel)] = opened + 1]
  /\ listener' = opened + 1
  /\ UNCHANGED <<table, connectors, closing, told, log, dirs, inFlight,
                 stray, logFate>>

\* Mutant of OpenFails: the socket is left open.
OpenFailsOpen ==
  /\ closing = NoFd /\ CanOpen(kernel)
  /\ opened' = opened + 1
  /\ kernel' = [kernel EXCEPT ![Lowest(kernel)] = opened + 1]
  /\ UNCHANGED <<table, listener, connectors, closing, told, log, dirs,
                 inFlight, stray, logFate>>

\* doBind or doConnect: setsockopt, bind, listen or connect fails, and the
\* socket is closed again.
OpenFails ==
  /\ closing = NoFd /\ CanOpen(kernel)
  /\ opened' = opened + 1
  /\ UNCHANGED <<kernel, table, listener, connectors, closing, told, log, dirs,
                 inFlight, stray, logFate>>

\* Bind of a UDP port: the entry is a client's too, and no event closes it.
\* (Ports are bound before Start; here the TCP port is the last.)
BindUdp ==
  /\ closing = NoFd /\ listener = Free
  /\ Enter("udp")
  /\ UNCHANGED <<listener, closing, told, log, dirs, inFlight, stray, logFate>>

\* listenCb: a client has connected.
Accept ==
  /\ closing = NoFd /\ listener # Free
  /\ Enter("cli")
  /\ UNCHANGED <<listener, closing, told, log, dirs, inFlight, stray, logFate>>

\* ConnectSvr, called on the network thread.
ConnectSvr ==
  /\ closing = NoFd
  /\ Enter("svr")
  /\ UNCHANGED <<listener, closing, told, log, dirs, inFlight, stray, logFate>>

-----------------------------------------------------------------------------
(* CloseConn: a client's end of file or an error of send, or CloseSvr.     *)

CloseFd(f) ==
  /\ closing = NoFd
  /\ f \in TableFd /\ table[f].ctype \in {"cli", "svr"}
  /\ Close(f, table[f].sock)
  /\ closing' = f
  /\ told' = FALSE
  /\ UNCHANGED <<opened, table, listener, connectors, log, dirs, inFlight>>

\* OnCliClosed does nothing but log (LogRolls).
OnCliClosed ==
  /\ closing # NoFd /\ ~told
  /\ table[closing].ctype = "cli"
  /\ told' = TRUE
  /\ UNCHANGED <<kernel, opened, table, listener, connectors, closing, log,
                 dirs, inFlight, stray, logFate>>

\* Mutant of OnSvrClosed: the connector is not erased.
OnSvrClosedKeeps ==
  /\ closing # NoFd /\ ~told
  /\ table[closing].ctype = "svr"
  /\ told' = TRUE
  /\ UNCHANGED <<kernel, opened, table, listener, connectors, closing, log,
                 dirs, inFlight, stray, logFate>>

\* OnSvrClosed deletes the connector, whose callback may connect again, and
\* then erases it from the map.  (A callback that closes another connection, so
\* that CloseConn runs inside CloseConn, is left out.)
OnSvrClosed ==
  /\ closing # NoFd /\ ~told
  /\ table[closing].ctype = "svr"
  /\ told' = TRUE
  /\ connectors' = [connectors EXCEPT ![closing] = Free]
  /\ UNCHANGED <<kernel, opened, table, listener, closing, log, dirs,
                 inFlight, stray, logFate>>

OnSvrClosedReconnects ==
  /\ closing # NoFd /\ ~told
  /\ table[closing].ctype = "svr"
  /\ connectors[closing] # Free
  /\ LET f == Lowest(kernel)
     IN /\ CanOpen(kernel)
        /\ opened' = opened + 1
        /\ IF Refused(f)
           THEN /\ connectors' = [connectors EXCEPT ![closing] = Free]
                /\ kernel' = AfterRefusal(f)
                /\ UNCHANGED table
           ELSE /\ kernel' = [kernel EXCEPT ![f] = opened + 1]
                /\ table' = [table EXCEPT ![f] = [ctype |-> "svr",
                                                  sock  |-> opened + 1]]
                /\ connectors' = [connectors EXCEPT ![f] = opened + 1,
                                                    ![closing] = Free]
  /\ told' = TRUE
  /\ UNCHANGED <<listener, closing, log, dirs, inFlight, stray, logFate>>

\* Mutants of DeleteBufferEvent: the entry is not reset; only its bev is.
DeleteNoReset ==
  /\ closing # NoFd /\ told
  /\ Close(closing, table[closing].sock)
  /\ closing' = NoFd
  /\ told' = FALSE
  /\ UNCHANGED <<opened, table, listener, connectors, log, dirs, inFlight>>

DeleteHalfReset ==
  /\ closing # NoFd /\ told
  /\ Close(closing, table[closing].sock)
  /\ table' = [table EXCEPT ![closing].sock = Free]
  /\ closing' = NoFd
  /\ told' = FALSE
  /\ UNCHANGED <<opened, listener, connectors, log, dirs, inFlight>>

\* delete bev closes the number again; then the entry is reset.
DeleteBufferEvent ==
  /\ closing # NoFd /\ told
  /\ Close(closing, table[closing].sock)
  /\ table' = [table EXCEPT ![closing] = NoConn]
  /\ closing' = NoFd
  /\ told' = FALSE
  /\ UNCHANGED <<opened, listener, connectors, log, dirs, inFlight>>

-----------------------------------------------------------------------------
(* Log::FileRoll, in a log line of any thread, those CloseConn itself      *)
(* writes among them: the file is closed, a directory is opened (and left  *)
(* open), and a new file.                                                  *)

LogRolls ==
  /\ opened + 2 <= MaxOpen
  /\ LET k0 == [kernel EXCEPT ![log.fd] = Free]
         k1 == [k0 EXCEPT ![Lowest(k0)] = opened + 1]
     IN /\ \E f \in FdNum : k1[f] = Free
        /\ kernel' = [k1 EXCEPT ![Lowest(k1)] = opened + 2]
        /\ log' = [fd |-> Lowest(k1), serial |-> opened + 2]
  /\ dirs' = dirs \cup {opened + 1}
  /\ stray' = stray \cup Hit(kernel, log.fd, log.serial)
  /\ logFate' = IF closing # NoFd /\ logFate = "safe" THEN "moved" ELSE logFate
  /\ opened' = opened + 2
  /\ UNCHANGED <<table, listener, connectors, closing, told, inFlight>>

-----------------------------------------------------------------------------
(* Messages of clients: a worker answers by descriptor number.  (Nothing   *)
(* is read from a server: Connect does not enable its BufferEvent.)        *)

RecvMsg(f) ==
  /\ closing = NoFd
  /\ table[f].ctype \in {"cli", "udp"} /\ kernel[f] = table[f].sock
  /\ LET m == [fd |-> f, sock |-> table[f].sock]
     IN m \notin inFlight /\ inFlight' = inFlight \cup {m}
  /\ UNCHANGED <<kernel, opened, table, listener, connectors, closing, told,
                 log, dirs, stray, logFate>>

\* The workers are done with m: the reply goes to whoever has its number now,
\* or to nobody (GetConn finds no connection).
SendMsg(m) ==
  /\ closing = NoFd
  /\ inFlight' = inFlight \ {m}
  /\ UNCHANGED <<kernel, opened, table, listener, connectors, closing, told,
                 log, dirs, stray, logFate>>

-----------------------------------------------------------------------------
CloseConn == \/ \E f \in TableFd : CloseFd(f)
             \/ OnCliClosed \/ OnSvrClosed \/ OnSvrClosedReconnects
             \/ DeleteBufferEvent

Next == \/ BindTcp \/ BindUdp \/ OpenFails
        \/ Accept
        \/ ConnectSvr
        \/ CloseConn
        \/ LogRolls
        \/ \E f \in TableFd : RecvMsg(f)
        \/ \E m \in inFlight : SendMsg(m)

Spec == Init /\ [][Next]_vars

-----------------------------------------------------------------------------
(* Properties.                                                             *)

TypeOK ==
  /\ kernel \in [FdNum -> Serial \cup {Free}]
  /\ opened \in Serial
  /\ table \in [TableFd -> [ctype : {"cli", "svr", "udp"}, sock : Serial]
                            \cup {NoConn}]
  /\ listener \in Serial \cup {Free}
  /\ connectors \in [FdNum -> Serial \cup {Free}]
  /\ closing \in TableFd \cup {NoFd} /\ told \in BOOLEAN
  /\ log \in [fd : FdNum, serial : Serial]
  /\ dirs \subseteq Serial /\ stray \subseteq Serial
  /\ inFlight \subseteq [fd : TableFd, sock : Serial]
  /\ logFate \in {"safe", "moved", "struck"}

\* Between two events every connection of the table has its own socket open
\* at its number, so no entry is stale and no new connection is refused while
\* there is a free number below max_fd, as long as no close has hit the log's
\* file: the next roll then closes whoever has its number.
TableMatchesKernel ==
  closing = NoFd /\ logFate # "struck" =>
    \A f \in TableFd : table[f].ctype # "none" => kernel[f] = table[f].sock

\* Nothing stays open without an owner: a refused or closed connection gives
\* its number back.  (FileRoll's directories are the exception.)
NothingLeaked ==
  \A f \in FdNum :
    \/ kernel[f] = Free
    \/ f \in TableFd /\ kernel[f] = table[f].sock
    \/ f = log.fd /\ kernel[f] = log.serial
    \/ kernel[f] \in dirs \cup {listener}

\* svrConnectors_ has an entry for the connections to servers and for no other,
\* made for the socket that is there now, whatever the callbacks did.
ConnectorsMatch ==
  closing = NoFd =>
    /\ \A f \in FdNum :
         connectors[f] # Free <=> f \in TableFd /\ table[f].ctype = "svr"
    /\ \A f \in TableFd : connectors[f] # Free => connectors[f] = table[f].sock

\* A close only ever hits what its caller opened, close callbacks that connect
\* again included, until the log is rolled between the two closes of CloseConn;
\* from then on, until the log's file itself is hit, it can also be a directory
\* that FileRoll forgot.
NoForeignClose ==
  /\ logFate = "safe" => stray = {}
  /\ logFate = "moved" => stray \subseteq dirs

\* What is logged goes into the log's file: the program is started with a
\* directory for it, and the code breaks it when it rolls inside CloseConn.
LogInFile == kernel[log.fd] = log.serial

\* A message still with the workers is from the client that has the number
\* now, so the reply goes to the client that asked.
ReplyGoesToAsker ==
  \A m \in inFlight : table[m.fd].ctype # "none" => table[m.fd].sock = m.sock

-----------------------------------------------------------------------------
(* The inductive invariant.                                                *)

IsSvr(f) == f \in TableFd /\ table[f].ctype = "svr"

\* Halfway through a close, too, a connector is there for each connection to a
\* server and made for its socket; the callback takes away the one that closes.
ConnectorsKept ==
  /\ closing # NoFd => table[closing].ctype \in {"cli", "svr"}
  /\ \A f \in FdNum :
       IF f = closing /\ told THEN connectors[f] = Free
       ELSE connectors[f] = IF IsSvr(f) THEN table[f].sock ELSE Free

\* The sockets of the table are older than what is opened next, none of them is
\* the log's, and each but the one that closes is open at its number.
OwnSockets ==
  \A f \in TableFd : table[f].ctype # "none" =>
    /\ table[f].sock <= opened /\ table[f].sock # log.serial
    /\ f # closing => kernel[f] = table[f].sock

\* What may have been given the number of the socket that closes: nothing, but
\* for a roll, a directory or the log.
ClosingFreed ==
  closing # NoFd =>
    \/ kernel[closing] = Free
    \/ logFate = "moved" /\ (kernel[closing] \in dirs \/ closing = log.fd)

LogOpen == log.serial <= opened /\ LogInFile

ConnInv == TypeOK /\ ConnectorsKept
KernelInv == logFate # "struck" => OwnSockets /\ ClosingFreed /\ LogOpen
IInv == ConnInv /\ KernelInv
=============================================================================
