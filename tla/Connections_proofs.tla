-------------------------- MODULE Connections_proofs --------------------------
(***************************************************************************)
(* The table of connections, the connectors and the kernel's descriptors   *)
(* agree, for any set of numbers, any max_fd and any number of descriptors *)
(* opened.  ConnInv holds whatever is closed by mistake; KernelInv until   *)
(* the log's file is, which takes a roll inside CloseConn.                 *)
(***************************************************************************)
EXTENDS Connections, WellFoundedInduction, TLAPS

\* A set of numbers that is not empty has a least one.
LEMMA Least ==
  ASSUME NEW S, S \subseteq Nat, S # {}
  PROVE  \E x \in S : \A y \in S : x <= y
<1> DEFINE R == {ss \in Nat \X Nat : ss[1] < ss[2]}
<1>1. IsWellFoundedOn(R, Nat)
  BY NatLessThanWellFounded DEF OpToRel
<1>2. PICK x \in S : \A y \in S : ~(<<y, x>> \in R)
  <2> HIDE DEF R
  <2> QED BY <1>1, WFMin
<1>3. ASSUME NEW y \in S PROVE x <= y
  <2>1. x \in Nat /\ y \in Nat /\ <<y, x>> \in Nat \X Nat
    OBVIOUS
  <2>2. ~(<<y, x>>[1] < <<y, x>>[2])
    BY <2>1, <1>2
  <2> QED BY <2>1, <2>2
<1> QED BY <1>3

\* The kernel finds a free number if there is one.
LEMMA LowestIsFree ==
  ASSUME NEW k, \E f \in FdNum : k[f] = Free
  PROVE  Lowest(k) \in FdNum /\ k[Lowest(k)] = Free
<1> DEFINE S == {f \in FdNum : k[f] = Free}
<1>1. PICK f \in S : \A g \in S : f <= g
  <2>1. S \subseteq Nat /\ S # {}
    BY ConnectionsAssumption
  <2> HIDE DEF S
  <2> QED BY <2>1, Least
<1>2. f \in FdNum /\ k[f] = Free /\ \A g \in FdNum : k[g] = Free => f <= g
  BY <1>1
<1> QED BY <1>2 DEF Lowest

\* Facts about the constants that every step needs.
LEMMA Numbers ==
  /\ FdNum \subseteq Nat \ {0} /\ TableFd \subseteq FdNum
  /\ NoFd \notin FdNum /\ Free \notin Serial
  /\ Serial \subseteq Nat
  /\ \A n \in Serial : n < MaxOpen => n + 1 \in Serial
  BY ConnectionsAssumption DEF TableFd, NoFd, Free, Serial

\* What OpenConn leaves: a refused socket is closed, and one that is entered has
\* a number that was free, in the kernel and in the table.
LEMMA EnterEffect ==
  ASSUME TypeOK, NEW ctype, Enter(ctype)
  PROVE  /\ opened' = opened + 1 /\ opened + 1 \in Serial
         /\ \/ UNCHANGED <<kernel, table, connectors>>
            \/ \E f \in TableFd :
                 /\ kernel[f] = Free /\ table[f] = NoConn
                 /\ kernel' = [kernel EXCEPT ![f] = opened + 1]
                 /\ table' = [table EXCEPT ![f] = [ctype |-> ctype,
                                                   sock  |-> opened + 1]]
                 /\ connectors' =
                      IF ctype = "svr" /\ connectors[f] = Free
                      THEN [connectors EXCEPT ![f] = opened + 1]
                      ELSE connectors
<1>1. /\ opened' = opened + 1 /\ opened + 1 \in Serial
      /\ Lowest(kernel) \in FdNum /\ kernel[Lowest(kernel)] = Free
  BY Numbers, LowestIsFree DEF Enter, CanOpen, TypeOK
<1>2. CASE Refused(Lowest(kernel))
  BY <1>1, <1>2 DEF Enter, AfterRefusal
<1>3. CASE ~Refused(Lowest(kernel))
  <2>1. Lowest(kernel) \in TableFd /\ table[Lowest(kernel)] = NoConn
    BY <1>3 DEF Refused, TypeOK
  <2> QED BY <1>1, <1>3, <2>1 DEF Enter
<1> QED BY <1>2, <1>3

\* The same of the connection a close callback opens: the number that closes is
\* still in the table, so it is not given away.
LEMMA ReconnectEffect ==
  ASSUME ConnInv, OnSvrClosedReconnects
  PROVE  /\ opened' = opened + 1 /\ opened + 1 \in Serial
         /\ \/ /\ UNCHANGED <<kernel, table>>
               /\ connectors' = [connectors EXCEPT ![closing] = Free]
            \/ \E f \in TableFd \ {closing} :
                 /\ kernel[f] = Free /\ table[f] = NoConn
                 /\ kernel' = [kernel EXCEPT ![f] = opened + 1]
                 /\ table' = [table EXCEPT ![f] = [ctype |-> "svr",
                                                   sock  |-> opened + 1]]
                 /\ connectors' = [connectors EXCEPT ![f] = opened + 1,
                                                     ![closing] = Free]
<1> DEFINE f == Lowest(kernel)
<1>1. /\ opened' = opened + 1 /\ opened + 1 \in Serial
      /\ f \in FdNum /\ kernel[f] = Free
  BY Numbers, LowestIsFree
     DEF OnSvrClosedReconnects, CanOpen, ConnInv, TypeOK
<1>2. CASE Refused(f)
  BY <1>1, <1>2 DEF OnSvrClosedReconnects, AfterRefusal
<1>3. CASE ~Refused(f)
  <2>1. f \in TableFd /\ table[f] = NoConn /\ f # closing
    BY <1>3 DEF Refused, ConnInv, TypeOK, OnSvrClosedReconnects
  <2> QED BY <1>1, <1>3, <2>1 DEF OnSvrClosedReconnects
<1> QED BY <1>2, <1>3

\* The log and its directory get numbers that are free once the old file is
\* closed.
LEMMA LogRollsEffect ==
  ASSUME TypeOK, LogRolls
  PROVE  /\ opened' = opened + 2 /\ opened + 1 \in Serial /\ opened + 2 \in Serial
         /\ \E d, f \in FdNum :
              /\ d # f
              /\ kernel[d] = Free \/ d = log.fd
              /\ kernel[f] = Free \/ f = log.fd
              /\ kernel' = [g \in FdNum |-> IF g = f THEN opened + 2
                                            ELSE IF g = d THEN opened + 1
                                            ELSE IF g = log.fd THEN Free
                                            ELSE kernel[g]]
              /\ log' = [fd |-> f, serial |-> opened + 2]
<1> DEFINE k0 == [kernel EXCEPT ![log.fd] = Free]
           d  == Lowest(k0)
           k1 == [k0 EXCEPT ![d] = opened + 1]
           f  == Lowest(k1)
<1>1. opened' = opened + 2 /\ opened + 1 \in Serial /\ opened + 2 \in Serial
  BY Numbers, ConnectionsAssumption DEF LogRolls, TypeOK, Serial
<1>2. log.fd \in FdNum /\ k0[log.fd] = Free
  BY DEF TypeOK
<1>3. d \in FdNum /\ k0[d] = Free
  <2> HIDE DEF k0
  <2> QED BY <1>2, LowestIsFree
<1>4. f \in FdNum /\ k1[f] = Free
  <2>1. \E g \in FdNum : k1[g] = Free
    BY DEF LogRolls
  <2> HIDE DEF k1
  <2> QED BY <2>1, LowestIsFree
<1>5. d # f
  <2>1. k1[d] = opened + 1
    BY <1>3 DEF TypeOK
  <2> QED BY <2>1, <1>1, <1>4, Numbers
<1>6. /\ kernel[d] = Free \/ d = log.fd
      /\ kernel[f] = Free \/ f = log.fd
  <2> HIDE DEF d, f
  <2> QED BY <1>3, <1>4, <1>5 DEF TypeOK
<1>7. /\ kernel' = [k1 EXCEPT ![f] = opened + 2]
      /\ log' = [fd |-> f, serial |-> opened + 2]
  BY DEF LogRolls
<1> HIDE DEF d, f
<1>8. kernel' = [g \in FdNum |-> IF g = f THEN opened + 2
                                 ELSE IF g = d THEN opened + 1
                                 ELSE IF g = log.fd THEN Free
                                 ELSE kernel[g]]
  BY <1>3, <1>4, <1>7 DEF TypeOK
<1> QED BY <1>1, <1>3, <1>4, <1>5, <1>6, <1>7, <1>8

-----------------------------------------------------------------------------
(* What holds whatever the log does.                                       *)

\* At first only the log is open.
LEMMA LogInit ==
  Init => log.fd \in FdNum /\ log.serial = 1 /\ kernel[log.fd] = 1
<1> SUFFICES ASSUME Init
             PROVE  log.fd \in FdNum /\ log.serial = 1 /\ kernel[log.fd] = 1
  OBVIOUS
<1> DEFINE k == [f \in FdNum |-> Free]
<1>1. \E f \in FdNum : k[f] = Free
  BY ConnectionsAssumption
<1>2. log = [fd |-> Lowest(k), serial |-> 1]
  BY DEF Init
<1>3. Lowest(k) \in FdNum
  <2> HIDE DEF k
  <2> QED BY <1>1, LowestIsFree
<1> HIDE DEF k
<1>4. log.fd \in FdNum /\ log.serial = 1
  BY <1>2, <1>3
<1> QED BY <1>4 DEF Init

LEMMA ConnInit == Init => ConnInv
<1> SUFFICES ASSUME Init PROVE ConnInv
  OBVIOUS
<1>1. log.fd \in FdNum
  BY LogInit
<1>2. opened \in Serial
  BY ConnectionsAssumption DEF Init, Serial
<1> QED
  BY <1>1, <1>2, Numbers
     DEF Init, ConnInv, TypeOK, ConnectorsKept, NoConn, NoFd, Free, IsSvr

\* What a close hits is a serial.
LEMMA HitType ==
  ASSUME TypeOK, NEW f \in FdNum, NEW s PROVE Hit(kernel, f, s) \subseteq Serial
  BY DEF Hit, TypeOK

\* A socket that is entered gets an entry of the right type and, if it leads to a
\* server, a connector.
LEMMA EnterKeeps ==
  ASSUME ConnInv, NEW ctype \in {"cli", "svr", "udp"}, Enter(ctype),
         UNCHANGED <<listener, closing, told, log, dirs, inFlight, stray, logFate>>,
         closing = NoFd
  PROVE  ConnInv'
<1> USE Numbers DEF ConnInv, TypeOK, ConnectorsKept, IsSvr, NoConn
<1>1. CASE UNCHANGED <<kernel, table, connectors>>
  BY <1>1, EnterEffect
<1>2. ASSUME NEW f \in TableFd,
             kernel' = [kernel EXCEPT ![f] = opened + 1],
             table[f] = NoConn,
             table' = [table EXCEPT ![f] = [ctype |-> ctype,
                                            sock  |-> opened + 1]],
             connectors' = IF ctype = "svr" /\ connectors[f] = Free
                           THEN [connectors EXCEPT ![f] = opened + 1]
                           ELSE connectors
      PROVE  ConnInv'
  <2>1. opened' = opened + 1 /\ opened + 1 \in Serial
    BY EnterEffect
  <2>2. TypeOK'
    BY <1>2, <2>1
  <2>3. connectors[f] = Free
    BY <1>2
  <2>4. ConnectorsKept'
    BY <1>2, <2>1, <2>3
  <2> QED BY <2>2, <2>4
<1> QED
  BY <1>1, <1>2, EnterEffect

LEMMA ConnStep == ConnInv /\ [Next]_vars => ConnInv'
<1> SUFFICES ASSUME ConnInv, [Next]_vars PROVE ConnInv'
  OBVIOUS
<1> USE Numbers
<1>1. CASE BindTcp
  BY <1>1, LowestIsFree
     DEF BindTcp, CanOpen, ConnInv, TypeOK, ConnectorsKept, IsSvr
<1>2. CASE BindUdp
  BY <1>2, EnterKeeps DEF BindUdp
<1>3. CASE Accept
  BY <1>3, EnterKeeps DEF Accept
<1>4. CASE ConnectSvr
  BY <1>4, EnterKeeps DEF ConnectSvr
<1>5. CASE OpenFails
  BY <1>5 DEF OpenFails, CanOpen, ConnInv, TypeOK, ConnectorsKept, IsSvr
<1>6. ASSUME NEW f \in TableFd, CloseFd(f) PROVE ConnInv'
  BY <1>6, HitType
     DEF CloseFd, Close, ConnInv, TypeOK, ConnectorsKept, IsSvr
<1>7. CASE OnCliClosed
  BY <1>7 DEF OnCliClosed, ConnInv, TypeOK, ConnectorsKept, IsSvr
<1>8. CASE OnSvrClosed
  BY <1>8 DEF OnSvrClosed, ConnInv, TypeOK, ConnectorsKept, IsSvr
<1>9. CASE OnSvrClosedReconnects
  <2>1. /\ UNCHANGED <<listener, closing, log, dirs, inFlight, stray, logFate>>
        /\ told' = TRUE /\ closing \in TableFd
    BY <1>9 DEF OnSvrClosedReconnects, ConnInv, TypeOK
  <2>2. CASE /\ UNCHANGED <<kernel, table>>
             /\ connectors' = [connectors EXCEPT ![closing] = Free]
    BY <1>9, <2>1, <2>2, ReconnectEffect
       DEF ConnInv, TypeOK, ConnectorsKept, IsSvr
  <2>3. ASSUME NEW f \in TableFd \ {closing},
               kernel' = [kernel EXCEPT ![f] = opened + 1],
               table' = [table EXCEPT ![f] = [ctype |-> "svr",
                                              sock  |-> opened + 1]],
               connectors' = [connectors EXCEPT ![f] = opened + 1,
                                                ![closing] = Free]
        PROVE  ConnInv'
    BY <1>9, <2>1, <2>3, ReconnectEffect
       DEF ConnInv, TypeOK, ConnectorsKept, IsSvr
  <2> QED
    BY <1>9, <2>2, <2>3, ReconnectEffect
<1>10. CASE DeleteBufferEvent
  BY <1>10, HitType
     DEF DeleteBufferEvent, Close, ConnInv, TypeOK, ConnectorsKept, IsSvr,
         NoConn
<1>11. CASE LogRolls
  <2>1. log.fd \in FdNum /\ Hit(kernel, log.fd, log.serial) \subseteq Serial
    BY HitType DEF ConnInv, TypeOK
  <2>2. UNCHANGED <<table, listener, connectors, closing, told, inFlight>>
    BY <1>11 DEF LogRolls
  <2>3. TypeOK'
    <3>1. kernel' \in [FdNum -> Serial \cup {Free}]
      BY <1>11, LogRollsEffect DEF ConnInv, TypeOK
    <3>2. log' \in [fd : FdNum, serial : Serial]
      BY <1>11, LogRollsEffect DEF ConnInv, TypeOK
    <3>3. opened' \in Serial /\ dirs' \subseteq Serial /\ stray' \subseteq Serial
      BY <1>11, <2>1, LogRollsEffect DEF ConnInv, TypeOK, LogRolls
    <3>4. logFate' \in {"safe", "moved", "struck"}
      BY <1>11 DEF ConnInv, TypeOK, LogRolls
    <3> QED BY <2>2, <3>1, <3>2, <3>3, <3>4 DEF ConnInv, TypeOK
  <2> QED BY <2>2, <2>3 DEF ConnInv, ConnectorsKept, IsSvr
<1>12. ASSUME NEW f \in TableFd, RecvMsg(f) PROVE ConnInv'
  BY <1>12 DEF RecvMsg, ConnInv, TypeOK, ConnectorsKept, IsSvr, NoConn
<1>13. ASSUME NEW m \in inFlight, SendMsg(m) PROVE ConnInv'
  BY <1>13 DEF SendMsg, ConnInv, TypeOK, ConnectorsKept, IsSvr
<1>14. CASE UNCHANGED vars
  BY <1>14 DEF vars, ConnInv, TypeOK, ConnectorsKept, IsSvr
<1> QED
  BY <1>1, <1>2, <1>3, <1>4, <1>5, <1>6, <1>7, <1>8, <1>9, <1>10, <1>11,
     <1>12, <1>13, <1>14 DEF Next, CloseConn

\* Types are kept and svrConnectors_ follows the table, whatever the callbacks
\* and the log do.
THEOREM ConnInvariant == Spec => []ConnInv
  BY ConnInit, ConnStep, PTL DEF Spec

\* Between two events svrConnectors_ has an entry for each connection to a server
\* and for no other, made for the socket that is there: OnSvrClosed may erase it
\* after its callback has inserted the next.
THEOREM ConnectorsFollow == Spec => []ConnectorsMatch
<1>1. ConnInv => ConnectorsMatch
  BY Numbers DEF ConnInv, TypeOK, ConnectorsKept, ConnectorsMatch, IsSvr, NoConn
<1> QED BY <1>1, ConnInvariant, PTL

-----------------------------------------------------------------------------
(* Nothing stays open without an owner, whatever the log does.             *)

LEMMA EnterLeaksNothing ==
  ASSUME ConnInv, NothingLeaked, NEW ctype, Enter(ctype),
         UNCHANGED <<listener, log, dirs>>
  PROVE  NothingLeaked'
<1> USE Numbers DEF NothingLeaked, ConnInv, TypeOK
<1>1. CASE UNCHANGED <<kernel, table, connectors>>
  BY <1>1
<1>2. ASSUME NEW f \in TableFd, kernel[f] = Free,
             kernel' = [kernel EXCEPT ![f] = opened + 1],
             table' = [table EXCEPT ![f] = [ctype |-> ctype,
                                            sock  |-> opened + 1]]
      PROVE  NothingLeaked'
  BY <1>2
<1> QED BY <1>1, <1>2, EnterEffect

LEMMA LeakStep == ConnInv /\ NothingLeaked /\ [Next]_vars => NothingLeaked'
<1> SUFFICES ASSUME ConnInv, NothingLeaked, [Next]_vars PROVE NothingLeaked'
  OBVIOUS
<1> USE Numbers DEF NothingLeaked
<1>0. TypeOK
  BY DEF ConnInv
<1>1. CASE BindTcp
  <2>1. Lowest(kernel) \in FdNum /\ kernel[Lowest(kernel)] = Free
    BY <1>1, LowestIsFree DEF BindTcp, CanOpen
  <2> QED BY <1>0, <1>1, <2>1 DEF BindTcp, TypeOK
<1>2. CASE BindUdp
  BY <1>2, EnterLeaksNothing DEF BindUdp
<1>3. CASE Accept
  BY <1>3, EnterLeaksNothing DEF Accept
<1>4. CASE ConnectSvr
  BY <1>4, EnterLeaksNothing DEF ConnectSvr
<1>5. CASE OpenFails
  BY <1>5 DEF OpenFails
<1>6. ASSUME NEW f \in TableFd, CloseFd(f) PROVE NothingLeaked'
  BY <1>0, <1>6 DEF CloseFd, Close, TypeOK
<1>7. CASE OnCliClosed \/ OnSvrClosed
  BY <1>7 DEF OnCliClosed, OnSvrClosed
<1>8. CASE OnSvrClosedReconnects
  <2>1. UNCHANGED <<listener, log, dirs>>
    BY <1>8 DEF OnSvrClosedReconnects
  <2>2. CASE UNCHANGED <<kernel, table>>
    BY <2>1, <2>2
  <2>3. ASSUME NEW f \in TableFd, kernel[f] = Free,
               kernel' = [kernel EXCEPT ![f] = opened + 1],
               table' = [table EXCEPT ![f] = [ctype |-> "svr",
                                              sock  |-> opened + 1]]
        PROVE  NothingLeaked'
    BY <1>0, <2>1, <2>3 DEF TypeOK
  <2> QED BY <1>8, <2>2, <2>3, ReconnectEffect
<1>9. CASE DeleteBufferEvent
  BY <1>0, <1>9 DEF DeleteBufferEvent, Close, TypeOK
<1>10. CASE LogRolls
  <2>1. UNCHANGED <<table, listener>> /\ dirs' = dirs \cup {opened + 1}
    BY <1>10 DEF LogRolls
  <2>2. PICK d, f \in FdNum :
          /\ kernel' = [g \in FdNum |-> IF g = f THEN opened + 2
                                        ELSE IF g = d THEN opened + 1
                                        ELSE IF g = log.fd THEN Free
                                        ELSE kernel[g]]
          /\ log' = [fd |-> f, serial |-> opened + 2]
    BY <1>0, <1>10, LogRollsEffect
  <2>3. ASSUME NEW g \in FdNum
        PROVE  \/ kernel'[g] = Free
               \/ g \in TableFd /\ kernel'[g] = table'[g].sock
               \/ g = log'.fd /\ kernel'[g] = log'.serial
               \/ kernel'[g] \in dirs' \cup {listener'}
    <3>1. CASE g = f
      BY <2>2, <3>1
    <3>2. CASE g = d /\ g # f
      BY <2>1, <2>2, <3>2
    <3>3. CASE g # f /\ g # d /\ g = log.fd
      BY <2>2, <3>3
    <3>4. CASE g # f /\ g # d /\ g # log.fd
      BY <2>1, <2>2, <3>4
    <3> QED BY <3>1, <3>2, <3>3, <3>4
  <2> QED BY <2>3
<1>11. ASSUME NEW f \in TableFd, RecvMsg(f) PROVE NothingLeaked'
  BY <1>11 DEF RecvMsg
<1>12. ASSUME NEW m \in inFlight, SendMsg(m) PROVE NothingLeaked'
  BY <1>12 DEF SendMsg
<1>13. CASE UNCHANGED vars
  BY <1>13 DEF vars
<1> QED
  BY <1>1, <1>2, <1>3, <1>4, <1>5, <1>6, <1>7, <1>8, <1>9, <1>10, <1>11,
     <1>12, <1>13 DEF Next, CloseConn

\* Every descriptor that is open is a connection's, the listener's, the log's or
\* a directory FileRoll forgot: refusals, failures and closes leave none behind.
THEOREM NoLeak == Spec => []NothingLeaked
<1>1. Init => NothingLeaked
  <2> SUFFICES ASSUME Init, NEW f \in FdNum, f # log.fd PROVE kernel[f] = Free
    BY LogInit DEF NothingLeaked
  <2> QED BY DEF Init
<1> QED BY <1>1, LeakStep, ConnInvariant, PTL DEF Spec

-----------------------------------------------------------------------------
(* Whose descriptors are closed.                                           *)

Known == OwnSockets /\ ClosingFreed /\ LogOpen
FdInv == IInv /\ NoForeignClose

LEMMA FdInit == Init => KernelInv /\ NoForeignClose
<1> SUFFICES ASSUME Init PROVE KernelInv /\ NoForeignClose
  OBVIOUS
<1>1. log.serial <= opened /\ kernel[log.fd] = log.serial
  BY LogInit DEF Init
<1> QED
  BY <1>1
     DEF Init, KernelInv, OwnSockets, ClosingFreed, LogOpen, LogInFile,
         NoForeignClose, NoConn

\* What is opened next is newer than every serial so far.
LEMMA Newer ==
  ASSUME TypeOK
  PROVE  /\ opened \in Nat /\ opened <= opened
         /\ log.fd \in FdNum
         /\ log.serial <= opened => /\ log.serial <= opened + 1
                                   /\ log.serial # opened + 1
         /\ \A f \in TableFd :
              table[f].ctype # "none" /\ table[f].sock <= opened =>
                /\ table[f].sock # Free
                /\ table[f].sock <= opened + 1 /\ table[f].sock # opened + 1
                /\ table[f].sock <= opened + 2 /\ table[f].sock # opened + 2
<1>1. opened \in Nat /\ log.serial \in Nat /\ log.fd \in FdNum
  BY Numbers DEF TypeOK
<1>2. ASSUME NEW f \in TableFd, table[f].ctype # "none"
      PROVE  table[f].sock \in Nat /\ table[f].sock # Free
  <2>1. table[f] \in [ctype : {"cli", "svr", "udp"}, sock : Serial]
    BY <1>2 DEF TypeOK, NoConn
  <2> QED BY <2>1, Numbers
<1> QED BY <1>1, <1>2

LEMMA EnterOwn ==
  ASSUME ConnInv, Known, NEW ctype, Enter(ctype), closing = NoFd,
         UNCHANGED <<closing, log>>
  PROVE  Known'
<1> USE Newer DEF ConnInv, Known, OwnSockets, ClosingFreed, LogOpen, LogInFile
<1>1. CASE UNCHANGED <<kernel, table, connectors>>
  <2>1. opened' = opened + 1
    BY EnterEffect
  <2> QED BY <1>1, <2>1
<1>2. ASSUME NEW f \in TableFd, kernel[f] = Free,
             kernel' = [kernel EXCEPT ![f] = opened + 1],
             table' = [table EXCEPT ![f] = [ctype |-> ctype,
                                            sock  |-> opened + 1]]
      PROVE  Known'
  <2>1. opened' = opened + 1 /\ kernel[f] # log.serial /\ f # log.fd
    <3>1. log.serial # Free
      BY Numbers DEF TypeOK
    <3> QED BY <1>2, <3>1, EnterEffect
  <2>2. OwnSockets'
    BY <1>2, <2>1, Numbers DEF TypeOK
  <2>3. LogOpen'
    BY <1>2, <2>1, Numbers DEF TypeOK
  <2> QED BY <2>2, <2>3
<1> QED BY <1>1, <1>2, EnterEffect

\* A file that was hit stays hit.
LEMMA StruckStays == [Next]_vars /\ logFate = "struck" => logFate' = "struck"
<1> SUFFICES ASSUME [Next]_vars, logFate = "struck" PROVE logFate' = "struck"
  OBVIOUS
<1> QED
  BY DEF Next, vars, BindTcp, BindUdp, OpenFails, Accept, ConnectSvr, CloseConn,
         CloseFd, OnCliClosed, OnSvrClosed, OnSvrClosedReconnects,
         DeleteBufferEvent, Close, LogRolls, RecvMsg, SendMsg

\* The first close hits the socket and nothing else.
LEMMA FirstClose ==
  ASSUME ConnInv, Known, NoForeignClose, logFate # "struck",
         NEW f \in TableFd, CloseFd(f)
  PROVE  Known' /\ NoForeignClose'
<1> USE Numbers, Newer
<1>0. /\ TypeOK /\ OwnSockets /\ LogOpen
      /\ kernel[log.fd] = log.serial /\ log.serial \in Serial
  BY DEF ConnInv, TypeOK, Known, LogOpen, LogInFile
<1>1. /\ closing = NoFd /\ closing' = f /\ UNCHANGED <<opened, table, log, dirs>>
      /\ table[f].ctype # "none" /\ Close(f, table[f].sock)
  BY DEF CloseFd
<1>2. kernel[f] = table[f].sock /\ table[f].sock # log.serial
  BY <1>0, <1>1 DEF OwnSockets
<1>3. Hit(kernel, f, table[f].sock) = {} /\ f # log.fd
  BY <1>0, <1>2 DEF Hit
<1>4. UNCHANGED <<stray, logFate>> /\ kernel' = [kernel EXCEPT ![f] = Free]
  BY <1>1, <1>3 DEF Close
<1>5. OwnSockets' /\ LogOpen'
  BY <1>0, <1>1, <1>3, <1>4 DEF TypeOK, OwnSockets, LogOpen, LogInFile
<1>6. ClosingFreed'
  BY <1>0, <1>1, <1>4 DEF TypeOK, ClosingFreed
<1> QED BY <1>1, <1>4, <1>5, <1>6 DEF Known, NoForeignClose

\* The second close hits nothing, a directory, or the log's file, and then the
\* log has been struck.
LEMMA SecondClose ==
  ASSUME ConnInv, Known, NoForeignClose, logFate # "struck", DeleteBufferEvent,
         logFate' # "struck"
  PROVE  Known' /\ NoForeignClose'
<1> USE Numbers, Newer
<1> DEFINE hit == Hit(kernel, closing, table[closing].sock)
<1>0. /\ TypeOK /\ OwnSockets /\ ClosingFreed /\ LogOpen /\ ConnectorsKept
      /\ kernel[log.fd] = log.serial /\ log.serial \in Serial
  BY DEF ConnInv, TypeOK, Known, LogOpen, LogInFile
<1>1. /\ closing # NoFd /\ closing' = NoFd /\ UNCHANGED <<opened, log, dirs>>
      /\ table' = [table EXCEPT ![closing] = NoConn]
      /\ Close(closing, table[closing].sock)
  BY DEF DeleteBufferEvent
<1>2. closing \in TableFd /\ table[closing].ctype # "none"
  BY <1>0, <1>1 DEF TypeOK, ConnectorsKept
<1>3. log.serial \notin hit /\ logFate' = logFate
  BY <1>1 DEF Close
<1>4. closing # log.fd
  <2>1. table[closing].sock # log.serial
    BY <1>0, <1>2 DEF OwnSockets
  <2>2. log.serial # Free
    BY <1>0
  <2> QED BY <1>0, <1>3, <2>1, <2>2 DEF Hit
<1>5. kernel[closing] = Free \/ (logFate = "moved" /\ kernel[closing] \in dirs)
  BY <1>0, <1>1, <1>4 DEF ClosingFreed
<1>6. hit = {} \/ (logFate = "moved" /\ hit \subseteq dirs)
  BY <1>5 DEF Hit
<1>7. stray' = stray \cup hit /\ kernel' = [kernel EXCEPT ![closing] = Free]
  BY <1>1 DEF Close
<1>8. NoForeignClose'
  <2> HIDE DEF hit
  <2> QED BY <1>1, <1>3, <1>6, <1>7 DEF NoForeignClose
<1>9. LogOpen'
  BY <1>0, <1>1, <1>4, <1>7 DEF TypeOK, LogOpen, LogInFile
<1>10. OwnSockets'
  BY <1>0, <1>1, <1>2, <1>7 DEF TypeOK, OwnSockets, NoConn
<1> QED BY <1>1, <1>8, <1>9, <1>10 DEF Known, ClosingFreed

\* A roll closes the log's own file; the directory and the new file get numbers
\* that are free, the one of the socket that closes among them.
LEMMA RollOwn ==
  ASSUME ConnInv, Known, NoForeignClose, logFate # "struck", LogRolls
  PROVE  Known' /\ NoForeignClose'
<1> USE Numbers, Newer
<1>0. /\ TypeOK /\ OwnSockets /\ ClosingFreed /\ LogOpen
      /\ kernel[log.fd] = log.serial /\ log.serial \in Serial
  BY DEF ConnInv, TypeOK, Known, LogOpen, LogInFile
<1>1. /\ UNCHANGED <<table, closing>> /\ dirs' = dirs \cup {opened + 1}
      /\ stray' = stray \cup Hit(kernel, log.fd, log.serial)
      /\ logFate' = IF closing # NoFd /\ logFate = "safe" THEN "moved" ELSE logFate
  BY DEF LogRolls
<1>2. stray' = stray
  BY <1>0, <1>1 DEF Hit
<1>3. PICK d, f \in FdNum :
        /\ d # f
        /\ kernel[d] = Free \/ d = log.fd
        /\ kernel[f] = Free \/ f = log.fd
        /\ kernel' = [g \in FdNum |-> IF g = f THEN opened + 2
                                      ELSE IF g = d THEN opened + 1
                                      ELSE IF g = log.fd THEN Free
                                      ELSE kernel[g]]
        /\ log' = [fd |-> f, serial |-> opened + 2]
  BY <1>0, LogRollsEffect
<1>4. opened' = opened + 2
  BY <1>0, LogRollsEffect
<1>5. LogOpen'
  BY <1>0, <1>3, <1>4 DEF LogOpen, LogInFile, TypeOK
<1>6. ASSUME NEW g \in TableFd, table'[g].ctype # "none"
      PROVE  /\ table'[g].sock <= opened' /\ table'[g].sock # log'.serial
             /\ g # closing' => kernel'[g] = table'[g].sock
  <2>1. table[g].sock <= opened /\ table[g].sock # log.serial
    BY <1>0, <1>1, <1>6 DEF OwnSockets
  <2>2. table'[g].sock <= opened' /\ table'[g].sock # log'.serial
    <3>1. log'.serial = opened + 2
      BY <1>3
    <3> QED BY <1>0, <1>1, <1>4, <1>6, <2>1, <3>1
  <2>3. ASSUME g # closing PROVE kernel'[g] = table[g].sock
    <3>1. kernel[g] = table[g].sock /\ table[g].sock # Free
      BY <1>0, <1>1, <1>6, <2>1, <2>3 DEF OwnSockets
    <3>2. g # log.fd /\ g # d /\ g # f
      BY <1>0, <1>3, <2>1, <3>1
    <3> QED BY <1>3, <3>1, <3>2
  <2> QED BY <1>1, <2>2, <2>3
<1>7. ClosingFreed'
  <2>1. SUFFICES ASSUME closing # NoFd
                 PROVE  \/ kernel'[closing] = Free
                        \/ kernel'[closing] \in dirs' \/ closing = log'.fd
    BY <1>0, <1>1 DEF ClosingFreed, TypeOK
  <2>2. closing \in FdNum
    BY <1>0, <2>1 DEF TypeOK
  <2>3. CASE closing = f
    BY <1>3, <2>3
  <2>4. CASE closing = d /\ closing # f
    BY <1>1, <1>3, <2>2, <2>4
  <2>5. CASE closing # d /\ closing # f /\ closing = log.fd
    BY <1>3, <2>2, <2>5
  <2>6. CASE closing # d /\ closing # f /\ closing # log.fd
    <3>1. kernel'[closing] = kernel[closing]
      BY <1>3, <2>2, <2>6
    <3> QED BY <1>0, <1>1, <2>1, <2>6, <3>1 DEF ClosingFreed
  <2> QED BY <2>3, <2>4, <2>5, <2>6
<1>8. NoForeignClose'
  BY <1>1, <1>2 DEF NoForeignClose
<1> QED BY <1>5, <1>6, <1>7, <1>8 DEF Known, OwnSockets

LEMMA FdStep == FdInv /\ [Next]_vars => KernelInv' /\ NoForeignClose'
<1> SUFFICES ASSUME FdInv, [Next]_vars PROVE KernelInv' /\ NoForeignClose'
  OBVIOUS
<1> DEFINE Goal == Known' /\ NoForeignClose'
<1>a. CASE logFate' = "struck"
  BY <1>a DEF KernelInv, NoForeignClose
<1>b. CASE logFate' # "struck"
  <2> SUFFICES Known' /\ NoForeignClose'
    BY DEF Known, KernelInv
  <2> USE Numbers, Newer
  <2>0. /\ ConnInv /\ Known /\ NoForeignClose /\ TypeOK /\ logFate # "struck"
        /\ OwnSockets /\ ClosingFreed /\ LogOpen /\ ConnectorsKept
    BY <1>b, StruckStays DEF FdInv, IInv, ConnInv, KernelInv, Known
  <2>1. CASE BindTcp
    <3>1. Lowest(kernel) \in FdNum /\ kernel[Lowest(kernel)] = Free
      BY <2>1, LowestIsFree DEF BindTcp, CanOpen
    <3>2. /\ opened' = opened + 1
          /\ UNCHANGED <<table, closing, log, dirs, stray, logFate>>
          /\ closing = NoFd
          /\ kernel' = [kernel EXCEPT ![Lowest(kernel)] = opened + 1]
      BY <2>1 DEF BindTcp
    <3>3. \A f \in FdNum : kernel[f] # Free => kernel'[f] = kernel[f]
      BY <2>0, <3>1, <3>2 DEF TypeOK
    <3>4. OwnSockets'
      BY <2>0, <3>2, <3>3 DEF TypeOK, OwnSockets, NoConn
    <3>5. ClosingFreed' /\ NoForeignClose'
      BY <2>0, <3>2 DEF ClosingFreed, NoForeignClose
    <3>6. LogOpen'
      BY <2>0, <3>2, <3>3 DEF TypeOK, LogOpen, LogInFile
    <3> QED BY <3>4, <3>5, <3>6 DEF Known
  <2>2. CASE BindUdp
    BY <2>0, <2>2, EnterOwn DEF BindUdp, NoForeignClose
  <2>3. CASE Accept
    BY <2>0, <2>3, EnterOwn DEF Accept, NoForeignClose
  <2>4. CASE ConnectSvr
    BY <2>0, <2>4, EnterOwn DEF ConnectSvr, NoForeignClose
  <2>5. CASE OpenFails
    BY <2>0, <2>5
       DEF OpenFails, CanOpen, TypeOK, Known, OwnSockets, ClosingFreed,
           LogOpen, LogInFile, NoConn, NoForeignClose
  <2>6. ASSUME NEW f \in TableFd, CloseFd(f) PROVE Goal
    BY <2>0, <2>6, FirstClose
  <2>7. CASE OnCliClosed \/ OnSvrClosed
    BY <2>0, <2>7
       DEF OnCliClosed, OnSvrClosed, Known, OwnSockets, ClosingFreed, LogOpen,
           LogInFile, NoForeignClose
  <2>8. CASE OnSvrClosedReconnects
    <3>1. /\ UNCHANGED <<closing, log, dirs, stray, logFate>>
          /\ closing \in TableFd /\ opened' = opened + 1
      BY <2>0, <2>8, ReconnectEffect DEF OnSvrClosedReconnects, TypeOK
    <3>2. CASE UNCHANGED <<kernel, table>>
      BY <2>0, <3>1, <3>2
         DEF TypeOK, Known, OwnSockets, ClosingFreed, LogOpen, LogInFile,
             NoConn, NoForeignClose
    <3>3. ASSUME NEW f \in TableFd \ {closing}, kernel[f] = Free,
                 kernel' = [kernel EXCEPT ![f] = opened + 1],
                 table' = [table EXCEPT ![f] = [ctype |-> "svr",
                                                sock  |-> opened + 1]]
          PROVE  Goal
      <4>1. f # log.fd
        BY <2>0, <3>3 DEF TypeOK, LogOpen, LogInFile
      <4>2. OwnSockets'
        BY <2>0, <3>1, <3>3 DEF TypeOK, OwnSockets, NoConn, LogOpen
      <4>3. ClosingFreed' /\ LogOpen'
        BY <2>0, <3>1, <3>3, <4>1 DEF TypeOK, ClosingFreed, LogOpen, LogInFile
      <4> QED BY <2>0, <3>1, <4>2, <4>3 DEF Known, NoForeignClose
    <3> QED BY <2>0, <2>8, <3>2, <3>3, ReconnectEffect
  <2>9. CASE DeleteBufferEvent
    BY <1>b, <2>0, <2>9, SecondClose
  <2>10. CASE LogRolls
    BY <2>0, <2>10, RollOwn
  <2>11. ASSUME NEW f \in TableFd, RecvMsg(f) PROVE Goal
    BY <2>0, <2>11
       DEF RecvMsg, Known, OwnSockets, ClosingFreed, LogOpen, LogInFile,
           NoForeignClose
  <2>12. ASSUME NEW m \in inFlight, SendMsg(m) PROVE Goal
    BY <2>0, <2>12
       DEF SendMsg, Known, OwnSockets, ClosingFreed, LogOpen, LogInFile,
           NoForeignClose
  <2>13. CASE UNCHANGED vars
    BY <2>0, <2>13
       DEF vars, Known, OwnSockets, ClosingFreed, LogOpen, LogInFile,
           NoForeignClose
  <2> QED
    BY <2>1, <2>2, <2>3, <2>4, <2>5, <2>6, <2>7, <2>8, <2>9, <2>10, <2>11,
       <2>12, <2>13 DEF Next, CloseConn
<1> QED BY <1>a, <1>b

LEMMA FdAlways == Spec => []FdInv
<1>1. Init => FdInv
  BY ConnInit, FdInit DEF FdInv, IInv
<1>2. FdInv /\ [Next]_vars => FdInv'
  BY ConnStep, FdStep DEF FdInv, IInv
<1> QED BY <1>1, <1>2, PTL DEF Spec

\* The table and the kernel agree at every step of opening, closing and rolling,
\* until a close has hit the log's file.
THEOREM FdInvariant == Spec => []IInv
<1>1. FdInv => IInv
  BY DEF FdInv
<1> QED BY <1>1, FdAlways, PTL

\* Between two events every entry of conns_ has its own socket open at its number,
\* until a close has hit the log's file.
THEOREM TableKept == Spec => []TableMatchesKernel
<1>1. FdInv => TableMatchesKernel
  BY Numbers DEF FdInv, IInv, KernelInv, OwnSockets, TableMatchesKernel
<1> QED BY <1>1, FdAlways, PTL

\* The close at the start of CloseConn, the destructor's and FileRoll's each hit
\* what they mean or a number that is free, whatever is connected in between, as
\* long as no line that CloseConn logs rolls the file; after such a roll the
\* first stranger hit is a directory of FileRoll's or the log's file.
THEOREM ClosesOwn == Spec => []NoForeignClose
<1>1. FdInv => NoForeignClose
  BY DEF FdInv
<1> QED BY <1>1, FdAlways, PTL
=============================================================================
