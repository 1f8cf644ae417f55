--------------------------------- MODULE Rpc ---------------------------------
(***************************************************************************)
(* IRpc and the stubs generated for a service (sample/server/protocc,      *)
(* GameService with its one method login): how a request becomes a reply.  *)
(*                                                                         *)
(* A server has one IRpc, and the IRpc one RpcHead (rhead_) and one buffer *)
(* (databuff_) for all it decodes and encodes.  Every thread that handles  *)
(* messages goes through them: the network thread in SINGLE mode, all the  *)
(* workers in MULTI mode, without a lock.  An action is what a thread does *)
(* between two points where another thread can touch rhead_ or databuff_.  *)
(*                                                                         *)
(* A message stands for the bytes of its data; the reply's data is the     *)
(* message it was computed from.  Messages of other servers, the answers   *)
(* to what a service asked, come in at OnRecvSvrMsg.                       *)
(***************************************************************************)
EXTENDS Integers, Sequences

CONSTANTS
  Thread,       \* the threads that handle messages
  Msg,          \* the messages that may arrive
  Kind,         \* Kind[m]: what is to become of m, see Kinds
  MethodName,   \* "GameService::login"
  ServiceName,  \* "GameService", what Name() gives
  OtherName,    \* a name nobody registered
  Service,      \* services that may be added
  Skeleton,     \* those for clients (__GameServiceSkeleton); the others take
                \* answers (__GameServiceClientSkeleton)
  Order,        \* orders in which services may be added
  None

ByReference == "rhead_->Name"   \* a tag, not a name

Answers == {"answer",     \* another server's response
            "failure",    \* its error code
            "garbled",    \* a response that ParseFromArray cannot read
            "stranger"}   \* an answer under a name nobody registered: so are
                          \* those of __GameServiceSkeleton, which have its Name()

Kinds == {"login",        \* a request the service answers with a response
          "refused",      \* one it answers with an error code
          "unparsable",   \* one that ParseFromArray cannot read
          "toobig",       \* its response is longer than GetDataBuff allows
          "incomplete",   \* SerializeToArray cannot write its response
          "unknown",      \* its name is not registered
          "malformed"}    \* its lengths do not agree
         \cup Answers

ASSUME RpcAssumption ==
  /\ Kind \in [Msg -> Kinds]
  /\ None \notin Msg \cup {MethodName, ServiceName, OtherName}
  /\ OtherName # MethodName /\ ByReference # ServiceName
  /\ Skeleton \subseteq Service
  /\ Order \subseteq Seq(Service)

VARIABLES
  toAdd,      \* the services that main has still to add, in order
  added,      \* the services added, in order
  requestMap, \* requestMap_: for each name, the service that gets its requests
  respondMap, \* respondMap_: for each name, the service that gets its answers
  rhead,      \* rhead_: Name, Ret, Data, and whether Len counts any data
  databuff,   \* databuff_: the encoded head and, behind it, the data
  pc,         \* where each thread is
  msg,        \* the message it handles
  arg,        \* the Data that was passed to its service
  out,        \* the arguments of its SendRespond
  asked,      \* its service has sent a request of its own
  sent,       \* the last message sent: for which message, to whom, what
  told        \* the last call of login_cb: with which answer, code and data

services == <<toAdd, added, requestMap, respondMap>>
vars == <<services, rhead, databuff, pc, msg, arg, out, asked, sent, told>>
local == <<msg, arg, out, asked, told, services>>

\* A name too long for the head is cut short, and is sent back as it was cut;
\* names are short here.
NameOf(m) ==
  IF Kind[m] \in {"unknown", "stranger"} THEN OtherName ELSE MethodName
RetOf(m) == IF Kind[m] = "failure" THEN 7 ELSE 0

-----------------------------------------------------------------------------
Init == /\ toAdd \in Order /\ added = << >>
        /\ requestMap = << >> /\ respondMap = << >>
        /\ rhead = [name |-> None, ret |-> 0, data |-> None, len |-> "head"]
        /\ databuff = [name |-> None, ret |-> 0, data |-> None]
        /\ pc = [t \in Thread |-> "idle"]
        /\ msg = [t \in Thread |-> None]
        /\ arg = [t \in Thread |-> None]
        /\ out = [t \in Thread |-> None]
        /\ asked = [t \in Thread |-> FALSE]
        /\ sent = None /\ told = None

Goto(t, l) == pc' = [pc EXCEPT ![t] = l]

-----------------------------------------------------------------------------
(* AddService, before any thread handles messages.                         *)

\* Mutant of AddFunction: the last service gets the name.
AddFunctionLast(map, name, s) ==
  [n \in DOMAIN map \cup {name} |-> IF n = name THEN s ELSE map[n]]

\* AddRequestFunction, AddRespondFunction: a name that is taken stays.
AddFunction(map, name, s) ==
  [n \in DOMAIN map \cup {name} |-> IF n \in DOMAIN map THEN map[n] ELSE s]

\* What RegisterServiceFunction returns is not looked at, and the search for a
\* service of that name finds none: every service is accepted.
AddService ==
  /\ toAdd # << >>
  /\ toAdd' = Tail(toAdd)
  /\ added' = Append(added, Head(toAdd))
  /\ IF Head(toAdd) \in Skeleton
     THEN /\ requestMap' = AddFunction(requestMap, MethodName, Head(toAdd))
          /\ UNCHANGED respondMap
     ELSE /\ respondMap' = AddFunction(respondMap, MethodName, Head(toAdd))
          /\ UNCHANGED requestMap
  /\ UNCHANGED <<rhead, databuff, pc, msg, arg, out, asked, sent, told>>

-----------------------------------------------------------------------------
(* A request arrives.                                                      *)

\* OnRecvCliMsg and OnRecvSvrMsg call Decode, which may give up before it
\* reads the name.  (The sum 12 + nameLen is taken as an integer: that it wraps in
\* uint32_t, so that a huge nameLen passes, is left out.)
DecodeFails(t, m) ==
  /\ pc[t] = "idle" /\ Kind[m] = "malformed"
  /\ rhead' = [rhead EXCEPT !.ret = 0, !.len = "body"]
  /\ UNCHANGED <<databuff, pc, sent>> /\ UNCHANGED local

DecodeHead(m) ==
  [name |-> NameOf(m), ret |-> RetOf(m), data |-> m, len |-> "body"]

Decode(t, m) ==
  /\ pc[t] = "idle" /\ Kind[m] # "malformed"
  /\ rhead' = DecodeHead(m)
  /\ msg' = [msg EXCEPT ![t] = m]
  /\ asked' = [asked EXCEPT ![t] = FALSE]
  /\ Goto(t, IF Kind[m] \in Answers THEN "answered" ELSE "decoded")
  /\ UNCHANGED <<databuff, arg, out, sent, told, services>>

\* Mutant of Respond: error codes are sent as -1.
RespondMinusOne(t, name, ret, len) ==
  /\ out' = [out EXCEPT ![t] = [name |-> name, len |-> len,
                                ret |-> IF ret = 0 THEN 0 ELSE -1]]
  /\ Goto(t, "respond")

\* The arguments of SendRespond(..., ret, name, ...), with data or without.
Respond(t, name, ret, len) ==
  /\ out' = [out EXCEPT ![t] = [name |-> name, ret |-> ret, len |-> len]]
  /\ Goto(t, "respond")

\* OnRecvCliMsg looks the name up and passes Data on by value.
CallService(t) ==
  /\ pc[t] = "decoded" /\ rhead.name \in DOMAIN requestMap
  /\ arg' = [arg EXCEPT ![t] = rhead.data]
  /\ Goto(t, "service")
  /\ UNCHANGED <<rhead, databuff, msg, out, asked, sent, told, services>>

\* There is none of that name: SendRespond gets rhead_->Name by reference.
NoService(t) ==
  /\ pc[t] = "decoded" /\ rhead.name \notin DOMAIN requestMap
  /\ Respond(t, ByReference, 101, "head")
  /\ UNCHANGED <<rhead, databuff, msg, arg, asked, sent, told, services>>

\* process_login, the service and return_login, when there is no data to send.
ReplyWithError(t) ==
  /\ pc[t] = "service"
  /\ \E k \in {"unparsable", "refused", "toobig"} :
       /\ Kind[arg[t]] = k
       /\ Respond(t, ServiceName, IF k = "refused" THEN 7 ELSE 1, "head")
  /\ UNCHANGED <<rhead, databuff, msg, arg, asked, sent, told, services>>

\* return_login writes the response to databuff_; what SerializeToArray wrote
\* before it failed is not sent.
Serialize(t) ==
  /\ pc[t] = "service"
  /\ Kind[arg[t]] \in {"login", "incomplete"}
  /\ databuff' = [databuff EXCEPT !.data = arg[t]]
  /\ IF Kind[arg[t]] = "login"
     THEN Respond(t, ServiceName, 0, "body")
     ELSE Respond(t, ServiceName, 2, "head")
  /\ UNCHANGED <<rhead, msg, arg, asked, sent, told, services>>

\* OnRecvSvrMsg and process_login_cb: the answer goes to login_cb, unless its
\* name has no service or its data cannot be read.
CallBack(t) ==
  /\ pc[t] = "answered"
  /\ told' = IF /\ rhead.name \in DOMAIN respondMap
                /\ rhead.ret = 0 => Kind[rhead.data] # "garbled"
             THEN [for |-> msg[t], ret |-> rhead.ret,
                   data |-> IF rhead.ret = 0 THEN rhead.data ELSE None]
             ELSE told
  /\ Goto(t, "idle")
  /\ UNCHANGED <<rhead, databuff, msg, arg, out, asked, sent, services>>

-----------------------------------------------------------------------------
(* A service asks another server before it answers: the client stub.       *)

\* GameServiceClient::login writes its request to databuff_.
Ask(t) ==
  /\ pc[t] = "service" /\ ~asked[t]
  /\ Kind[arg[t]] # "unparsable"
  /\ asked' = [asked EXCEPT ![t] = TRUE]
  /\ databuff' = [databuff EXCEPT !.data = arg[t]]
  /\ Goto(t, "ask")
  /\ UNCHANGED <<rhead, msg, arg, out, sent, told, services>>

\* Mutant of EncodeHead: Ret keeps its last value.
EncodeStaleRet(name, ret, len) ==
  /\ rhead' = [rhead EXCEPT !.name = name, !.len = len]
  /\ databuff' = [databuff EXCEPT !.name = name, !.ret = rhead.ret]

EncodeHead(name, ret, len) ==
  /\ rhead' = [rhead EXCEPT !.name = name, !.ret = ret, !.len = len]
  /\ databuff' = [databuff EXCEPT !.name = name, !.ret = ret]

\* SendRequest up to its call of SendMsg.
EncodeRequest(t) ==
  /\ pc[t] = "ask"
  /\ EncodeHead(MethodName, 0, "body")
  /\ Goto(t, "ask-send")
  /\ UNCHANGED sent /\ UNCHANGED local

-----------------------------------------------------------------------------
(* Sending.                                                                *)

\* SendRespond up to its call of SendMsg.
EncodeRespond(t) ==
  /\ pc[t] = "respond"
  /\ EncodeHead(IF out[t].name = ByReference THEN rhead.name ELSE out[t].name,
                out[t].ret, out[t].len)
  /\ Goto(t, "send")
  /\ UNCHANGED sent /\ UNCHANGED local

\* SendMsg copies rhead_->Len bytes out of databuff_.
Send(t) ==
  /\ pc[t] \in {"send", "ask-send"}
  /\ sent' = [for  |-> msg[t], to |-> IF pc[t] = "send" THEN "asker" ELSE "server",
              name |-> databuff.name, ret |-> databuff.ret,
              data |-> IF rhead.len = "body" THEN databuff.data ELSE None]
  /\ Goto(t, IF pc[t] = "send" THEN "idle" ELSE "service")
  /\ UNCHANGED <<rhead, databuff>> /\ UNCHANGED local

-----------------------------------------------------------------------------
Handle(t) == \/ CallService(t) \/ NoService(t) \/ ReplyWithError(t)
             \/ Serialize(t) \/ Ask(t) \/ EncodeRequest(t)
             \/ EncodeRespond(t) \/ Send(t) \/ CallBack(t)

Arrive(t, m) == DecodeFails(t, m) \/ Decode(t, m)

Next == \/ AddService
        \/ \E t \in Thread : \/ Handle(t)
                             \/ toAdd = << >> /\ \E m \in Msg : Arrive(t, m)

Spec == Init /\ [][Next]_vars

-----------------------------------------------------------------------------
(* Properties.                                                             *)

Name == {MethodName, ServiceName, OtherName}
Ret == {0, 1, 2, 7, 101}

TypeOK ==
  /\ toAdd \in Seq(Service) /\ added \in Seq(Service)
  /\ rhead \in [name : Name \cup {None}, ret : Ret, data : Msg \cup {None},
                len : {"head", "body"}]
  /\ databuff \in [name : Name \cup {None}, ret : Ret, data : Msg \cup {None}]
  /\ pc \in [Thread -> {"idle", "decoded", "answered", "service", "ask",
                        "ask-send", "respond", "send"}]
  /\ msg \in [Thread -> Msg \cup {None}]
  /\ arg \in [Thread -> Msg \cup {None}]
  /\ out \in [Thread -> [name : {ServiceName, ByReference}, ret : Ret,
                         len : {"head", "body"}] \cup {None}]
  /\ asked \in [Thread -> BOOLEAN]

\* The reply each kind of request is meant to get.
Reply(m) ==
  IF NameOf(m) \notin DOMAIN requestMap
  THEN [name |-> NameOf(m), ret |-> 101, data |-> None]
  ELSE CASE Kind[m] = "login"      -> [name |-> ServiceName, ret |-> 0, data |-> m]
         [] Kind[m] = "refused"    -> [name |-> ServiceName, ret |-> 7, data |-> None]
         [] Kind[m] = "unparsable" -> [name |-> ServiceName, ret |-> 1, data |-> None]
         [] Kind[m] = "toobig"     -> [name |-> ServiceName, ret |-> 1, data |-> None]
         [] Kind[m] = "incomplete" -> [name |-> ServiceName, ret |-> 2, data |-> None]

\* Every reply has the name, the code and the data meant for the request it
\* answers, and every request a service sends its own: no trace of another
\* message in the shared head and buffer.
ReplyMatches ==
  sent # None =>
    LET content == [name |-> sent.name, ret |-> sent.ret, data |-> sent.data]
    IN IF sent.to = "asker" THEN content = Reply(sent.for)
       ELSE content = [name |-> MethodName, ret |-> 0, data |-> sent.for]

\* login_cb is told the code and the data of one answer: none of them is left
\* from the request it belongs to, or from another answer.
CallBackMatches ==
  told # None =>
    /\ Kind[told.for] \in {"answer", "failure"}
    /\ told.ret = RetOf(told.for)
    /\ told.data = IF told.ret = 0 THEN told.for ELSE None

\* Where two services offer the same method, the first one added keeps it, on
\* either side: AddRequestFunction and AddRespondFunction refuse the second,
\* though AddService says it was added.
FirstServiceWins ==
  \A i \in DOMAIN added :
    LET Side(s) == s \in Skeleton
        map == IF Side(added[i]) THEN requestMap ELSE respondMap
    IN (\A j \in 1 .. i - 1 : Side(added[j]) # Side(added[i]))
         => map[MethodName] = added[i]

-----------------------------------------------------------------------------
(* The inductive invariant for one thread (SINGLE mode).                   *)

OneThread == \A t, u \in Thread : t = u

Arguments == [name : {ServiceName, ByReference}, ret : Ret, len : {"head", "body"}]
Encoding == \A t \in Thread : pc[t] = "respond" => out[t] \in Arguments

\* While services are added nothing has been handled, and a map has the one
\* name from the first service of its side on.
AddedFirst ==
  toAdd # << >> => /\ \A t \in Thread : pc[t] = "idle"
                   /\ sent = None /\ told = None
MapsFollow ==
  /\ DOMAIN requestMap = {n \in {MethodName} : \E i \in DOMAIN added : added[i] \in Skeleton}
  /\ DOMAIN respondMap = {n \in {MethodName} : \E i \in DOMAIN added : added[i] \notin Skeleton}

\* What the head and the buffer hold belongs to the message in hand, from the
\* place on where it was put there.
HeadIsOf(m) == rhead.name = NameOf(m) /\ rhead.ret = RetOf(m) /\ rhead.data = m
Encoded(l) == [name |-> databuff.name, ret |-> databuff.ret,
               data |-> IF l = "body" THEN databuff.data ELSE None]
InHand(t) ==
  LET m == msg[t] IN
  /\ pc[t] # "idle" => m \in Msg /\ (Kind[m] \in Answers <=> pc[t] = "answered")
  /\ pc[t] \in {"decoded", "answered"} => HeadIsOf(m)
  /\ pc[t] \in {"service", "ask", "ask-send"} =>
       arg[t] = m /\ NameOf(m) \in DOMAIN requestMap
  /\ pc[t] \in {"ask", "ask-send"} => databuff.data = m
  /\ pc[t] = "ask-send" =>
       Encoded(rhead.len) = [name |-> MethodName, ret |-> 0, data |-> m]
  /\ pc[t] = "respond" =>
       [name |-> IF out[t].name = ByReference THEN rhead.name ELSE out[t].name,
        ret  |-> out[t].ret,
        data |-> IF out[t].len = "body" THEN databuff.data ELSE None] = Reply(m)
  /\ pc[t] = "send" => Encoded(rhead.len) = Reply(m)

IInv == /\ TypeOK /\ Encoding
        /\ AddedFirst /\ MapsFollow
        /\ \A t \in Thread : InHand(t)
=============================================================================
