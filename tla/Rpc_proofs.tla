------------------------------ MODULE Rpc_proofs ------------------------------
(***************************************************************************)
(* Requests and replies through the one head and the one buffer of an      *)
(* IRpc: for any messages, and any services in any order.  The types and   *)
(* which service gets a method hold for any threads, the content of what   *)
(* is sent for the one thread of SINGLE mode.                              *)
(***************************************************************************)
EXTENDS Rpc, SequenceTheorems, TLAPS

Pc == {"idle", "decoded", "answered", "service", "ask", "ask-send", "respond",
       "send"}
Length == {"head", "body"}

(* What a message says in its head.                                        *)
LEMMA Heads ==
  ASSUME NEW m \in Msg
  PROVE  NameOf(m) \in Name /\ RetOf(m) \in Ret
  BY DEF NameOf, RetOf, Name, Ret

LEMMA TypeStep ==
  ASSUME TypeOK, Encoding, [Next]_vars
  PROVE  TypeOK' /\ Encoding'
<1> USE DEF TypeOK, Encoding, Arguments, local, services, Goto
<1>1. CASE AddService
  <2>1. /\ Tail(toAdd) \in Seq(Service) /\ Append(added, Head(toAdd)) \in Seq(Service)
    BY <1>1, HeadTailProperties, AppendProperties DEF AddService
  <2> QED BY <1>1, <2>1 DEF AddService
<1>2. ASSUME NEW t \in Thread, NEW m \in Msg, Arrive(t, m) PROVE TypeOK' /\ Encoding'
  <2>1. CASE DecodeFails(t, m)
    BY <2>1 DEF DecodeFails, Ret
  <2>2. CASE Decode(t, m)
    BY <2>2, Heads DEF Decode, DecodeHead
  <2> QED BY <1>2, <2>1, <2>2 DEF Arrive
<1>3. ASSUME NEW t \in Thread, Handle(t) PROVE TypeOK' /\ Encoding'
  <2>1. CASE CallService(t)
    BY <2>1 DEF CallService
  <2>2. CASE NoService(t) \/ ReplyWithError(t) \/ Serialize(t)
    <3>1. PICK n \in {ServiceName, ByReference}, r \in Ret, l \in Length :
            Respond(t, n, r, l)
      BY <2>2 DEF NoService, ReplyWithError, Serialize, Ret, Length
    <3>2. [name |-> n, ret |-> r, len |-> l] \in Arguments
      BY DEF Length
    <3>3. /\ out' \in [Thread -> Arguments \cup {None}]
          /\ \A u \in Thread : pc'[u] = "respond" => out'[u] \in Arguments
      BY <3>1, <3>2 DEF Respond
    <3>4. pc' \in [Thread -> Pc]
      BY <3>1 DEF Respond, Pc
    <3>5. databuff' \in [name : Name \cup {None}, ret : Ret, data : Msg \cup {None}]
      BY <2>2 DEF NoService, ReplyWithError, Serialize
    <3>6. UNCHANGED <<rhead, msg, arg, asked, toAdd, added>>
      BY <2>2 DEF NoService, ReplyWithError, Serialize
    <3> QED BY <3>3, <3>4, <3>5, <3>6 DEF Pc
  <2>4. CASE Ask(t)
    BY <2>4 DEF Ask
  <2>5. CASE EncodeRequest(t)
    <3>1. /\ rhead' = [rhead EXCEPT !.name = MethodName, !.ret = 0, !.len = "body"]
          /\ databuff' = [databuff EXCEPT !.name = MethodName, !.ret = 0]
          /\ pc' = [pc EXCEPT ![t] = "ask-send"]
          /\ UNCHANGED <<msg, arg, out, asked, toAdd, added>>
      BY <2>5 DEF EncodeRequest, EncodeHead
    <3>2. MethodName \in Name /\ 0 \in Ret
      BY DEF Name, Ret
    <3> QED BY <3>1, <3>2
  <2>6. CASE EncodeRespond(t)
    <3>1. out[t] \in Arguments
      BY <2>6 DEF EncodeRespond
    <3> QED BY <2>6, <3>1 DEF EncodeRespond, EncodeHead, Name
  <2>7. CASE Send(t) \/ CallBack(t)
    BY <2>7 DEF Send, CallBack
  <2> QED BY <1>3, <2>1, <2>2, <2>4, <2>5, <2>6, <2>7 DEF Handle
<1>4. CASE UNCHANGED vars
  BY <1>4 DEF vars
<1> QED BY <1>1, <1>2, <1>3, <1>4 DEF Next

(* The services: whoever handles messages, no message is handled while they *)
(* are added, and the maps say who was first.                               *)
ServicesInv == AddedFirst /\ MapsFollow /\ FirstServiceWins

LEMMA ServicesStep ==
  ASSUME TypeOK, ServicesInv, [Next]_vars
  PROVE  ServicesInv'
<1> USE DEF ServicesInv
<1>1. CASE AddService
  <2> DEFINE s == Head(toAdd)
  <2>1. /\ s \in Service /\ added \in Seq(Service) /\ Len(added) \in Nat
        /\ toAdd # << >>
        /\ added' = Append(added, s)
        /\ UNCHANGED <<pc, sent, told>>
    BY <1>1, HeadTailProperties, LenProperties DEF AddService, TypeOK
  <2>2. /\ DOMAIN added = 1 .. Len(added)
        /\ DOMAIN added' = 1 .. Len(added) + 1
        /\ \A i \in DOMAIN added : i \in DOMAIN added' /\ added'[i] = added[i]
        /\ Len(added) + 1 \in DOMAIN added' /\ added'[Len(added) + 1] = s
        /\ \A i \in DOMAIN added' : i \in DOMAIN added \/ i = Len(added) + 1
    BY <2>1, AppendProperties, LenProperties
  <2>3. AddedFirst'
    BY <2>1 DEF AddedFirst
  <2>4. \/ /\ s \in Skeleton /\ respondMap' = respondMap
           /\ requestMap' = AddFunction(requestMap, MethodName, s)
        \/ /\ s \notin Skeleton /\ requestMap' = requestMap
           /\ respondMap' = AddFunction(respondMap, MethodName, s)
    BY <1>1 DEF AddService
  <2> HIDE DEF s
  <2>5. MapsFollow'
    <3>1. (\E i \in DOMAIN added' : added'[i] \in Skeleton)
            <=> s \in Skeleton \/ \E i \in DOMAIN added : added[i] \in Skeleton
      BY <2>2
    <3>2. (\E i \in DOMAIN added' : added'[i] \notin Skeleton)
            <=> s \notin Skeleton \/ \E i \in DOMAIN added : added[i] \notin Skeleton
      BY <2>2
    <3> QED BY <2>4, <3>1, <3>2 DEF MapsFollow, AddFunction
  <2>6. FirstServiceWins'
    <3> DEFINE Same(x, y) == x \in Skeleton <=> y \in Skeleton
               Map(x) == IF x \in Skeleton THEN requestMap ELSE respondMap
               NewMap(x) == IF x \in Skeleton THEN requestMap' ELSE respondMap'
    <3> SUFFICES ASSUME NEW i \in DOMAIN added',
                        \A j \in 1 .. i - 1 : ~Same(added'[j], added'[i])
                 PROVE  NewMap(added'[i])[MethodName] = added'[i]
      BY DEF FirstServiceWins
    <3>1. \A x : /\ MethodName \in DOMAIN Map(x)
                      <=> \E j \in DOMAIN added : Same(added[j], x)
                 /\ NewMap(x) = IF Same(s, x) THEN AddFunction(Map(x), MethodName, s)
                                              ELSE Map(x)
      BY <2>4 DEF MapsFollow, ServicesInv
    <3>2. CASE i \in DOMAIN added
      <4>1. \A j \in 1 .. i - 1 : j \in DOMAIN added /\ ~Same(added[j], added[i])
        BY <2>1, <2>2, <3>2
      <4>2. Map(added[i])[MethodName] = added[i]
        BY <3>2, <4>1 DEF FirstServiceWins
      <4>3. MethodName \in DOMAIN Map(added[i])
        BY <3>1, <3>2
      <4> HIDE DEF Map, NewMap, Same
      <4>4. NewMap(added[i])[MethodName] = Map(added[i])[MethodName]
        BY <3>1, <4>3 DEF AddFunction
      <4> QED BY <2>2, <3>2, <4>2, <4>4
    <3>3. CASE i = Len(added) + 1
      <4>1. added'[i] = s /\ \A j \in DOMAIN added : ~Same(added[j], s)
        BY <2>1, <2>2, <3>3
      <4>2. MethodName \notin DOMAIN Map(s) /\ Same(s, s)
        BY <3>1, <4>1
      <4> HIDE DEF Map, NewMap, Same
      <4> QED BY <3>1, <4>1, <4>2 DEF AddFunction
    <3> QED BY <2>2, <3>2, <3>3
  <2> QED BY <2>3, <2>5, <2>6
<1>2. ASSUME UNCHANGED services,
             toAdd = << >> \/ UNCHANGED <<pc, sent, told>>
      PROVE  ServicesInv'
  BY <1>2 DEF services, AddedFirst, MapsFollow, FirstServiceWins
<1>3. ASSUME NEW t \in Thread, toAdd = << >>, NEW m \in Msg, Arrive(t, m)
      PROVE  ServicesInv'
  BY <1>2, <1>3 DEF Arrive, DecodeFails, Decode, local
<1>4. ASSUME NEW t \in Thread, Handle(t) PROVE ServicesInv'
  <2>1. pc[t] # "idle"
    BY <1>4 DEF Handle, CallService, NoService, ReplyWithError, Serialize, Ask,
                EncodeRequest, EncodeRespond, Send, CallBack
  <2>2. toAdd = << >>
    BY <2>1 DEF AddedFirst
  <2>3. UNCHANGED services
    BY <1>4 DEF Handle, CallService, NoService, ReplyWithError, Serialize, Ask,
                EncodeRequest, EncodeRespond, Send, CallBack, local
  <2> QED BY <1>2, <2>2, <2>3
<1>5. CASE UNCHANGED vars
  BY <1>2, <1>5 DEF vars, services
<1> QED BY <1>1, <1>3, <1>4, <1>5 DEF Next

LEMMA InitInv == Init => TypeOK /\ Encoding /\ ServicesInv
<1> SUFFICES ASSUME Init PROVE TypeOK /\ Encoding /\ ServicesInv
  OBVIOUS
<1>1. toAdd \in Seq(Service) /\ added \in Seq(Service)
  BY RpcAssumption DEF Init
<1>2. TypeOK
  BY <1>1 DEF Init, TypeOK, Ret
<1>3. Encoding
  BY DEF Init, Encoding
<1>4. DOMAIN added = {}
  BY DEF Init
<1>5. DOMAIN requestMap = {} /\ DOMAIN respondMap = {}
  BY DEF Init
<1>6. AddedFirst
  BY DEF Init, AddedFirst
<1>7. MapsFollow
  BY <1>4, <1>5 DEF MapsFollow
<1>8. FirstServiceWins
  BY <1>4 DEF FirstServiceWins
<1> QED BY <1>2, <1>3, <1>6, <1>7, <1>8 DEF ServicesInv

LEMMA ServicesInvariant == Spec => [](TypeOK /\ Encoding /\ ServicesInv)
<1>1. TypeOK /\ Encoding /\ ServicesInv /\ [Next]_vars
        => (TypeOK /\ Encoding /\ ServicesInv)'
  BY TypeStep, ServicesStep
<1> QED BY <1>1, InitInv, PTL DEF Spec

(* Every variable keeps its type, whatever threads share the head.          *)
THEOREM TypesKept == Spec => []TypeOK
  BY ServicesInvariant, PTL

(* The first service added keeps a method, on either side, whatever          *)
(* services are added in what order.                                         *)
THEOREM FirstWins == Spec => []FirstServiceWins
<1>1. ServicesInv => FirstServiceWins
  BY DEF ServicesInv
<1> QED BY <1>1, ServicesInvariant, PTL

-----------------------------------------------------------------------------
(* One thread: the head and the buffer are its message's.                   *)

SingleInv == /\ IInv /\ FirstServiceWins
             /\ ReplyMatches /\ CallBackMatches

LEMMA OwnMessage ==
  ASSUME OneThread, SingleInv, NEW t \in Thread, Handle(t)
  PROVE  InHand(t)' /\ ReplyMatches' /\ CallBackMatches'
<1> DEFINE m == msg[t]
<1>1. /\ pc \in [Thread -> Pc]
      /\ msg \in [Thread -> Msg \cup {None}] /\ arg \in [Thread -> Msg \cup {None}]
      /\ out \in [Thread -> Arguments \cup {None}]
      /\ databuff \in [name : Name \cup {None}, ret : Ret, data : Msg \cup {None}]
      /\ rhead \in [name : Name \cup {None}, ret : Ret, data : Msg \cup {None},
                    len : {"head", "body"}]
  BY DEF SingleInv, IInv, TypeOK, Pc, Arguments
<1>2. InHand(t) /\ ReplyMatches /\ CallBackMatches
  BY DEF SingleInv, IInv
<1>3. UNCHANGED <<toAdd, added, requestMap, respondMap>>
  BY DEF Handle, CallService, NoService, ReplyWithError, Serialize, Ask,
         EncodeRequest, EncodeRespond, Send, CallBack, local, services
<1>4. \A x : Reply(x)' = Reply(x)
  BY <1>3 DEF Reply
<1>5. msg' = msg
  BY DEF Handle, CallService, NoService, ReplyWithError, Serialize, Ask,
         EncodeRequest, EncodeRespond, Send, CallBack, local
<1>6. m \in Msg
  BY <1>2 DEF InHand, Handle, CallService, NoService, ReplyWithError, Serialize,
              Ask, EncodeRequest, EncodeRespond, Send, CallBack
<1>7. ASSUME sent' = sent PROVE ReplyMatches'
  BY <1>2, <1>4, <1>7 DEF ReplyMatches
<1>8. ASSUME told' = told PROVE CallBackMatches'
  BY <1>2, <1>8 DEF CallBackMatches
<1>9. CASE CallService(t)
  <2>1. InHand(t)'
    BY <1>1, <1>2, <1>3, <1>5, <1>9 DEF InHand, CallService, Goto, HeadIsOf
  <2> QED BY <1>7, <1>8, <1>9, <2>1 DEF CallService
<1>10. CASE NoService(t)
  <2>1. /\ pc'[t] = "respond" /\ out'[t] = [name |-> ByReference, ret |-> 101, len |-> "head"]
        /\ Reply(m) = [name |-> rhead.name, ret |-> 101, data |-> None]
        /\ rhead' = rhead /\ Kind[m] \notin Answers
    BY <1>1, <1>2, <1>10 DEF InHand, NoService, Respond, Goto, HeadIsOf, Reply
  <2>2. InHand(t)'
    BY <1>4, <1>5, <1>6, <2>1 DEF InHand
  <2> QED BY <1>7, <1>8, <1>10, <2>2 DEF NoService
<1>11. CASE ReplyWithError(t)
  <2>1. /\ pc'[t] = "respond" /\ Kind[m] \notin Answers
        /\ out'[t] = [name |-> ServiceName, ret |-> Reply(m).ret, len |-> "head"]
        /\ Reply(m) = [name |-> ServiceName, ret |-> Reply(m).ret, data |-> None]
    BY <1>1, <1>2, <1>11 DEF InHand, ReplyWithError, Respond, Goto, Reply
  <2>2. InHand(t)'
    BY <1>4, <1>5, <1>6, <2>1, RpcAssumption DEF InHand
  <2> QED BY <1>7, <1>8, <1>11, <2>2 DEF ReplyWithError
<1>12. CASE Serialize(t)
  <2>1. /\ pc'[t] = "respond" /\ Kind[m] \notin Answers /\ databuff'.data = m
        /\ out'[t].name = ServiceName /\ out'[t].ret = Reply(m).ret
        /\ Reply(m) = [name |-> ServiceName, ret |-> Reply(m).ret,
                       data |-> IF out'[t].len = "body" THEN m ELSE None]
    BY <1>1, <1>2, <1>12 DEF InHand, Serialize, Respond, Goto, Reply
  <2>2. InHand(t)'
    BY <1>4, <1>5, <1>6, <2>1, RpcAssumption DEF InHand
  <2> QED BY <1>7, <1>8, <1>12, <2>2 DEF Serialize
<1>13. CASE Ask(t)
  <2>1. InHand(t)'
    BY <1>1, <1>2, <1>3, <1>5, <1>13 DEF InHand, Ask, Goto
  <2> QED BY <1>7, <1>8, <1>13, <2>1 DEF Ask
<1>14. CASE EncodeRequest(t)
  <2>1. InHand(t)'
    BY <1>1, <1>2, <1>3, <1>5, <1>14
       DEF InHand, EncodeRequest, EncodeHead, Goto, local, Encoded
  <2> QED BY <1>7, <1>8, <1>14, <2>1 DEF EncodeRequest, local
<1>15. CASE EncodeRespond(t)
  <2>1. InHand(t)'
    BY <1>1, <1>2, <1>4, <1>5, <1>6, <1>15
       DEF InHand, EncodeRespond, EncodeHead, Goto, local, Encoded
  <2> QED BY <1>7, <1>8, <1>15, <2>1 DEF EncodeRespond, local
<1>16. CASE Send(t)
  <2>1. InHand(t)'
    BY <1>1, <1>2, <1>3, <1>5, <1>16 DEF InHand, Send, Goto, local
  <2>2. ReplyMatches'
    <3>1. /\ sent' = [for |-> m, to |-> sent'.to, name |-> Encoded(rhead.len).name,
                      ret |-> Encoded(rhead.len).ret, data |-> Encoded(rhead.len).data]
          /\ sent'.to = "asker" => pc[t] = "send"
          /\ sent'.to # "asker" => pc[t] = "ask-send"
      BY <1>16 DEF Send, Encoded
    <3>2. [name |-> sent'.name, ret |-> sent'.ret, data |-> sent'.data] = Encoded(rhead.len)
      BY <3>1 DEF Encoded
    <3> QED BY <1>2, <1>4, <3>1, <3>2 DEF InHand, ReplyMatches
  <2> QED BY <1>8, <1>16, <2>1, <2>2 DEF Send, local
<1>17. CASE CallBack(t)
  <2>1. InHand(t)'
    BY <1>1, <1>2, <1>3, <1>5, <1>17 DEF InHand, CallBack, Goto
  <2>2. CallBackMatches'
    <3>1. /\ HeadIsOf(m) /\ Kind[m] \in Answers
      BY <1>2, <1>17 DEF InHand, CallBack
    <3>2. rhead.name \in DOMAIN respondMap => Kind[m] # "stranger"
      BY <3>1, RpcAssumption DEF HeadIsOf, NameOf, SingleInv, IInv, MapsFollow
    <3>3. \/ told' = told
          \/ /\ told' = [for |-> m, ret |-> RetOf(m),
                          data |-> IF RetOf(m) = 0 THEN m ELSE None]
             /\ Kind[m] # "stranger" /\ (RetOf(m) = 0 => Kind[m] # "garbled")
      BY <1>17, <3>1, <3>2 DEF CallBack, HeadIsOf
    <3>4. CASE told' = told
      BY <1>8, <3>4
    <3>5. CASE told' # told
      BY <3>1, <3>3, <3>5 DEF CallBackMatches, RetOf, Answers
    <3> QED BY <3>4, <3>5
  <2> QED BY <1>7, <1>17, <2>1, <2>2 DEF CallBack
<1> QED
  BY <1>9, <1>10, <1>11, <1>12, <1>13, <1>14, <1>15, <1>16, <1>17 DEF Handle

LEMMA SingleStep ==
  ASSUME OneThread, SingleInv, [Next]_vars
  PROVE  SingleInv'
<1>1. TypeOK' /\ Encoding'
  BY TypeStep DEF SingleInv, IInv
<1>2. ServicesInv'
  BY ServicesStep DEF SingleInv, IInv, ServicesInv
<1> SUFFICES (\A t \in Thread : InHand(t)') /\ ReplyMatches' /\ CallBackMatches'
  BY <1>1, <1>2 DEF SingleInv, IInv, ServicesInv
<1>3. /\ \A t \in Thread : InHand(t)
      /\ ReplyMatches /\ CallBackMatches /\ AddedFirst
      /\ pc \in [Thread -> Pc] /\ msg \in [Thread -> Msg \cup {None}]
  BY DEF SingleInv, IInv, TypeOK, Pc
<1>4. CASE AddService
  <2>1. /\ \A t \in Thread : pc'[t] = "idle"
        /\ sent' = None /\ told' = None
    BY <1>3, <1>4 DEF AddService, AddedFirst
  <2> QED BY <2>1 DEF InHand, ReplyMatches, CallBackMatches
<1>5. ASSUME NEW t \in Thread, NEW m \in Msg, Arrive(t, m)
      PROVE  (\A u \in Thread : InHand(u)') /\ ReplyMatches' /\ CallBackMatches'
  <2>1. UNCHANGED <<requestMap, sent, told>>
    BY <1>5 DEF Arrive, DecodeFails, Decode, local, services
  <2>2. ReplyMatches' /\ CallBackMatches'
    BY <1>3, <2>1 DEF ReplyMatches, Reply, CallBackMatches
  <2>3. CASE DecodeFails(t, m)
    <3>1. pc'[t] = "idle"
      BY <2>3 DEF DecodeFails
    <3>2. InHand(t)'
      BY <3>1 DEF InHand
    <3> QED BY <2>2, <3>2 DEF OneThread
  <2>4. CASE Decode(t, m)
    <3>1. /\ msg'[t] = m /\ HeadIsOf(m)'
          /\ pc'[t] = IF Kind[m] \in Answers THEN "answered" ELSE "decoded"
      BY <1>3, <2>4 DEF Decode, DecodeHead, HeadIsOf, Goto
    <3>2. InHand(t)'
      BY <3>1 DEF InHand
    <3> QED BY <2>2, <3>2 DEF OneThread
  <2> QED BY <1>5, <2>3, <2>4 DEF Arrive
<1>6. ASSUME NEW t \in Thread, Handle(t)
      PROVE  (\A u \in Thread : InHand(u)') /\ ReplyMatches' /\ CallBackMatches'
  BY <1>6, OwnMessage DEF OneThread
<1>7. CASE UNCHANGED vars
  <2>1. UNCHANGED <<rhead, databuff, pc, msg, arg, out, sent, told, requestMap>>
    BY <1>7 DEF vars, services
  <2>2. \A m : Reply(m)' = Reply(m)
    BY <2>1 DEF Reply
  <2>3. \A m, l : HeadIsOf(m)' = HeadIsOf(m) /\ Encoded(l)' = Encoded(l)
    BY <2>1 DEF HeadIsOf, Encoded
  <2>4. \A t \in Thread : InHand(t)'
    BY <1>3, <2>1, <2>2, <2>3 DEF InHand
  <2>5. ReplyMatches' /\ CallBackMatches'
    BY <1>3, <2>1, <2>2 DEF ReplyMatches, CallBackMatches
  <2> QED BY <2>4, <2>5
<1> QED BY <1>4, <1>5, <1>6, <1>7 DEF Next

LEMMA SingleInvariant == ASSUME OneThread PROVE Spec => []SingleInv
<1>1. Init => SingleInv
  <2> SUFFICES ASSUME Init PROVE SingleInv
    OBVIOUS
  <2>1. (\A t \in Thread : InHand(t)) /\ ReplyMatches /\ CallBackMatches
    BY DEF Init, InHand, ReplyMatches, CallBackMatches
  <2> QED BY <2>1, InitInv DEF SingleInv, IInv, ServicesInv
<1>2. SingleInv /\ [Next]_vars => SingleInv'
  BY SingleStep
<1> QED BY <1>1, <1>2, PTL DEF Spec

(* In one thread, what the head and the buffer hold belongs to the message   *)
(* in hand, from where it was put there to where it is used.                 *)
THEOREM HeadOwned == ASSUME OneThread PROVE Spec => []IInv
<1>1. SingleInv => IInv
  BY DEF SingleInv
<1> QED BY <1>1, SingleInvariant, PTL

(* In one thread every reply has the name, the code and the data of the      *)
(* request it answers, and every request a service sends its own.            *)
THEOREM RepliesMatch == ASSUME OneThread PROVE Spec => []ReplyMatches
<1>1. SingleInv => ReplyMatches
  BY DEF SingleInv
<1> QED BY <1>1, SingleInvariant, PTL

(* In one thread a callback is told the code and the data of one answer.     *)
THEOREM CallBacksMatch == ASSUME OneThread PROVE Spec => []CallBackMatches
<1>1. SingleInv => CallBackMatches
  BY DEF SingleInv
<1> QED BY <1>1, SingleInvariant, PTL
=============================================================================
