---------------------------- MODULE SyncRpcProofs ------------------------------
(***************************************************************************)
(* Theorems about SyncRpc, for every set of programs and topics and every  *)
(* number of rounds.                                                       *)
(***************************************************************************)
EXTENDS SyncRpc, QueueLemmas

(***************************************************************************)
(* Where the call of a client is.  A reply to a get holds a value that was *)
(* known when the call was made, or a later one.                           *)
(***************************************************************************)
GetCall(k) == [funcname |-> "get", topic |-> Reads[k], payload |-> NoBody]
SetCall(k) == [funcname |-> "set", topic |-> Writes[k], payload |-> round[k] + 1]
GetReply(v) == [funcname |-> "get", payload |-> v]
SetReply == [funcname |-> "set", payload |-> NoBody]

\* The types of the calls and of the replies.
CallMsgs == [funcname : {"get", "set"}, topic : Topics, payload : Values \cup {NoBody}]
ReplyMsgs == [funcname : {"get", "set"}, payload : Values \cup {NoBody}]

Calling(k, call) == requests[k] = <<call>> /\ replies[k] = <<>>
Answered(k, reply) == requests[k] = <<>> /\ replies[k] = <<reply>>

Idle(k) == requests[k] = <<>> /\ replies[k] = <<>>

Getting(k) ==
    /\ Reads[k] \in Topics
    /\ floor[k] <= msgMap[Reads[k]]
    /\ \/ Calling(k, GetCall(k))
       \/ \E v \in Values : /\ Answered(k, GetReply(v))
                            /\ floor[k] <= v /\ v <= msgMap[Reads[k]]

Setting(k) ==
    /\ Writes[k] \in Topics
    /\ payload[k] = round[k] + 1
    /\ Calling(k, SetCall(k)) \/ Answered(k, SetReply)

HasRead(k) ==
    /\ floor[k] <= payload[k]
    /\ payload[k] > 0 => Reads[k] \in Topics /\ payload[k] <= msgMap[Reads[k]]

CallInv(k) ==
    /\ pc[k] \in {"get", "set", "done"} => Idle(k)
    /\ pc[k] = "getting" => Getting(k)
    /\ pc[k] = "set" => HasRead(k)
    /\ pc[k] = "setting" => Setting(k)
    /\ pc[k] # "done" => round[k] < Rounds

(***************************************************************************)
(* What the server has stored is what the writer of the topic has sent, up *)
(* to a set that has not arrived; nobody knows anything later.             *)
(***************************************************************************)
Stored(k) == IF pc[k] = "setting" /\ requests[k] = <<>> THEN round[k] + 1 ELSE round[k]

TopicInv(t) ==
    /\ known[t] <= msgMap[t]
    /\ \A k \in Clients : Writes[k] = t => msgMap[t] = Stored(k)
    /\ (\A k \in Clients : Writes[k] # t) => msgMap[t] = 0

RpcInv ==
    /\ TypeOK
    /\ \A k \in Clients : CallInv(k)
    /\ \A t \in Topics : TopicInv(t)

\* The invariant says what the checked properties say.
LEMMA InvProperties == RpcInv => RepliesMatchCalls /\ ReadsAreFresh
  <1> SUFFICES ASSUME RpcInv PROVE RepliesMatchCalls /\ ReadsAreFresh
    OBVIOUS
  <1>1. ASSUME NEW k \in Clients, NEW i \in DOMAIN replies[k]
        PROVE  /\ replies[k][i].funcname = "get" <=> pc[k] = "getting"
               /\ replies[k][i].funcname = "set" <=> pc[k] = "setting"
               /\ replies[k][i].payload = NoBody <=> pc[k] = "setting"
    <2>1. replies[k] # <<>> /\ pc[k] \in {"get", "getting", "set", "setting", "done"}
      BY <1>1 DEF RpcInv, TypeOK
    <2>2. CASE pc[k] = "getting"
      <3> PICK v \in Values : replies[k] = <<GetReply(v)>>
        BY <2>1, <2>2 DEF RpcInv, CallInv, Getting, Calling, Answered
      <3>1. i = 1 /\ replies[k][i] = GetReply(v)
        OBVIOUS
      <3>2. v # NoBody
        BY RoundsAssumption DEF Values
      <3> QED
        BY <2>2, <3>1, <3>2 DEF GetReply
    <2>3. CASE pc[k] = "setting"
      <3>1. replies[k] = <<SetReply>>
        BY <2>1, <2>3 DEF RpcInv, CallInv, Setting, Calling, Answered
      <3>2. i = 1 /\ replies[k][i] = SetReply
        BY <3>1
      <3> QED
        BY <2>3, <3>2 DEF SetReply
    <2> QED
      BY <2>1, <2>2, <2>3 DEF RpcInv, CallInv, Idle
  <1>2. ASSUME NEW k \in Clients, pc[k] = "set"
        PROVE  /\ payload[k] >= floor[k]
               /\ payload[k] > 0 =>
                    \E w \in Clients : Writes[w] = Reads[k] /\ payload[k] <= Published(w)
    <2>1. HasRead(k) /\ payload[k] \in Values /\ floor[k] \in Values
      BY <1>2 DEF RpcInv, CallInv, TypeOK
    <2>2. ASSUME payload[k] > 0
          PROVE  \E w \in Clients : Writes[w] = Reads[k] /\ payload[k] <= Published(w)
      <3>1. /\ Reads[k] \in Topics /\ payload[k] <= msgMap[Reads[k]]
            /\ TopicInv(Reads[k]) /\ msgMap[Reads[k]] \in Values
        BY <2>1, <2>2 DEF HasRead, RpcInv, TypeOK
      <3>2. msgMap[Reads[k]] # 0
        BY <2>1, <2>2, <3>1 DEF Values
      <3> PICK w \in Clients : Writes[w] = Reads[k] /\ msgMap[Reads[k]] = Stored(w)
        BY <3>1, <3>2 DEF TopicInv
      <3>3. Stored(w) <= Published(w)
        BY DEF Stored, Published, RpcInv, TypeOK
      <3>4. payload[k] <= Published(w)
        BY <2>1, <3>1, <3>3 DEF Values, Published, RpcInv, TypeOK
      <3> QED
        BY <3>4
    <2> QED
      BY <2>1, <2>2 DEF HasRead, Values
  <1> QED
    BY <1>1, <1>2 DEF RepliesMatchCalls, ReadsAreFresh

LEMMA RpcInit == Init => RpcInv
  <1> SUFFICES ASSUME Init PROVE RpcInv
    OBVIOUS
  <1>1. TypeOK
    BY RoundsAssumption DEF Init, TypeOK, Values
  <1>2. ASSUME NEW k \in Clients PROVE CallInv(k)
    <2>1. pc[k] = "get" /\ Idle(k) /\ round[k] = 0 /\ 0 < Rounds
      BY RoundsAssumption DEF Init, Idle
    <2> QED
      BY <2>1 DEF CallInv
  <1>3. \A t \in Topics : TopicInv(t)
    BY DEF Init, TopicInv, Stored
  <1> QED
    BY <1>1, <1>2, <1>3 DEF RpcInv

--------------------------------------------------------------------------------
\* What the invariant says of one client and one topic.
LEMMA RpcFacts ==
    ASSUME RpcInv, NEW k \in Clients
    PROVE  /\ pc[k] \in {"get", "getting", "set", "setting", "done"}
           /\ round[k] \in Nat /\ round[k] <= Rounds /\ Rounds \in Nat
           /\ payload[k] \in Values /\ floor[k] \in Values
           /\ Reads[k] \in Topics \cup {NoTopic} /\ Writes[k] \in Topics \cup {NoTopic}
           /\ NoTopic \notin Topics
           /\ CallInv(k)
           /\ \A t \in Topics : /\ msgMap[t] \in Values /\ known[t] \in Values
                                /\ TopicInv(t)
           /\ Values \subseteq Nat
           /\ \A v \in Values : v <= Rounds
  BY TopicsAssumption, RoundsAssumption DEF RpcInv, TypeOK, Values

\* A step that leaves a client alone, and only moves topics on, keeps where its
\* call is.
LEMMA CallKept ==
    ASSUME RpcInv, NEW k \in Clients,
           pc'[k] = pc[k], round'[k] = round[k], payload'[k] = payload[k],
           requests'[k] = requests[k], replies'[k] = replies[k], floor'[k] = floor[k],
           \A t \in Topics : msgMap'[t] \in Values /\ msgMap[t] <= msgMap'[t]
    PROVE  CallInv(k)'
  <1>1. CallInv(k) /\ Values \subseteq Nat /\ floor[k] \in Values /\ payload[k] \in Values
        /\ (\A t \in Topics : msgMap[t] \in Values)
    BY RpcFacts
  <1>2. Idle(k)' <=> Idle(k)
    BY DEF Idle
  <1>3. Getting(k) => Getting(k)'
    <2> SUFFICES ASSUME Getting(k) PROVE Getting(k)'
      OBVIOUS
    <2>1. /\ Reads[k] \in Topics /\ floor[k] <= msgMap[Reads[k]]
          /\ msgMap[Reads[k]] \in Nat /\ msgMap'[Reads[k]] \in Nat
          /\ msgMap[Reads[k]] <= msgMap'[Reads[k]] /\ floor[k] \in Nat
      BY <1>1 DEF Getting
    <2>2. floor'[k] <= msgMap'[Reads[k]]
      BY <2>1
    <2>3. CASE Calling(k, GetCall(k))
      BY <2>1, <2>2, <2>3 DEF Getting, Calling, GetCall
    <2>4. CASE \E v \in Values : /\ Answered(k, GetReply(v))
                                 /\ floor[k] <= v /\ v <= msgMap[Reads[k]]
      <3> PICK v \in Values : /\ Answered(k, GetReply(v))
                              /\ floor[k] <= v /\ v <= msgMap[Reads[k]]
        BY <2>4
      <3>1. v <= msgMap'[Reads[k]]
        BY <1>1, <2>1
      <3>2. Answered(k, GetReply(v))'
        BY DEF Answered, GetReply
      <3>3. \E u \in Values : /\ Answered(k, GetReply(u))'
                              /\ floor'[k] <= u /\ u <= msgMap'[Reads[k]]
        BY <3>1, <3>2
      <3> QED
        BY <2>1, <2>2, <3>3 DEF Getting
    <2> QED
      BY <2>3, <2>4 DEF Getting
  <1>4. Setting(k) => Setting(k)'
    BY DEF Setting, Calling, Answered, SetCall, SetReply
  <1>5. HasRead(k) => HasRead(k)'
    <2> SUFFICES ASSUME HasRead(k) PROVE HasRead(k)'
      OBVIOUS
    <2>1. ASSUME payload[k] > 0
          PROVE  Reads[k] \in Topics /\ payload[k] <= msgMap'[Reads[k]]
      <3>1. /\ Reads[k] \in Topics /\ payload[k] <= msgMap[Reads[k]]
            /\ msgMap[Reads[k]] \in Nat /\ msgMap'[Reads[k]] \in Nat
            /\ msgMap[Reads[k]] <= msgMap'[Reads[k]] /\ payload[k] \in Nat
        BY <1>1, <2>1 DEF HasRead
      <3> QED
        BY <3>1
    <2> QED
      BY <2>1 DEF HasRead
  <1> QED
    BY <1>1, <1>2, <1>3, <1>4, <1>5 DEF CallInv

\* A topic keeps its invariant when the server and the writers keep its value and
\* nobody learns anything new of it.
LEMMA TopicKept ==
    ASSUME NEW t \in Topics, TopicInv(t), msgMap'[t] = msgMap[t], known'[t] = known[t],
           \A l \in Clients : Stored(l)' = Stored(l)
    PROVE  TopicInv(t)'
  BY DEF TopicInv

LEMMA TopicsStay ==
    ASSUME RpcInv, msgMap' = msgMap
    PROVE  \A t \in Topics : msgMap'[t] \in Values /\ msgMap[t] <= msgMap'[t]
  <1> TAKE t \in Topics
  <1>1. msgMap[t] \in Values
    BY DEF RpcInv, TypeOK
  <1>2. msgMap[t] <= msgMap[t]
    BY <1>1 DEF Values
  <1> QED
    BY <1>1, <1>2

\* Sending a call keeps the requests typed.
LEMMA CallTyped ==
    ASSUME NEW C, NEW M, NEW r \in [C -> Seq(M)], NEW k \in C, NEW m \in M
    PROVE  [r EXCEPT ![k] = Append(@, m)] \in [C -> Seq(M)]
  <1>1. Append(r[k], m) \in Seq(M)
    BY PutFacts
  <1> QED
    BY <1>1

LEMMA MsgsTyped ==
    ASSUME RpcInv
    PROVE  /\ requests \in [Clients -> Seq(CallMsgs)]
           /\ replies \in [Clients -> Seq(ReplyMsgs)]
           /\ <<>> \in Seq(CallMsgs) /\ <<>> \in Seq(ReplyMsgs)
  <1>1. requests \in [Clients -> Seq(CallMsgs)] /\ replies \in [Clients -> Seq(ReplyMsgs)]
    BY DEF RpcInv, TypeOK, CallMsgs, ReplyMsgs
  <1> QED
    BY <1>1

LEMMA GetCalled ==
    ASSUME RpcInv, NEW k \in Clients, GetMessageByTopic(k)
    PROVE  RpcInv'
  <1> USE DEF GetMessageByTopic, Call
  <1>0. /\ \A l \in Clients : CallInv(l)
        /\ \A t \in Topics : TopicInv(t) /\ msgMap[t] \in Values /\ known[t] \in Values
        /\ pc[k] = "get" /\ Idle(k) /\ round[k] < Rounds
        /\ Values \subseteq Nat /\ 0 \in Values
        /\ Reads[k] \in Topics \cup {NoTopic} /\ NoTopic \notin Topics
    BY RpcFacts, RoundsAssumption DEF RpcInv, CallInv, Values
  <1>1. TypeOK'
    <2>1. payload' \in [Clients -> Values] /\ floor' \in [Clients -> Values]
      <3>1. payload \in [Clients -> Values] /\ floor \in [Clients -> Values]
        BY DEF RpcInv, TypeOK
      <3> QED
        BY <1>0, <3>1
    <2>2. pc' \in [Clients -> {"get", "getting", "set", "setting", "done"}]
      BY DEF RpcInv, TypeOK
    <2>3. requests' \in [Clients -> Seq(CallMsgs)]
      <3>1. CASE Reads[k] = NoTopic
        BY <3>1, MsgsTyped
      <3>2. CASE Reads[k] # NoTopic
        <4>1. GetCall(k) \in CallMsgs
          BY <1>0, <3>2 DEF GetCall, CallMsgs
        <4>2. requests' = [requests EXCEPT ![k] = Append(@, GetCall(k))]
          BY <3>2 DEF GetCall
        <4> QED
          BY <4>1, <4>2, MsgsTyped, CallTyped
      <3> QED
        BY <3>1, <3>2
    <2> QED
      BY <2>1, <2>2, <2>3 DEF RpcInv, TypeOK, CallMsgs, ReplyMsgs
  <1>2. ASSUME NEW l \in Clients PROVE CallInv(l)'
    <2>1. CASE l # k
      <3>1. /\ pc'[l] = pc[l] /\ round'[l] = round[l] /\ payload'[l] = payload[l]
            /\ requests'[l] = requests[l] /\ replies'[l] = replies[l] /\ floor'[l] = floor[l]
        BY <2>1 DEF RpcInv, TypeOK
      <3>2. msgMap' = msgMap
        OBVIOUS
      <3>3. \A t \in Topics : msgMap'[t] \in Values /\ msgMap[t] <= msgMap'[t]
        BY <3>2, TopicsStay
      <3> QED
        BY <3>1, <3>3, CallKept
    <2>2. CASE l = k /\ Reads[k] = NoTopic
      <3>1. /\ pc'[k] = "set" /\ payload'[k] = 0 /\ floor'[k] = 0 /\ Idle(k)'
            /\ round'[k] < Rounds
        BY <1>0, <2>2 DEF Idle, RpcInv, TypeOK
      <3> QED
        BY <2>2, <3>1 DEF CallInv, HasRead
    <2>3. CASE l = k /\ Reads[k] # NoTopic
      <3>1. /\ pc'[k] = "getting" /\ floor'[k] = known[Reads[k]] /\ Reads[k] \in Topics
            /\ Calling(k, GetCall(k))' /\ round'[k] < Rounds
        BY <1>0, <2>3 DEF Idle, Calling, GetCall, RpcInv, TypeOK
      <3>2. Getting(k)'
        BY <1>0, <3>1 DEF Getting, TopicInv
      <3> QED
        BY <2>3, <3>1, <3>2 DEF CallInv
    <2> QED
      BY <2>1, <2>2, <2>3
  <1>3. ASSUME NEW t \in Topics PROVE TopicInv(t)'
    <2>1. \A l \in Clients : Stored(l)' = Stored(l)
      BY <1>0 DEF Stored, RpcInv, TypeOK
    <2> QED
      BY <1>0, <2>1, TopicKept
  <1> QED
    BY <1>1, <1>2, <1>3 DEF RpcInv

LEMMA GetReturned ==
    ASSUME RpcInv, NEW k \in Clients, GetReturns(k)
    PROVE  RpcInv'
  <1> USE DEF GetReturns, Learn
  <1>0. /\ \A l \in Clients : CallInv(l)
        /\ \A t \in Topics : TopicInv(t) /\ msgMap[t] \in Values /\ known[t] \in Values
        /\ pc[k] = "getting" /\ Getting(k) /\ round[k] < Rounds
        /\ Values \subseteq Nat /\ floor[k] \in Values
    BY RpcFacts DEF RpcInv, CallInv
  <1> PICK v \in Values : /\ Answered(k, GetReply(v))
                          /\ floor[k] <= v /\ v <= msgMap[Reads[k]]
    BY <1>0 DEF Getting, Calling
  <1>1. /\ Reads[k] \in Topics
        /\ payload' = [payload EXCEPT ![k] = v]
        /\ known' = [known EXCEPT ![Reads[k]] = IF v > @ THEN v ELSE @]
        /\ replies' = [replies EXCEPT ![k] = <<>>]
    <2>1. replies[k] = <<GetReply(v)>>
      BY DEF Answered
    <2>2. Head(replies[k]) = GetReply(v) /\ Tail(replies[k]) = <<>>
      BY <2>1
    <2>3. Head(replies[k]).payload = v
      BY <2>2 DEF GetReply
    <2>4. Reads[k] \in Topics
      BY <1>0 DEF Getting
    <2> QED
      BY <2>2, <2>3, <2>4
  <1>2. TypeOK'
    <2>1. payload' \in [Clients -> Values] /\ known' \in [Topics -> Values]
      BY <1>1 DEF RpcInv, TypeOK
    <2>2. replies' \in [Clients -> Seq(ReplyMsgs)]
      BY <1>1, MsgsTyped
    <2>3. pc' \in [Clients -> {"get", "getting", "set", "setting", "done"}]
      BY DEF RpcInv, TypeOK
    <2> QED
      BY <2>1, <2>2, <2>3 DEF RpcInv, TypeOK, CallMsgs, ReplyMsgs
  <1>3. ASSUME NEW l \in Clients PROVE CallInv(l)'
    <2>1. CASE l # k
      <3>1. /\ pc'[l] = pc[l] /\ round'[l] = round[l] /\ payload'[l] = payload[l]
            /\ requests'[l] = requests[l] /\ replies'[l] = replies[l] /\ floor'[l] = floor[l]
        BY <1>1, <2>1 DEF RpcInv, TypeOK
      <3>2. msgMap' = msgMap
        OBVIOUS
      <3>3. \A t \in Topics : msgMap'[t] \in Values /\ msgMap[t] <= msgMap'[t]
        BY <3>2, TopicsStay
      <3> QED
        BY <3>1, <3>3, CallKept
    <2>2. CASE l = k
      <3>1. /\ pc'[k] = "set" /\ payload'[k] = v /\ Idle(k)' /\ round'[k] < Rounds
        BY <1>0, <1>1 DEF Idle, Answered, RpcInv, TypeOK
      <3>2. HasRead(k)'
        BY <1>1, <3>1 DEF HasRead
      <3> QED
        BY <2>2, <3>1, <3>2 DEF CallInv
    <2> QED
      BY <2>1, <2>2
  <1>4. ASSUME NEW t \in Topics PROVE TopicInv(t)'
    <2>1. \A l \in Clients : Stored(l)' = Stored(l)
      BY <1>0 DEF Stored, RpcInv, TypeOK
    <2>2. CASE t # Reads[k]
      <3>1. known'[t] = known[t] /\ msgMap'[t] = msgMap[t]
        BY <1>1, <2>2 DEF RpcInv, TypeOK
      <3> QED
        BY <1>0, <2>1, <3>1, TopicKept
    <2>3. CASE t = Reads[k]
      <3>1. known'[t] <= msgMap'[t]
        BY <1>0, <1>1, <2>3 DEF TopicInv, RpcInv, TypeOK
      <3> QED
        BY <1>0, <2>1, <3>1 DEF TopicInv
    <2> QED
      BY <2>2, <2>3
  <1> QED
    BY <1>2, <1>3, <1>4 DEF RpcInv

LEMMA SetCalled ==
    ASSUME RpcInv, NEW k \in Clients, SetMessageByTopic(k)
    PROVE  RpcInv'
  <1>0. /\ \A l \in Clients : CallInv(l)
        /\ \A t \in Topics : TopicInv(t)
        /\ pc[k] = "set" /\ Idle(k) /\ round[k] < Rounds
        /\ Rounds \in Nat /\ round[k] \in Nat
        /\ Writes[k] \in Topics \cup {NoTopic} /\ NoTopic \notin Topics
    BY RpcFacts DEF SetMessageByTopic, RpcInv, CallInv
  <1>1. /\ payload' = [payload EXCEPT ![k] = round[k] + 1]
        /\ UNCHANGED <<replies, msgMap, known, floor>>
        /\ \/ /\ Writes[k] = NoTopic
              /\ round' = [round EXCEPT ![k] = @ + 1]
              /\ pc' = [pc EXCEPT ![k] = IF round[k] + 1 < Rounds THEN "get" ELSE "done"]
              /\ UNCHANGED requests
           \/ /\ Writes[k] \in Topics
              /\ pc' = [pc EXCEPT ![k] = "setting"]
              /\ requests' = [requests EXCEPT ![k] = Append(@, SetCall(k))]
              /\ UNCHANGED round
    BY <1>0 DEF SetMessageByTopic, NextRound, Call, SetCall
  <1>2. TypeOK'
    <2>1. round[k] + 1 \in Values /\ round[k] + 1 \in 0 .. Rounds
      BY <1>0 DEF Values
    <2>2. payload' \in [Clients -> Values] /\ round' \in [Clients -> 0 .. Rounds]
      BY <1>1, <2>1 DEF RpcInv, TypeOK
    <2>3. pc' \in [Clients -> {"get", "getting", "set", "setting", "done"}]
      BY <1>1 DEF RpcInv, TypeOK
    <2>4. requests' \in [Clients -> Seq(CallMsgs)]
      <3>1. CASE requests' = requests
        BY <3>1, MsgsTyped
      <3>2. CASE Writes[k] \in Topics /\ requests' = [requests EXCEPT ![k] = Append(@, SetCall(k))]
        <4>1. SetCall(k) \in CallMsgs
          BY <2>1, <3>2 DEF SetCall, CallMsgs
        <4> QED
          BY <3>2, <4>1, MsgsTyped, CallTyped
      <3> QED
        BY <1>1, <3>1, <3>2
    <2> QED
      BY <1>1, <2>2, <2>3, <2>4 DEF RpcInv, TypeOK, CallMsgs, ReplyMsgs
  <1>3. ASSUME NEW l \in Clients PROVE CallInv(l)'
    <2>1. CASE l # k
      <3>1. /\ pc'[l] = pc[l] /\ round'[l] = round[l] /\ payload'[l] = payload[l]
            /\ requests'[l] = requests[l] /\ replies'[l] = replies[l] /\ floor'[l] = floor[l]
        BY <1>1, <2>1 DEF RpcInv, TypeOK
      <3>2. msgMap' = msgMap
        BY <1>1
      <3> QED
        BY <3>1, <3>2, TopicsStay, CallKept
    <2>2. CASE l = k /\ Writes[k] = NoTopic
      <3>1. round'[k] = round[k] + 1 /\ pc'[k] = (IF round[k] + 1 < Rounds THEN "get" ELSE "done")
        BY <1>0, <1>1, <2>2 DEF RpcInv, TypeOK
      <3>2. Idle(k)'
        BY <1>0, <1>1, <2>2 DEF Idle
      <3> QED
        BY <1>0, <2>2, <3>1, <3>2 DEF CallInv
    <2>3. CASE l = k /\ Writes[k] # NoTopic
      <3>1. /\ pc'[k] = "setting" /\ round'[k] = round[k] /\ payload'[k] = round[k] + 1
            /\ Writes[k] \in Topics
        BY <1>0, <1>1, <2>3 DEF RpcInv, TypeOK
      <3>2. requests'[k] = <<SetCall(k)>> /\ replies'[k] = <<>>
        BY <1>0, <1>1, <2>3 DEF Idle, RpcInv, TypeOK
      <3>3. Setting(k)'
        BY <3>1, <3>2 DEF Setting, Calling, SetCall
      <3> QED
        BY <1>0, <2>3, <3>1, <3>3 DEF CallInv
    <2> QED
      BY <2>1, <2>2, <2>3
  <1>4. ASSUME NEW t \in Topics PROVE TopicInv(t)'
    <2>1. CASE Writes[k] = NoTopic
      <3>1. \A l \in Clients : Writes[l] = t => Stored(l)' = Stored(l)
        BY <1>0, <1>1, <2>1 DEF Stored, RpcInv, TypeOK
      <3> QED
        BY <1>0, <1>1, <3>1 DEF TopicInv
    <2>2. CASE Writes[k] # NoTopic
      <3>1. requests'[k] # <<>>
        <4>1. requests'[k] = <<SetCall(k)>>
          BY <1>0, <1>1, <2>2 DEF Idle, RpcInv, TypeOK
        <4> QED
          BY <4>1
      <3>2. \A l \in Clients : Stored(l)' = Stored(l)
        BY <1>0, <1>1, <2>2, <3>1 DEF Stored, RpcInv, TypeOK
      <3> QED
        BY <1>0, <1>1, <3>2, TopicKept
    <2> QED
      BY <2>1, <2>2
  <1> QED
    BY <1>2, <1>3, <1>4 DEF RpcInv

LEMMA SetReturned ==
    ASSUME RpcInv, NEW k \in Clients, SetReturns(k)
    PROVE  RpcInv'
  <1>0. /\ \A l \in Clients : CallInv(l)
        /\ \A t \in Topics : TopicInv(t)
        /\ pc[k] = "setting" /\ Setting(k) /\ round[k] < Rounds
        /\ Rounds \in Nat /\ round[k] \in Nat
        /\ Writes[k] \in Topics /\ payload[k] = round[k] + 1 /\ payload[k] \in Values
    BY RpcFacts DEF SetReturns, RpcInv, CallInv, Setting
  <1>a. Answered(k, SetReply)
    BY <1>0 DEF SetReturns, Setting, Calling
  <1>1. /\ replies' = [replies EXCEPT ![k] = <<>>]
        /\ known' = [known EXCEPT ![Writes[k]] = IF payload[k] > @ THEN payload[k] ELSE @]
        /\ round' = [round EXCEPT ![k] = @ + 1]
        /\ pc' = [pc EXCEPT ![k] = IF round[k] + 1 < Rounds THEN "get" ELSE "done"]
        /\ UNCHANGED <<payload, requests, msgMap, floor>>
    <2>1. Tail(replies[k]) = <<>>
      BY <1>a DEF Answered
    <2> QED
      BY <2>1 DEF SetReturns, NextRound, Learn
  <1>2. TypeOK'
    <2>2. replies' \in [Clients -> Seq(ReplyMsgs)]
      BY <1>1, MsgsTyped
    <2>3. round[k] + 1 \in 0 .. Rounds
      BY <1>0
    <2>4. round' \in [Clients -> 0 .. Rounds] /\ known' \in [Topics -> Values]
      BY <1>0, <1>1, <2>3 DEF RpcInv, TypeOK
    <2>5. pc' \in [Clients -> {"get", "getting", "set", "setting", "done"}]
      BY <1>1 DEF RpcInv, TypeOK
    <2> QED
      BY <1>1, <2>2, <2>4, <2>5 DEF RpcInv, TypeOK, CallMsgs, ReplyMsgs
  <1>3. ASSUME NEW l \in Clients PROVE CallInv(l)'
    <2>1. CASE l # k
      <3>1. /\ pc'[l] = pc[l] /\ round'[l] = round[l] /\ payload'[l] = payload[l]
            /\ requests'[l] = requests[l] /\ replies'[l] = replies[l] /\ floor'[l] = floor[l]
        BY <1>1, <2>1 DEF RpcInv, TypeOK
      <3>2. msgMap' = msgMap
        BY <1>1
      <3> QED
        BY <3>1, <3>2, TopicsStay, CallKept
    <2>2. CASE l = k
      <3>1. round'[k] = round[k] + 1 /\ pc'[k] = (IF round[k] + 1 < Rounds THEN "get" ELSE "done")
        BY <1>1 DEF RpcInv, TypeOK
      <3>2. Idle(k)'
        BY <1>a, <1>1 DEF Idle, Answered, RpcInv, TypeOK
      <3> QED
        BY <1>0, <2>2, <3>1, <3>2 DEF CallInv
    <2> QED
      BY <2>1, <2>2
  <1>4. ASSUME NEW t \in Topics PROVE TopicInv(t)'
    <2>1. Stored(k)' = Stored(k) /\ Stored(k) = round[k] + 1
      <3>1. requests[k] = <<>> /\ pc'[k] # "setting" /\ round'[k] = round[k] + 1
        BY <1>a, <1>1 DEF Answered, RpcInv, TypeOK
      <3> QED
        BY <1>0, <3>1 DEF Stored
    <2>2. \A l \in Clients : Stored(l)' = Stored(l)
      BY <1>1, <2>1 DEF Stored, RpcInv, TypeOK
    <2>3. CASE t # Writes[k]
      <3>1. known'[t] = known[t] /\ msgMap'[t] = msgMap[t]
        BY <1>1, <2>3 DEF RpcInv, TypeOK
      <3> QED
        BY <1>0, <2>2, <3>1, TopicKept
    <2>4. CASE t = Writes[k]
      <3>1. msgMap[t] = round[k] + 1 /\ known[t] <= msgMap[t]
        BY <1>0, <2>1, <2>4 DEF TopicInv
      <3>2. known'[t] <= msgMap'[t]
        BY <1>0, <1>1, <2>4, <3>1 DEF RpcInv, TypeOK
      <3> QED
        BY <1>0, <1>1, <2>2, <3>2 DEF TopicInv
    <2> QED
      BY <2>3, <2>4
  <1> QED
    BY <1>2, <1>3, <1>4 DEF RpcInv

LEMMA Served ==
    ASSUME RpcInv, NEW k \in Clients, Serve(k)
    PROVE  RpcInv'
  <1>0. /\ \A l \in Clients : CallInv(l)
        /\ \A t \in Topics : TopicInv(t) /\ msgMap[t] \in Values /\ known[t] \in Values
        /\ round[k] \in Nat /\ Rounds \in Nat
        /\ requests[k] # <<>>
        /\ requests' = [requests EXCEPT ![k] = Tail(@)]
        /\ UNCHANGED <<pc, round, payload, known, floor>>
    BY RpcFacts DEF Serve, clientVars, RpcInv
  <1>1. CASE pc[k] = "getting"
    <2>1. Getting(k) /\ Calling(k, GetCall(k)) /\ Reads[k] \in Topics /\ round[k] < Rounds
      BY <1>0, <1>1 DEF CallInv, Getting, Answered
    <2>2. Head(requests[k]) = GetCall(k) /\ Tail(requests[k]) = <<>>
      BY <2>1 DEF Calling
    <2>3. /\ msgMap' = msgMap
          /\ replies' = [replies EXCEPT ![k] = Append(@, GetReply(msgMap[Reads[k]]))]
          /\ requests' = [requests EXCEPT ![k] = <<>>]
      <3>1. Dispatch(k, GetCall(k)) /\ requests' = [requests EXCEPT ![k] = <<>>]
        BY <1>0, <2>2 DEF Serve
      <3>2. UNCHANGED msgMap /\ ReplyTo(k, "get", msgMap[Reads[k]])
        BY <3>1 DEF Dispatch, GetCall
      <3> QED
        BY <3>1, <3>2 DEF ReplyTo, Reply, GetReply
    <2>4. TypeOK'
      <3>1. GetReply(msgMap[Reads[k]]) \in ReplyMsgs
        BY <1>0, <2>1 DEF GetReply, ReplyMsgs
      <3>2. replies' \in [Clients -> Seq(ReplyMsgs)]
        BY <2>3, <3>1, MsgsTyped, CallTyped
      <3>3. requests' \in [Clients -> Seq(CallMsgs)]
        BY <2>3, MsgsTyped
      <3> QED
        BY <1>0, <2>3, <3>2, <3>3 DEF RpcInv, TypeOK, CallMsgs, ReplyMsgs
    <2>5. ASSUME NEW l \in Clients PROVE CallInv(l)'
      <3>1. CASE l # k
        <4>1. /\ pc'[l] = pc[l] /\ round'[l] = round[l] /\ payload'[l] = payload[l]
              /\ requests'[l] = requests[l] /\ replies'[l] = replies[l] /\ floor'[l] = floor[l]
          BY <1>0, <2>3, <3>1 DEF RpcInv, TypeOK
        <4> QED
          BY <2>3, <4>1, TopicsStay, CallKept
      <3>2. CASE l = k
        <4>1. requests'[k] = <<>> /\ replies'[k] = <<GetReply(msgMap[Reads[k]])>>
          BY <2>1, <2>3 DEF Calling, RpcInv, TypeOK
        <4>2. /\ floor[k] <= msgMap[Reads[k]] /\ msgMap[Reads[k]] \in Values
              /\ msgMap[Reads[k]] <= msgMap[Reads[k]]
          BY <1>0, <2>1, TopicsStay DEF Getting, Values
        <4>3. Answered(k, GetReply(msgMap[Reads[k]]))'
          BY <2>3, <4>1 DEF Answered, GetReply
        <4>4. Getting(k)'
          BY <1>0, <2>1, <2>3, <4>2, <4>3 DEF Getting
        <4> QED
          BY <1>0, <1>1, <2>1, <3>2, <4>4 DEF CallInv
      <3> QED
        BY <3>1, <3>2
    <2>6. ASSUME NEW t \in Topics PROVE TopicInv(t)'
      <3>1. \A l \in Clients : Stored(l)' = Stored(l)
        BY <1>0, <1>1 DEF Stored, RpcInv, TypeOK
      <3> QED
        BY <1>0, <2>3, <3>1, TopicKept
    <2> QED
      BY <2>4, <2>5, <2>6 DEF RpcInv
  <1>2. CASE pc[k] = "setting"
    <2>1. Setting(k) /\ Calling(k, SetCall(k)) /\ Writes[k] \in Topics /\ round[k] < Rounds
      BY <1>0, <1>2 DEF CallInv, Setting, Answered
    <2>2. Head(requests[k]) = SetCall(k) /\ Tail(requests[k]) = <<>>
      BY <2>1 DEF Calling
    <2>3. /\ msgMap' = [msgMap EXCEPT ![Writes[k]] = round[k] + 1]
          /\ replies' = [replies EXCEPT ![k] = Append(@, SetReply)]
          /\ requests' = [requests EXCEPT ![k] = <<>>]
      <3>1. Dispatch(k, SetCall(k)) /\ requests' = [requests EXCEPT ![k] = <<>>]
        BY <1>0, <2>2 DEF Serve
      <3>2. Store(Writes[k], round[k] + 1) /\ ReplyTo(k, "set", NoBody)
        BY <3>1 DEF Dispatch, SetCall
      <3> QED
        BY <3>1, <3>2 DEF Store, ReplyTo, Reply, SetReply
    <2>a. round[k] + 1 \in Values
      BY <1>0, <2>1 DEF Values
    <2>b. msgMap[Writes[k]] = round[k]
      <3>1. requests[k] # <<>> /\ Stored(k) = round[k]
        BY <1>0 DEF Stored
      <3> QED
        BY <1>0, <2>1, <3>1 DEF TopicInv
    <2>c. \A t \in Topics : msgMap'[t] \in Values /\ msgMap[t] <= msgMap'[t]
      <3> TAKE t \in Topics
      <3>1. CASE t = Writes[k]
        <4>1. msgMap'[t] = round[k] + 1 /\ msgMap[t] = round[k]
          BY <2>3, <2>b, <3>1 DEF RpcInv, TypeOK
        <4> QED
          BY <1>0, <2>a, <4>1
      <3>2. CASE t # Writes[k]
        <4>1. msgMap'[t] = msgMap[t] /\ msgMap[t] \in Values
          BY <1>0, <2>3, <3>2 DEF RpcInv, TypeOK
        <4>2. msgMap[t] <= msgMap[t]
          BY <4>1 DEF Values
        <4> QED
          BY <4>1, <4>2
      <3> QED
        BY <3>1, <3>2
    <2>4. TypeOK'
      <3>1. SetReply \in ReplyMsgs
        BY DEF SetReply, ReplyMsgs
      <3>2. replies' \in [Clients -> Seq(ReplyMsgs)]
        BY <2>3, <3>1, MsgsTyped, CallTyped
      <3>3. requests' \in [Clients -> Seq(CallMsgs)]
        BY <2>3, MsgsTyped
      <3>4. msgMap' \in [Topics -> Values]
        BY <2>3, <2>a DEF RpcInv, TypeOK
      <3> QED
        BY <1>0, <3>2, <3>3, <3>4 DEF RpcInv, TypeOK, CallMsgs, ReplyMsgs
    <2>5. ASSUME NEW l \in Clients PROVE CallInv(l)'
      <3>1. CASE l # k
        <4>1. /\ pc'[l] = pc[l] /\ round'[l] = round[l] /\ payload'[l] = payload[l]
              /\ requests'[l] = requests[l] /\ replies'[l] = replies[l] /\ floor'[l] = floor[l]
          BY <1>0, <2>3, <3>1 DEF RpcInv, TypeOK
        <4> QED
          BY <2>c, <4>1, CallKept
      <3>2. CASE l = k
        <4>1. requests'[k] = <<>> /\ replies'[k] = <<SetReply>>
          BY <2>1, <2>3 DEF Calling, RpcInv, TypeOK
        <4>2. Setting(k)'
          BY <1>0, <2>1, <4>1 DEF Setting, Answered, SetReply
        <4> QED
          BY <1>0, <1>2, <2>1, <3>2, <4>2 DEF CallInv
      <3> QED
        BY <3>1, <3>2
    <2>6. ASSUME NEW t \in Topics PROVE TopicInv(t)'
      <3>1. requests'[k] = <<>> /\ Stored(k)' = round[k] + 1
        BY <1>0, <1>2, <2>3 DEF Stored, RpcInv, TypeOK
      <3>2. \A l \in Clients : l # k => Stored(l)' = Stored(l)
        BY <1>0, <2>3 DEF Stored, RpcInv, TypeOK
      <3>3. CASE t = Writes[k]
        <4>1. \A l \in Clients : Writes[l] = t => l = k
          BY <2>1, <3>3, TopicsAssumption
        <4>2. msgMap'[t] = round[k] + 1
          BY <2>3, <3>3 DEF RpcInv, TypeOK
        <4>3. known[t] <= msgMap'[t]
          BY <1>0, <2>b, <3>3, <4>2 DEF TopicInv, Values
        <4> QED
          BY <1>0, <3>1, <3>3, <4>1, <4>2, <4>3 DEF TopicInv
      <3>4. CASE t # Writes[k]
        <4>1. msgMap'[t] = msgMap[t]
          BY <2>3, <3>4 DEF RpcInv, TypeOK
        <4> QED
          BY <1>0, <3>2, <3>4, <4>1 DEF TopicInv
      <3> QED
        BY <3>3, <3>4
    <2> QED
      BY <2>4, <2>5, <2>6 DEF RpcInv
  <1>3. pc[k] = "getting" \/ pc[k] = "setting"
    BY <1>0, RpcFacts DEF CallInv, Idle
  <1> QED
    BY <1>1, <1>2, <1>3

--------------------------------------------------------------------------------
(***************************************************************************)
(* For every set of programs, of topics with one writer each, and every    *)
(* number of rounds: a client only ever receives the reply to the call it  *)
(* has made, and each topic of the server is an atomic register.           *)
(***************************************************************************)
THEOREM RegistersCorrect == Spec => [](TypeOK /\ RepliesMatchCalls /\ ReadsAreFresh)
  <1>1. Init => RpcInv
    BY RpcInit
  <1>2. RpcInv /\ [Next]_vars => RpcInv'
    <2> SUFFICES ASSUME RpcInv, [Next]_vars PROVE RpcInv'
      OBVIOUS
    <2>1. ASSUME NEW k \in Clients, ClientNext(k) \/ Serve(k) PROVE RpcInv'
      BY <2>1, GetCalled, GetReturned, SetCalled, SetReturned, Served DEF ClientNext
    <2>2. CASE UNCHANGED vars
      <3>1. /\ UNCHANGED <<pc, round, payload, requests, replies, msgMap, known, floor>>
        BY <2>2 DEF vars, clientVars
      <3>2. TypeOK' <=> TypeOK
        BY <3>1 DEF TypeOK
      <3>3. \A k \in Clients : CallInv(k)'
        BY <3>1, TopicsStay, CallKept DEF RpcInv
      <3>4. \A t \in Topics : TopicInv(t)'
        <4>1. \A l \in Clients : Stored(l)' = Stored(l)
          BY <3>1 DEF Stored
        <4> QED
          BY <3>1, <4>1, TopicKept DEF RpcInv
      <3> QED
        BY <3>2, <3>3, <3>4 DEF RpcInv
    <2> QED
      BY <2>1, <2>2 DEF Next
  <1>3. RpcInv => TypeOK /\ RepliesMatchCalls /\ ReadsAreFresh
    BY InvProperties DEF RpcInv
  <1> QED
    BY <1>1, <1>2, <1>3, PTL DEF Spec

\* The types alone: no program makes more rounds than it should, and the server
\* never stores what was not set.
THEOREM RpcTypes == Spec => []TypeOK
  BY RegistersCorrect, PTL

\* ZMQMsgToString never sees the empty frame that answers a set: every reply is to
\* the call its client is in.
THEOREM RpcReplies == Spec => []RepliesMatchCalls
  BY RegistersCorrect, PTL

================================================================================
