------------------------------- MODULE SyncRpc ---------------------------------
(***************************************************************************)
(* The synchronous RPC of dummy_rpc_dealer_router (sync_rpc.cpp): a server *)
(* that keeps the last payload of each topic, and clients that call it.    *)
(* Each client is a program like the main of dummy_car.cpp and             *)
(* dummy_planning.cpp: it gets the topic of the other, then sets its own,  *)
(* and so on for a number of rounds.  Every call blocks until it returns.  *)
(*                                                                         *)
(* The payload of round i is the number i + 1, and the empty string is 0:  *)
(* the programs publish values that grow.                                  *)
(***************************************************************************)
EXTENDS Naturals, Sequences

CONSTANTS
    Clients,     \* the programs
    Topics,      \* the topics
    NoTopic,     \* the empty string, a topic that is not served
    Reads,       \* Reads[k]: the topic client k gets
    Writes,      \* Writes[k]: the topic client k sets
    Rounds,      \* rounds of each program, 100 in both
    NoBody       \* an empty frame: not even the byte that ends a string

\* A topic has one writer.
ASSUME TopicsAssumption ==
    /\ NoTopic \notin Topics
    /\ Reads \in [Clients -> Topics \cup {NoTopic}]
    /\ Writes \in [Clients -> Topics \cup {NoTopic}]
    /\ \A k, l \in Clients : Writes[k] = Writes[l] => k = l \/ Writes[k] = NoTopic
ASSUME RoundsAssumption == Rounds \in Nat \ {0} /\ NoBody \notin Nat

VARIABLES
    pc,          \* pc[k]: about to get, in get, about to set, in set, or done
    round,       \* round[k]: the loop counter i
    payload,     \* payload[k]: the local string of the round
    requests,    \* requests[k]: calls on the way to the server
    replies,     \* replies[k]: replies on the way to the client
    msgMap,      \* msgMap_ of the service; 0 for a topic that it does not have
    known,       \* history: per topic, the latest value some returned call set or got
    floor        \* history: per client, what was known when its get was called

clientVars == <<pc, round, payload>>
vars == <<clientVars, requests, replies, msgMap, known, floor>>

Init ==
    /\ pc = [k \in Clients |-> "get"]
    /\ round = [k \in Clients |-> 0]
    /\ payload = [k \in Clients |-> 0]
    /\ requests = [k \in Clients |-> <<>>]
    /\ replies = [k \in Clients |-> <<>>]
    /\ msgMap = [t \in Topics |-> 0]
    /\ known = [t \in Topics |-> 0]
    /\ floor = [k \in Clients |-> 0]

Learn(t, v) == known' = [known EXCEPT ![t] = IF v > @ THEN v ELSE @]

Call(k, func, topic, body) ==
    requests' = [requests EXCEPT ![k] =
                    Append(@, [funcname |-> func, topic |-> topic, payload |-> body])]

\* The reply repeats the callInfo of the call.
Reply(k, func, body) ==
    replies' = [replies EXCEPT ![k] = Append(@, [funcname |-> func, payload |-> body])]

\* ReplyNonempty, a mistake, sends nothing when there is no payload to send.
ReplyNonempty(k, func, body) ==
    IF body = NoBody THEN UNCHANGED replies ELSE Reply(k, func, body)
ReplyTo(k, func, body) == Reply(k, func, body)

--------------------------------------------------------------------------------
\* Client::getMessageByTopic, up to the blocking receive and from there on.  An
\* empty topic is answered at once, with an empty payload.
GetMessageByTopic(k) ==
    /\ pc[k] = "get"
    /\ payload' = [payload EXCEPT ![k] = 0]
    /\ \/ /\ Reads[k] = NoTopic
          /\ pc' = [pc EXCEPT ![k] = "set"]
          /\ floor' = [floor EXCEPT ![k] = 0]
          /\ UNCHANGED requests
       \/ /\ Reads[k] # NoTopic
          /\ pc' = [pc EXCEPT ![k] = "getting"]
          /\ floor' = [floor EXCEPT ![k] = known[Reads[k]]]
          /\ Call(k, "get", Reads[k], NoBody)
    /\ UNCHANGED <<round, replies, msgMap, known>>

GetReturns(k) ==
    /\ pc[k] = "getting"
    /\ replies[k] # <<>>
    /\ payload' = [payload EXCEPT ![k] = Head(replies[k]).payload]
    /\ replies' = [replies EXCEPT ![k] = Tail(@)]
    /\ pc' = [pc EXCEPT ![k] = "set"]
    /\ Learn(Reads[k], Head(replies[k]).payload)
    /\ UNCHANGED <<round, requests, msgMap, floor>>

\* The end of a round.  NextRoundLate, a mistake, makes one round too many.
NextRoundLate(k) ==
    /\ round' = [round EXCEPT ![k] = @ + 1]
    /\ pc' = [pc EXCEPT ![k] = IF round[k] <= Rounds THEN "get" ELSE "done"]
NextRound(k) ==
    /\ round' = [round EXCEPT ![k] = @ + 1]
    /\ pc' = [pc EXCEPT ![k] = IF round[k] + 1 < Rounds THEN "get" ELSE "done"]

\* Client::setMessageByTopic, with the serialisation that precedes it.
SetMessageByTopic(k) ==
    /\ pc[k] = "set"
    /\ payload' = [payload EXCEPT ![k] = round[k] + 1]
    /\ \/ /\ Writes[k] = NoTopic
          /\ NextRound(k)
          /\ UNCHANGED requests
       \/ /\ Writes[k] # NoTopic
          /\ pc' = [pc EXCEPT ![k] = "setting"]
          /\ Call(k, "set", Writes[k], round[k] + 1)
          /\ UNCHANGED round
    /\ UNCHANGED <<replies, msgMap, known, floor>>

SetReturns(k) ==
    /\ pc[k] = "setting"
    /\ replies[k] # <<>>
    /\ replies' = [replies EXCEPT ![k] = Tail(@)]
    /\ NextRound(k)
    /\ Learn(Writes[k], payload[k])
    /\ UNCHANGED <<payload, requests, msgMap, floor>>

--------------------------------------------------------------------------------
\* ServiceImp_A: the map of topics.  StoreOnce, a mistake, is insert: it keeps the
\* value that is already there.
StoreOnce(t, v) == msgMap' = [msgMap EXCEPT ![t] = IF @ = 0 THEN v ELSE @]
Store(t, v) == msgMap' = [msgMap EXCEPT ![t] = v]

\* Server::serve and ServiceImpBase::dispatch on a call of client k.  The reply to
\* a set has an empty frame in place of a payload.
\* DispatchSwapped, a mistake, answers the one kind of call as the other.
DispatchSwapped(k, m) ==
    \/ m.funcname = "set" /\ Store(m.topic, m.payload) /\ ReplyTo(k, "get", msgMap[m.topic])
    \/ m.funcname = "get" /\ UNCHANGED msgMap /\ ReplyTo(k, "set", NoBody)

Dispatch(k, m) ==
    \/ m.funcname = "set" /\ Store(m.topic, m.payload) /\ ReplyTo(k, "set", NoBody)
    \/ m.funcname = "get" /\ UNCHANGED msgMap /\ ReplyTo(k, "get", msgMap[m.topic])

Serve(k) ==
    /\ requests[k] # <<>>
    /\ requests' = [requests EXCEPT ![k] = Tail(@)]
    /\ Dispatch(k, Head(requests[k]))
    /\ UNCHANGED <<clientVars, known, floor>>

ClientNext(k) ==
    GetMessageByTopic(k) \/ GetReturns(k) \/ SetMessageByTopic(k) \/ SetReturns(k)

Next == \E k \in Clients : ClientNext(k) \/ Serve(k)

Spec == Init /\ [][Next]_vars

\* The programs and the server loop; the router socket takes its peers in turn.
FairSpec == Spec /\ \A k \in Clients : WF_vars(ClientNext(k)) /\ WF_vars(Serve(k))

--------------------------------------------------------------------------------
Values == 0 .. Rounds

\* The variables have their types: no program makes more than its rounds.
TypeOK ==
    /\ pc \in [Clients -> {"get", "getting", "set", "setting", "done"}]
    /\ round \in [Clients -> 0 .. Rounds]
    /\ payload \in [Clients -> Values]
    /\ requests \in [Clients -> Seq([funcname : {"get", "set"}, topic : Topics,
                                     payload : Values \cup {NoBody}])]
    /\ replies \in [Clients -> Seq([funcname : {"get", "set"}, payload : Values \cup {NoBody}])]
    /\ msgMap \in [Topics -> Values]
    /\ known \in [Topics -> Values]
    /\ floor \in [Clients -> Values]

\* ZMQMsgToString takes one from the size of the frame: a client in get must
\* receive the reply to a get, which has a payload, and never that to a set.
RepliesMatchCalls ==
    \A k \in Clients : \A i \in DOMAIN replies[k] :
        /\ replies[k][i].funcname = "get" <=> pc[k] = "getting"
        /\ replies[k][i].funcname = "set" <=> pc[k] = "setting"
        /\ replies[k][i].payload = NoBody <=> pc[k] = "setting"

\* What client k has sent to the server, the call in progress included.
Published(k) == IF pc[k] = "setting" THEN round[k] + 1 ELSE round[k]

\* A topic is an atomic register with one writer: a get returns no older value
\* than any set or get that had returned before it was called, and no value that
\* was never sent.
ReadsAreFresh ==
    \A k \in Clients :
        pc[k] = "set" =>
            /\ payload[k] >= floor[k]
            /\ payload[k] > 0 =>
                    \E w \in Clients : Writes[w] = Reads[k] /\ payload[k] <= Published(w)

\* Under FairSpec every program ends: the blocking calls never wait for each other.
ProgramsEnd == <>(\A k \in Clients : pc[k] = "done")

================================================================================
