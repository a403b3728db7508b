--------------------------- MODULE DataCenterProofs ----------------------------
(***************************************************************************)
(* Theorems about DataCenter and DataCenterFaults, for every set of        *)
(* clusters, clients, workers and tasks, every high-water mark and every   *)
(* number of restarts, in three parts: where a worker is and which tasks   *)
(* run; what becomes of a request, by the one message of each request;     *)
(* and what holds of the processes that live, whatever others end.         *)
(***************************************************************************)
EXTENDS DataCenterFaults, QueueLemmas

(***************************************************************************)
(* FIRST PART.  The messages, the workers and the tasks of the brokers.    *)
(***************************************************************************)
Networks == [Channels -> Seq(TaskMeta)]

AllAddressed(f) == \A ch \in Channels : \A i \in DOMAIN f[ch] : Addressed(ch, f[ch][i])

--------------------------------------------------------------------------------
(***************************************************************************)
(* Channels.                                                               *)
(***************************************************************************)

\* The channels of a user, of a worker and of a cluster exist.
LEMMA ChannelsExist ==
    /\ \A u \in Users : ToFrontend(u[1], u[2]) \in Channels /\ ToClient(u[1], u[2]) \in Channels
    /\ \A v \in Crew : ToBackend(v[1], v[2]) \in Channels /\ ToWorker(v[1], v[2]) \in Channels
    /\ \A c \in Clusters : CloudUp(c) \in Channels /\ CloudDown(c) \in Channels
  BY DEF Channels

\* There are no others.
LEMMA ChannelKinds ==
    ASSUME NEW ch \in Channels
    PROVE  \/ \E u \in Users : ch = ToFrontend(u[1], u[2]) \/ ch = ToClient(u[1], u[2])
           \/ \E v \in Crew : ch = ToBackend(v[1], v[2]) \/ ch = ToWorker(v[1], v[2])
           \/ \E c \in Clusters : ch = CloudUp(c) \/ ch = CloudDown(c)
  BY DEF Channels

\* A user is a cluster and one of its clients, a worker one of its workers.
LEMMA Members ==
    /\ \A u \in Users : /\ u = <<u[1], u[2]>> /\ u[1] \in Clusters
                        /\ u[2] \in ClientsOf[u[1]] /\ u[2] \in ClientIDs /\ u[2] # NoID
    /\ \A v \in Crew : /\ v = <<v[1], v[2]>> /\ v[1] \in Clusters
                       /\ v[2] \in WorkersOf[v[1]] /\ v[2] \in WorkerIDs /\ v[2] # NoID
    /\ \A c \in Clusters : \A k : <<c, k>> \in Users <=> k \in ClientsOf[c]
    /\ \A c \in Clusters : \A w : <<c, w>> \in Crew <=> w \in WorkersOf[c]
    /\ NoID \notin Clusters
  BY NoIDAssumption DEF Users, Crew, ClientIDs, WorkerIDs

\* The channels of a worker of c, by its name.
LEMMA CrewExist ==
    \A c \in Clusters : \A w \in WorkersOf[c] :
        ToWorker(c, w) \in Channels /\ ToBackend(c, w) \in Channels
  <1> SUFFICES ASSUME NEW c \in Clusters, NEW w \in WorkersOf[c]
               PROVE  ToWorker(c, w) \in Channels /\ ToBackend(c, w) \in Channels
    OBVIOUS
  <1>1. <<c, w>> \in Crew
    BY Members
  <1>2. /\ ToWorker(<<c, w>>[1], <<c, w>>[2]) \in Channels
        /\ ToBackend(<<c, w>>[1], <<c, w>>[2]) \in Channels
    BY <1>1, ChannelsExist
  <1> QED
    BY <1>2

--------------------------------------------------------------------------------
(***************************************************************************)
(* Sending and receiving keep the network well typed and well addressed.   *)
(***************************************************************************)
LEMMA ReceiveOK ==
    ASSUME NEW f \in Networks, AllAddressed(f),
           NEW from \in Channels, f[from] # <<>>
    PROVE  /\ Receive(f, from) \in Networks
           /\ AllAddressed(Receive(f, from))
           /\ Head(f[from]) \in TaskMeta
           /\ Addressed(from, Head(f[from]))
  <1>1. f[from] \in Seq(TaskMeta)
    BY DEF Networks
  <1>2. /\ Head(f[from]) \in TaskMeta
        /\ Addressed(from, Head(f[from]))
    BY <1>1, TakeFacts DEF AllAddressed
  <1>3. Receive(f, from) \in Networks
    BY <1>1, TakeFacts DEF Networks, Receive
  <1>4. ASSUME NEW ch \in Channels, NEW i \in DOMAIN Receive(f, from)[ch]
        PROVE  Addressed(ch, Receive(f, from)[ch][i])
    <2>1. CASE ch # from
      BY <2>1 DEF Networks, Receive, AllAddressed
    <2>2. CASE ch = from
      <3>1. Receive(f, from)[ch] = Tail(f[ch])
        BY <2>2 DEF Networks, Receive
      <3>2. i \in 1 .. (Len(f[ch]) - 1) /\ Tail(f[ch])[i] = f[ch][i + 1]
            /\ i + 1 \in DOMAIN f[ch]
        BY <1>1, <2>2, <3>1, TakeFacts
      <3> QED
        BY <3>1, <3>2 DEF AllAddressed
    <2> QED
      BY <2>1, <2>2
  <1> QED
    BY <1>2, <1>3, <1>4 DEF AllAddressed

LEMMA SendOK ==
    ASSUME NEW f \in Networks, AllAddressed(f),
           NEW to, NEW m \in TaskMeta, to \in Channels => Addressed(to, m)
    PROVE  /\ Send(f, to, m) \in Networks
           /\ AllAddressed(Send(f, to, m))
  <1>1. CASE to \notin Channels
    BY <1>1 DEF Send
  <1>2. CASE to \in Channels
    <2>1. f[to] \in Seq(TaskMeta) /\ Send(f, to, m) = [f EXCEPT ![to] = Append(f[to], m)]
      BY <1>2 DEF Networks, Send
    <2>2. Send(f, to, m) \in Networks
      BY <1>2, <2>1, PutFacts DEF Networks
    <2>3. ASSUME NEW ch \in Channels, NEW i \in DOMAIN Send(f, to, m)[ch]
          PROVE  Addressed(ch, Send(f, to, m)[ch][i])
      <3>1. CASE ch # to
        BY <2>1, <3>1 DEF Networks, AllAddressed
      <3>2. CASE ch = to
        <4>1. Send(f, to, m)[ch] = Append(f[ch], m)
          BY <2>1, <3>2 DEF Networks
        <4>2. \/ i \in DOMAIN f[ch] /\ Append(f[ch], m)[i] = f[ch][i]
              \/ Append(f[ch], m)[i] = m
          BY <2>1, <3>2, <4>1, PutFacts
        <4> QED
          BY <1>2, <3>2, <4>1, <4>2 DEF AllAddressed
      <3> QED
        BY <3>1, <3>2
    <2> QED
      BY <2>2, <2>3 DEF AllAddressed
  <1> QED
    BY <1>1, <1>2

\* The step of most handlers: what they send must fit the channel they send it on.
LEMMA MoveOK ==
    ASSUME net \in Networks, AllAddressed(net),
           NEW from \in Channels, Nonempty(from),
           NEW to, NEW m \in TaskMeta, to \in Channels => Addressed(to, m),
           Move(from, to, m)
    PROVE  net' \in Networks /\ AllAddressed(net')
  <1>1. Receive(net, from) \in Networks /\ AllAddressed(Receive(net, from))
    BY ReceiveOK DEF Nonempty
  <1> QED
    BY <1>1, SendOK DEF Move

--------------------------------------------------------------------------------
(***************************************************************************)
(* Typing and addressing.  They need each other: a handler finds the       *)
(* channel it sends on, and the worker it puts in its ready queue, in the  *)
(* address fields of the message it received.                              *)
(***************************************************************************)
NetInv == TypeOK /\ WellAddressed

NetOK == net \in Networks /\ AllAddressed(net)

LEMMA NetInvNetOK == NetInv => NetOK
  BY DEF NetInv, NetOK, TypeOK, WellAddressed, Networks, AllAddressed

LEMMA FreshTyped ==
    /\ FreshMeta \in TaskMeta
    /\ \A w \in WorkerIDs : WorkerAlive(w) \in TaskMeta
    /\ \A c \in Clusters : ClusterAlive(c) \in TaskMeta
  BY DEF FreshMeta, WorkerAlive, ClusterAlive, TaskMeta, TaskType, TaskDirection, Payload

LEMMA InitNet == Init => NetInv
  <1> SUFFICES ASSUME Init PROVE NetInv
    OBVIOUS
  <1>1. ASSUME NEW ch \in Channels
        PROVE  /\ net[ch] \in Seq(TaskMeta)
               /\ \A i \in DOMAIN net[ch] : Addressed(ch, net[ch][i])
    <2>1. CASE \E v \in Crew : ch = ToBackend(v[1], v[2])
      <3> PICK v \in Crew : ch = ToBackend(v[1], v[2])
        BY <2>1
      <3>1. net[ch] = <<WorkerAlive(v[2])>>
        BY DEF Init, BrokerInit, ToBackend
      <3>2. WorkerAlive(v[2]) \in TaskMeta
        BY Members, FreshTyped
      <3>3. Addressed(ch, WorkerAlive(v[2]))
        BY DEF Addressed, ToBackend, WorkerAlive, FreshMeta
      <3> QED
        BY <3>1, <3>2, <3>3
    <2>2. CASE \E c \in Clusters : ch = CloudUp(c)
      <3> PICK c \in Clusters : ch = CloudUp(c)
        BY <2>2
      <3>1. net[ch] = <<ClusterAlive(c)>>
        BY DEF Init, BrokerInit, CloudUp
      <3>2. ClusterAlive(c) \in TaskMeta
        BY FreshTyped
      <3>3. Addressed(ch, ClusterAlive(c))
        BY DEF Addressed, CloudUp
      <3> QED
        BY <3>1, <3>2, <3>3
    <2>3. CASE ch[1] # "ToBackend" /\ ch[1] # "CloudUp"
      <3>1. net[ch] = <<>>
        BY <2>3 DEF Init, BrokerInit
      <3> QED
        BY <3>1
    <2> QED
      BY <2>1, <2>2, <2>3, ChannelKinds DEF ToFrontend, ToClient, ToWorker, CloudDown
  <1>2. net \in [Channels -> Seq(TaskMeta)]
    <2>1. net = [ch \in Channels |-> net[ch]]
      BY DEF Init, BrokerInit
    <2> QED
      BY <1>1, <2>1
  <1>3. WellAddressed
    BY <1>1 DEF WellAddressed
  <1>4. TypeOK
    BY <1>2 DEF TypeOK, Init, BrokerInit, StateInit, SuperInit
  <1> QED
    BY <1>3, <1>4 DEF NetInv

\* The handlers of a cluster.
LEMMA SendRequestNet ==
    ASSUME NetOK, NEW u \in Users, SendRequest(u[1], u[2])
    PROVE  NetOK'
  <1>1. PICK t \in TaskIDs : net' = Send(net, ToFrontend(u[1], u[2]),
                                       [FreshMeta EXCEPT !.fromID = u[2], !.taskID = t])
    BY DEF SendRequest
  <1> DEFINE m == [FreshMeta EXCEPT !.fromID = u[2], !.taskID = t]
  <1>2. m \in TaskMeta
    BY Members DEF FreshMeta, TaskMeta, TaskType, TaskDirection, Payload
  <1>3. Addressed(ToFrontend(u[1], u[2]), m)
    BY DEF Addressed, ToFrontend, FreshMeta, IsRequest
  <1> QED
    BY <1>1, <1>2, <1>3, SendOK DEF NetOK

LEMMA ReceiveReplyNet ==
    ASSUME NetOK, NEW u \in Users, ReceiveReply(u[1], u[2])
    PROVE  NetOK'
  BY ChannelsExist, ReceiveOK DEF NetOK, ReceiveReply, Nonempty

LEMMA ProcessNet ==
    ASSUME NetOK, NEW v \in Crew, Process(v[1], v[2])
    PROVE  NetOK'
  <1> DEFINE from == ToWorker(v[1], v[2])
             to == ToBackend(v[1], v[2])
             m == Head(net[from])
             reply == [m EXCEPT !.toID = m.fromID, !.fromID = v[2],
                                !.taskDirection = "TASK_REPLY", !.payload = "sum"]
  <1>1. Nonempty(from) /\ Move(from, to, reply)
    BY DEF Process
  <1>2. from \in Channels /\ m \in TaskMeta /\ Addressed(from, m)
    BY <1>1, ChannelsExist, ReceiveOK DEF NetOK, Nonempty
  <1>3. IsRequest(m) /\ Sender(m) \in Users
    BY <1>2 DEF Addressed, ToWorker
  <1>4. reply \in TaskMeta
    BY <1>2, Members DEF TaskMeta, TaskDirection, Payload
  <1>5. Addressed(to, reply)
    BY <1>2, <1>3 DEF TaskMeta, Addressed, ToBackend, IsRequest, IsAnswer, Sender
  <1> QED
    BY <1>1, <1>2, <1>4, <1>5, MoveOK DEF NetOK

\* A worker signs what it sends, so that is who becomes ready.
LEMMA RouteLocalReplyNet ==
    ASSUME NetOK, NEW v \in Crew, RouteLocalReply(v[1], v[2])
    PROVE  NetOK' /\ Head(net[ToBackend(v[1], v[2])]).fromID = v[2]
  <1> DEFINE from == ToBackend(v[1], v[2])
             m == Head(net[from])
             reply == [m EXCEPT !.toClusterID = m.fromClusterID, !.fromClusterID = v[1]]
  <1>1. Nonempty(from)
    BY DEF RouteLocalReply
  <1>2. from \in Channels /\ m \in TaskMeta /\ Addressed(from, m)
    BY <1>1, ChannelsExist, ReceiveOK DEF NetOK, Nonempty
  <1>3. m.fromID = v[2]
    BY <1>2 DEF Addressed, ToBackend
  <1>4. CASE m.taskType = "ALIVE_SIGNAL"
    <2>1. net' = Receive(net, from)
      BY <1>4 DEF RouteLocalReply
    <2> QED
      BY <1>1, <1>2, <1>3, <2>1, ReceiveOK DEF NetOK, Nonempty
  <1>5. CASE m.taskType # "ALIVE_SIGNAL"
    <2>1. IsAnswer(m) /\ <<m.fromClusterID, m.toID>> \in Users
      BY <1>2, <1>5 DEF Addressed, ToBackend, WorkerAlive, FreshMeta
    <2>2. reply \in TaskMeta /\ IsAnswer(reply) /\ Recipient(reply) \in Users
      BY <1>2, <2>1, Members DEF TaskMeta, IsAnswer, Recipient
    <2>3. CASE reply.toClusterID = v[1] /\ Move(from, ToClient(v[1], m.toID), reply)
      <3>1. Addressed(ToClient(v[1], m.toID), reply)
        BY <1>2, <2>2, <2>3 DEF Addressed, ToClient, Recipient, TaskMeta
      <3> QED
        BY <1>1, <1>2, <1>3, <2>2, <2>3, <3>1, MoveOK DEF NetOK
    <2>4. CASE Move(from, CloudUp(v[1]), reply)
      <3>1. Addressed(CloudUp(v[1]), reply)
        BY <2>2 DEF Addressed, CloudUp
      <3> QED
        BY <1>1, <1>2, <1>3, <2>2, <2>4, <3>1, MoveOK DEF NetOK
    <2> QED
      BY <1>5, <2>3, <2>4 DEF RouteLocalReply
  <1> QED
    BY <1>4, <1>5

LEMMA RouteLocalRequestNet ==
    ASSUME NetOK, NEW u \in Users, RouteLocalRequest(u[1], u[2]),
           workReadyQueue[u[1]] \in Seq(WorkersOf[u[1]])
    PROVE  NetOK'
  <1> DEFINE c == u[1]
             from == ToFrontend(c, u[2])
             m == [Head(net[from]) EXCEPT !.fromClusterID = c]
             worker == Head(workReadyQueue[c])
  <1>1. Nonempty(from)
    BY DEF RouteLocalRequest
  <1>2. from \in Channels /\ Head(net[from]) \in TaskMeta /\ Addressed(from, Head(net[from]))
    BY <1>1, ChannelsExist, ReceiveOK DEF NetOK, Nonempty
  <1>3. /\ m \in TaskMeta /\ IsRequest(m) /\ Sender(m) = u
        /\ m.fromClusterID = c /\ m.toID = NoID /\ m.toClusterID = NoID
    BY <1>2, Members DEF Addressed, ToFrontend, TaskMeta, IsRequest, Sender
  <1>4. CASE readyWorkerCount(c) > 0
    <2> DEFINE sent == [m EXCEPT !.toClusterID = c, !.toID = worker]
    <2>1. Move(from, ToWorker(c, worker), sent)
      BY <1>4 DEF RouteLocalRequest
    <2>2. worker \in WorkersOf[c]
      BY <1>4, TakeFacts DEF readyWorkerCount
    <2>3. sent \in TaskMeta /\ IsRequest(sent) /\ Sender(sent) = u /\ sent.toClusterID = c
      <3>1. c \in Clusters /\ worker \in WorkerIDs
        BY <2>2, Members DEF WorkerIDs
      <3> QED
        BY <1>3, <3>1 DEF TaskMeta, IsRequest, Sender
    <2>4. Addressed(ToWorker(c, worker), sent)
      BY <2>3 DEF Addressed, ToWorker
    <2> QED
      BY <1>1, <1>2, <2>1, <2>3, <2>4, MoveOK DEF NetOK
  <1>5. CASE ~(readyWorkerCount(c) > 0)
    <2>1. Move(from, CloudUp(c), m)
      BY <1>5 DEF RouteLocalRequest
    <2>2. Addressed(CloudUp(c), m)
      BY <1>3 DEF Addressed, CloudUp
    <2> QED
      BY <1>1, <1>2, <1>3, <2>1, <2>2, MoveOK DEF NetOK
  <1> QED
    BY <1>4, <1>5

\* A rejected request is an answer to its sender.
LEMMA RejectionAnswers ==
    ASSUME NEW m \in TaskMeta, IsRequest(m), Sender(m) \in Users
    PROVE  /\ Rejection(m) \in TaskMeta
           /\ IsAnswer(Rejection(m))
           /\ Recipient(Rejection(m)) = Sender(m)
           /\ Rejection(m).taskID = m.taskID
  BY DEF Rejection, TaskMeta, TaskDirection, Payload, IsRequest, IsAnswer, Sender, Recipient

LEMMA RouteCloudNet ==
    ASSUME NetOK, NEW c \in Clusters, RouteCloud(c)
    PROVE  NetOK'
  <1> DEFINE from == CloudDown(c)
             m == Head(net[from])
  <1>1. Nonempty(from)
    BY DEF RouteCloud
  <1>2. from \in Channels /\ m \in TaskMeta /\ Addressed(from, m)
    BY <1>1, ChannelsExist, ReceiveOK DEF NetOK, Nonempty
  <1>3. \/ IsRequest(m) /\ Sender(m) \in Users /\ m.toClusterID = c
        \/ IsAnswer(m) /\ Recipient(m) \in Users /\ m.toClusterID = c
    BY <1>2 DEF Addressed, CloudDown
  <1>4. CASE m.taskDirection = "TASK_SUBMIT"
    <2>1. IsRequest(m) /\ Sender(m) \in Users /\ m.toClusterID = c
      BY <1>3, <1>4 DEF IsAnswer
    <2>2. CASE Move(from, ToWorker(c, Head(workReadyQueue[c])), m)
      <3>1. Addressed(ToWorker(c, Head(workReadyQueue[c])), m)
        BY <2>1 DEF Addressed, ToWorker
      <3> QED
        BY <1>1, <1>2, <2>2, <3>1, MoveOK DEF NetOK
    <2>3. CASE Move(from, CloudUp(c), Rejection(m))
      <3>1. Rejection(m) \in TaskMeta /\ Addressed(CloudUp(c), Rejection(m))
        BY <1>2, <2>1, RejectionAnswers DEF Addressed, CloudUp
      <3> QED
        BY <1>1, <1>2, <2>3, <3>1, MoveOK DEF NetOK
    <2> QED
      BY <1>4, <2>2, <2>3 DEF RouteCloud
  <1>5. CASE m.taskDirection # "TASK_SUBMIT"
    <2>1. IsAnswer(m) /\ Recipient(m) = <<c, m.toID>>
      BY <1>3, <1>5 DEF IsRequest, Recipient
    <2>2. Addressed(ToClient(c, m.toID), m)
      BY <2>1 DEF Addressed, ToClient
    <2>3. Move(from, ToClient(c, m.toID), m)
      BY <1>5 DEF RouteCloud
    <2> QED
      BY <1>1, <1>2, <2>2, <2>3, MoveOK DEF NetOK
  <1> QED
    BY <1>4, <1>5

--------------------------------------------------------------------------------
\* The super broker.

LEMMA RouteToNet ==
    ASSUME NetOK, NEW c \in Clusters, Nonempty(CloudUp(c)),
           NEW t \in Clusters, NEW m \in TaskMeta, Addressed(CloudDown(t), m),
           NEW user \in Users, RouteTo(c, t, m, user), dropped \subseteq Users
    PROVE  NetOK' /\ dropped' \subseteq Users
  BY ChannelsExist, ReceiveOK, MoveOK DEF RouteTo, NetOK, Nonempty

LEMMA RouteMessageNet ==
    ASSUME NetOK, dropped \subseteq Users, NEW c \in Clusters, RouteMessage(c)
    PROVE  NetOK' /\ dropped' \subseteq Users
  <1> DEFINE m == Head(net[CloudUp(c)])
  <1>1. Nonempty(CloudUp(c)) /\ CloudUp(c) \in Channels
    BY ChannelsExist DEF RouteMessage
  <1>2. m \in TaskMeta /\ Addressed(CloudUp(c), m)
    BY <1>1, ReceiveOK DEF NetOK, Nonempty
  <1>3. \/ m = ClusterAlive(c)
        \/ IsRequest(m) /\ Sender(m) \in Users /\ m.fromClusterID = c
           /\ m.toID = NoID /\ m.toClusterID = NoID
        \/ IsAnswer(m) /\ Recipient(m) \in Users
    BY <1>2 DEF Addressed, CloudUp
  <1>4. CASE Discard(c, m)
    BY <1>1, <1>4, ReceiveOK DEF Discard, NetOK, Nonempty
  <1>5. CASE RouteRequest(c, m)
    <2>1. IsRequest(m) /\ Sender(m) \in Users /\ m.toID = NoID
      BY <1>3, <1>5 DEF RouteRequest, IsAnswer, ClusterAlive, FreshMeta
    <2>2. CASE \E t \in Clusters :
                 RouteTo(c, t, [m EXCEPT !.toClusterID = t], <<m.fromClusterID, m.fromID>>)
      <3> PICK t \in Clusters :
                 RouteTo(c, t, [m EXCEPT !.toClusterID = t], <<m.fromClusterID, m.fromID>>)
        BY <2>2
      <3> DEFINE sent == [m EXCEPT !.toClusterID = t]
      <3>1. sent \in TaskMeta /\ IsRequest(sent) /\ Sender(sent) = Sender(m)
            /\ sent.toID = NoID /\ sent.toClusterID = t
        BY <1>2, <2>1 DEF TaskMeta, IsRequest, Sender
      <3>2. Addressed(CloudDown(t), sent)
        BY <2>1, <3>1 DEF Addressed, CloudDown
      <3> QED
        BY <1>1, <2>1, <3>1, <3>2, RouteToNet DEF Sender
    <2>3. CASE RouteTo(c, m.fromClusterID, Rejection(m), <<m.fromClusterID, m.fromID>>)
      <3>1. /\ Rejection(m) \in TaskMeta
            /\ IsAnswer(Rejection(m)) /\ Recipient(Rejection(m)) = Sender(m)
        BY <1>2, <2>1, RejectionAnswers
      <3>2. m.fromClusterID \in Clusters
        BY <2>1, Members DEF Sender
      <3>3. Addressed(CloudDown(m.fromClusterID), Rejection(m))
        BY <2>1, <3>1 DEF Addressed, CloudDown, Sender, Recipient
      <3> QED
        BY <1>1, <2>1, <2>3, <3>1, <3>2, <3>3, RouteToNet DEF Sender
    <2> QED
      BY <1>5, <2>2, <2>3 DEF RouteRequest
  <1>6. CASE RouteAnswer(c, m)
    <2>1. IsAnswer(m) /\ Recipient(m) \in Users
      BY <1>3, <1>6 DEF RouteAnswer, IsRequest, ClusterAlive, FreshMeta
    <2>2. m.toClusterID \in Clusters
      BY <2>1, Members DEF Recipient
    <2>3. Addressed(CloudDown(m.toClusterID), m)
      BY <2>1 DEF Addressed, CloudDown
    <2> QED
      BY <1>1, <1>2, <1>6, <2>1, <2>2, <2>3, RouteToNet DEF RouteAnswer, Recipient
  <1> QED
    BY <1>4, <1>5, <1>6 DEF RouteMessage

--------------------------------------------------------------------------------
\* The cases of a step.
LEMMA Steps ==
    ASSUME Next
    PROVE  \/ \E u \in Users : Local(SendRequest(u[1], u[2]))
           \/ \E u \in Users : Local(ReceiveReply(u[1], u[2]))
           \/ \E u \in Users : Local(Wake(u[1], u[2]))
           \/ \E u \in Users : Local(RouteLocalRequest(u[1], u[2]))
           \/ \E v \in Crew : Local(Process(v[1], v[2]))
           \/ \E v \in Crew : Local(RouteLocalReply(v[1], v[2]))
           \/ \E c \in Clusters : Local(RouteCloud(c))
           \/ Report(StateNext)
           \/ \E c \in Clusters : Super(Connect(c)) \/ Super(StatePuller(c))
           \/ \E c \in Clusters : Super(TaskRouter(c))
  BY DEF Next, Local, Super, BrokerNext, ClientNext, SuperNext

LEMMA NetStep ==
    ASSUME NetInv, [Next]_vars
    PROVE  NetInv'
  <1> DEFINE Others == /\ clientState' \in [Users -> {"ready", "waiting", "backoff"}]
                       /\ clientTask' \in [Users -> TaskIDs \cup {0}]
                       /\ workReadyQueue' \in [Clusters -> Seq(WorkerIDs)]
                       /\ \A c \in Clusters : workReadyQueue'[c] \in Seq(WorkersOf[c])
                       /\ statePair' \in [Clusters -> Seq(Nat)]
                       /\ statePush' \in [Clusters -> Seq(Nat)]
                       /\ clusterInfoMap' \in [Clusters -> Nat]
                       /\ routable' \subseteq Clusters
                       /\ dropped' \subseteq Users
  <1>0. NetOK /\ TypeOK
    BY NetInvNetOK DEF NetInv
  <1> SUFFICES NetOK' /\ Others
    BY DEF NetInv, NetOK, TypeOK, WellAddressed, Networks, AllAddressed
  \* A handler that takes the first worker from the queue, and one that adds a worker.
  <1>a. ASSUME NEW c \in Clusters, readyWorkerCount(c) > 0,
               TakeWorker(c)
        PROVE  /\ workReadyQueue' \in [Clusters -> Seq(WorkerIDs)]
               /\ \A d \in Clusters : workReadyQueue'[d] \in Seq(WorkersOf[d])
    <2>1. workReadyQueue[c] # <<>>
      BY <1>0, <1>a DEF TypeOK, readyWorkerCount
    <2>2. Tail(workReadyQueue[c]) \in Seq(WorkersOf[c]) /\ Tail(workReadyQueue[c]) \in Seq(WorkerIDs)
      BY <1>0, <2>1, TakeFacts DEF TypeOK
    <2> QED
      BY <1>0, <1>a, <2>2 DEF TypeOK, TakeWorker
  <1>b. ASSUME NEW v \in Crew,
               workReadyQueue' = [workReadyQueue EXCEPT ![v[1]] = Append(@, v[2])]
        PROVE  /\ workReadyQueue' \in [Clusters -> Seq(WorkerIDs)]
               /\ \A d \in Clusters : workReadyQueue'[d] \in Seq(WorkersOf[d])
    <2>1. /\ v[1] \in Clusters
          /\ Append(workReadyQueue[v[1]], v[2]) \in Seq(WorkersOf[v[1]])
          /\ Append(workReadyQueue[v[1]], v[2]) \in Seq(WorkerIDs)
      BY <1>0, Members, PutFacts DEF TypeOK
    <2> QED
      BY <1>0, <1>b, <2>1 DEF TypeOK
  <1>1. CASE \E u \in Users : Local(SendRequest(u[1], u[2]))
    <2> PICK u \in Users : Local(SendRequest(u[1], u[2]))
      BY <1>1
    <2>1. NetOK'
      BY <1>0, SendRequestNet DEF Local
    <2>2. Others
      BY <1>0 DEF TypeOK, Local, SendRequest, stateVars, superVars
    <2> QED
      BY <2>1, <2>2
  <1>2. CASE \E u \in Users : Local(ReceiveReply(u[1], u[2]))
    <2> PICK u \in Users : Local(ReceiveReply(u[1], u[2]))
      BY <1>2
    <2>1. NetOK'
      BY <1>0, ReceiveReplyNet DEF Local
    <2>2. Others
      BY <1>0 DEF TypeOK, Local, ReceiveReply, stateVars, superVars
    <2> QED
      BY <2>1, <2>2
  <1>3. CASE \E u \in Users : Local(Wake(u[1], u[2]))
    BY <1>0, <1>3 DEF NetOK, TypeOK, Local, Wake, stateVars, superVars
  <1>4. CASE \E u \in Users : Local(RouteLocalRequest(u[1], u[2]))
    <2> PICK u \in Users : Local(RouteLocalRequest(u[1], u[2]))
      BY <1>4
    <2>1. NetOK'
      BY <1>0, Members, RouteLocalRequestNet DEF TypeOK, Local
    <2>2. /\ workReadyQueue' \in [Clusters -> Seq(WorkerIDs)]
          /\ \A c \in Clusters : workReadyQueue'[c] \in Seq(WorkersOf[c])
      BY <1>0, <1>a, Members DEF TypeOK, Local, RouteLocalRequest
    <2> QED
      BY <1>0, <2>1, <2>2 DEF TypeOK, Local, RouteLocalRequest, clientVars, stateVars, superVars
  <1>5. CASE \E v \in Crew : Local(Process(v[1], v[2]))
    <2> PICK v \in Crew : Local(Process(v[1], v[2]))
      BY <1>5
    <2>1. NetOK'
      BY <1>0, ProcessNet DEF Local
    <2> QED
      BY <1>0, <2>1 DEF TypeOK, Local, Process, brokerVars, stateVars, superVars
  <1>6. CASE \E v \in Crew : Local(RouteLocalReply(v[1], v[2]))
    <2> PICK v \in Crew : Local(RouteLocalReply(v[1], v[2]))
      BY <1>6
    <2>1. NetOK' /\ Head(net[ToBackend(v[1], v[2])]).fromID = v[2]
      BY <1>0, RouteLocalReplyNet DEF Local
    <2>2. /\ workReadyQueue' \in [Clusters -> Seq(WorkerIDs)]
          /\ \A c \in Clusters : workReadyQueue'[c] \in Seq(WorkersOf[c])
      BY <2>1, <1>b DEF Local, RouteLocalReply, MarkReady
    <2> QED
      BY <1>0, <2>1, <2>2 DEF TypeOK, Local, RouteLocalReply, clientVars, stateVars, superVars
  <1>7. CASE \E c \in Clusters : Local(RouteCloud(c))
    <2> PICK c \in Clusters : Local(RouteCloud(c))
      BY <1>7
    <2>1. NetOK'
      BY <1>0, RouteCloudNet DEF Local
    <2>2. /\ workReadyQueue' \in [Clusters -> Seq(WorkerIDs)]
          /\ \A d \in Clusters : workReadyQueue'[d] \in Seq(WorkersOf[d])
      BY <1>0, <1>a DEF TypeOK, Local, RouteCloud
    <2> QED
      BY <1>0, <2>1, <2>2 DEF TypeOK, Local, RouteCloud, clientVars, stateVars, superVars
  <1>8. CASE Report(StateNext)
    <2>1. statePair' \in [Clusters -> Seq(Nat)] /\ statePush' \in [Clusters -> Seq(Nat)]
      <3> PICK c \in Clusters : SetClusterState(c) \/ ForwardState(c)
        BY <1>8 DEF Report, StateNext
      <3>1. CASE SetClusterState(c)
        <4>1. readyWorkerCount(c) \in Nat
          BY <1>0 DEF TypeOK, readyWorkerCount
        <4> QED
          BY <1>0, <3>1, <4>1, PutFacts DEF TypeOK, SetClusterState
      <3>2. CASE ForwardState(c)
        <4>1. Head(statePair[c]) \in Nat /\ Tail(statePair[c]) \in Seq(Nat)
          BY <1>0, <3>2, TakeFacts DEF TypeOK, ForwardState
        <4> QED
          BY <1>0, <3>2, <4>1, PutFacts DEF TypeOK, ForwardState
      <3> QED
        BY <3>1, <3>2
    <2> QED
      BY <1>0, <1>8, <2>1 DEF NetOK, TypeOK, Report, brokerVars, superVars
  <1>9. CASE \E c \in Clusters : Super(Connect(c)) \/ Super(StatePuller(c))
    <2> PICK c \in Clusters : Super(Connect(c)) \/ Super(StatePuller(c))
      BY <1>9
    <2>1. CASE Super(Connect(c))
      BY <1>0, <2>1 DEF NetOK, TypeOK, Super, Connect, brokerVars
    <2>2. CASE Super(StatePuller(c))
      <3>1. Head(statePush[c]) \in Nat /\ Tail(statePush[c]) \in Seq(Nat)
        BY <1>0, <2>2, TakeFacts DEF TypeOK, Super, StatePuller
      <3> QED
        BY <1>0, <2>2, <3>1 DEF NetOK, TypeOK, Super, StatePuller, brokerVars
    <2> QED
      BY <2>1, <2>2
  <1>10. CASE \E c \in Clusters : Super(TaskRouter(c))
    <2> PICK c \in Clusters : Super(TaskRouter(c))
      BY <1>10
    <2>1. NetOK' /\ dropped' \subseteq Users
      BY <1>0, RouteMessageNet DEF TypeOK, Super, TaskRouter
    <2> QED
      BY <1>0, <2>1 DEF TypeOK, Super, TaskRouter, RouteMessage, brokerVars
  <1>11. CASE UNCHANGED vars
    BY <1>0, <1>11 DEF NetOK, TypeOK, vars, brokerVars, stateVars, superVars
  <1> QED
    BY <1>1, <1>2, <1>3, <1>4, <1>5, <1>6, <1>7, <1>8, <1>9, <1>10, <1>11, Steps

(***************************************************************************)
(* In every reachable state the variables have their types, and every      *)
(* message on a channel carries the addresses its receiver relies on.      *)
(***************************************************************************)
THEOREM NetCorrect == Spec => [](TypeOK /\ WellAddressed)
  <1>1. Init => NetInv
    BY InitNet
  <1>2. NetInv /\ [Next]_vars => NetInv'
    BY NetStep
  <1>3. NetInv => TypeOK /\ WellAddressed
    BY DEF NetInv
  <1> QED
    BY <1>1, <1>2, <1>3, PTL DEF Spec

\* The types alone: no handler ever sends what is not a message, or makes ready what
\* is not a worker of its cluster.
THEOREM DataCenterTypes == Spec => []TypeOK
  BY NetCorrect, PTL

--------------------------------------------------------------------------------
(***************************************************************************)
(* One place per worker.  A channel changes only by a handler of one of    *)
(* its two ends, and a worker leaves the ready queue at its head only.     *)
(***************************************************************************)

\* What a step of a handler does to each channel.
LEMMA ReceiveEffect ==
    ASSUME NEW f \in Networks, NEW from \in Channels
    PROVE  /\ Receive(f, from)[from] = Tail(f[from])
           /\ \A ch \in Channels \ {from} : Receive(f, from)[ch] = f[ch]
  BY DEF Receive, Networks

LEMMA SendEffect ==
    ASSUME NEW f \in Networks, NEW to, NEW m \in TaskMeta
    PROVE  /\ to \in Channels => Send(f, to, m)[to] = Append(f[to], m)
           /\ \A ch \in Channels \ {to} : Send(f, to, m)[ch] = f[ch]
  BY DEF Send, Networks

LEMMA MoveEffect ==
    ASSUME NetOK, NEW from \in Channels, Nonempty(from),
           NEW to, NEW m \in TaskMeta, Move(from, to, m), from # to
    PROVE  /\ net'[from] = Tail(net[from])
           /\ to \in Channels => net'[to] = Append(net[to], m)
           /\ \A ch \in Channels \ {from, to} : net'[ch] = net[ch]
  <1>1. Receive(net, from) \in Networks
    BY ReceiveOK DEF NetOK, Nonempty
  <1>2. net \in Networks
    BY DEF NetOK
  <1>3. /\ Receive(net, from)[from] = Tail(net[from])
        /\ \A ch \in Channels \ {from} : Receive(net, from)[ch] = net[ch]
    BY <1>2, ReceiveEffect
  <1>4. /\ to \in Channels => net'[to] = Append(Receive(net, from)[to], m)
        /\ \A ch \in Channels \ {to} : net'[ch] = Receive(net, from)[ch]
    BY <1>1, SendEffect DEF Move
  <1> QED
    BY <1>3, <1>4

CrewChannel(ch) == ch[1] \in {"ToWorker", "ToBackend"}

\* Most steps touch neither the connections of the workers of a cluster nor their queue.
LEMMA PlacesUntouched ==
    ASSUME NEW d \in Clusters, OnePlaceIn(d), workReadyQueue'[d] = workReadyQueue[d],
           \A ch \in Channels : CrewChannel(ch) /\ ch[2] = d => net'[ch] = net[ch]
    PROVE  OnePlaceIn(d)'
  <1>1. ASSUME NEW w \in WorkersOf[d]
        PROVE  /\ net'[ToWorker(d, w)] = net[ToWorker(d, w)]
               /\ net'[ToBackend(d, w)] = net[ToBackend(d, w)]
    BY CrewExist DEF CrewChannel, ToWorker, ToBackend
  <1>2. \A w : Queued(d, w)' <=> Queued(d, w)
    BY DEF Queued
  <1>3. \A w \in WorkersOf[d] :
            Len(net'[ToWorker(d, w)]) + Len(net'[ToBackend(d, w)])
                = IF Queued(d, w)' THEN 0 ELSE 1
    BY <1>1, <1>2 DEF OnePlaceIn
  <1> QED
    BY <1>3 DEF OnePlaceIn

\* The first ready worker of c gets message m.
LEMMA PlacesDispatch ==
    ASSUME NetInv, NEW d \in Clusters, OnePlaceIn(d), NEW c \in Clusters,
           NEW from \in Channels, ~CrewChannel(from), Nonempty(from), NEW m \in TaskMeta,
           readyWorkerCount(c) > 0, TakeWorker(c),
           Move(from, ToWorker(c, Head(workReadyQueue[c])), m)
    PROVE  OnePlaceIn(d)'
  <1> DEFINE q == workReadyQueue[c]
  <1> PICK w : w = Head(workReadyQueue[c])
    OBVIOUS
  <1>1. q \in Seq(WorkersOf[c]) /\ q # <<>> /\ w \in WorkersOf[c] /\ w = q[1] /\ 1 \in DOMAIN q
    BY TakeFacts DEF NetInv, TypeOK, readyWorkerCount
  <1>2. Queued(c, w)
    BY <1>1 DEF Queued
  <1>3. ToWorker(c, w) \in Channels /\ ToBackend(c, w) \in Channels /\ from # ToWorker(c, w)
    BY <1>1, CrewExist DEF CrewChannel, ToWorker
  <1>4. /\ net'[ToWorker(c, w)] = Append(net[ToWorker(c, w)], m)
        /\ \A ch \in Channels \ {from, ToWorker(c, w)} : net'[ch] = net[ch]
    BY <1>3, MoveEffect, NetInvNetOK
  <1>5. /\ d # c => workReadyQueue'[d] = workReadyQueue[d]
        /\ workReadyQueue'[c] = Tail(q)
    BY DEF TakeWorker, NetInv, TypeOK
  <1>6. CASE d # c
    <2>1. \A ch \in Channels : CrewChannel(ch) /\ ch[2] = d => net'[ch] = net[ch]
      BY <1>4, <1>6 DEF ToWorker
    <2> QED
      BY <1>5, <1>6, <2>1, PlacesUntouched
  <1>7. CASE d = c
    <2>1. EachOnce(Tail(q)) /\ \A x : InQueue(Tail(q), x) <=> InQueue(q, x) /\ x # w
      <3>1. EachOnce(q) /\ Head(q) = w
        BY <1>7 DEF OnePlaceIn, EachOnce
      <3> HIDE DEF q
      <3> QED
        BY <1>1, <3>1, TakeOnce
    <2>2. \A i, j \in DOMAIN workReadyQueue'[d] :
              workReadyQueue'[d][i] = workReadyQueue'[d][j] => i = j
      BY <1>5, <1>7, <2>1 DEF EachOnce
    <2>3. ASSUME NEW x \in WorkersOf[c]
          PROVE  /\ Queued(c, x)' <=> Queued(c, x) /\ x # w
                 /\ net'[ToBackend(c, x)] = net[ToBackend(c, x)]
                 /\ x # w => net'[ToWorker(c, x)] = net[ToWorker(c, x)]
      <3>1. /\ Queued(c, x)' <=> InQueue(Tail(q), x)
            /\ Queued(c, x) <=> InQueue(q, x)
        BY <1>5 DEF Queued, InQueue
      <3> HIDE DEF q
      <3>2. /\ ToWorker(c, x) \in Channels /\ ToBackend(c, x) \in Channels
            /\ ToWorker(c, x) # from /\ ToBackend(c, x) # from
            /\ ToBackend(c, x) # ToWorker(c, w)
            /\ x # w => ToWorker(c, x) # ToWorker(c, w)
        BY CrewExist DEF CrewChannel, ToWorker, ToBackend
      <3> QED
        BY <1>4, <2>1, <3>1, <3>2
    <2>4. Len(net'[ToWorker(c, w)]) + Len(net'[ToBackend(c, w)]) = 1
      <3> DEFINE a == Len(net[ToWorker(c, w)])
                 b == Len(net[ToBackend(c, w)])
      <3>1. a + b = 0
        BY <1>1, <1>2, <1>7 DEF OnePlaceIn
      <3>2. net[ToWorker(c, w)] \in Seq(TaskMeta) /\ net[ToBackend(c, w)] \in Seq(TaskMeta)
        BY <1>3 DEF NetInv, TypeOK
      <3>3. /\ a \in Nat /\ b \in Nat /\ Len(net'[ToWorker(c, w)]) = a + 1
            /\ Len(net'[ToBackend(c, w)]) = b
        BY <1>1, <1>4, <2>3, <3>2, PutFacts
      <3> HIDE DEF a, b
      <3>4. (a + 1) + b = 1
        BY <3>1, <3>3
      <3> QED
        BY <3>3, <3>4
    <2>5. ASSUME NEW x \in WorkersOf[d]
          PROVE  Len(net'[ToWorker(d, x)]) + Len(net'[ToBackend(d, x)])
                     = IF Queued(d, x)' THEN 0 ELSE 1
      <3>1. CASE x = w
        BY <1>1, <1>7, <2>3, <2>4, <3>1
      <3>2. CASE x # w
        BY <1>7, <2>3, <3>2 DEF OnePlaceIn
      <3> QED
        BY <3>1, <3>2
    <2> QED
      BY <2>2, <2>5 DEF OnePlaceIn
  <1> QED
    BY <1>6, <1>7

\* A worker that has a task sends its reply.
LEMMA PlacesProcess ==
    ASSUME NetInv, NEW d \in Clusters, OnePlaceIn(d), NEW v \in Crew, Process(v[1], v[2])
    PROVE  OnePlaceIn(d)'
  <1> DEFINE from == ToWorker(v[1], v[2])
             to == ToBackend(v[1], v[2])
             m == Head(net[from])
             reply == [m EXCEPT !.toID = m.fromID, !.fromID = v[2],
                                !.taskDirection = "TASK_REPLY", !.payload = "sum"]
  <1>1. /\ from \in Channels /\ to \in Channels /\ from # to /\ Nonempty(from)
        /\ Move(from, to, reply)
    BY ChannelsExist DEF Process, ToWorker, ToBackend
  <1>2. m \in TaskMeta
    BY <1>1, ReceiveOK, NetInvNetOK DEF NetOK, Nonempty
  <1>3. reply \in TaskMeta
    BY <1>2, Members DEF TaskMeta, TaskDirection, Payload
  <1>4. /\ net'[from] = Tail(net[from]) /\ net'[to] = Append(net[to], reply)
        /\ \A ch \in Channels \ {from, to} : net'[ch] = net[ch]
    BY <1>1, <1>3, MoveEffect, NetInvNetOK
  <1>5. net[from] \in Seq(TaskMeta) /\ net[to] \in Seq(TaskMeta) /\ net[from] # <<>>
    BY <1>1 DEF NetInv, TypeOK, Nonempty
  <1> DEFINE a == Len(net[from])
             b == Len(net[to])
  <1>6. /\ a \in Nat /\ a >= 1 /\ b \in Nat
        /\ Len(net'[from]) = a - 1 /\ Len(net'[to]) = b + 1
    BY <1>3, <1>4, <1>5, TakeFacts, PutFacts
  <1>7. workReadyQueue' = workReadyQueue
    BY DEF Process, brokerVars
  <1>8. ASSUME NEW x \in WorkersOf[d]
        PROVE  Len(net'[ToWorker(d, x)]) + Len(net'[ToBackend(d, x)])
                   = IF Queued(d, x)' THEN 0 ELSE 1
    <2>1. Queued(d, x)' <=> Queued(d, x)
      BY <1>7 DEF Queued
    <2>2. CASE d = v[1] /\ x = v[2]
      <3>1. a + b = IF Queued(d, x) THEN 0 ELSE 1
        BY <2>2 DEF OnePlaceIn
      <3>2. Len(net'[from]) = a - 1 /\ Len(net'[to]) = b + 1 /\ a \in Nat /\ b \in Nat
        BY <1>6
      <3> HIDE DEF a, b
      <3>3. (a - 1) + (b + 1) = IF Queued(d, x) THEN 0 ELSE 1
        BY <3>1, <3>2
      <3> QED
        BY <2>1, <2>2, <3>2, <3>3
    <2>3. CASE ~(d = v[1] /\ x = v[2])
      <3>1. /\ ToWorker(d, x) \in Channels \ {from, to}
            /\ ToBackend(d, x) \in Channels \ {from, to}
        BY <2>3, CrewExist DEF ToWorker, ToBackend
      <3> QED
        BY <1>4, <2>1, <3>1 DEF OnePlaceIn
    <2> QED
      BY <2>2, <2>3
  <1> QED
    BY <1>7, <1>8 DEF OnePlaceIn

\* A worker that sent something becomes ready, and was not before.
LEMMA PlacesReturn ==
    ASSUME NetInv, NEW d \in Clusters, OnePlaceIn(d), NEW v \in Crew,
           RouteLocalReply(v[1], v[2])
    PROVE  OnePlaceIn(d)'
  <1> DEFINE c == v[1]
             from == ToBackend(c, v[2])
             m == Head(net[from])
             reply == [m EXCEPT !.toClusterID = m.fromClusterID, !.fromClusterID = c]
             q == workReadyQueue[c]
  <1>1. Nonempty(from) /\ from \in Channels
    BY ChannelsExist DEF RouteLocalReply
  <1>2. m \in TaskMeta /\ m.fromID = v[2] /\ net[from] \in Seq(TaskMeta)
    BY <1>1, ReceiveOK, NetInvNetOK, RouteLocalReplyNet DEF NetOK, Nonempty, Networks
  <1>3. reply \in TaskMeta
    BY <1>2, Members DEF TaskMeta
  <1>4. /\ net'[from] = Tail(net[from])
        /\ \A ch \in Channels \ {from} : CrewChannel(ch) => net'[ch] = net[ch]
    <2>1. CASE net' = Receive(net, from)
      BY <1>1, <2>1, ReceiveEffect, NetInvNetOK DEF NetOK
    <2>2. CASE \E to : Move(from, to, reply) /\ ~CrewChannel(to)
      <3> PICK to : Move(from, to, reply) /\ ~CrewChannel(to)
        BY <2>2
      <3>1. from # to
        BY DEF CrewChannel, ToBackend
      <3> QED
        BY <1>1, <1>3, <3>1, MoveEffect, NetInvNetOK
    <2>3. ~CrewChannel(ToClient(c, m.toID)) /\ ~CrewChannel(CloudUp(c))
      BY DEF CrewChannel, ToClient, CloudUp
    <2> QED
      BY <2>1, <2>2, <2>3 DEF RouteLocalReply
  <1>5. /\ d # c => workReadyQueue'[d] = workReadyQueue[d]
        /\ workReadyQueue'[c] = Append(q, v[2])
    BY <1>2, Members DEF RouteLocalReply, MarkReady, NetInv, TypeOK
  <1>6. CASE d # c
    <2>1. \A ch \in Channels : CrewChannel(ch) /\ ch[2] = d => net'[ch] = net[ch]
      BY <1>4, <1>6 DEF ToBackend
    <2> QED
      BY <1>5, <1>6, <2>1, PlacesUntouched
  <1>7. CASE d = c
    <2>1. /\ Len(net[ToWorker(c, v[2])]) = 0 /\ Len(net'[from]) = 0 /\ ~Queued(c, v[2])
      <3> DEFINE a == Len(net[ToWorker(c, v[2])])
                 b == Len(net[from])
      <3>1. /\ a + b = IF Queued(c, v[2]) THEN 0 ELSE 1
            /\ b \in Nat /\ b >= 1 /\ Len(net'[from]) = b - 1
        BY <1>1, <1>2, <1>4, <1>7, Members, TakeFacts DEF OnePlaceIn, Nonempty
      <3>2. a \in Nat
        BY ChannelsExist DEF NetInv, TypeOK
      <3> HIDE DEF a, b
      <3>3. a = 0 /\ b = 1 /\ ~Queued(c, v[2]) /\ b - 1 = 0
        BY <3>1, <3>2
      <3> QED
        BY <3>1, <3>3 DEF a, b
    <2>2. /\ EachOnce(Append(q, v[2]))
          /\ \A w : InQueue(Append(q, v[2]), w) <=> InQueue(q, w) \/ w = v[2]
      <3>1. /\ q \in Seq(WorkersOf[c]) /\ v[2] \in WorkersOf[c]
            /\ EachOnce(q) /\ ~InQueue(q, v[2])
        BY <1>7, <2>1, Members DEF NetInv, TypeOK, OnePlaceIn, Queued, EachOnce, InQueue
      <3> HIDE DEF q
      <3> QED
        BY <3>1, PutOnce
    <2>3. \A i, j \in DOMAIN workReadyQueue'[d] :
              workReadyQueue'[d][i] = workReadyQueue'[d][j] => i = j
      BY <1>5, <1>7, <2>2 DEF EachOnce
    <2>4. ASSUME NEW x \in WorkersOf[c]
          PROVE  /\ Queued(c, x)' <=> Queued(c, x) \/ x = v[2]
                 /\ net'[ToWorker(c, x)] = net[ToWorker(c, x)]
                 /\ x # v[2] => net'[ToBackend(c, x)] = net[ToBackend(c, x)]
      <3>1. /\ Queued(c, x)' <=> InQueue(Append(q, v[2]), x)
            /\ Queued(c, x) <=> InQueue(q, x)
        BY <1>5 DEF Queued, InQueue
      <3> HIDE DEF q
      <3>2. /\ ToWorker(c, x) \in Channels \ {from} /\ CrewChannel(ToWorker(c, x))
            /\ ToBackend(c, x) \in Channels /\ CrewChannel(ToBackend(c, x))
            /\ x # v[2] => ToBackend(c, x) # from
        BY <1>7, CrewExist DEF CrewChannel, ToWorker, ToBackend
      <3> QED
        BY <1>4, <2>2, <3>1, <3>2
    <2>5. Len(net'[ToWorker(c, v[2])]) + Len(net'[from]) = 0
      <3> DEFINE a == Len(net'[ToWorker(c, v[2])])
                 b == Len(net'[from])
      <3>1. a = 0 /\ b = 0
        BY <2>1, <2>4, Members
      <3> HIDE DEF a, b
      <3>2. a + b = 0
        BY <3>1
      <3> QED
        BY <3>2 DEF a, b
    <2>6. ASSUME NEW x \in WorkersOf[d]
          PROVE  Len(net'[ToWorker(d, x)]) + Len(net'[ToBackend(d, x)])
                     = IF Queued(d, x)' THEN 0 ELSE 1
      <3>1. CASE x = v[2]
        BY <1>7, <2>4, <2>5, <3>1
      <3>2. CASE x # v[2]
        BY <1>7, <2>4, <3>2 DEF OnePlaceIn
      <3> QED
        BY <3>1, <3>2
    <2> QED
      BY <2>3, <2>6 DEF OnePlaceIn
  <1> QED
    BY <1>6, <1>7

\* A handler between two other channels leaves the workers alone.
LEMMA CrewQuiet ==
    ASSUME net \in Networks, NEW from \in Channels, ~CrewChannel(from)
    PROVE  /\ net' = Receive(net, from)
                => \A ch \in Channels : CrewChannel(ch) => net'[ch] = net[ch]
           /\ \A to, m : Move(from, to, m) /\ ~CrewChannel(to)
                => \A ch \in Channels : CrewChannel(ch) => net'[ch] = net[ch]
  <1>1. \A ch \in Channels : CrewChannel(ch) => Receive(net, from)[ch] = net[ch]
    BY ReceiveEffect
  <1>2. ASSUME NEW to, NEW m, Move(from, to, m), ~CrewChannel(to),
               NEW ch \in Channels, CrewChannel(ch)
        PROVE  net'[ch] = Receive(net, from)[ch]
    BY <1>2 DEF Move, Send, Receive, Networks
  <1> QED
    BY <1>1, <1>2

LEMMA KindsOfChannels ==
    /\ \A c, k : ~CrewChannel(ToFrontend(c, k)) /\ ~CrewChannel(ToClient(c, k))
    /\ \A c : ~CrewChannel(CloudUp(c)) /\ ~CrewChannel(CloudDown(c))
  BY DEF CrewChannel, ToFrontend, ToClient, CloudUp, CloudDown

LEMMA PlacesInit == Init => OnePlacePerWorker
  <1> SUFFICES ASSUME Init, NEW c \in Clusters PROVE OnePlaceIn(c)
    BY DEF OnePlacePerWorker
  <1>1. workReadyQueue[c] = <<>>
    BY DEF Init, BrokerInit
  <1>2. ASSUME NEW w \in WorkersOf[c]
        PROVE  Len(net[ToWorker(c, w)]) + Len(net[ToBackend(c, w)])
                   = IF Queued(c, w) THEN 0 ELSE 1
    <2>1. ~Queued(c, w)
      BY <1>1 DEF Queued
    <2>2. ToWorker(c, w) \in Channels /\ ToBackend(c, w) \in Channels
      BY CrewExist
    <2>3. net[ToWorker(c, w)] = <<>>
      BY <2>2 DEF Init, BrokerInit, ToWorker
    <2>4. net[ToBackend(c, w)] = <<WorkerAlive(w)>>
      BY <2>2 DEF Init, BrokerInit, ToBackend
    <2> DEFINE a == Len(net[ToWorker(c, w)])
               b == Len(net[ToBackend(c, w)])
    <2>5. a = 0 /\ b = 1
      BY <2>3, <2>4
    <2> HIDE DEF a, b
    <2>6. a + b = 1
      BY <2>5
    <2> QED
      BY <2>1, <2>6 DEF a, b
  <1>3. ASSUME NEW i \in DOMAIN workReadyQueue[c]
        PROVE  FALSE
    <2>1. workReadyQueue[c] \in Seq(WorkerIDs) /\ Len(workReadyQueue[c]) = 0
      BY <1>1
    <2>2. DOMAIN workReadyQueue[c] = 1 .. Len(workReadyQueue[c])
      BY <2>1
    <2> QED
      BY <1>3, <2>1, <2>2
  <1> QED
    BY <1>2, <1>3 DEF OnePlaceIn

\* The super broker has no connection to a worker.
LEMMA PlacesRouted ==
    ASSUME NetInv, NEW d \in Clusters, OnePlaceIn(d), NEW c \in Clusters, RouteMessage(c),
           UNCHANGED workReadyQueue
    PROVE  OnePlaceIn(d)'
  <1> DEFINE from == CloudUp(c)
             m == Head(net[from])
  <1>1. from \in Channels /\ ~CrewChannel(from) /\ net \in Networks
    BY ChannelsExist, KindsOfChannels, NetInvNetOK DEF NetOK
  <1>2. ASSUME NEW t, NEW x, NEW user, RouteTo(c, t, x, user)
        PROVE  \A ch \in Channels : CrewChannel(ch) => net'[ch] = net[ch]
    <2>1. Move(from, CloudDown(t), x) \/ net' = Receive(net, from)
      BY <1>2 DEF RouteTo
    <2> QED
      BY <1>1, <2>1, KindsOfChannels, CrewQuiet
  <1>3. \A ch \in Channels : CrewChannel(ch) => net'[ch] = net[ch]
    <2>1. CASE Discard(c, m)
      BY <1>1, <2>1, CrewQuiet DEF Discard
    <2>2. CASE RouteRequest(c, m)
      BY <1>2, <2>2 DEF RouteRequest
    <2>3. CASE RouteAnswer(c, m)
      BY <1>2, <2>3 DEF RouteAnswer
    <2> QED
      BY <2>1, <2>2, <2>3 DEF RouteMessage
  <1> QED
    BY <1>3, PlacesUntouched

LEMMA PlacesStep ==
    ASSUME NetInv, NEW d \in Clusters, OnePlaceIn(d), [Next]_vars
    PROVE  OnePlaceIn(d)'
  <1>0. NetOK /\ net \in Networks
    BY NetInvNetOK DEF NetOK
  <1>1. CASE \E u \in Users : Local(SendRequest(u[1], u[2]))
    <2> PICK u \in Users : SendRequest(u[1], u[2])
      BY <1>1 DEF Local
    <2>1. \A ch \in Channels : CrewChannel(ch) => net'[ch] = net[ch]
      BY <1>0, KindsOfChannels DEF SendRequest, Send, Networks
    <2> QED
      BY <2>1, PlacesUntouched DEF SendRequest
  <1>2. CASE \E u \in Users : Local(ReceiveReply(u[1], u[2]))
    <2> PICK u \in Users : ReceiveReply(u[1], u[2])
      BY <1>2 DEF Local
    <2>1. \A ch \in Channels : CrewChannel(ch) => net'[ch] = net[ch]
      BY <1>0, KindsOfChannels, ChannelsExist, CrewQuiet DEF ReceiveReply
    <2> QED
      BY <2>1, PlacesUntouched DEF ReceiveReply
  <1>3. CASE \E u \in Users : Local(Wake(u[1], u[2]))
    BY <1>3, PlacesUntouched DEF Local, Wake
  <1>4. CASE \E u \in Users : Local(RouteLocalRequest(u[1], u[2]))
    <2> PICK u \in Users : RouteLocalRequest(u[1], u[2])
      BY <1>4 DEF Local
    <2> DEFINE c == u[1]
               from == ToFrontend(c, u[2])
               m == [Head(net[from]) EXCEPT !.fromClusterID = c]
               worker == Head(workReadyQueue[c])
    <2>1. from \in Channels /\ ~CrewChannel(from) /\ Nonempty(from) /\ c \in Clusters
      BY ChannelsExist, KindsOfChannels, Members DEF RouteLocalRequest
    <2>2. CASE /\ readyWorkerCount(c) > 0
               /\ TakeWorker(c)
               /\ Move(from, ToWorker(c, worker), [m EXCEPT !.toClusterID = c, !.toID = worker])
      <3>1. worker \in WorkersOf[c] /\ worker \in WorkerIDs
        <4>1. workReadyQueue[c] \in Seq(WorkersOf[c]) /\ workReadyQueue[c] # <<>>
          BY <2>1, <2>2 DEF NetInv, TypeOK, readyWorkerCount
        <4> QED
          BY <2>1, <4>1, TakeFacts DEF WorkerIDs
      <3>2. Head(net[from]) \in TaskMeta
        BY <1>0, <2>1, ReceiveOK DEF NetOK, Nonempty
      <3>3. [m EXCEPT !.toClusterID = c, !.toID = worker] \in TaskMeta
        BY <2>1, <3>1, <3>2 DEF TaskMeta
      <3> HIDE DEF m, from
      <3> QED
        BY <2>1, <2>2, <3>3, PlacesDispatch
    <2>3. CASE UNCHANGED workReadyQueue /\ Move(from, CloudUp(c), m)
      <3>1. \A ch \in Channels : CrewChannel(ch) => net'[ch] = net[ch]
        BY <1>0, <2>1, <2>3, KindsOfChannels, CrewQuiet
      <3> QED
        BY <2>3, <3>1, PlacesUntouched
    <2> QED
      BY <2>2, <2>3 DEF RouteLocalRequest
  <1>5. CASE \E v \in Crew : Local(Process(v[1], v[2]))
    BY <1>5, PlacesProcess DEF Local
  <1>6. CASE \E v \in Crew : Local(RouteLocalReply(v[1], v[2]))
    BY <1>6, PlacesReturn DEF Local
  <1>7. CASE \E c \in Clusters : Local(RouteCloud(c))
    <2> PICK c \in Clusters : RouteCloud(c)
      BY <1>7 DEF Local
    <2> DEFINE from == CloudDown(c)
               m == Head(net[from])
    <2>1. from \in Channels /\ ~CrewChannel(from) /\ Nonempty(from)
      BY ChannelsExist, KindsOfChannels DEF RouteCloud
    <2>2. CASE /\ readyWorkerCount(c) > 0
               /\ TakeWorker(c)
               /\ Move(from, ToWorker(c, Head(workReadyQueue[c])), m)
      <3>1. m \in TaskMeta
        BY <1>0, <2>1, ReceiveOK DEF NetOK, Nonempty
      <3> HIDE DEF m, from
      <3> QED
        BY <2>1, <2>2, <3>1, PlacesDispatch
    <2>3. CASE UNCHANGED workReadyQueue /\ Move(from, CloudUp(c), Rejection(m))
      <3>1. \A ch \in Channels : CrewChannel(ch) => net'[ch] = net[ch]
        BY <1>0, <2>1, <2>3, KindsOfChannels, CrewQuiet
      <3> QED
        BY <2>3, <3>1, PlacesUntouched
    <2>4. CASE UNCHANGED workReadyQueue /\ Move(from, ToClient(c, m.toID), m)
      <3>1. \A ch \in Channels : CrewChannel(ch) => net'[ch] = net[ch]
        BY <1>0, <2>1, <2>4, KindsOfChannels, CrewQuiet
      <3> QED
        BY <2>4, <3>1, PlacesUntouched
    <2> QED
      BY <2>2, <2>3, <2>4 DEF RouteCloud
  <1>8. CASE Report(StateNext)
    BY <1>8, PlacesUntouched DEF Report, brokerVars
  <1>9. CASE \E c \in Clusters : Super(Connect(c)) \/ Super(StatePuller(c))
    BY <1>9, PlacesUntouched DEF Super, Connect, StatePuller, brokerVars
  <1>10. CASE \E c \in Clusters : Super(TaskRouter(c))
    BY <1>10, PlacesRouted DEF Super, TaskRouter, brokerVars
  <1>11. CASE UNCHANGED vars
    BY <1>11, PlacesUntouched DEF vars, brokerVars
  <1> QED
    BY <1>1, <1>2, <1>3, <1>4, <1>5, <1>6, <1>7, <1>8, <1>9, <1>10, <1>11, Steps

(***************************************************************************)
(* No worker is given a task while it has one, and none is forgotten: each *)
(* is in the ready queue of its broker, once, or has exactly one message   *)
(* on its connection.                                                      *)
(***************************************************************************)
THEOREM WorkersCorrect == Spec => []OnePlacePerWorker
  <1>1. Init => NetInv /\ OnePlacePerWorker
    BY InitNet, PlacesInit
  <1>2. NetInv /\ OnePlacePerWorker /\ [Next]_vars => (NetInv /\ OnePlacePerWorker)'
    BY NetStep, PlacesStep DEF OnePlacePerWorker
  <1> QED
    BY <1>1, <1>2, PTL DEF Spec

--------------------------------------------------------------------------------
(***************************************************************************)
(* SECOND PART.  What becomes of a request: the one message of each        *)
(* request is followed through the brokers.                                *)
(***************************************************************************)

(***************************************************************************)
(* Which message is whose.  A task is the message of a request, wherever   *)
(* it is; in what follows, user u has exactly one in network f, namely m   *)
(* on channel ch, or none.                                                 *)
(***************************************************************************)
Mine(ch, m, u) == m.taskType = "NormalTask" /\ Owner(ch, m) = u

Only(f, u, ch, i) ==
    /\ Mine(ch, f[ch][i], u)
    /\ \A b \in Channels : \A j \in DOMAIN f[b] : Mine(b, f[b][j], u) => b = ch /\ j = i

TheTask(f, u, ch, m) ==
    ch \in Channels /\ \E i \in DOMAIN f[ch] : f[ch][i] = m /\ Only(f, u, ch, i)

NoTask(f, u) == \A b \in Channels : \A j \in DOMAIN f[b] : ~Mine(b, f[b][j], u)

\* The places that TasksOf collects.
LEMMA TaskPlaces ==
    ASSUME NEW f, NEW u
    PROVE  /\ \A b, j : <<b, j>> \in TasksOf(f, u)
                          <=> b \in Channels /\ j \in DOMAIN f[b] /\ Mine(b, f[b][j], u)
           /\ \A p \in TasksOf(f, u) : p = <<p[1], p[2]>>
  <1>1. \A p : p \in Positions(f) <=> \E b \in Channels : \E j \in DOMAIN f[b] : p = <<b, j>>
    BY DEF Positions
  <1> QED
    BY <1>1 DEF TasksOf, At, Mine

LEMMA NoTaskMeans ==
    ASSUME NEW f, NEW u
    PROVE  TasksOf(f, u) = {} <=> NoTask(f, u)
  <1>1. ASSUME NEW p \in TasksOf(f, u) PROVE ~NoTask(f, u)
    BY TaskPlaces DEF NoTask
  <1>2. ASSUME ~NoTask(f, u) PROVE TasksOf(f, u) # {}
    BY <1>2, TaskPlaces DEF NoTask
  <1> QED
    BY <1>1, <1>2

LEMMA OneTaskMeans ==
    ASSUME NEW f, NEW u, NEW t
    PROVE  HasOneTask(f, u, t) <=> \E ch, m : TheTask(f, u, ch, m) /\ m.taskID = t
  <1>1. ASSUME HasOneTask(f, u, t)
        PROVE  \E ch, m : TheTask(f, u, ch, m) /\ m.taskID = t
    <2> PICK p \in TasksOf(f, u) : TasksOf(f, u) = {p} /\ At(f, p).taskID = t
      BY <1>1 DEF HasOneTask
    <2>1. p = <<p[1], p[2]>>
      BY TaskPlaces
    <2>2. p[1] \in Channels /\ p[2] \in DOMAIN f[p[1]] /\ Mine(p[1], f[p[1]][p[2]], u)
      BY <2>1, TaskPlaces
    <2>3. ASSUME NEW b \in Channels, NEW j \in DOMAIN f[b], Mine(b, f[b][j], u)
          PROVE  b = p[1] /\ j = p[2]
      <3>1. <<b, j>> \in TasksOf(f, u)
        BY <2>3, TaskPlaces
      <3> QED
        BY <3>1
    <2>4. TheTask(f, u, p[1], At(f, p))
      BY <2>2, <2>3 DEF TheTask, Only, At
    <2> QED
      BY <2>4
  <1>2. ASSUME NEW ch, NEW m, TheTask(f, u, ch, m), m.taskID = t
        PROVE  HasOneTask(f, u, t)
    <2> PICK i \in DOMAIN f[ch] : f[ch][i] = m /\ Only(f, u, ch, i)
      BY <1>2 DEF TheTask
    <2>1. <<ch, i>> \in TasksOf(f, u)
      BY <1>2, TaskPlaces DEF TheTask, Only
    <2>2. ASSUME NEW p \in TasksOf(f, u) PROVE p = <<ch, i>>
      BY TaskPlaces DEF Only
    <2> QED
      BY <1>2, <2>1, <2>2 DEF HasOneTask, At
  <1> QED
    BY <1>1, <1>2

--------------------------------------------------------------------------------
(***************************************************************************)
(* What receiving and sending do to the tasks of a user: one message among *)
(* many queues.                                                            *)
(***************************************************************************)
TasksFor(u) == {p \in Channels \X TaskMeta : Mine(p[1], p[2], u)}

LEMMA TaskIsOne ==
    ASSUME NEW f \in Networks, NEW u
    PROVE  /\ \A ch, m : TheTask(f, u, ch, m) <=> HasOne(Channels, f, TasksFor(u), ch, m)
           /\ NoTask(f, u) <=> HasNone(Channels, f, TasksFor(u))
  <1>1. ASSUME NEW b \in Channels, NEW j \in DOMAIN f[b]
        PROVE  <<b, f[b][j]>> \in TasksFor(u) <=> Mine(b, f[b][j], u)
    <2>1. f[b] \in Seq(TaskMeta)
      BY DEF Networks
    <2>2. f[b][j] \in TaskMeta
      BY <2>1
    <2> QED
      BY <2>2 DEF TasksFor
  <1>2. ASSUME NEW ch \in Channels, NEW i \in DOMAIN f[ch]
        PROVE  Only(f, u, ch, i) <=> OnlyOne(Channels, f, TasksFor(u), ch, i)
    BY <1>1 DEF Only, OnlyOne
  <1> QED
    BY <1>1, <1>2 DEF TheTask, NoTask, HasOne, HasNone

LEMMA ReceiveTask ==
    ASSUME NEW f \in Networks, NEW from \in Channels, f[from] # <<>>, NEW u
    PROVE  LET g == Receive(f, from)
           IN  /\ g \in Networks
               /\ <<from, Head(f[from])>> \in TasksFor(u) <=> Mine(from, Head(f[from]), u)
               /\ g[from] = Tail(f[from]) /\ \A b \in Channels \ {from} : g[b] = f[b]
  <1>1. f[from] \in Seq(TaskMeta)
    BY DEF Networks
  <1>2. Head(f[from]) \in TaskMeta /\ Tail(f[from]) \in Seq(TaskMeta)
    BY <1>1, TakeFacts
  <1> QED
    BY <1>2, ReceiveEffect DEF Receive, Networks, TasksFor

\* Somebody else's message is received.
LEMMA ReceiveOther ==
    ASSUME NEW f \in Networks, NEW from \in Channels, f[from] # <<>>, NEW u,
           ~Mine(from, Head(f[from]), u)
    PROVE  /\ \A ch, m : TheTask(f, u, ch, m) => TheTask(Receive(f, from), u, ch, m)
           /\ NoTask(f, u) => NoTask(Receive(f, from), u)
  <1> DEFINE g == Receive(f, from)
  <1>1. /\ g \in Networks /\ <<from, Head(f[from])>> \notin TasksFor(u)
        /\ g[from] = Tail(f[from]) /\ \A b \in Channels \ {from} : g[b] = f[b]
    BY ReceiveTask
  <1> HIDE DEF g
  <1>2. /\ \A ch, m : HasOne(Channels, f, TasksFor(u), ch, m) => HasOne(Channels, g, TasksFor(u), ch, m)
        /\ HasNone(Channels, f, TasksFor(u)) => HasNone(Channels, g, TasksFor(u))
    BY <1>1, TakeOne DEF Networks
  <1> QED
    BY <1>1, <1>2, TaskIsOne DEF g

\* The message of the user is received.
LEMMA ReceiveMine ==
    ASSUME NEW f \in Networks, NEW from \in Channels, f[from] # <<>>, NEW u,
           Mine(from, Head(f[from]), u)
    PROVE  /\ ~NoTask(f, u)
           /\ \A ch, m : TheTask(f, u, ch, m)
                => ch = from /\ m = Head(f[from]) /\ NoTask(Receive(f, from), u)
  <1> DEFINE g == Receive(f, from)
  <1>1. /\ g \in Networks /\ <<from, Head(f[from])>> \in TasksFor(u)
        /\ g[from] = Tail(f[from]) /\ \A b \in Channels \ {from} : g[b] = f[b]
    BY ReceiveTask
  <1> HIDE DEF g
  <1>2. /\ ~HasNone(Channels, f, TasksFor(u))
        /\ \A ch, m : HasOne(Channels, f, TasksFor(u), ch, m)
              => ch = from /\ m = Head(f[from]) /\ HasNone(Channels, g, TasksFor(u))
    BY <1>1, TakeOne DEF Networks
  <1> QED
    BY <1>1, <1>2, TaskIsOne DEF g

LEMMA SendTask ==
    ASSUME NEW f \in Networks, NEW to \in Channels, NEW x \in TaskMeta, NEW u
    PROVE  LET g == Send(f, to, x)
           IN  /\ g \in Networks
               /\ <<to, x>> \in TasksFor(u) <=> Mine(to, x, u)
               /\ g[to] = Append(f[to], x) /\ \A b \in Channels \ {to} : g[b] = f[b]
  <1>1. f[to] \in Seq(TaskMeta)
    BY DEF Networks
  <1>2. Append(f[to], x) \in Seq(TaskMeta)
    BY <1>1, PutFacts
  <1> QED
    BY <1>2, SendEffect DEF Send, Networks, TasksFor

\* Somebody else's message is sent.
LEMMA SendOther ==
    ASSUME NEW f \in Networks, NEW to, NEW x \in TaskMeta, NEW u, ~Mine(to, x, u)
    PROVE  /\ \A ch, m : TheTask(f, u, ch, m) => TheTask(Send(f, to, x), u, ch, m)
           /\ NoTask(f, u) => NoTask(Send(f, to, x), u)
  <1>1. CASE to \notin Channels
    BY <1>1 DEF Send
  <1>2. CASE to \in Channels
    <2> DEFINE g == Send(f, to, x)
    <2>1. /\ g \in Networks /\ <<to, x>> \notin TasksFor(u)
          /\ g[to] = Append(f[to], x) /\ \A b \in Channels \ {to} : g[b] = f[b]
      BY <1>2, SendTask
    <2> HIDE DEF g
    <2>2. /\ \A ch, m : HasOne(Channels, f, TasksFor(u), ch, m)
                           => HasOne(Channels, g, TasksFor(u), ch, m)
          /\ HasNone(Channels, f, TasksFor(u)) => HasNone(Channels, g, TasksFor(u))
      BY <1>2, <2>1, PutOne DEF Networks
    <2> QED
      BY <2>1, <2>2, TaskIsOne DEF g
  <1> QED
    BY <1>1, <1>2

\* The message of the user is sent, the only one.
LEMMA SendMine ==
    ASSUME NEW f \in Networks, NEW to \in Channels, NEW x \in TaskMeta, NEW u,
           Mine(to, x, u), NoTask(f, u)
    PROVE  TheTask(Send(f, to, x), u, to, x)
  <1> DEFINE g == Send(f, to, x)
  <1>1. /\ g \in Networks /\ <<to, x>> \in TasksFor(u)
        /\ g[to] = Append(f[to], x) /\ \A b \in Channels \ {to} : g[b] = f[b]
    BY SendTask
  <1> HIDE DEF g
  <1>2. HasNone(Channels, f, TasksFor(u))
    BY TaskIsOne
  <1>3. HasOne(Channels, g, TasksFor(u), to, x)
    BY <1>1, <1>2, PutOne DEF Networks
  <1> QED
    BY <1>1, <1>3, TaskIsOne DEF g

--------------------------------------------------------------------------------
(***************************************************************************)
(* What a step does to the requests.  It leaves a user alone, or takes its *)
(* one message along.                                                      *)
(***************************************************************************)
Unmoved(u) ==
    /\ \A ch, m : TheTask(net, u, ch, m) => TheTask(net', u, ch, m)
    /\ NoTask(net, u) => NoTask(net', u)
    /\ clientState'[u] = clientState[u] /\ clientTask'[u] = clientTask[u]
    /\ u \in dropped' <=> u \in dropped

OthersUnmoved(u) == \A w \in Users \ {u} : Unmoved(w)

\* What a message on a channel says about its request.
Outcome(ch, m) ==
    IF ch[1] = "ToWorker" THEN "running"
    ELSE IF m.taskDirection = "TASK_REPLY" THEN "served"
    ELSE IF m.taskDirection = "TASK_REPLY_REJECTED" THEN "rejected"
    ELSE "open"

Settled(ch, m) == Outcome(ch, m) \in {"served", "rejected"}

\* Message m on channel from becomes message x on channel to, and the request
\* goes on, is given to an idle worker, is answered by its worker, or is rejected
\* before any worker had it.
Progress(from, m, to, x) ==
    \/ Outcome(from, m) = Outcome(to, x) /\ Outcome(to, x) # "running"
    \/ /\ Outcome(from, m) = "open"
       /\ \E v \in Crew : to = ToWorker(v[1], v[2]) /\ net[to] = <<>>
    \/ Outcome(from, m) = "running" /\ Outcome(to, x) = "served"
    \/ Outcome(from, m) = "open" /\ Outcome(to, x) = "rejected"

Carried(u, from, m, to, x) ==
    /\ from \in Channels /\ to \in Channels
    /\ \A ch, n : TheTask(net, u, ch, n) => ch = from /\ n = m
    /\ \A ch, n : TheTask(net, u, ch, n) => TheTask(net', u, to, x)
    /\ ~NoTask(net, u)
    /\ x.taskID = m.taskID
    /\ Progress(from, m, to, x)
    /\ UNCHANGED <<clientState, clientTask, dropped>>
    /\ OthersUnmoved(u)

\* The router socket of the super broker cannot reach cluster t.
Vanished(u, from, m, t) ==
    /\ \A ch, n : TheTask(net, u, ch, n) => ch = from /\ n = m /\ NoTask(net', u)
    /\ ~NoTask(net, u)
    /\ t \notin routable
    /\ Outcome(from, m) # "running"
    /\ Settled(from, m) => t = u[1]
    /\ UNCHANGED <<clientState, clientTask>> /\ dropped' = dropped \cup {u}
    /\ OthersUnmoved(u)

\* The two, while no process fails: what leaves its cluster for the super broker
\* comes on a connection the router socket knows.
Forwarded(u, from, m, to, x) ==
    Carried(u, from, m, to, x) /\ (u[1] = from[2] => u[1] \in routable \cup {to[2]})

Lost(u, from, m, t) == Vanished(u, from, m, t) /\ from[2] \in routable

Asked(u) ==
    /\ clientState[u] = "ready"
    /\ clientState' = [clientState EXCEPT ![u] = "waiting"]
    /\ \E t \in TaskIDs : clientTask' = [clientTask EXCEPT ![u] = t]
    /\ NoTask(net, u) => \E m : /\ TheTask(net', u, ToFrontend(u[1], u[2]), m)
                                /\ m.taskID = clientTask'[u] /\ m.taskDirection = "TASK_SUBMIT"
    /\ UNCHANGED dropped
    /\ OthersUnmoved(u)

Answered(u, m) ==
    /\ clientState[u] = "waiting"
    /\ \A ch, n : TheTask(net, u, ch, n)
                    => ch = ToClient(u[1], u[2]) /\ n = m /\ NoTask(net', u)
    /\ ~NoTask(net, u)
    /\ \/ /\ m.taskDirection = "TASK_REPLY"
          /\ clientState' = [clientState EXCEPT ![u] = "ready"]
          /\ clientTask' = [clientTask EXCEPT ![u] = 0]
       \/ /\ m.taskDirection = "TASK_REPLY_REJECTED"
          /\ clientState' = [clientState EXCEPT ![u] = "backoff"]
          /\ UNCHANGED clientTask
    /\ UNCHANGED dropped
    /\ OthersUnmoved(u)

Woken(u) ==
    /\ clientState[u] = "backoff"
    /\ clientState' = [clientState EXCEPT ![u] = "ready"]
    /\ clientTask' = [clientTask EXCEPT ![u] = 0]
    /\ UNCHANGED <<net, dropped>>
    /\ OthersUnmoved(u)

--------------------------------------------------------------------------------
\* A handler receives m from one channel and sends x on another.
LEMMA HandlerOthers ==
    ASSUME NetInv, NEW from \in Channels, Nonempty(from),
           NEW to, NEW x \in TaskMeta, Move(from, to, x),
           NEW u, ~Mine(from, Head(net[from]), u), ~Mine(to, x, u)
    PROVE  /\ \A ch, m : TheTask(net, u, ch, m) => TheTask(net', u, ch, m)
           /\ NoTask(net, u) => NoTask(net', u)
  <1> DEFINE f == Receive(net, from)
  <1>1. net \in Networks /\ f \in Networks /\ net[from] # <<>> /\ net' = Send(f, to, x)
    BY NetInvNetOK, ReceiveOK DEF NetOK, Nonempty, Move
  <1>2. /\ \A ch, m : TheTask(net, u, ch, m) => TheTask(f, u, ch, m)
        /\ NoTask(net, u) => NoTask(f, u)
    BY <1>1, ReceiveOther
  <1> HIDE DEF f
  <1>3. /\ \A ch, m : TheTask(f, u, ch, m) => TheTask(net', u, ch, m)
        /\ NoTask(f, u) => NoTask(net', u)
    BY <1>1, SendOther
  <1> QED
    BY <1>2, <1>3

LEMMA HandlerCarries ==
    ASSUME NetInv, NEW from \in Channels, Nonempty(from),
           NEW to \in Channels, NEW x \in TaskMeta, Move(from, to, x),
           NEW u \in Users, Mine(from, Head(net[from]), u), Mine(to, x, u),
           x.taskID = Head(net[from]).taskID,
           Progress(from, Head(net[from]), to, x),
           UNCHANGED <<clientState, clientTask, dropped>>
    PROVE  Carried(u, from, Head(net[from]), to, x)
  <1> DEFINE f == Receive(net, from)
             m == Head(net[from])
  <1>1. net \in Networks /\ f \in Networks /\ net[from] # <<>> /\ net' = Send(f, to, x)
    BY NetInvNetOK, ReceiveOK DEF NetOK, Nonempty, Move
  <1>2. ~NoTask(net, u)
    BY <1>1, ReceiveMine
  <1>3. ASSUME NEW ch, NEW n, TheTask(net, u, ch, n)
        PROVE  ch = from /\ n = m /\ TheTask(net', u, to, x)
    <2>1. ch = from /\ n = m /\ NoTask(f, u)
      BY <1>1, <1>3, ReceiveMine
    <2> HIDE DEF f
    <2> QED
      BY <1>1, <2>1, SendMine
  <1>4. OthersUnmoved(u)
    <2> SUFFICES ASSUME NEW w \in Users \ {u} PROVE Unmoved(w)
      BY DEF OthersUnmoved
    <2>1. ~Mine(from, m, w) /\ ~Mine(to, x, w)
      BY DEF Mine
    <2> QED
      BY <2>1, HandlerOthers DEF Unmoved
  <1> QED
    BY <1>2, <1>3, <1>4 DEF Carried

LEMMA HandlerForwards ==
    ASSUME NetInv, NEW from \in Channels, Nonempty(from),
           NEW to \in Channels, NEW x \in TaskMeta, Move(from, to, x),
           NEW u \in Users, Mine(from, Head(net[from]), u), Mine(to, x, u),
           x.taskID = Head(net[from]).taskID,
           Progress(from, Head(net[from]), to, x),
           u[1] = from[2] => u[1] \in routable \cup {to[2]},
           UNCHANGED <<clientState, clientTask, dropped>>
    PROVE  Forwarded(u, from, Head(net[from]), to, x)
  BY HandlerCarries DEF Forwarded

\* A handler receives a message and sends nothing.
LEMMA HandlerConsumes ==
    ASSUME NetInv, NEW from \in Channels, Nonempty(from), net' = Receive(net, from),
           NEW u, Mine(from, Head(net[from]), u)
    PROVE  /\ \A ch, n : TheTask(net, u, ch, n)
                            => ch = from /\ n = Head(net[from]) /\ NoTask(net', u)
           /\ ~NoTask(net, u)
  BY NetInvNetOK, ReceiveMine DEF NetOK, Nonempty

LEMMA ConsumeOthers ==
    ASSUME NetInv, NEW from \in Channels, Nonempty(from), net' = Receive(net, from),
           NEW u, ~Mine(from, Head(net[from]), u)
    PROVE  /\ \A ch, n : TheTask(net, u, ch, n) => TheTask(net', u, ch, n)
           /\ NoTask(net, u) => NoTask(net', u)
  BY NetInvNetOK, ReceiveOther DEF NetOK, Nonempty

--------------------------------------------------------------------------------
(***************************************************************************)
(* The handlers, one after the other.                                      *)
(***************************************************************************)

\* The head of a channel, and what is known of it.
LEMMA HeadFacts ==
    ASSUME NetInv, NEW ch \in Channels, Nonempty(ch)
    PROVE  Head(net[ch]) \in TaskMeta /\ Addressed(ch, Head(net[ch]))
  BY NetInvNetOK, ReceiveOK DEF NetOK, Nonempty

LEMMA SendRequestAsks ==
    ASSUME NetInv, NEW u \in Users, SendRequest(u[1], u[2]), UNCHANGED dropped
    PROVE  Asked(u)
  <1>1. PICK t \in TaskIDs :
            /\ clientTask' = [clientTask EXCEPT ![u] = t]
            /\ net' = Send(net, ToFrontend(u[1], u[2]),
                           [FreshMeta EXCEPT !.fromID = u[2], !.taskID = t])
    BY Members DEF SendRequest
  <1>2. /\ clientState[u] = "ready"
        /\ clientState' = [clientState EXCEPT ![u] = "waiting"]
    BY Members DEF SendRequest
  <1> DEFINE m == [FreshMeta EXCEPT !.fromID = u[2], !.taskID = t]
             ch == ToFrontend(u[1], u[2])
  <1>3. m \in TaskMeta
    BY Members DEF FreshMeta, TaskMeta, TaskType, TaskDirection, Payload
  <1>4. m.taskID = t /\ m.taskType = "NormalTask" /\ m.taskDirection = "TASK_SUBMIT" /\ m.fromID = u[2]
    BY DEF FreshMeta
  <1>5. Owner(ch, m) = u
    BY <1>4, Members DEF Owner, ToFrontend
  <1>6. net \in Networks /\ ch \in Channels /\ net' = Send(net, ch, m)
    BY <1>1, NetInvNetOK, ChannelsExist DEF NetOK
  <1>7. clientTask'[u] = t
    BY <1>1 DEF NetInv, TypeOK
  <1> HIDE DEF m, ch
  <1>8. NoTask(net, u) => TheTask(net', u, ch, m)
    BY <1>3, <1>4, <1>5, <1>6, SendMine DEF Mine
  <1>9. OthersUnmoved(u)
    <2> SUFFICES ASSUME NEW w \in Users \ {u} PROVE Unmoved(w)
      BY DEF OthersUnmoved
    <2>1. ~Mine(ch, m, w)
      BY <1>5 DEF Mine
    <2>2. /\ \A b, n : TheTask(net, w, b, n) => TheTask(net', w, b, n)
          /\ NoTask(net, w) => NoTask(net', w)
      BY <1>3, <1>6, <2>1, SendOther
    <2> QED
      BY <1>1, <1>2, <2>2 DEF Unmoved, NetInv, TypeOK
  <1> QED
    BY <1>1, <1>2, <1>4, <1>7, <1>8, <1>9 DEF Asked, ch

LEMMA ReceiveReplyAnswers ==
    ASSUME NetInv, NEW u \in Users, ReceiveReply(u[1], u[2]), UNCHANGED dropped
    PROVE  Answered(u, Head(net[ToClient(u[1], u[2])]))
  <1> DEFINE ch == ToClient(u[1], u[2])
             m == Head(net[ch])
  <1>1. ch \in Channels /\ Nonempty(ch) /\ net' = Receive(net, ch) /\ clientState[u] = "waiting"
    BY Members, ChannelsExist DEF ReceiveReply
  <1>2. IsAnswer(m) /\ Recipient(m) = u
    BY <1>1, HeadFacts, Members DEF Addressed, ToClient
  <1>3. Owner(ch, m) = u /\ Mine(ch, m, u)
    BY <1>2 DEF Owner, Mine, ToClient, IsAnswer
  <1>4. \/ /\ m.taskDirection = "TASK_REPLY"
           /\ clientState' = [clientState EXCEPT ![u] = "ready"]
           /\ clientTask' = [clientTask EXCEPT ![u] = 0]
        \/ /\ m.taskDirection = "TASK_REPLY_REJECTED"
           /\ clientState' = [clientState EXCEPT ![u] = "backoff"]
           /\ UNCHANGED clientTask
    BY <1>2, Members DEF ReceiveReply, IsAnswer
  <1> HIDE DEF m
  <1>5. OthersUnmoved(u)
    <2> SUFFICES ASSUME NEW w \in Users \ {u} PROVE Unmoved(w)
      BY DEF OthersUnmoved
    <2>1. ~Mine(ch, m, w)
      BY <1>3 DEF Mine
    <2>2. /\ \A b, n : TheTask(net, w, b, n) => TheTask(net', w, b, n)
          /\ NoTask(net, w) => NoTask(net', w)
      BY <1>1, <2>1, ConsumeOthers DEF m
    <2> QED
      BY <1>4, <2>2 DEF Unmoved, NetInv, TypeOK
  <1>6. /\ \A b, n : TheTask(net, u, b, n) => b = ch /\ n = m /\ NoTask(net', u)
        /\ ~NoTask(net, u)
    BY <1>1, <1>3, HandlerConsumes DEF m
  <1>7. Answered(u, m)
    BY <1>1, <1>4, <1>5, <1>6 DEF Answered
  <1> QED
    BY <1>7 DEF m

LEMMA ProcessForwards ==
    ASSUME NetInv, NEW v \in Crew, Process(v[1], v[2]), UNCHANGED dropped
    PROVE  \E u \in Users : \E from, m, to, x : Forwarded(u, from, m, to, x)
  <1> DEFINE from == ToWorker(v[1], v[2])
             to == ToBackend(v[1], v[2])
             m == Head(net[from])
             reply == [m EXCEPT !.toID = m.fromID, !.fromID = v[2],
                                !.taskDirection = "TASK_REPLY", !.payload = "sum"]
             u == Sender(m)
  <1>1. /\ from \in Channels /\ to \in Channels /\ Nonempty(from) /\ Move(from, to, reply)
        /\ UNCHANGED <<clientState, clientTask>>
    BY ChannelsExist DEF Process, brokerVars
  <1>2. m \in TaskMeta /\ IsRequest(m) /\ u \in Users
    BY <1>1, HeadFacts DEF Addressed, ToWorker
  <1>3. reply \in TaskMeta
    BY <1>2, Members DEF TaskMeta, TaskDirection, Payload
  <1>4. /\ reply.taskType = m.taskType /\ reply.taskID = m.taskID
        /\ reply.taskDirection = "TASK_REPLY"
        /\ <<reply.fromClusterID, reply.toID>> = u
    BY <1>2 DEF TaskMeta, Sender
  <1>5. Mine(from, m, u) /\ Mine(to, reply, u)
    BY <1>2, <1>4 DEF Mine, Owner, IsRequest, ToWorker, ToBackend
  <1>6. Progress(from, m, to, reply)
    <2>1. Outcome(from, m) = "running"
      BY DEF Outcome, ToWorker
    <2>2. Outcome(to, reply) = "served"
      BY <1>4 DEF Outcome, ToBackend
    <2> QED
      BY <2>1, <2>2 DEF Progress
  <1>7. from[2] = to[2]
    BY DEF ToWorker, ToBackend
  <1> HIDE DEF from, to, reply, u
  <1> QED
    BY <1>1, <1>2, <1>3, <1>4, <1>5, <1>6, <1>7, HandlerForwards

\* A worker that announces itself is on nobody's behalf.
LEMMA AliveIsNobodys ==
    ASSUME NetInv, NEW from \in Channels, Nonempty(from), net' = Receive(net, from),
           Head(net[from]).taskType = "ALIVE_SIGNAL",
           UNCHANGED <<clientState, clientTask, dropped>>
    PROVE  \A u \in Users : Unmoved(u)
  <1> SUFFICES ASSUME NEW u \in Users PROVE Unmoved(u)
    OBVIOUS
  <1>1. ~Mine(from, Head(net[from]), u)
    BY DEF Mine
  <1> QED
    BY <1>1, ConsumeOthers DEF Unmoved

LEMMA RouteLocalReplyForwards ==
    ASSUME NetInv, NEW v \in Crew, RouteLocalReply(v[1], v[2]), UNCHANGED dropped
    PROVE  \/ \A u \in Users : Unmoved(u)
           \/ \E u \in Users : \E from, m, to, x : Forwarded(u, from, m, to, x)
  <1> DEFINE c == v[1]
             from == ToBackend(v[1], v[2])
             m == Head(net[from])
             reply == [m EXCEPT !.toClusterID = m.fromClusterID, !.fromClusterID = c]
             u == <<m.fromClusterID, m.toID>>
  <1>1. /\ from \in Channels /\ Nonempty(from)
        /\ UNCHANGED <<clientState, clientTask>>
    BY ChannelsExist DEF RouteLocalReply, clientVars
  <1>2. m \in TaskMeta /\ Addressed(from, m)
    BY <1>1, HeadFacts
  <1>3. CASE m.taskType = "ALIVE_SIGNAL"
    BY <1>1, <1>3, AliveIsNobodys DEF RouteLocalReply
  <1>4. CASE m.taskType # "ALIVE_SIGNAL"
    <2>1. IsAnswer(m) /\ m.taskDirection = "TASK_REPLY" /\ u \in Users
      BY <1>2, <1>4 DEF Addressed, ToBackend, WorkerAlive, FreshMeta
    <2>2. /\ reply \in TaskMeta /\ reply.taskType = m.taskType /\ reply.taskID = m.taskID
          /\ reply.taskDirection = "TASK_REPLY" /\ Recipient(reply) = u
          /\ reply.toClusterID = u[1]
      BY <1>2, <2>1, Members DEF TaskMeta, Recipient
    <2>3. Mine(from, m, u)
      BY <2>1 DEF Mine, Owner, IsAnswer, ToBackend
    <2>4. ASSUME NEW to \in Channels, Move(from, to, reply), to[1] \in {"ToClient", "CloudUp"},
                 to[2] = c
          PROVE  \E from1, m1, to1, x1 : Forwarded(u, from1, m1, to1, x1)
      <3>1. Mine(to, reply, u)
        BY <2>1, <2>2, <2>4 DEF Mine, Owner, IsAnswer
      <3>2. Progress(from, m, to, reply)
        BY <2>1, <2>2, <2>4 DEF Progress, Outcome, ToBackend
      <3>3. from[2] = to[2]
        BY <2>4 DEF ToBackend
      <3> HIDE DEF from, reply, u
      <3> QED
        BY <1>1, <2>1, <2>2, <2>3, <2>4, <3>1, <3>2, <3>3, HandlerForwards
    <2>5. CASE reply.toClusterID = c /\ Move(from, ToClient(c, m.toID), reply)
      <3>1. ToClient(c, m.toID) \in Channels
        BY <2>1, <2>2, <2>5, ChannelsExist
      <3> QED
        BY <2>1, <2>4, <2>5, <3>1 DEF ToClient
    <2>6. CASE Move(from, CloudUp(c), reply)
      <3>1. CloudUp(c) \in Channels
        BY ChannelsExist, Members
      <3> QED
        BY <2>1, <2>4, <2>6, <3>1 DEF CloudUp
    <2> QED
      BY <1>4, <2>5, <2>6 DEF RouteLocalReply
  <1> QED
    BY <1>3, <1>4

\* The first ready worker has nothing on its connection.
LEMMA FirstIsIdle ==
    ASSUME NetInv, NEW c \in Clusters, OnePlaceIn(c), readyWorkerCount(c) > 0
    PROVE  LET w == Head(workReadyQueue[c])
           IN  <<c, w>> \in Crew /\ ToWorker(c, w) \in Channels /\ net[ToWorker(c, w)] = <<>>
  <1> PICK w : w = Head(workReadyQueue[c])
    OBVIOUS
  <1>1. /\ workReadyQueue[c] # <<>> /\ w \in WorkersOf[c]
        /\ w = workReadyQueue[c][1] /\ 1 \in DOMAIN workReadyQueue[c]
    BY TakeFacts DEF NetInv, TypeOK, readyWorkerCount
  <1>2. <<c, w>> \in Crew /\ Queued(c, w)
    BY <1>1, Members DEF Queued
  <1>3. ToWorker(c, w) \in Channels /\ ToBackend(c, w) \in Channels
    BY <1>2, ChannelsExist
  <1> DEFINE a == Len(net[ToWorker(c, w)])
             b == Len(net[ToBackend(c, w)])
  <1>4. a + b = 0 /\ a \in Nat /\ b \in Nat
    <2>2. a + b = 0
      BY <1>1, <1>2 DEF OnePlaceIn
    <2>3. net[ToWorker(c, w)] \in Seq(TaskMeta) /\ net[ToBackend(c, w)] \in Seq(TaskMeta)
      BY <1>3 DEF NetInv, TypeOK
    <2>4. a \in Nat /\ b \in Nat
      BY <2>3
    <2> QED
      BY <2>2, <2>4
  <1> HIDE DEF a, b
  <1>5. a = 0
    BY <1>4
  <1>6. net[ToWorker(c, w)] = <<>>
    BY <1>3, <1>5 DEF a, NetInv, TypeOK
  <1> QED
    BY <1>2, <1>3, <1>6

LEMMA RouteLocalRequestForwards ==
    ASSUME NetInv, NEW u \in Users, OnePlaceIn(u[1]),
           RouteLocalRequest(u[1], u[2]), UNCHANGED dropped
    PROVE  \E from, m, to, x : Forwarded(u, from, m, to, x)
  <1> DEFINE c == u[1]
             from == ToFrontend(c, u[2])
             h == Head(net[from])
             m == [h EXCEPT !.fromClusterID = c]
             worker == Head(workReadyQueue[c])
  <1>1. /\ from \in Channels /\ Nonempty(from) /\ c \in Clusters
        /\ UNCHANGED <<clientState, clientTask>>
    BY ChannelsExist, Members DEF RouteLocalRequest, clientVars
  <1>2. /\ h \in TaskMeta /\ IsRequest(h) /\ h.fromID = u[2]
    BY <1>1, HeadFacts DEF Addressed, ToFrontend
  <1>3. Mine(from, h, u)
    BY <1>2, Members DEF Mine, Owner, IsRequest, ToFrontend
  <1>4. ASSUME NEW to \in Channels, to[2] = c, NEW x \in TaskMeta, Move(from, to, x),
               IsRequest(x), Sender(x) = u, x.taskID = h.taskID,
               \/ to[1] = "CloudUp"
               \/ \E v \in Crew : to = ToWorker(v[1], v[2]) /\ net[to] = <<>>
        PROVE  Forwarded(u, from, h, to, x)
    <2>1. Mine(to, x, u)
      BY <1>4 DEF Mine, Owner, IsRequest, ToWorker
    <2>2. Outcome(from, h) = "open"
      BY <1>2 DEF Outcome, IsRequest, ToFrontend
    <2>3. to[1] = "CloudUp" => Outcome(to, x) = "open"
      BY <1>4 DEF Outcome, IsRequest
    <2>4. Progress(from, h, to, x) /\ from[2] = to[2]
      BY <1>4, <2>2, <2>3 DEF Progress, ToFrontend
    <2> HIDE DEF from
    <2> QED
      BY <1>1, <1>3, <1>4, <2>1, <2>4, HandlerForwards
  <1>5. CASE readyWorkerCount(c) > 0
    <2> DEFINE x == [m EXCEPT !.toClusterID = c, !.toID = worker]
               to == ToWorker(c, worker)
    <2>1. /\ to \in Channels /\ <<c, worker>> \in Crew /\ net[to] = <<>>
          /\ worker \in WorkerIDs
      BY <1>1, <1>5, FirstIsIdle, Members
    <2>2. Move(from, to, x)
      BY <1>5 DEF RouteLocalRequest
    <2>3. /\ x \in TaskMeta /\ IsRequest(x) /\ Sender(x) = u /\ x.taskID = h.taskID
      BY <1>1, <1>2, <2>1, Members DEF TaskMeta, IsRequest, Sender
    <2>4. to[2] = c /\ \E v \in Crew : to = ToWorker(v[1], v[2]) /\ net[to] = <<>>
      BY <2>1 DEF ToWorker
    <2> HIDE DEF x, to, from
    <2> QED
      BY <1>4, <2>1, <2>2, <2>3, <2>4
  <1>6. CASE ~(readyWorkerCount(c) > 0)
    <2>1. Move(from, CloudUp(c), m)
      BY <1>6 DEF RouteLocalRequest
    <2>2. m \in TaskMeta /\ IsRequest(m) /\ Sender(m) = u /\ m.taskID = h.taskID
      BY <1>1, <1>2, Members DEF TaskMeta, IsRequest, Sender
    <2>3. CloudUp(c) \in Channels /\ CloudUp(c)[1] = "CloudUp" /\ CloudUp(c)[2] = c
      BY <1>1, ChannelsExist DEF CloudUp
    <2> HIDE DEF m, from
    <2> QED
      BY <1>4, <2>1, <2>2, <2>3
  <1> QED
    BY <1>5, <1>6

LEMMA RouteCloudForwards ==
    ASSUME NetInv, NEW c \in Clusters, OnePlaceIn(c), RouteCloud(c), UNCHANGED dropped
    PROVE  \E u \in Users : \E from, m, to, x : Forwarded(u, from, m, to, x)
  <1> DEFINE from == CloudDown(c)
             m == Head(net[from])
             worker == Head(workReadyQueue[c])
  <1>1. /\ from \in Channels /\ Nonempty(from) /\ from[1] = "CloudDown" /\ from[2] = c
        /\ UNCHANGED <<clientState, clientTask>>
    BY ChannelsExist DEF RouteCloud, clientVars, CloudDown
  <1>2. /\ m \in TaskMeta
        /\ \/ IsRequest(m) /\ Sender(m) \in Users
           \/ IsAnswer(m) /\ Recipient(m) \in Users /\ m.toClusterID = c
    BY <1>1, HeadFacts DEF Addressed
  <1>3. CASE m.taskDirection = "TASK_SUBMIT"
    <2> DEFINE u == Sender(m)
    <2>1. IsRequest(m) /\ u \in Users
      BY <1>2, <1>3 DEF IsAnswer
    <2>2. Mine(from, m, u) /\ Outcome(from, m) = "open"
      BY <1>1, <2>1 DEF Mine, Owner, Outcome, IsRequest
    <2>3. CASE readyWorkerCount(c) > 0 /\ Move(from, ToWorker(c, worker), m)
      <3> DEFINE to == ToWorker(c, worker)
      <3>1. to \in Channels /\ <<c, worker>> \in Crew /\ net[to] = <<>>
        BY <2>3, FirstIsIdle
      <3>2. Mine(to, m, u) /\ to[2] = c
        BY <2>1 DEF Mine, Owner, IsRequest, ToWorker
      <3>3. Progress(from, m, to, m)
        BY <2>2, <3>1 DEF Progress
      <3>4. u[1] = from[2] => u[1] \in routable \cup {to[2]}
        BY <1>1, <3>2
      <3> HIDE DEF from, to, u
      <3>5. Forwarded(u, from, m, to, m)
        BY <1>1, <1>2, <2>1, <2>2, <2>3, <3>1, <3>2, <3>3, <3>4, HandlerForwards DEF to
      <3> QED
        BY <2>1, <3>5
    <2>4. CASE Move(from, CloudUp(c), Rejection(m))
      <3> DEFINE to == CloudUp(c)
                 x == Rejection(m)
      <3>1. to \in Channels /\ to[1] = "CloudUp" /\ to[2] = c
        BY ChannelsExist DEF CloudUp
      <3>2. x \in TaskMeta /\ IsAnswer(x) /\ Recipient(x) = u /\ x.taskID = m.taskID
        BY <1>2, <2>1, RejectionAnswers
      <3>3. x.taskDirection = "TASK_REPLY_REJECTED"
        BY <1>2 DEF Rejection, TaskMeta
      <3>4. Mine(to, x, u) /\ Outcome(to, x) = "rejected"
        BY <3>1, <3>2, <3>3 DEF Mine, Owner, IsAnswer, Outcome
      <3>5. Progress(from, m, to, x)
        BY <2>2, <3>4 DEF Progress
      <3> HIDE DEF from, to, u, x
      <3> QED
        BY <1>1, <1>2, <2>1, <2>2, <2>4, <3>1, <3>2, <3>4, <3>5, HandlerForwards DEF x, to
    <2> QED
      BY <1>3, <2>3, <2>4 DEF RouteCloud
  <1>4. CASE m.taskDirection # "TASK_SUBMIT"
    <2> DEFINE u == Recipient(m)
               to == ToClient(c, m.toID)
    <2>1. IsAnswer(m) /\ u \in Users /\ u[1] = c /\ u[2] = m.toID
      BY <1>2, <1>4 DEF IsRequest, Recipient
    <2>2. to \in Channels /\ to[1] = "ToClient" /\ to[2] = c
      BY <2>1, ChannelsExist DEF ToClient
    <2>3. Move(from, to, m)
      BY <1>4 DEF RouteCloud
    <2>4. Mine(from, m, u) /\ Mine(to, m, u)
      BY <1>1, <2>1, <2>2 DEF Mine, Owner, IsAnswer
    <2>5. Progress(from, m, to, m)
      BY <1>1, <2>1, <2>2 DEF Progress, Outcome, IsAnswer
    <2> HIDE DEF from, to, u
    <2> QED
      BY <1>1, <1>2, <2>1, <2>2, <2>3, <2>4, <2>5, HandlerForwards
  <1> QED
    BY <1>3, <1>4

\* The super broker sends x to cluster t, or its router socket drops it.
LEMMA RouteToMoves ==
    ASSUME NetInv, NEW c \in Clusters, Nonempty(CloudUp(c)),
           NEW t \in Clusters, NEW x \in TaskMeta, NEW u \in Users,
           RouteTo(c, t, x, u), UNCHANGED <<clientState, clientTask>>,
           LET m == Head(net[CloudUp(c)])
           IN  /\ Mine(CloudUp(c), m, u) /\ Mine(CloudDown(t), x, u)
               /\ x.taskID = m.taskID
               /\ Progress(CloudUp(c), m, CloudDown(t), x)
               /\ Settled(CloudUp(c), m) => t = u[1]
    PROVE  LET m == Head(net[CloudUp(c)])
           IN  \/ Carried(u, CloudUp(c), m, CloudDown(t), x)
               \/ Vanished(u, CloudUp(c), m, t)
  <1> DEFINE from == CloudUp(c)
             m == Head(net[from])
  <1>1. from \in Channels /\ CloudDown(t) \in Channels /\ from[2] = c
    BY ChannelsExist DEF CloudUp
  <1>2. CASE Move(from, CloudDown(t), x) /\ UNCHANGED dropped
    BY <1>1, <1>2, HandlerCarries
  <1>3. CASE t \notin routable /\ net' = Receive(net, from) /\ dropped' = dropped \cup {u}
    <2>1. /\ \A ch, n : TheTask(net, u, ch, n) => ch = from /\ n = m /\ NoTask(net', u)
          /\ ~NoTask(net, u)
      BY <1>1, <1>3, HandlerConsumes
    <2>2. OthersUnmoved(u)
      <3> SUFFICES ASSUME NEW w \in Users \ {u} PROVE Unmoved(w)
        BY DEF OthersUnmoved
      <3>1. ~Mine(from, m, w)
        BY DEF Mine
      <3> QED
        BY <1>1, <1>3, <3>1, ConsumeOthers DEF Unmoved
    <2>3. Outcome(from, m) # "running"
      BY DEF Outcome, CloudUp
    <2> QED
      BY <1>1, <1>3, <2>1, <2>2, <2>3 DEF Vanished
  <1> QED
    BY <1>2, <1>3 DEF RouteTo

LEMMA RouteMessageCarries ==
    ASSUME NetInv, NEW c \in Clusters, RouteMessage(c), UNCHANGED <<clientState, clientTask>>
    PROVE  \/ \A u \in Users : Unmoved(u)
           \/ \E u \in Users : \E m, to, x : Carried(u, CloudUp(c), m, to, x)
           \/ \E u \in Users : \E m, t : Vanished(u, CloudUp(c), m, t)
  <1> DEFINE from == CloudUp(c)
             m == Head(net[from])
  <1>1. /\ from \in Channels /\ Nonempty(from)
        /\ from[1] = "CloudUp" /\ from[2] = c
    BY ChannelsExist DEF RouteMessage, CloudUp
  <1>2. /\ m \in TaskMeta
        /\ \/ m = ClusterAlive(c)
           \/ IsRequest(m) /\ Sender(m) \in Users /\ m.fromClusterID = c
           \/ IsAnswer(m) /\ Recipient(m) \in Users
    BY <1>1, HeadFacts DEF Addressed
  <1>3. ASSUME NEW t \in Clusters, NEW x \in TaskMeta, NEW u \in Users,
               RouteTo(c, t, x, u),
               Mine(from, m, u), Mine(CloudDown(t), x, u), x.taskID = m.taskID,
               Progress(from, m, CloudDown(t), x),
               Settled(from, m) => t = u[1]
        PROVE  \/ \E w \in Users : \E m1, to1, x1 : Carried(w, CloudUp(c), m1, to1, x1)
               \/ \E w \in Users : \E m1, t1 : Vanished(w, CloudUp(c), m1, t1)
    BY <1>1, <1>3, RouteToMoves
  <1>4. CASE Discard(c, m)
    <2>1. m.taskType = "ALIVE_SIGNAL"
      <3>1. ~(IsRequest(m) /\ Sender(m) \in Users) \/ NoID \notin {m.fromID, m.fromClusterID}
        BY Members DEF Sender
      <3>2. IsAnswer(m) => m.taskDirection # "TASK_SUBMIT"
        BY DEF IsAnswer
      <3> QED
        BY <1>2, <1>4, <3>1, <3>2 DEF Discard, ClusterAlive, FreshMeta
    <2> QED
      BY <1>1, <1>4, <2>1, AliveIsNobodys DEF Discard
  <1>5. CASE RouteRequest(c, m)
    <2> DEFINE u == Sender(m)
    <2>1. IsRequest(m) /\ u \in Users /\ m.fromClusterID = c
      BY <1>2, <1>5 DEF RouteRequest, IsAnswer, ClusterAlive, FreshMeta
    <2>2. /\ Mine(from, m, u) /\ Outcome(from, m) = "open" /\ ~Settled(from, m)
          /\ u = <<m.fromClusterID, m.fromID>>
      BY <1>1, <2>1 DEF Mine, Owner, Outcome, Settled, IsRequest, Sender
    <2>3. CASE \E t \in Clusters :
                 RouteTo(c, t, [m EXCEPT !.toClusterID = t], <<m.fromClusterID, m.fromID>>)
      <3> DEFINE aimed(t) == [m EXCEPT !.toClusterID = t]
      <3>1. \E t \in Clusters : RouteTo(c, t, aimed(t), u)
        BY <2>2, <2>3
      <3>2. ASSUME NEW t \in Clusters
            PROVE  /\ aimed(t) \in TaskMeta /\ IsRequest(aimed(t)) /\ Sender(aimed(t)) = u
                   /\ aimed(t).taskID = m.taskID
        BY <1>2, <2>1 DEF TaskMeta, IsRequest, Sender
      <3> HIDE DEF aimed
      <3> PICK t \in Clusters : RouteTo(c, t, aimed(t), u)
        BY <3>1
      <3> DEFINE x == aimed(t)
                 to == CloudDown(t)
      <3>3. Mine(to, x, u) /\ Outcome(to, x) = "open"
        BY <3>2 DEF Mine, Owner, Outcome, IsRequest, CloudDown
      <3>4. Progress(from, m, to, x)
        BY <2>2, <3>3 DEF Progress
      <3> HIDE DEF u, from
      <3> QED
        BY <1>3, <2>1, <2>2, <3>2, <3>3, <3>4
    <2>4. CASE RouteTo(c, m.fromClusterID, Rejection(m), <<m.fromClusterID, m.fromID>>)
      <3> DEFINE x == Rejection(m)
                 to == CloudDown(c)
      <3>1. x \in TaskMeta /\ IsAnswer(x) /\ Recipient(x) = u /\ x.taskID = m.taskID
        BY <1>2, <2>1, RejectionAnswers
      <3>2. x.taskDirection = "TASK_REPLY_REJECTED"
        BY <1>2 DEF Rejection, TaskMeta
      <3>3. Mine(to, x, u) /\ Outcome(to, x) = "rejected"
        BY <3>1, <3>2 DEF Mine, Owner, Outcome, IsAnswer, CloudDown
      <3>4. Progress(from, m, to, x)
        BY <2>2, <3>3 DEF Progress
      <3>5. RouteTo(c, c, x, u)
        BY <2>1, <2>2, <2>4
      <3> HIDE DEF x, u, from
      <3> QED
        BY <1>3, <2>1, <2>2, <3>1, <3>3, <3>4, <3>5
    <2> QED
      BY <1>5, <2>3, <2>4 DEF RouteRequest
  <1>6. CASE RouteAnswer(c, m)
    <2> DEFINE u == Recipient(m)
               to == CloudDown(m.toClusterID)
    <2>1. IsAnswer(m) /\ u \in Users /\ u = <<m.toClusterID, m.toID>>
      BY <1>2, <1>6 DEF RouteAnswer, IsRequest, ClusterAlive, FreshMeta, Recipient
    <2>2. m.toClusterID \in Clusters /\ u[1] = m.toClusterID
      BY <2>1, Members
    <2>3. Mine(from, m, u) /\ Mine(to, m, u)
      BY <1>1, <2>1 DEF Mine, Owner, IsAnswer, CloudDown
    <2>4. Outcome(from, m) = Outcome(to, m) /\ Outcome(to, m) \in {"served", "rejected"}
      BY <1>1, <2>1 DEF Outcome, IsAnswer, CloudDown
    <2>5. Progress(from, m, to, m)
      BY <2>4 DEF Progress
    <2>6. RouteTo(c, m.toClusterID, m, u)
      BY <1>6, <2>1 DEF RouteAnswer
    <2> HIDE DEF u, from
    <2> QED
      BY <1>2, <1>3, <2>1, <2>2, <2>3, <2>4, <2>5, <2>6
  <1> QED
    BY <1>4, <1>5, <1>6 DEF RouteMessage

LEMMA TaskRouterForwards ==
    ASSUME NetInv, NEW c \in Clusters, TaskRouter(c), UNCHANGED <<clientState, clientTask>>
    PROVE  \/ \A u \in Users : Unmoved(u)
           \/ \E u \in Users : \E from, m, to, x : Forwarded(u, from, m, to, x)
           \/ \E u \in Users : \E from, m, t : Lost(u, from, m, t)
  <1>1. RouteMessage(c) /\ CloudUp(c)[2] \in routable
    BY DEF TaskRouter, CloudUp
  <1>2. /\ \A u, m, to, x : Carried(u, CloudUp(c), m, to, x) => Forwarded(u, CloudUp(c), m, to, x)
        /\ \A u, m, t : Vanished(u, CloudUp(c), m, t) => Lost(u, CloudUp(c), m, t)
    BY <1>1 DEF Forwarded, Lost
  <1> QED
    BY <1>1, <1>2, RouteMessageCarries

--------------------------------------------------------------------------------
(***************************************************************************)
(* What any step does to the requests: everything below rests on this.     *)
(***************************************************************************)
LEMMA WakeWakes ==
    ASSUME NetInv, NEW u \in Users, Wake(u[1], u[2]), UNCHANGED dropped
    PROVE  Woken(u)
  <1>1. /\ clientState[u] = "backoff"
        /\ clientState' = [clientState EXCEPT ![u] = "ready"]
        /\ clientTask' = [clientTask EXCEPT ![u] = 0]
        /\ UNCHANGED net
    BY Members DEF Wake
  <1>2. OthersUnmoved(u)
    BY <1>1 DEF OthersUnmoved, Unmoved, NetInv, TypeOK
  <1> QED
    BY <1>1, <1>2 DEF Woken

LEMMA RequestSteps ==
    ASSUME NetInv, OnePlacePerWorker, [Next]_vars
    PROVE  \/ \A u \in Users : Unmoved(u)
           \/ \E u \in Users : Asked(u) \/ Woken(u)
           \/ \E u \in Users : \E m : Answered(u, m)
           \/ \E u \in Users : \E from, m, to, x : Forwarded(u, from, m, to, x)
           \/ \E u \in Users : \E from, m, t : Lost(u, from, m, t)
  <1>1. CASE \E u \in Users : Local(SendRequest(u[1], u[2]))
    BY <1>1, SendRequestAsks DEF Local, superVars
  <1>2. CASE \E u \in Users : Local(ReceiveReply(u[1], u[2]))
    BY <1>2, ReceiveReplyAnswers DEF Local, superVars
  <1>3. CASE \E u \in Users : Local(Wake(u[1], u[2]))
    BY <1>3, WakeWakes DEF Local, superVars
  <1>4. CASE \E u \in Users : Local(RouteLocalRequest(u[1], u[2]))
    BY <1>4, RouteLocalRequestForwards, Members DEF Local, superVars, OnePlacePerWorker
  <1>5. CASE \E v \in Crew : Local(Process(v[1], v[2]))
    BY <1>5, ProcessForwards DEF Local, superVars
  <1>6. CASE \E v \in Crew : Local(RouteLocalReply(v[1], v[2]))
    BY <1>6, RouteLocalReplyForwards DEF Local, superVars
  <1>7. CASE \E c \in Clusters : Local(RouteCloud(c))
    BY <1>7, RouteCloudForwards DEF Local, superVars, OnePlacePerWorker
  <1>8. CASE Report(StateNext)
    BY <1>8 DEF Report, brokerVars, superVars, Unmoved
  <1>9. CASE \E c \in Clusters : Super(Connect(c)) \/ Super(StatePuller(c))
    BY <1>9 DEF Super, Connect, StatePuller, brokerVars, Unmoved
  <1>10. CASE \E c \in Clusters : Super(TaskRouter(c))
    BY <1>10, TaskRouterForwards DEF Super, brokerVars
  <1>11. CASE UNCHANGED vars
    BY <1>11 DEF vars, brokerVars, superVars, Unmoved
  <1> QED
    BY <1>1, <1>2, <1>3, <1>4, <1>5, <1>6, <1>7, <1>8, <1>9, <1>10, <1>11, Steps

--------------------------------------------------------------------------------
(***************************************************************************)
(* One message per request.                                                *)
(***************************************************************************)
LEMMA TaskUnique ==
    ASSUME NEW f, NEW u, NEW ch, NEW m, TheTask(f, u, ch, m)
    PROVE  /\ ~NoTask(f, u)
           /\ \A b, n : TheTask(f, u, b, n) => b = ch /\ n = m
  BY DEF TheTask, Only, NoTask

\* OneMessageFor, before and after a step, in the words of this module.
HasItsTask(u) ==
    IF clientState[u] = "waiting" /\ u \notin dropped
    THEN \E ch, m : TheTask(net, u, ch, m) /\ m.taskID = clientTask[u]
    ELSE NoTask(net, u)

LEMMA OneMessageMeans ==
    ASSUME NEW u
    PROVE  /\ OneMessageFor(u) <=> HasItsTask(u) /\ (u \in dropped => clientState[u] = "waiting")
           /\ OneMessageFor(u)' <=> HasItsTask(u)' /\ (u \in dropped => clientState[u] = "waiting")'
  <1>1. OneMessageFor(u) <=> HasItsTask(u) /\ (u \in dropped => clientState[u] = "waiting")
    BY OneTaskMeans, NoTaskMeans DEF OneMessageFor, HasItsTask
  <1>2. OneMessageFor(u)' <=> HasItsTask(u)' /\ (u \in dropped => clientState[u] = "waiting")'
    BY OneTaskMeans, NoTaskMeans DEF OneMessageFor, HasItsTask
  <1> QED
    BY <1>1, <1>2

LEMMA UnmovedOneMessage ==
    ASSUME NEW u, OneMessageFor(u), Unmoved(u)
    PROVE  OneMessageFor(u)'
  BY OneMessageMeans DEF HasItsTask, Unmoved

\* The kinds of steps that concern the request of u.
LEMMA StepOneMessage ==
    ASSUME NetInv, NEW u \in Users, OneMessageFor(u),
           \/ Asked(u) \/ Woken(u) \/ \E m : Answered(u, m)
           \/ \E from, m, to, x : Carried(u, from, m, to, x)
           \/ \E from, m, t : Vanished(u, from, m, t)
    PROVE  OneMessageFor(u)'
  <1>0. HasItsTask(u) /\ (u \in dropped => clientState[u] = "waiting")
    BY OneMessageMeans
  <1>t. u \in DOMAIN clientState /\ u \in DOMAIN clientTask
    BY DEF NetInv, TypeOK
  <1> SUFFICES HasItsTask(u)' /\ (u \in dropped' => clientState'[u] = "waiting")
    BY OneMessageMeans
  <1>1. CASE Asked(u)
    <2>1. NoTask(net, u) /\ u \notin dropped
      BY <1>0, <1>1 DEF Asked, HasItsTask
    <2>2. clientState'[u] = "waiting" /\ u \notin dropped'
      BY <1>1, <1>t, <2>1 DEF Asked
    <2>3. \E ch, m : TheTask(net', u, ch, m) /\ m.taskID = clientTask'[u]
      BY <1>1, <2>1 DEF Asked
    <2> QED
      BY <2>2, <2>3 DEF HasItsTask
  <1>2. CASE Woken(u)
    <2>1. NoTask(net, u) /\ u \notin dropped
      BY <1>0, <1>2 DEF Woken, HasItsTask
    <2>2. clientState'[u] = "ready" /\ u \notin dropped' /\ NoTask(net', u)
      BY <1>2, <1>t, <2>1 DEF Woken
    <2> QED
      BY <2>2 DEF HasItsTask
  <1>3. ASSUME NEW m, Answered(u, m)
        PROVE  HasItsTask(u)' /\ (u \in dropped' => clientState'[u] = "waiting")
    <2>1. \E ch, n : TheTask(net, u, ch, n)
      BY <1>0, <1>3 DEF Answered, HasItsTask
    <2>2. NoTask(net', u) /\ u \notin dropped
      BY <1>0, <1>3, <2>1, TaskUnique DEF Answered, HasItsTask
    <2>3. clientState'[u] # "waiting" /\ u \notin dropped'
      BY <1>3, <1>t, <2>2 DEF Answered
    <2> QED
      BY <2>2, <2>3 DEF HasItsTask
  <1>4. ASSUME NEW from, NEW m, NEW to, NEW x, Carried(u, from, m, to, x)
        PROVE  HasItsTask(u)' /\ (u \in dropped' => clientState'[u] = "waiting")
    <2>1. /\ clientState[u] = "waiting" /\ u \notin dropped
          /\ \E ch, n : TheTask(net, u, ch, n) /\ n.taskID = clientTask[u]
      BY <1>0, <1>4 DEF Carried, HasItsTask
    <2>2. TheTask(net', u, to, x) /\ x.taskID = clientTask[u]
      BY <1>4, <2>1 DEF Carried
    <2> QED
      BY <1>4, <2>1, <2>2 DEF Carried, HasItsTask
  <1>5. ASSUME NEW from, NEW m, NEW t, Vanished(u, from, m, t)
        PROVE  HasItsTask(u)' /\ (u \in dropped' => clientState'[u] = "waiting")
    <2>1. clientState[u] = "waiting" /\ \E ch, n : TheTask(net, u, ch, n)
      BY <1>0, <1>5 DEF Vanished, HasItsTask
    <2>2. NoTask(net', u) /\ u \in dropped' /\ clientState'[u] = "waiting"
      BY <1>5, <2>1 DEF Vanished
    <2> QED
      BY <2>2 DEF HasItsTask
  <1> QED
    BY <1>1, <1>2, <1>3, <1>4, <1>5

LEMMA RequestsStep ==
    NetInv /\ OnePlacePerWorker /\ OneMessagePerRequest /\ [Next]_vars => OneMessagePerRequest'
  <1> SUFFICES ASSUME NetInv, OnePlacePerWorker, OneMessagePerRequest, [Next]_vars,
                      NEW u \in Users
               PROVE  OneMessageFor(u)'
    BY DEF OneMessagePerRequest
  <1>1. OneMessageFor(u)
    BY DEF OneMessagePerRequest
  <1>2. CASE Unmoved(u)
    BY <1>1, <1>2, UnmovedOneMessage
  <1>3. CASE \/ Asked(u) \/ Woken(u) \/ \E m : Answered(u, m)
             \/ \E from, m, to, x : Forwarded(u, from, m, to, x)
             \/ \E from, m, t : Lost(u, from, m, t)
    BY <1>1, <1>3, StepOneMessage DEF Forwarded, Lost
  <1>4. \A w \in Users : OthersUnmoved(w) => w = u \/ Unmoved(u)
    BY DEF OthersUnmoved
  <1> QED
    BY <1>2, <1>3, <1>4, RequestSteps DEF Asked, Woken, Answered, Forwarded, Carried, Lost, Vanished

LEMMA RequestsInit == Init => OneMessagePerRequest
  <1> SUFFICES ASSUME Init, NEW u \in Users PROVE OneMessageFor(u)
    BY DEF OneMessagePerRequest
  <1>1. ASSUME NEW b \in Channels, NEW j \in DOMAIN net[b] PROVE ~Mine(b, net[b][j], u)
    <2>1. CASE b[1] = "ToBackend"
      <3>1. net[b] = <<WorkerAlive(b[3])>>
        BY <2>1 DEF Init, BrokerInit
      <3>2. net[b][j] = WorkerAlive(b[3])
        BY <1>1, <3>1
      <3> QED
        BY <3>2 DEF Mine, WorkerAlive, FreshMeta
    <2>2. CASE b[1] = "CloudUp"
      <3>1. net[b] = <<ClusterAlive(b[2])>>
        BY <2>2 DEF Init, BrokerInit
      <3>2. net[b][j] = ClusterAlive(b[2])
        BY <1>1, <3>1
      <3> QED
        BY <3>2 DEF Mine, ClusterAlive, FreshMeta
    <2>3. CASE b[1] # "ToBackend" /\ b[1] # "CloudUp"
      <3>1. net[b] = <<>>
        BY <2>3 DEF Init, BrokerInit
      <3> QED
        BY <1>1, <3>1
    <2> QED
      BY <2>1, <2>2, <2>3
  <1>2. NoTask(net, u)
    BY <1>1 DEF NoTask
  <1>3. clientState[u] = "ready" /\ u \notin dropped
    BY DEF Init, BrokerInit, SuperInit
  <1> QED
    BY <1>2, <1>3, OneMessageMeans DEF HasItsTask

(***************************************************************************)
(* From the moment a client sends a request until it has the answer, there *)
(* is exactly one message of it in the data center, about the task the     *)
(* client asked for, or the router socket of the super broker dropped it.  *)
(***************************************************************************)
THEOREM RequestsCorrect == Spec => []OneMessagePerRequest
  <1>1. Init => NetInv /\ OnePlacePerWorker /\ OneMessagePerRequest
    BY InitNet, PlacesInit, RequestsInit
  <1>2. NetInv /\ OnePlacePerWorker /\ OneMessagePerRequest /\ [Next]_vars
            => (NetInv /\ OnePlacePerWorker /\ OneMessagePerRequest)'
    BY NetStep, PlacesStep, RequestsStep DEF OnePlacePerWorker
  <1> QED
    BY <1>1, <1>2, PTL DEF Spec

--------------------------------------------------------------------------------
(***************************************************************************)
(* The way home.  A request that left its cluster went up on a connection  *)
(* the super broker knows, so its answer is never dropped.                 *)
(***************************************************************************)
Homeward(u) == \A ch, m : TheTask(net, u, ch, m) => u[1] \in routable \cup {ch[2]}

AllHomeward == \A u \in Users : Homeward(u)

LEMMA RoutableGrows ==
    ASSUME [Next]_vars
    PROVE  routable \subseteq routable'
  <1>1. CASE \E c \in Clusters : Super(Connect(c)) \/ Super(StatePuller(c)) \/ Super(TaskRouter(c))
    BY <1>1 DEF Super, Connect, StatePuller, TaskRouter, RouteMessage
  <1>2. CASE UNCHANGED routable
    BY <1>2
  <1> QED
    BY <1>1, <1>2 DEF Next, Local, Report, Super, SuperNext, superVars, vars

LEMMA UnmovedTasks ==
    ASSUME NEW u, OneMessageFor(u), Unmoved(u)
    PROVE  \A ch, m : TheTask(net', u, ch, m) <=> TheTask(net, u, ch, m)
  <1>1. NoTask(net, u) \/ \E ch, m : TheTask(net, u, ch, m)
    BY OneMessageMeans DEF HasItsTask
  <1> QED
    BY <1>1, TaskUnique DEF Unmoved

LEMMA HomewardStep ==
    NetInv /\ OnePlacePerWorker /\ OneMessagePerRequest /\ AllHomeward /\ [Next]_vars
        => AllHomeward'
  <1> SUFFICES ASSUME NetInv, OnePlacePerWorker, OneMessagePerRequest, AllHomeward,
                      [Next]_vars, NEW u \in Users
               PROVE  Homeward(u)'
    BY DEF AllHomeward
  <1>0. /\ OneMessageFor(u) /\ Homeward(u) /\ routable \subseteq routable'
        /\ HasItsTask(u)
    BY RoutableGrows, OneMessageMeans DEF OneMessagePerRequest, AllHomeward
  <1>1. CASE Unmoved(u)
    BY <1>0, <1>1, UnmovedTasks DEF Homeward
  <1>2. CASE Asked(u)
    <2>1. NoTask(net, u)
      BY <1>0, <1>2 DEF Asked, HasItsTask
    <2>2. \E m : TheTask(net', u, ToFrontend(u[1], u[2]), m)
      BY <1>2, <2>1 DEF Asked
    <2> QED
      BY <2>2, TaskUnique DEF Homeward, ToFrontend
  <1>3. CASE Woken(u)
    BY <1>0, <1>3 DEF Woken, Homeward
  <1>4. CASE NoTask(net', u)
    BY <1>4, TaskUnique DEF Homeward
  <1>5. ASSUME NEW from, NEW m, NEW to, NEW x, Forwarded(u, from, m, to, x)
        PROVE  Homeward(u)'
    <2>1. TheTask(net, u, from, m)
      BY <1>0, <1>5 DEF Forwarded, Carried, HasItsTask
    <2>2. u[1] \in routable \cup {to[2]} /\ TheTask(net', u, to, x)
      BY <1>0, <1>5, <2>1 DEF Forwarded, Carried, Homeward
    <2> QED
      BY <1>0, <2>2, TaskUnique DEF Homeward
  <1>6. \A m : Answered(u, m) => NoTask(net', u)
    BY <1>0 DEF Answered, HasItsTask
  <1>7. \A from, m, t : Lost(u, from, m, t) => NoTask(net', u)
    BY <1>0 DEF Lost, Vanished, HasItsTask
  <1>8. \A w \in Users : OthersUnmoved(w) => w = u \/ Unmoved(u)
    BY DEF OthersUnmoved
  <1> QED
    BY <1>1, <1>2, <1>3, <1>4, <1>5, <1>6, <1>7, <1>8, RequestSteps
       DEF Asked, Woken, Answered, Forwarded, Carried, Lost, Vanished

--------------------------------------------------------------------------------
(***************************************************************************)
(* Where the message of a request is, and what it says, is its status.     *)
(***************************************************************************)
StatusIs(u) ==
    /\ \A ch, m : TheTask(net, u, ch, m) =>
            /\ clientState[u] = "waiting" /\ u \notin dropped
            /\ StatusOf(u) = Outcome(ch, m)
            /\ Serving(u) = {v \in Crew : ch = ToWorker(v[1], v[2])}
    /\ NoTask(net, u) =>
            /\ StatusOf(u) = (CASE clientState[u] = "ready"   -> "idle"
                                [] clientState[u] = "backoff" -> "backoff"
                                [] clientState[u] = "waiting" -> "lost")
            /\ Serving(u) = {}

\* On the way to a client nothing but a task has an owner.
LEMMA OnlyTasksAreOwned ==
    ASSUME NetInv, NEW u \in Users, NEW ch \in Channels, NEW i \in DOMAIN net[ch],
           Owner(ch, net[ch][i]) = u,
           ch[1] = "ToWorker" \/ net[ch][i].taskDirection # "TASK_SUBMIT"
    PROVE  Mine(ch, net[ch][i], u)
  <1> DEFINE m == net[ch][i]
  <1>1. Addressed(ch, m)
    BY DEF NetInv, WellAddressed
  <1>2. u # <<NoID, NoID>>
    BY Members
  <1>3. m.taskType = "NormalTask"
    <2>1. CASE ch[1] \in {"ToFrontend", "ToClient", "ToWorker", "CloudDown"}
      BY <1>1, <2>1 DEF Addressed, IsRequest, IsAnswer
    <2>2. CASE ch[1] = "ToBackend"
      <3>1. m = WorkerAlive(ch[3]) => Owner(ch, m) = <<NoID, NoID>>
        BY <2>2 DEF Owner, WorkerAlive, FreshMeta
      <3> QED
        BY <1>1, <1>2, <2>2, <3>1 DEF Addressed, IsAnswer
    <2>3. CASE ch[1] = "CloudUp"
      <3>1. m # ClusterAlive(ch[2])
        BY <2>3 DEF ClusterAlive, FreshMeta
      <3> QED
        BY <1>1, <2>3, <3>1 DEF Addressed, IsRequest, IsAnswer
    <2> QED
      BY <2>1, <2>2, <2>3, ChannelKinds
         DEF ToFrontend, ToClient, ToBackend, ToWorker, CloudUp, CloudDown
  <1> QED
    BY <1>3 DEF Mine

LEMMA WorkersHaveRequests ==
    ASSUME NetInv, NEW v \in Crew, NEW i \in DOMAIN net[ToWorker(v[1], v[2])]
    PROVE  IsRequest(net[ToWorker(v[1], v[2])][i])
  <1>1. ToWorker(v[1], v[2]) \in Channels
    BY ChannelsExist
  <1> QED
    BY <1>1 DEF NetInv, WellAddressed, Addressed, ToWorker

LEMMA ServingMeans ==
    ASSUME NetInv, NEW u \in Users
    PROVE  /\ \A ch, m : TheTask(net, u, ch, m)
                 => Serving(u) = {v \in Crew : ch = ToWorker(v[1], v[2])}
           /\ NoTask(net, u) => Serving(u) = {}
  <1>1. ASSUME NEW v \in Crew, NEW i \in DOMAIN net[ToWorker(v[1], v[2])],
               Owner(ToWorker(v[1], v[2]), net[ToWorker(v[1], v[2])][i]) = u
        PROVE  Mine(ToWorker(v[1], v[2]), net[ToWorker(v[1], v[2])][i], u)
    BY <1>1, WorkersHaveRequests DEF Mine, IsRequest
  <1>2. ASSUME NEW ch, NEW m, TheTask(net, u, ch, m)
        PROVE  Serving(u) = {v \in Crew : ch = ToWorker(v[1], v[2])}
    <2> PICK i \in DOMAIN net[ch] : net[ch][i] = m /\ Only(net, u, ch, i)
      BY <1>2 DEF TheTask
    <2>1. ASSUME NEW v \in Serving(u) PROVE ch = ToWorker(v[1], v[2])
      <3>1. /\ v \in Crew
            /\ \E j \in DOMAIN net[ToWorker(v[1], v[2])] :
                  Owner(ToWorker(v[1], v[2]), net[ToWorker(v[1], v[2])][j]) = u
        BY DEF Serving
      <3> QED
        BY <1>1, <3>1, ChannelsExist DEF Only
    <2>2. ASSUME NEW v \in Crew, ch = ToWorker(v[1], v[2]) PROVE v \in Serving(u)
      BY <2>2 DEF Only, Mine, Serving
    <2>3. Serving(u) \subseteq Crew
      BY DEF Serving
    <2> QED
      BY <2>1, <2>2, <2>3
  <1>3. ASSUME NoTask(net, u) PROVE Serving(u) = {}
    BY <1>1, <1>3, ChannelsExist DEF NoTask, Serving
  <1> QED
    BY <1>2, <1>3

LEMMA ToldMeans ==
    ASSUME NetInv, NEW u \in Users, NEW verdict \in {"TASK_REPLY", "TASK_REPLY_REJECTED"}
    PROVE  /\ \A ch, m : TheTask(net, u, ch, m) => (Told(u, verdict) <=> m.taskDirection = verdict)
           /\ NoTask(net, u) => ~Told(u, verdict)
  <1>1. ASSUME NEW b \in Channels, NEW j \in DOMAIN net[b],
               net[b][j].taskDirection = verdict, Owner(b, net[b][j]) = u
        PROVE  Mine(b, net[b][j], u)
    BY <1>1, OnlyTasksAreOwned
  <1>2. ASSUME NEW ch, NEW m, TheTask(net, u, ch, m)
        PROVE  Told(u, verdict) <=> m.taskDirection = verdict
    <2> PICK i \in DOMAIN net[ch] : net[ch][i] = m /\ Only(net, u, ch, i)
      BY <1>2 DEF TheTask
    <2>1. Told(u, verdict) => m.taskDirection = verdict
      BY <1>1 DEF Told, Only
    <2>2. m.taskDirection = verdict => Told(u, verdict)
      BY <1>2 DEF Told, Only, Mine, TheTask
    <2> QED
      BY <2>1, <2>2
  <1>3. NoTask(net, u) => ~Told(u, verdict)
    BY <1>1 DEF NoTask, Told
  <1> QED
    BY <1>2, <1>3

LEMMA StatusFollows ==
    ASSUME NetInv, NEW u \in Users, OneMessageFor(u)
    PROVE  StatusIs(u)
  <1>1. HasItsTask(u) /\ (u \in dropped => clientState[u] = "waiting")
    BY OneMessageMeans
  <1>2. clientState[u] \in {"ready", "waiting", "backoff"}
    BY DEF NetInv, TypeOK
  <1>3. ASSUME NEW ch, NEW m, TheTask(net, u, ch, m)
        PROVE  /\ clientState[u] = "waiting" /\ u \notin dropped
               /\ StatusOf(u) = Outcome(ch, m)
               /\ Serving(u) = {v \in Crew : ch = ToWorker(v[1], v[2])}
    <2>1. clientState[u] = "waiting" /\ u \notin dropped
      BY <1>1, <1>3, TaskUnique DEF HasItsTask
    <2>2. Serving(u) = {v \in Crew : ch = ToWorker(v[1], v[2])}
      BY <1>3, ServingMeans
    <2>3. Serving(u) # {} <=> ch[1] = "ToWorker"
      <3>1. ch[1] = "ToWorker" => \E v \in Crew : ch = ToWorker(v[1], v[2])
        BY <1>3, ChannelKinds DEF TheTask, ToFrontend, ToClient, ToBackend, CloudUp, CloudDown
      <3>2. \A v \in Crew : ToWorker(v[1], v[2])[1] = "ToWorker"
        BY DEF ToWorker
      <3> QED
        BY <2>2, <3>1, <3>2
    <2>4. /\ Told(u, "TASK_REPLY") <=> m.taskDirection = "TASK_REPLY"
          /\ Told(u, "TASK_REPLY_REJECTED") <=> m.taskDirection = "TASK_REPLY_REJECTED"
      BY <1>3, ToldMeans
    <2>5. StatusOf(u) = Outcome(ch, m)
      BY <2>1, <2>3, <2>4 DEF StatusOf, Outcome
    <2> QED
      BY <2>1, <2>2, <2>5
  <1>4. ASSUME NoTask(net, u)
        PROVE  /\ StatusOf(u) = (CASE clientState[u] = "ready"   -> "idle"
                                   [] clientState[u] = "backoff" -> "backoff"
                                   [] clientState[u] = "waiting" -> "lost")
               /\ Serving(u) = {}
    <2>1. Serving(u) = {} /\ ~Told(u, "TASK_REPLY") /\ ~Told(u, "TASK_REPLY_REJECTED")
      BY <1>4, ServingMeans, ToldMeans
    <2>2. clientState[u] = "waiting" => u \in dropped
      BY <1>1, <1>4, TaskUnique DEF HasItsTask
    <2> QED
      BY <1>2, <2>1, <2>2 DEF StatusOf
  <1> QED
    BY <1>3, <1>4 DEF StatusIs

--------------------------------------------------------------------------------
(***************************************************************************)
(* The refinement: each step that concerns a request is the step of the    *)
(* same name of TaskService, or changes nothing a client can tell.         *)
(***************************************************************************)
ServiceInv ==
    /\ NetInv /\ OnePlacePerWorker /\ OneMessagePerRequest /\ AllHomeward
    /\ \A u \in Users : StatusIs(u)

LEMMA UnmovedStatus ==
    ASSUME NEW u, OneMessageFor(u), StatusIs(u), StatusIs(u)', Unmoved(u)
    PROVE  StatusOf(u)' = StatusOf(u) /\ Serving(u)' = Serving(u)
  <1>1. CASE NoTask(net, u)
    BY <1>1 DEF StatusIs, Unmoved
  <1>2. ASSUME NEW ch, NEW m, TheTask(net, u, ch, m)
        PROVE  StatusOf(u)' = StatusOf(u) /\ Serving(u)' = Serving(u)
    BY <1>2 DEF StatusIs, Unmoved
  <1> QED
    BY <1>1, <1>2, OneMessageMeans DEF HasItsTask

\* What the abstract variables become when only user u is concerned.
LEMMA ServiceFrame ==
    ASSUME ServiceInv, ServiceInv', NEW u \in Users, OthersUnmoved(u)
    PROVE  /\ [x \in Users |-> StatusOf(x)]'
                = [[x \in Users |-> StatusOf(x)] EXCEPT ![u] = StatusOf(u)']
           /\ [x \in Users |-> Serving(x)]'
                = [[x \in Users |-> Serving(x)] EXCEPT ![u] = Serving(u)']
  <1> \A w \in Users \ {u} : StatusOf(w)' = StatusOf(w) /\ Serving(w)' = Serving(w)
    BY UnmovedStatus DEF ServiceInv, OneMessagePerRequest, OthersUnmoved
  <1> QED
    OBVIOUS

LEMMA AskedRefines ==
    ASSUME ServiceInv, ServiceInv', NEW u \in Users, Asked(u)
    PROVE  Service!Request(u)
  <1>1. NoTask(net, u)
    BY OneMessageMeans DEF ServiceInv, OneMessagePerRequest, Asked, HasItsTask
  <1>2. StatusOf(u) = "idle" /\ Serving(u) = {}
    BY <1>1 DEF ServiceInv, StatusIs, Asked
  <1>3. PICK m : TheTask(net', u, ToFrontend(u[1], u[2]), m) /\ m.taskDirection = "TASK_SUBMIT"
    BY <1>1 DEF Asked
  <1>4. /\ StatusOf(u)' = Outcome(ToFrontend(u[1], u[2]), m)
        /\ Serving(u)' = {v \in Crew : ToFrontend(u[1], u[2]) = ToWorker(v[1], v[2])}
    BY <1>3 DEF ServiceInv, StatusIs
  <1>5. StatusOf(u)' = "open" /\ Serving(u)' = {}
    BY <1>3, <1>4 DEF Outcome, ToFrontend, ToWorker
  <1>6. /\ [x \in Users |-> StatusOf(x)]'
            = [[x \in Users |-> StatusOf(x)] EXCEPT ![u] = "open"]
        /\ [x \in Users |-> Serving(x)]' = [x \in Users |-> Serving(x)]
    BY <1>2, <1>5, ServiceFrame DEF Asked
  <1> QED
    BY <1>2, <1>6 DEF Service!Request, Service!Goes, Asked

LEMMA WokenRefines ==
    ASSUME ServiceInv, ServiceInv', NEW u \in Users, Woken(u)
    PROVE  Service!Collect(u)
  <1>1. NoTask(net, u) /\ NoTask(net', u)
    BY OneMessageMeans DEF ServiceInv, OneMessagePerRequest, Woken, HasItsTask
  <1>2. clientState[u] = "backoff" /\ clientState'[u] = "ready"
    BY DEF Woken, ServiceInv, NetInv, TypeOK
  <1>3. /\ StatusOf(u) = "backoff" /\ Serving(u) = {}
        /\ StatusOf(u)' = "idle" /\ Serving(u)' = {}
    BY <1>1, <1>2 DEF ServiceInv, StatusIs
  <1>4. /\ [x \in Users |-> StatusOf(x)]'
            = [[x \in Users |-> StatusOf(x)] EXCEPT ![u] = "idle"]
        /\ [x \in Users |-> Serving(x)]' = [x \in Users |-> Serving(x)]
    BY <1>3, ServiceFrame DEF Woken
  <1> QED
    BY <1>3, <1>4 DEF Service!Collect, Service!Goes, Woken

LEMMA AnsweredRefines ==
    ASSUME ServiceInv, ServiceInv', NEW u \in Users, NEW m, Answered(u, m)
    PROVE  Service!Collect(u) \/ Service!BackOff(u)
  <1> DEFINE ch == ToClient(u[1], u[2])
  <1>1. TheTask(net, u, ch, m) /\ NoTask(net', u)
    BY OneMessageMeans DEF ServiceInv, OneMessagePerRequest, Answered, HasItsTask
  <1>2. StatusOf(u) = Outcome(ch, m) /\ Serving(u) = {v \in Crew : ch = ToWorker(v[1], v[2])}
    BY <1>1 DEF ServiceInv, StatusIs
  <1>3. /\ Serving(u) = {} /\ Serving(u)' = {}
        /\ m.taskDirection = "TASK_REPLY" => StatusOf(u) = "served"
        /\ m.taskDirection = "TASK_REPLY_REJECTED" => StatusOf(u) = "rejected"
    BY <1>1, <1>2 DEF Outcome, ToClient, ToWorker, ServiceInv, StatusIs
  <1>4. [x \in Users |-> Serving(x)]' = [x \in Users |-> Serving(x)]
    BY <1>3, ServiceFrame DEF Answered
  <1>t. u \in DOMAIN clientState
    BY DEF ServiceInv, NetInv, TypeOK
  <1>5. CASE /\ m.taskDirection = "TASK_REPLY"
             /\ clientState' = [clientState EXCEPT ![u] = "ready"]
             /\ clientTask' = [clientTask EXCEPT ![u] = 0]
    <2>1. StatusOf(u)' = "idle"
      BY <1>1, <1>5, <1>t DEF ServiceInv, StatusIs
    <2>2. [x \in Users |-> StatusOf(x)]' = [[x \in Users |-> StatusOf(x)] EXCEPT ![u] = "idle"]
      BY <2>1, ServiceFrame DEF Answered
    <2> QED
      BY <1>3, <1>4, <1>5, <2>2 DEF Service!Collect, Service!Goes
  <1>6. CASE /\ m.taskDirection = "TASK_REPLY_REJECTED"
             /\ clientState' = [clientState EXCEPT ![u] = "backoff"]
             /\ UNCHANGED clientTask
    <2>1. StatusOf(u)' = "backoff"
      BY <1>1, <1>6, <1>t DEF ServiceInv, StatusIs
    <2>2. [x \in Users |-> StatusOf(x)]' = [[x \in Users |-> StatusOf(x)] EXCEPT ![u] = "backoff"]
      BY <2>1, ServiceFrame DEF Answered
    <2> QED
      BY <1>3, <1>4, <1>6, <2>2 DEF Service!BackOff, Service!Goes
  <1> QED
    BY <1>5, <1>6 DEF Answered

\* The message moves on: the request is assigned, finished, refused, or just travels.
LEMMA ForwardedRefines ==
    ASSUME ServiceInv, ServiceInv', NEW u \in Users,
           NEW from, NEW m, NEW to, NEW x, Forwarded(u, from, m, to, x)
    PROVE  \/ \E v \in Crew : Service!Assign(u, v)
           \/ Service!Finish(u) \/ Service!Refuse(u)
           \/ UNCHANGED Service!vars
  <1>1. TheTask(net, u, from, m) /\ TheTask(net', u, to, x)
    BY OneMessageMeans DEF ServiceInv, OneMessagePerRequest, Forwarded, Carried, HasItsTask
  <1>2. /\ StatusOf(u) = Outcome(from, m) /\ StatusOf(u)' = Outcome(to, x)
        /\ Serving(u) = {v \in Crew : from = ToWorker(v[1], v[2])}
        /\ Serving(u)' = {v \in Crew : to = ToWorker(v[1], v[2])}
    BY <1>1 DEF ServiceInv, StatusIs
  <1>3. UNCHANGED clientTask
    BY DEF Forwarded, Carried
  <1>4. /\ [y \in Users |-> StatusOf(y)]'
            = [[y \in Users |-> StatusOf(y)] EXCEPT ![u] = StatusOf(u)']
        /\ [y \in Users |-> Serving(y)]'
            = [[y \in Users |-> Serving(y)] EXCEPT ![u] = Serving(u)']
    BY ServiceFrame DEF Forwarded, Carried
  <1>5. ASSUME NEW ch, NEW n, Outcome(ch, n) # "running"
        PROVE  {v \in Crew : ch = ToWorker(v[1], v[2])} = {}
    BY <1>5 DEF Outcome, ToWorker
  <1>6. CASE Outcome(from, m) = Outcome(to, x) /\ Outcome(to, x) # "running"
    <2>1. StatusOf(u)' = StatusOf(u) /\ Serving(u)' = Serving(u)
      BY <1>2, <1>5, <1>6
    <2> QED
      BY <1>3, <1>4, <2>1 DEF Service!vars
  <1>7. CASE /\ Outcome(from, m) = "open"
             /\ \E v \in Crew : to = ToWorker(v[1], v[2]) /\ net[to] = <<>>
    <2> PICK v \in Crew : to = ToWorker(v[1], v[2]) /\ net[to] = <<>>
      BY <1>7
    <2>1. Outcome(to, x) = "running"
      BY DEF Outcome, ToWorker
    <2>2. Serving(u)' = {v}
      <3>1. \A y \in Crew : to = ToWorker(y[1], y[2]) <=> y = v
        BY Members DEF ToWorker
      <3> QED
        BY <1>2, <3>1
    <2>3. \A y \in Users : v \notin Serving(y)
      BY DEF Serving
    <2> QED
      BY <1>2, <1>3, <1>4, <1>7, <2>1, <2>2, <2>3 DEF Service!Assign, Service!Goes
  <1>8. CASE Outcome(from, m) = "running" /\ Outcome(to, x) = "served"
    <2>1. from[1] = "ToWorker" /\ from \in Channels
      BY <1>8 DEF Outcome, Forwarded, Carried
    <2>2. \E v \in Crew : from = ToWorker(v[1], v[2])
      BY <2>1, ChannelKinds DEF ToFrontend, ToClient, ToBackend, CloudUp, CloudDown
    <2>3. Serving(u) # {} /\ Serving(u)' = {}
      BY <1>2, <1>5, <1>8, <2>2
    <2> QED
      BY <1>2, <1>3, <1>4, <1>8, <2>3 DEF Service!Finish, Service!Goes
  <1>9. CASE Outcome(from, m) = "open" /\ Outcome(to, x) = "rejected"
    <2>1. Serving(u) = {} /\ Serving(u)' = {}
      BY <1>2, <1>5, <1>9
    <2>2. [y \in Users |-> Serving(y)]' = [y \in Users |-> Serving(y)]
      BY <1>4, <2>1
    <2> QED
      BY <1>2, <1>3, <1>4, <1>9, <2>2 DEF Service!Refuse, Service!Goes
  <1> QED
    BY <1>6, <1>7, <1>8, <1>9 DEF Forwarded, Carried, Progress

\* What the router socket drops is a request that no worker had.
LEMMA LostRefines ==
    ASSUME ServiceInv, ServiceInv', NEW u \in Users,
           NEW from, NEW m, NEW t, Lost(u, from, m, t)
    PROVE  Service!Refuse(u)
  <1>1. TheTask(net, u, from, m) /\ NoTask(net', u) /\ clientState[u] = "waiting"
    BY OneMessageMeans DEF ServiceInv, OneMessagePerRequest, Lost, Vanished, HasItsTask
  <1>2. ~Settled(from, m)
    <2>1. u[1] \in routable \cup {from[2]}
      BY <1>1 DEF ServiceInv, AllHomeward, Homeward
    <2> QED
      BY <2>1 DEF Lost, Vanished
  <1>3. Outcome(from, m) = "open"
    BY <1>2 DEF Lost, Vanished, Settled, Outcome
  <1>4. /\ StatusOf(u) = "open" /\ Serving(u) = {v \in Crew : from = ToWorker(v[1], v[2])}
        /\ StatusOf(u)' = "lost" /\ Serving(u)' = {}
    BY <1>1, <1>3 DEF ServiceInv, StatusIs, Lost, Vanished
  <1>5. Serving(u) = {}
    BY <1>3, <1>4 DEF Outcome, ToWorker
  <1>6. /\ [x \in Users |-> StatusOf(x)]'
            = [[x \in Users |-> StatusOf(x)] EXCEPT ![u] = "lost"]
        /\ [x \in Users |-> Serving(x)]' = [x \in Users |-> Serving(x)]
    BY <1>4, <1>5, ServiceFrame DEF Lost, Vanished
  <1> QED
    BY <1>4, <1>6 DEF Service!Refuse, Service!Goes, Lost, Vanished

LEMMA ServiceStep ==
    ServiceInv /\ ServiceInv' /\ [Next]_vars => [Service!Next]_Service!vars
  <1> SUFFICES ASSUME ServiceInv, ServiceInv', [Next]_vars
               PROVE  Service!Next \/ UNCHANGED Service!vars
    OBVIOUS
  <1>1. CASE \A u \in Users : Unmoved(u)
    <2>1. \A u \in Users : StatusOf(u)' = StatusOf(u) /\ Serving(u)' = Serving(u)
      BY <1>1, UnmovedStatus DEF ServiceInv, OneMessagePerRequest
    <2>2. clientTask' = clientTask
      BY <1>1 DEF Unmoved, ServiceInv, NetInv, TypeOK
    <2> QED
      BY <2>1, <2>2 DEF Service!vars
  <1>2. ASSUME NEW u \in Users, Asked(u) \/ Woken(u)
        PROVE  Service!Next
    BY <1>2, AskedRefines, WokenRefines DEF Service!Next
  <1>3. ASSUME NEW u \in Users, NEW m, Answered(u, m)
        PROVE  Service!Next
    BY <1>3, AnsweredRefines DEF Service!Next
  <1>4. ASSUME NEW u \in Users, NEW from, NEW m, NEW to, NEW x, Forwarded(u, from, m, to, x)
        PROVE  Service!Next \/ UNCHANGED Service!vars
    BY <1>4, ForwardedRefines DEF Service!Next
  <1>5. ASSUME NEW u \in Users, NEW from, NEW m, NEW t, Lost(u, from, m, t)
        PROVE  Service!Next
    BY <1>5, LostRefines DEF Service!Next
  <1> QED
    BY <1>1, <1>2, <1>3, <1>4, <1>5, RequestSteps DEF ServiceInv

LEMMA ServiceInit == Init => AllHomeward /\ Service!Init
  <1> SUFFICES ASSUME Init PROVE AllHomeward /\ Service!Init
    OBVIOUS
  <1>1. NetInv /\ OneMessagePerRequest
    BY InitNet, RequestsInit
  <1>2. ASSUME NEW u \in Users
        PROVE  /\ Homeward(u) /\ StatusOf(u) = "idle" /\ Serving(u) = {}
    <2>1. clientState[u] = "ready" /\ OneMessageFor(u)
      BY <1>1 DEF Init, BrokerInit, OneMessagePerRequest
    <2>2. NoTask(net, u)
      BY <2>1, OneMessageMeans DEF HasItsTask
    <2>3. StatusIs(u)
      BY <1>1, <2>1, StatusFollows
    <2> QED
      BY <2>1, <2>2, <2>3, TaskUnique DEF StatusIs, Homeward
  <1> QED
    BY <1>2 DEF AllHomeward, Service!Init, Init, BrokerInit

(***************************************************************************)
(* The data center implements TaskService: whatever way its message takes  *)
(* through the brokers, a request is run by one worker, which runs nothing *)
(* else, or rejected before any worker had it; the client gets that one    *)
(* outcome; and only a request that no worker had is lost.                 *)
(***************************************************************************)
THEOREM DataCenterImplementsTaskService == Spec => ImplementsTaskService
  <1> DEFINE Inv == NetInv /\ OnePlacePerWorker /\ OneMessagePerRequest /\ AllHomeward
  <1>1. Init => Inv /\ Service!Init
    BY InitNet, PlacesInit, RequestsInit, ServiceInit
  <1>2. Inv /\ [Next]_vars => Inv'
    BY NetStep, PlacesStep, RequestsStep, HomewardStep DEF OnePlacePerWorker
  <1>3. Inv => ServiceInv
    BY StatusFollows DEF ServiceInv, OneMessagePerRequest
  <1>4. ServiceInv /\ ServiceInv' /\ [Next]_vars => [Service!Next]_Service!vars
    BY ServiceStep
  <1> HIDE DEF Inv
  <1> QED
    BY <1>1, <1>2, <1>3, <1>4, PTL DEF Spec, ImplementsTaskService, Service!Spec

--------------------------------------------------------------------------------
(***************************************************************************)
(* THIRD PART.  Failures: what holds of the processes that live, whatever  *)
(* others end.                                                             *)
(***************************************************************************)

(***************************************************************************)
(* What a failure leaves of a queue is a part of it: its oldest messages,  *)
(* its youngest, all or none.                                              *)
(***************************************************************************)
PartOf(r, q) == \E k \in Nat : \A i \in DOMAIN r : i + k \in DOMAIN q /\ r[i] = q[i + k]

LEMMA PartsOfQueues ==
    ASSUME NEW S, NEW q \in Seq(S)
    PROVE  /\ PartOf(q, q)
           /\ <<>> \in Seq(S) /\ PartOf(<<>>, q)
           /\ \A r \in Youngest(q) : r \in Seq(S) /\ PartOf(r, q)
           /\ \A r \in Oldest(q) : r \in Seq(S) /\ PartOf(r, q)
  <1>1. Len(q) \in Nat /\ DOMAIN q = 1 .. Len(q)
    OBVIOUS
  <1>2. PartOf(q, q)
    <2>1. \A i \in DOMAIN q : i + 0 \in DOMAIN q /\ q[i] = q[i + 0]
      BY <1>1
    <2> QED
      BY <2>1 DEF PartOf
  <1>3. <<>> \in Seq(S) /\ PartOf(<<>>, q)
    <2>1. DOMAIN <<>> = {}
      OBVIOUS
    <2> QED
      BY <2>1 DEF PartOf
  <1>4. ASSUME NEW r \in Youngest(q)
        PROVE  r \in Seq(S) /\ PartOf(r, q)
    <2> PICK a \in 1 .. Len(q) + 1 : r = SubSeq(q, a, Len(q))
      BY DEF Youngest
    <2>1. /\ r \in Seq(S) /\ DOMAIN r = 1 .. (Len(q) - a + 1)
          /\ \A i \in 1 .. (Len(q) - a + 1) : r[i] = q[i + (a - 1)]
      BY <1>1
    <2>2. a - 1 \in Nat /\ \A i \in DOMAIN r : i + (a - 1) \in DOMAIN q
      BY <1>1, <2>1
    <2> QED
      BY <2>1, <2>2 DEF PartOf
  <1>5. ASSUME NEW r \in Oldest(q)
        PROVE  r \in Seq(S) /\ PartOf(r, q)
    <2> PICK b \in 0 .. Len(q) : r = SubSeq(q, 1, b)
      BY DEF Oldest
    <2>1. r \in Seq(S) /\ DOMAIN r = 1 .. b /\ \A i \in 1 .. b : r[i] = q[i]
      BY <1>1
    <2>2. \A i \in DOMAIN r : i + 0 \in DOMAIN q /\ r[i] = q[i + 0]
      BY <1>1, <2>1
    <2> QED
      BY <2>1, <2>2 DEF PartOf
  <1> QED
    BY <1>2, <1>3, <1>4, <1>5

\* A network whose queues are parts of those of another one.
Shrinks(f, g) ==
    f \in Networks /\ g \in Networks /\ \A ch \in Channels : PartOf(g[ch], f[ch])

LEMMA ShrinksAddressed ==
    ASSUME NEW f, NEW g, Shrinks(f, g), AllAddressed(f)
    PROVE  AllAddressed(g)
  <1> SUFFICES ASSUME NEW ch \in Channels, NEW i \in DOMAIN g[ch]
               PROVE  Addressed(ch, g[ch][i])
    BY DEF AllAddressed
  <1> PICK k \in Nat : i + k \in DOMAIN f[ch] /\ g[ch][i] = f[ch][i + k]
    BY DEF Shrinks, PartOf
  <1> QED
    BY DEF AllAddressed

\* The message of a request stays, or is lost: it does not change.
LEMMA ShrinksTask ==
    ASSUME NEW f, NEW g, Shrinks(f, g), NEW u
    PROVE  /\ NoTask(f, u) => NoTask(g, u)
           /\ \A ch, m : TheTask(f, u, ch, m) => TheTask(g, u, ch, m) \/ NoTask(g, u)
  <1>1. ASSUME NEW b \in Channels, NEW j \in DOMAIN g[b], Mine(b, g[b][j], u)
        PROVE  \E k \in Nat : /\ j + k \in DOMAIN f[b] /\ Mine(b, f[b][j + k], u)
                              /\ g[b][j] = f[b][j + k]
    BY <1>1 DEF Shrinks, PartOf
  <1>2. NoTask(f, u) => NoTask(g, u)
    BY <1>1 DEF NoTask
  <1>3. ASSUME NEW ch, NEW m, TheTask(f, u, ch, m), ~NoTask(g, u)
        PROVE  TheTask(g, u, ch, m)
    <2> PICK i \in DOMAIN f[ch] : f[ch][i] = m /\ Only(f, u, ch, i)
      BY <1>3 DEF TheTask
    <2>1. ch \in Channels
      BY <1>3 DEF TheTask
    <2> PICK k \in Nat : \A j \in DOMAIN g[ch] : j + k \in DOMAIN f[ch] /\ g[ch][j] = f[ch][j + k]
      BY <2>1 DEF Shrinks, PartOf
    <2>2. ASSUME NEW b \in Channels, NEW j \in DOMAIN g[b], Mine(b, g[b][j], u)
          PROVE  b = ch /\ j + k = i /\ g[ch][j] = m
      <3>1. b = ch
        BY <1>1, <2>2 DEF Only
      <3> QED
        BY <2>2, <3>1 DEF Only
    <2>3. \A j \in DOMAIN g[ch] : j \in Nat
      <3>1. g[ch] \in Seq(TaskMeta)
        BY <2>1 DEF Shrinks, Networks
      <3> QED
        BY <3>1
    <2> PICK b \in Channels : \E j \in DOMAIN g[b] : Mine(b, g[b][j], u)
      BY <1>3 DEF NoTask
    <2> PICK j \in DOMAIN g[b] : Mine(b, g[b][j], u)
      OBVIOUS
    <2>4. b = ch /\ j + k = i /\ g[ch][j] = m /\ j \in DOMAIN g[ch]
      BY <2>2
    <2>5. \A a \in Channels : \A n \in DOMAIN g[a] : Mine(a, g[a][n], u) => a = ch /\ n = j
      BY <2>2, <2>3, <2>4
    <2> QED
      BY <2>1, <2>4, <2>5 DEF TheTask, Only
  <1> QED
    BY <1>2, <1>3

--------------------------------------------------------------------------------
(***************************************************************************)
(* The cases of a step: a step of DataCenter, a message of a stopped       *)
(* cluster that the super broker reads, or a failure.                      *)
(***************************************************************************)
LEMMA WorkingSteps ==
    ASSUME NEW c \in Clusters, Working(ClusterStep(c)) \/ Working(SuperStep(c))
    PROVE  \/ \E u \in Users : /\ u[1] \in Living
                              /\ \/ Local(SendRequest(u[1], u[2]))
                                 \/ Local(ReceiveReply(u[1], u[2]))
                                 \/ Local(Wake(u[1], u[2]))
                                 \/ Local(RouteLocalRequest(u[1], u[2]))
           \/ \E v \in Crew : Local(Process(v[1], v[2])) \/ Local(RouteLocalReply(v[1], v[2]))
           \/ c \in Living /\ Local(RouteCloud(c))
           \/ Report(SetClusterState(c) \/ ForwardState(c))
           \/ c \in Living \ brokenTasks /\ Super(Connect(c))
           \/ Super(StatePuller(c))
           \/ Super(RouteMessage(c))
  <1>1. CASE ClusterStep(c)
    <2>1. \A k \in ClientsOf[c] : \E u \in Users : u[1] = c /\ u[2] = k
      <3> TAKE k \in ClientsOf[c]
      <3>1. <<c, k>> \in Users
        BY Members
      <3> QED
        BY <3>1
    <2>2. \A w \in WorkersOf[c] : \E v \in Crew : v[1] = c /\ v[2] = w
      <3> TAKE w \in WorkersOf[c]
      <3>1. <<c, w>> \in Crew
        BY Members
      <3> QED
        BY <3>1
    <2>3. CASE \E k \in ClientsOf[c] : Local(ClientNext(c, k) \/ RouteLocalRequest(c, k))
      <3> PICK u \in Users : u[1] = c /\ Local(ClientNext(c, u[2]) \/ RouteLocalRequest(c, u[2]))
        BY <2>1, <2>3
      <3> QED
        BY <1>1 DEF ClusterStep, ClientNext, Local
    <2>4. CASE \E w \in WorkersOf[c] : Local(Process(c, w) \/ RouteLocalReply(c, w))
      <3> PICK v \in Crew : v[1] = c /\ Local(Process(c, v[2]) \/ RouteLocalReply(c, v[2]))
        BY <2>2, <2>4
      <3> QED
        BY DEF Local
    <2> QED
      BY <1>1, <2>3, <2>4 DEF ClusterStep
  <1>2. CASE SuperStep(c)
    BY <1>2 DEF SuperStep, TaskRouterOf, TaskRouter, Super
  <1> QED
    BY <1>1, <1>2 DEF Working

LEMMA FaultSteps ==
    ASSUME FaultNext
    PROVE  \/ Next /\ UNCHANGED faultVars /\ routable' \subseteq routable \cup (Living \ brokenTasks)
           \/ \E c \in Clusters : Super(RouteMessage(c)) /\ UNCHANGED faultVars
           \/ RestartSuperBroker
           \/ \E c \in Clusters : ReconnectTasks(c) \/ ReconnectReports(c) \/ StopCluster(c)
  <1>1. ASSUME NEW c \in Clusters, Working(ClusterStep(c)) \/ Working(SuperStep(c))
        PROVE  /\ UNCHANGED faultVars
               /\ \/ Next /\ routable' \subseteq routable \cup (Living \ brokenTasks)
                  \/ Super(RouteMessage(c))
    <2>1. UNCHANGED faultVars
      BY <1>1 DEF Working
    <2> SUFFICES \/ Next /\ routable' \subseteq routable \cup (Living \ brokenTasks)
                 \/ Super(RouteMessage(c))
      BY <2>1
    <2>2. CASE \E u \in Users : \/ Local(SendRequest(u[1], u[2]))
                                 \/ Local(ReceiveReply(u[1], u[2]))
                                 \/ Local(Wake(u[1], u[2]))
                                 \/ Local(RouteLocalRequest(u[1], u[2]))
      BY <2>2 DEF Next, Local, BrokerNext, ClientNext, superVars
    <2>3. CASE \/ \E v \in Crew : Local(Process(v[1], v[2])) \/ Local(RouteLocalReply(v[1], v[2]))
               \/ Local(RouteCloud(c))
      BY <2>3 DEF Next, Local, BrokerNext, superVars
    <2>4. CASE Report(SetClusterState(c) \/ ForwardState(c))
      BY <2>4 DEF Next, Report, StateNext, superVars
    <2>5. CASE (c \in Living \ brokenTasks /\ Super(Connect(c))) \/ Super(StatePuller(c))
      BY <2>5 DEF Next, Super, SuperNext, Connect, StatePuller
    <2> QED
      BY <1>1, <2>2, <2>3, <2>4, <2>5, WorkingSteps
  <1> QED
    BY <1>1 DEF FaultNext

\* What a failure does to a network of which it takes messages away.
LEMMA RestartShrinks ==
    ASSUME NetInv, RestartSuperBroker
    PROVE  Shrinks(net, net')
  <1>1. net \in Networks
    BY NetInvNetOK DEF NetOK
  <1>2. ASSUME NEW ch \in Channels
        PROVE  net'[ch] \in Seq(TaskMeta) /\ PartOf(net'[ch], net[ch])
    <2>1. net[ch] \in Seq(TaskMeta)
      BY <1>1 DEF Networks
    <2>2. net'[ch] = <<>> \/ net'[ch] = net[ch]
      BY DEF RestartSuperBroker
    <2> QED
      BY <2>1, <2>2, PartsOfQueues
  <1>3. net' = [ch \in Channels |-> net'[ch]]
    BY DEF RestartSuperBroker
  <1> QED
    BY <1>1, <1>2, <1>3 DEF Shrinks, Networks

LEMMA ReconnectShrinks ==
    ASSUME NetInv, NEW c \in Clusters, ReconnectTasks(c)
    PROVE  /\ Shrinks(net, net')
           /\ \A ch \in Channels \ {CloudUp(c), CloudDown(c)} : net'[ch] = net[ch]
  <1>1. /\ net \in Networks /\ net[CloudUp(c)] \in Seq(TaskMeta)
        /\ net[CloudDown(c)] \in Seq(TaskMeta)
    BY NetInvNetOK, ChannelsExist DEF NetOK, Networks
  <1>2. PICK up \in Youngest(net[CloudUp(c)]), down \in Oldest(net[CloudDown(c)]) :
            net' = [net EXCEPT ![CloudUp(c)] = up, ![CloudDown(c)] = down]
    BY DEF ReconnectTasks
  <1>3. /\ up \in Seq(TaskMeta) /\ PartOf(up, net[CloudUp(c)])
        /\ down \in Seq(TaskMeta) /\ PartOf(down, net[CloudDown(c)])
    BY <1>1, PartsOfQueues
  <1>4. CloudUp(c) # CloudDown(c)
    BY DEF CloudUp, CloudDown
  <1>5. ASSUME NEW ch \in Channels
        PROVE  /\ net'[ch] \in Seq(TaskMeta) /\ PartOf(net'[ch], net[ch])
               /\ ch \notin {CloudUp(c), CloudDown(c)} => net'[ch] = net[ch]
    <2>1. net[ch] \in Seq(TaskMeta) /\ PartOf(net[ch], net[ch])
      BY <1>1, PartsOfQueues DEF Networks
    <2>2. net'[ch] = IF ch = CloudDown(c) THEN down ELSE IF ch = CloudUp(c) THEN up ELSE net[ch]
      BY <1>1, <1>2, <1>4 DEF Networks
    <2> QED
      BY <1>3, <2>1, <2>2
  <1>6. net' = [ch \in Channels |-> net'[ch]]
    BY <1>1, <1>2 DEF Networks
  <1> QED
    BY <1>1, <1>5, <1>6 DEF Shrinks, Networks

LEMMA StopShrinks ==
    ASSUME NetInv, NEW c \in Clusters, StopCluster(c)
    PROVE  /\ Shrinks(net, net')
           /\ \A ch \in Channels : ch[2] # c => net'[ch] = net[ch]
  <1>1. net \in Networks /\ net[CloudUp(c)] \in Seq(TaskMeta)
    BY NetInvNetOK, ChannelsExist DEF NetOK, Networks
  <1>2. PICK up \in Oldest(net[CloudUp(c)]) :
            net' = [ch \in Channels |->
                     IF ch = CloudUp(c) THEN up ELSE IF LocalTo(c, ch) THEN <<>> ELSE net[ch]]
    BY DEF StopCluster
  <1>3. up \in Seq(TaskMeta) /\ PartOf(up, net[CloudUp(c)])
    BY <1>1, PartsOfQueues
  <1>4. ASSUME NEW ch \in Channels
        PROVE  /\ net'[ch] \in Seq(TaskMeta) /\ PartOf(net'[ch], net[ch])
               /\ ch[2] # c => net'[ch] = net[ch]
    <2>1. /\ net[ch] \in Seq(TaskMeta) /\ PartOf(net[ch], net[ch])
          /\ <<>> \in Seq(TaskMeta) /\ PartOf(<<>>, net[ch])
      BY <1>1, PartsOfQueues DEF Networks
    <2>2. net'[ch] = IF ch = CloudUp(c) THEN up ELSE IF LocalTo(c, ch) THEN <<>> ELSE net[ch]
      BY <1>2
    <2>3. ch[2] # c => ch # CloudUp(c) /\ ~LocalTo(c, ch)
      BY DEF CloudUp, LocalTo
    <2> QED
      BY <1>3, <2>1, <2>2, <2>3
  <1>5. net' = [ch \in Channels |-> net'[ch]]
    BY <1>2
  <1> QED
    BY <1>1, <1>4, <1>5 DEF Shrinks, Networks

--------------------------------------------------------------------------------
(***************************************************************************)
(* Types and addresses survive every failure: no handler finds a message   *)
(* it could not have been sent.                                            *)
(***************************************************************************)
FaultBase == FaultTypeOK /\ WellAddressed

LEMMA FaultBaseNet == FaultBase => NetInv
  BY DEF FaultBase, FaultTypeOK, NetInv

LEMMA FaultBaseInit == FaultInit => FaultBase
  <1> SUFFICES ASSUME FaultInit PROVE FaultBase
    OBVIOUS
  <1>1. NetInv
    BY InitNet DEF FaultInit
  <1>2. restarts \in 0 .. MaxRestarts
    BY MaxRestartsAssumption DEF FaultInit
  <1> QED
    BY <1>1, <1>2 DEF FaultInit, FaultBase, FaultTypeOK, NetInv, Init, SuperInit, Living

\* The variables that no failure and no step changes in an unexpected way.
LEMMA ShrinksNet ==
    ASSUME NetInv, Shrinks(net, net')
    PROVE  /\ net' \in [Channels -> Seq(TaskMeta)] /\ WellAddressed'
           /\ LostBetween(net, net') \subseteq Users
  <1>1. AllAddressed(net')
    BY NetInvNetOK, ShrinksAddressed DEF NetOK
  <1> QED
    BY <1>1 DEF Shrinks, Networks, WellAddressed, AllAddressed, LostBetween

LEMMA RestartTypes ==
    ASSUME FaultBase, RestartSuperBroker
    PROVE  FaultBase'
  <1>1. NetInv /\ Shrinks(net, net')
    BY FaultBaseNet, RestartShrinks
  <1>2. /\ net' \in [Channels -> Seq(TaskMeta)] /\ WellAddressed'
        /\ LostBetween(net, net') \subseteq Users
    BY <1>1, ShrinksNet
  <1>3. /\ statePush' \in [Clusters -> Seq(Nat)]
        /\ clusterInfoMap' \in [Clusters -> Nat]
    BY <1>1 DEF RestartSuperBroker, NetInv, TypeOK
  <1>4. TypeOK'
    BY <1>1, <1>2, <1>3 DEF RestartSuperBroker, NetInv, TypeOK, brokerVars, clientVars
  <1>5. restarts' \in 0 .. MaxRestarts
    BY MaxRestartsAssumption DEF FaultBase, FaultTypeOK, RestartSuperBroker
  <1>6. Living' = Living
    BY DEF RestartSuperBroker, Living
  <1> QED
    BY <1>2, <1>4, <1>5, <1>6 DEF FaultBase, FaultTypeOK, RestartSuperBroker

LEMMA ReconnectTypes ==
    ASSUME FaultBase, NEW c \in Clusters, ReconnectTasks(c)
    PROVE  FaultBase'
  <1>1. NetInv /\ Shrinks(net, net')
    BY FaultBaseNet, ReconnectShrinks
  <1>2. /\ net' \in [Channels -> Seq(TaskMeta)] /\ WellAddressed'
        /\ LostBetween(net, net') \subseteq Users
    BY <1>1, ShrinksNet
  <1>3. TypeOK'
    BY <1>1, <1>2 DEF ReconnectTasks, NetInv, TypeOK, brokerVars, stateVars
  <1>4. Living' = Living
    BY DEF ReconnectTasks, Living
  <1> QED
    BY <1>2, <1>3, <1>4 DEF FaultBase, FaultTypeOK, ReconnectTasks

LEMMA ReportsTypes ==
    ASSUME FaultBase, NEW c \in Clusters, ReconnectReports(c)
    PROVE  FaultBase'
  <1>1. NetInv
    BY FaultBaseNet
  <1>2. PICK up \in Youngest(statePush[c]) : statePush' = [statePush EXCEPT ![c] = up]
    BY DEF ReconnectReports
  <1>3. up \in Seq(Nat)
    BY <1>1, PartsOfQueues DEF NetInv, TypeOK
  <1>4. statePush' \in [Clusters -> Seq(Nat)]
    BY <1>1, <1>2, <1>3 DEF NetInv, TypeOK
  <1>5. TypeOK' /\ WellAddressed'
    BY <1>1, <1>4 DEF ReconnectReports, NetInv, TypeOK, WellAddressed, brokerVars, superVars
  <1>6. Living' = Living
    BY DEF ReconnectReports, Living
  <1> QED
    BY <1>5, <1>6 DEF FaultBase, FaultTypeOK, ReconnectReports, superVars

LEMMA StopTypes ==
    ASSUME FaultBase, NEW c \in Clusters, StopCluster(c)
    PROVE  FaultBase'
  <1>1. NetInv /\ Shrinks(net, net')
    BY FaultBaseNet, StopShrinks
  <1>2. /\ net' \in [Channels -> Seq(TaskMeta)] /\ WellAddressed'
        /\ LostBetween(net, net') \subseteq Users
    BY <1>1, ShrinksNet
  <1>3. PICK push \in Oldest(statePush[c]) : statePush' = [statePush EXCEPT ![c] = push]
    BY DEF StopCluster
  <1>4. push \in Seq(Nat) /\ <<>> \in Seq(Nat)
    BY <1>1, PartsOfQueues DEF NetInv, TypeOK
  <1>5. /\ statePush' \in [Clusters -> Seq(Nat)]
        /\ statePair' \in [Clusters -> Seq(Nat)]
    BY <1>1, <1>3, <1>4 DEF NetInv, TypeOK, StopCluster
  <1>6. /\ clientState' \in [Users -> {"ready", "waiting", "backoff"}]
        /\ clientTask' \in [Users -> TaskIDs \cup {0}]
    BY <1>1 DEF NetInv, TypeOK, StopCluster
  <1>7. /\ workReadyQueue' \in [Clusters -> Seq(WorkerIDs)]
        /\ \A d \in Clusters : workReadyQueue'[d] \in Seq(WorkersOf[d])
    <2>1. <<>> \in Seq(WorkerIDs) /\ \A d \in Clusters : <<>> \in Seq(WorkersOf[d])
      OBVIOUS
    <2>2. workReadyQueue' = [workReadyQueue EXCEPT ![c] = <<>>]
      BY DEF StopCluster
    <2> QED
      BY <1>1, <2>1, <2>2 DEF NetInv, TypeOK
  <1>8. dropped' \subseteq Users /\ routable' \subseteq Clusters
    BY <1>1, <1>2 DEF NetInv, TypeOK, StopCluster
  <1>9. TypeOK'
    BY <1>1, <1>2, <1>5, <1>6, <1>7, <1>8 DEF NetInv, TypeOK, StopCluster
  <1>10. Living' = Living \ {c}
    BY DEF StopCluster, Living
  <1> QED
    BY <1>2, <1>9, <1>10 DEF FaultBase, FaultTypeOK, StopCluster

LEMMA RoutedTypes ==
    ASSUME FaultBase, NEW c \in Clusters, Super(RouteMessage(c))
    PROVE  NetInv'
  <1>1. NetInv /\ NetOK
    BY FaultBaseNet, NetInvNetOK
  <1>2. NetOK' /\ dropped' \subseteq Users
    BY <1>1, RouteMessageNet DEF Super, NetInv, TypeOK
  <1>3. TypeOK'
    BY <1>1, <1>2 DEF NetOK, Networks, Super, RouteMessage, NetInv, TypeOK, brokerVars
  <1> QED
    BY <1>2, <1>3 DEF NetInv, NetOK, WellAddressed, AllAddressed

LEMMA FaultBaseStep == FaultBase /\ [FaultNext]_allVars => FaultBase'
  <1> SUFFICES ASSUME FaultBase, [FaultNext]_allVars PROVE FaultBase'
    OBVIOUS
  <1>0. NetInv
    BY FaultBaseNet
  <1>1. ASSUME NetInv', UNCHANGED faultVars,
               routable' \subseteq routable \cup (Living \ brokenTasks)
        PROVE  FaultBase'
    BY <1>1 DEF FaultBase, FaultTypeOK, NetInv, faultVars, Living
  <1>2. CASE Next /\ UNCHANGED faultVars /\ routable' \subseteq routable \cup (Living \ brokenTasks)
    BY <1>0, <1>1, <1>2, NetStep
  <1>3. CASE \E c \in Clusters : Super(RouteMessage(c)) /\ UNCHANGED faultVars
    BY <1>1, <1>3, RoutedTypes DEF Super, RouteMessage
  <1>4. CASE RestartSuperBroker
    BY <1>4, RestartTypes
  <1>5. CASE \E c \in Clusters : ReconnectTasks(c) \/ ReconnectReports(c) \/ StopCluster(c)
    BY <1>5, ReconnectTypes, ReportsTypes, StopTypes
  <1>6. CASE UNCHANGED allVars
    <2>1. NetInv' /\ routable' = routable
      BY <1>0, <1>6, NetStep DEF allVars, vars, superVars
    <2> QED
      BY <1>1, <1>6, <2>1 DEF allVars
  <1> QED
    BY <1>2, <1>3, <1>4, <1>5, <1>6, FaultSteps

(***************************************************************************)
(* Whatever ends, the variables of the data center have their types, every *)
(* message has the addresses its next handler reads, and the router socket *)
(* knows only clusters that run and whose connection is back.              *)
(***************************************************************************)
THEOREM FaultTypes == FaultSpec => [](FaultTypeOK /\ WellAddressed)
  <1>1. FaultInit => FaultBase
    BY FaultBaseInit
  <1>2. FaultBase /\ [FaultNext]_allVars => FaultBase'
    BY FaultBaseStep
  <1>3. FaultBase => FaultTypeOK /\ WellAddressed
    BY DEF FaultBase
  <1> QED
    BY <1>1, <1>2, <1>3, PTL DEF FaultSpec

--------------------------------------------------------------------------------
(***************************************************************************)
(* The workers that live.                                                  *)
(***************************************************************************)
LEMMA LivingShrinks ==
    ASSUME [FaultNext]_allVars
    PROVE  Living' \subseteq Living
  BY FaultSteps DEF Living, faultVars, allVars, RestartSuperBroker, ReconnectTasks,
                    ReconnectReports, StopCluster

LEMMA LivingWorkersStep ==
    FaultBase /\ LivingWorkersIntact /\ [FaultNext]_allVars => LivingWorkersIntact'
  <1> SUFFICES ASSUME FaultBase, LivingWorkersIntact, [FaultNext]_allVars,
                      NEW d \in Living'
               PROVE  OnePlaceIn(d)'
    BY DEF LivingWorkersIntact
  <1>0. NetInv /\ d \in Clusters /\ d \in Living /\ d \notin stopped' /\ OnePlaceIn(d)
    BY FaultBaseNet, LivingShrinks DEF LivingWorkersIntact, Living
  <1>1. CASE Next
    BY <1>0, <1>1, PlacesStep
  <1>2. CASE \E c \in Clusters : Super(RouteMessage(c))
    BY <1>0, <1>2, PlacesRouted DEF Super, brokerVars
  <1>3. CASE RestartSuperBroker
    <2>1. \A ch \in Channels : CrewChannel(ch) => net'[ch] = net[ch]
      BY <1>3 DEF RestartSuperBroker, CrewChannel
    <2> QED
      BY <1>0, <1>3, <2>1, PlacesUntouched DEF RestartSuperBroker, brokerVars
  <1>4. ASSUME NEW c \in Clusters, ReconnectTasks(c)
        PROVE  OnePlaceIn(d)'
    <2>1. \A ch \in Channels : CrewChannel(ch) => net'[ch] = net[ch]
      BY <1>0, <1>4, ReconnectShrinks, KindsOfChannels
    <2> QED
      BY <1>0, <1>4, <2>1, PlacesUntouched DEF ReconnectTasks, brokerVars
  <1>5. ASSUME NEW c \in Clusters, ReconnectReports(c)
        PROVE  OnePlaceIn(d)'
    BY <1>0, <1>5, PlacesUntouched DEF ReconnectReports, brokerVars
  <1>6. ASSUME NEW c \in Clusters, StopCluster(c)
        PROVE  OnePlaceIn(d)'
    <2>1. d # c
      BY <1>0, <1>6 DEF StopCluster
    <2>2. \A ch \in Channels : ch[2] = d => net'[ch] = net[ch]
      BY <1>0, <1>6, <2>1, StopShrinks
    <2>3. workReadyQueue'[d] = workReadyQueue[d]
      BY <1>0, <1>6, <2>1 DEF StopCluster, NetInv, TypeOK
    <2> QED
      BY <1>0, <2>2, <2>3, PlacesUntouched
  <1>7. CASE UNCHANGED allVars
    BY <1>0, <1>7, PlacesStep DEF allVars
  <1> QED
    BY <1>1, <1>2, <1>3, <1>4, <1>5, <1>6, <1>7, FaultSteps

(***************************************************************************)
(* Whatever process ends, no worker that lives is given a task while it    *)
(* has one, and none is forgotten.                                         *)
(***************************************************************************)
THEOREM LivingWorkers == FaultSpec => []LivingWorkersIntact
  <1>1. FaultInit => FaultBase /\ LivingWorkersIntact
    BY FaultBaseInit, PlacesInit DEF FaultInit, LivingWorkersIntact, OnePlacePerWorker, Living
  <1>2. FaultBase /\ LivingWorkersIntact /\ [FaultNext]_allVars
            => (FaultBase /\ LivingWorkersIntact)'
    BY FaultBaseStep, LivingWorkersStep
  <1> QED
    BY <1>1, <1>2, PTL DEF FaultSpec

--------------------------------------------------------------------------------
(***************************************************************************)
(* The requests of the clients that live.                                  *)
(***************************************************************************)

\* A failure takes messages away, and every request that loses its own is noted.
LEMMA LossOneMessage ==
    ASSUME NEW u \in Users, OneMessageFor(u), Shrinks(net, net'),
           clientState'[u] = clientState[u], clientTask'[u] = clientTask[u],
           u \in dropped' <=> \/ u \in dropped
                              \/ TasksOf(net, u) # {} /\ TasksOf(net', u) = {}
    PROVE  OneMessageFor(u)'
  <1>1. HasItsTask(u) /\ (u \in dropped => clientState[u] = "waiting")
    BY OneMessageMeans
  <1>2. /\ NoTask(net, u) => NoTask(net', u)
        /\ \A ch, m : TheTask(net, u, ch, m) => TheTask(net', u, ch, m) \/ NoTask(net', u)
    BY ShrinksTask
  <1>3. u \in dropped' <=> u \in dropped \/ (~NoTask(net, u) /\ NoTask(net', u))
    BY NoTaskMeans
  <1>4. CASE clientState[u] = "waiting" /\ u \notin dropped
    <2> PICK ch, m : TheTask(net, u, ch, m) /\ m.taskID = clientTask[u]
      BY <1>1, <1>4 DEF HasItsTask
    <2>1. ~NoTask(net, u)
      BY TaskUnique
    <2>2. CASE NoTask(net', u)
      BY <1>3, <1>4, <2>1, <2>2, OneMessageMeans DEF HasItsTask
    <2>3. CASE ~NoTask(net', u)
      <3>1. TheTask(net', u, ch, m) /\ u \notin dropped'
        BY <1>2, <1>3, <1>4, <2>3
      <3> QED
        BY <1>4, <3>1, OneMessageMeans DEF HasItsTask
    <2> QED
      BY <2>2, <2>3
  <1>5. CASE ~(clientState[u] = "waiting" /\ u \notin dropped)
    <2>1. NoTask(net, u) /\ NoTask(net', u)
      BY <1>1, <1>2, <1>5 DEF HasItsTask
    <2>2. u \in dropped' <=> u \in dropped
      BY <1>3, <2>1
    <2> QED
      BY <1>1, <1>5, <2>1, <2>2, OneMessageMeans DEF HasItsTask
  <1> QED
    BY <1>4, <1>5

LEMMA LossOfLiving ==
    ASSUME NEW u \in Users, u[1] \in Living
    PROVE  u \in LostBetween(net, net') <=> TasksOf(net, u) # {} /\ TasksOf(net', u) = {}
  BY DEF LostBetween

\* What the steps of the parts that run do to the requests.
LEMMA WorkingRequests ==
    ASSUME NetInv, LivingWorkersIntact, NEW c \in Clusters,
           Working(ClusterStep(c)) \/ Working(SuperStep(c))
    PROVE  \/ \A u \in Users : Unmoved(u)
           \/ \E u \in Users : Asked(u) \/ Woken(u)
           \/ \E u \in Users : \E m : Answered(u, m)
           \/ \E u \in Users : \E from, m, to, x : Carried(u, from, m, to, x)
           \/ \E u \in Users : \E from, m, t : Vanished(u, from, m, t)
  <1>1. ASSUME NEW u \in Users, u[1] \in Living, Local(SendRequest(u[1], u[2]))
        PROVE  Asked(u)
    BY <1>1, SendRequestAsks DEF Local, superVars
  <1>2. ASSUME NEW u \in Users, Local(ReceiveReply(u[1], u[2]))
        PROVE  \E m : Answered(u, m)
    BY <1>2, ReceiveReplyAnswers DEF Local, superVars
  <1>3. ASSUME NEW u \in Users, Local(Wake(u[1], u[2]))
        PROVE  Woken(u)
    BY <1>3, WakeWakes DEF Local, superVars
  <1>4. ASSUME NEW u \in Users, u[1] \in Living, Local(RouteLocalRequest(u[1], u[2]))
        PROVE  \E from, m, to, x : Carried(u, from, m, to, x)
    <2>1. OnePlaceIn(u[1])
      BY <1>4 DEF LivingWorkersIntact
    <2> QED
      BY <1>4, <2>1, RouteLocalRequestForwards DEF Local, superVars, Forwarded
  <1>5. ASSUME NEW v \in Crew, Local(Process(v[1], v[2]))
        PROVE  \E u \in Users : \E from, m, to, x : Carried(u, from, m, to, x)
    BY <1>5, ProcessForwards DEF Local, superVars, Forwarded
  <1>6. ASSUME NEW v \in Crew, Local(RouteLocalReply(v[1], v[2]))
        PROVE  \/ \A u \in Users : Unmoved(u)
               \/ \E u \in Users : \E from, m, to, x : Carried(u, from, m, to, x)
    BY <1>6, RouteLocalReplyForwards DEF Local, superVars, Forwarded
  <1>7. ASSUME c \in Living, Local(RouteCloud(c))
        PROVE  \E u \in Users : \E from, m, to, x : Carried(u, from, m, to, x)
    <2>1. OnePlaceIn(c)
      BY <1>7 DEF LivingWorkersIntact
    <2> QED
      BY <1>7, <2>1, RouteCloudForwards DEF Local, superVars, Forwarded
  <1>8. CASE \/ Report(SetClusterState(c) \/ ForwardState(c))
             \/ Super(Connect(c)) \/ Super(StatePuller(c))
    BY <1>8 DEF Report, Super, Connect, StatePuller, brokerVars, superVars, Unmoved
  <1>9. CASE Super(RouteMessage(c))
    BY <1>9, RouteMessageCarries DEF Super, brokerVars
  <1> QED
    BY <1>1, <1>2, <1>3, <1>4, <1>5, <1>6, <1>7, <1>8, <1>9, WorkingSteps

LEMMA LivingRequestsStep ==
    FaultBase /\ LivingWorkersIntact /\ LivingRequestsIntact /\ [FaultNext]_allVars
        => LivingRequestsIntact'
  <1> SUFFICES ASSUME FaultBase, LivingWorkersIntact, LivingRequestsIntact,
                      [FaultNext]_allVars, NEW u \in Users, u[1] \in Living'
               PROVE  OneMessageFor(u)'
    BY DEF LivingRequestsIntact
  <1>0. NetInv /\ u[1] \in Living /\ u[1] \notin stopped' /\ OneMessageFor(u)
    BY FaultBaseNet, LivingShrinks DEF LivingRequestsIntact, Living
  <1>1. ASSUME NEW c \in Clusters, Working(ClusterStep(c)) \/ Working(SuperStep(c))
        PROVE  OneMessageFor(u)'
    <2>1. CASE Unmoved(u)
      BY <1>0, <2>1, UnmovedOneMessage
    <2>2. CASE \/ Asked(u) \/ Woken(u) \/ \E m : Answered(u, m)
               \/ \E from, m, to, x : Carried(u, from, m, to, x)
               \/ \E from, m, t : Vanished(u, from, m, t)
      BY <1>0, <2>2, StepOneMessage
    <2>3. \A w \in Users : OthersUnmoved(w) => w = u \/ Unmoved(u)
      BY DEF OthersUnmoved
    <2> QED
      BY <1>0, <1>1, <2>1, <2>2, <2>3, WorkingRequests
         DEF Asked, Woken, Answered, Carried, Vanished
  <1>2. CASE RestartSuperBroker
    <2>1. Shrinks(net, net')
      BY <1>0, <1>2, RestartShrinks
    <2> QED
      BY <1>0, <1>2, <2>1, LossOneMessage, LossOfLiving DEF RestartSuperBroker, brokerVars
  <1>3. ASSUME NEW c \in Clusters, ReconnectTasks(c)
        PROVE  OneMessageFor(u)'
    <2>1. Shrinks(net, net')
      BY <1>0, <1>3, ReconnectShrinks
    <2> QED
      BY <1>0, <1>3, <2>1, LossOneMessage, LossOfLiving DEF ReconnectTasks, brokerVars
  <1>4. ASSUME NEW c \in Clusters, ReconnectReports(c)
        PROVE  OneMessageFor(u)'
    <2>1. Unmoved(u)
      BY <1>4 DEF ReconnectReports, brokerVars, superVars, Unmoved
    <2> QED
      BY <1>0, <2>1, UnmovedOneMessage
  <1>5. ASSUME NEW c \in Clusters, StopCluster(c)
        PROVE  OneMessageFor(u)'
    <2>1. Shrinks(net, net') /\ u[1] # c
      BY <1>0, <1>5, StopShrinks DEF StopCluster
    <2>2. clientState'[u] = clientState[u] /\ clientTask'[u] = clientTask[u]
      BY <1>5, <2>1 DEF StopCluster
    <2>3. u \in dropped' <=> u \in dropped \/ u \in LostBetween(net, net')
      BY <1>5, <2>1 DEF StopCluster
    <2> QED
      BY <1>0, <2>1, <2>2, <2>3, LossOneMessage, LossOfLiving
  <1>6. CASE UNCHANGED allVars
    <2>1. Unmoved(u)
      BY <1>6 DEF allVars, vars, brokerVars, superVars, Unmoved
    <2> QED
      BY <1>0, <2>1, UnmovedOneMessage
  <1> QED
    BY <1>1, <1>2, <1>3, <1>4, <1>5, <1>6 DEF FaultNext

(***************************************************************************)
(* Failures stay where they happen: whatever process ends, the request of  *)
(* a client that lives is one message, about the task the client asked     *)
(* for, or it was lost with a process; it is never two.                    *)
(***************************************************************************)
THEOREM LivingRequests == FaultSpec => []LivingRequestsIntact
  <1> DEFINE Inv == FaultBase /\ LivingWorkersIntact /\ LivingRequestsIntact
  <1>1. FaultInit => Inv
    BY FaultBaseInit, PlacesInit, RequestsInit
       DEF FaultInit, LivingWorkersIntact, OnePlacePerWorker, Living,
           LivingRequestsIntact, OneMessagePerRequest
  <1>2. Inv /\ [FaultNext]_allVars => Inv'
    BY FaultBaseStep, LivingWorkersStep, LivingRequestsStep
  <1>3. Inv => LivingRequestsIntact
    OBVIOUS
  <1> HIDE DEF Inv
  <1> QED
    BY <1>1, <1>2, <1>3, PTL DEF FaultSpec

================================================================================
