------------------------------ MODULE DataCenter -------------------------------
(***************************************************************************)
(* The data center: the clusters, their state reporters and the super      *)
(* broker, each a process of its own, over the connections of ClusterCore. *)
(***************************************************************************)
EXTENDS SuperBroker, FiniteSets

vars == <<net, brokerVars, stateVars, superVars>>

Init == BrokerInit /\ StateInit /\ SuperInit

\* A step of one part leaves the variables of the others alone.
Local(A)  == A /\ UNCHANGED <<stateVars, superVars>>
Report(A) == A /\ UNCHANGED <<net, brokerVars, superVars>>
Super(A)  == A /\ UNCHANGED <<brokerVars, statePair>>

Next == Local(BrokerNext) \/ Report(StateNext) \/ Super(SuperNext)

Spec == Init /\ [][Next]_vars

(***************************************************************************)
(* The threads loop for ever, each poll loop serves every readable socket  *)
(* in each round, and a socket with several peers takes them in turn: so   *)
(* each handler of each connection is weakly fair.  When a client sends    *)
(* its next request is up to the client.                                   *)
(***************************************************************************)
Fairness ==
    /\ \A u \in Users :
        /\ WF_vars(Local(ReceiveReply(u[1], u[2])))
        /\ WF_vars(Local(Wake(u[1], u[2])))
        /\ WF_vars(Local(RouteLocalRequest(u[1], u[2])))
    /\ \A v \in Crew :
        /\ WF_vars(Local(Process(v[1], v[2])))
        /\ WF_vars(Local(RouteLocalReply(v[1], v[2])))
    /\ \A c \in Clusters :
        /\ WF_vars(Local(RouteCloud(c)))
        /\ WF_vars(Report(SetClusterState(c)))
        /\ WF_vars(Report(ForwardState(c)))
        /\ WF_vars(Super(Connect(c)))
        /\ WF_vars(Super(StatePuller(c)))
        /\ WF_vars(Super(TaskRouter(c)))

FairSpec == Spec /\ Fairness

--------------------------------------------------------------------------------
TypeOK ==
    /\ net \in [Channels -> Seq(TaskMeta)]
    /\ clientState \in [Users -> {"ready", "waiting", "backoff"}]
    /\ clientTask \in [Users -> TaskIDs \cup {0}]
    /\ workReadyQueue \in [Clusters -> Seq(WorkerIDs)]
    /\ \A c \in Clusters : workReadyQueue[c] \in Seq(WorkersOf[c])
    /\ statePair \in [Clusters -> Seq(Nat)]
    /\ statePush \in [Clusters -> Seq(Nat)]
    /\ clusterInfoMap \in [Clusters -> Nat]
    /\ routable \subseteq Clusters
    /\ dropped \subseteq Users

(***************************************************************************)
(* Addressed(ch, m): message m may travel on channel ch with the addresses *)
(* it has.  Every handler rewrites addresses, two of them swap them, and   *)
(* the worker, the local broker and the super broker each rely on what the *)
(* others left in the fields.                                              *)
(***************************************************************************)
IsRequest(m) ==
    /\ m.taskType = "NormalTask"
    /\ m.taskDirection = "TASK_SUBMIT"
    /\ m.payload = "request"

\* The client may copy the second frame into a TaskReply of eight bytes only if
\* it is one: an answer never carries the request array.
IsAnswer(m) ==
    /\ m.taskType = "NormalTask"
    /\ \/ m.taskDirection = "TASK_REPLY" /\ m.payload = "sum"
       \/ m.taskDirection = "TASK_REPLY_REJECTED" /\ m.payload = "zero"

Sender(m)    == <<m.fromClusterID, m.fromID>>
Recipient(m) == <<m.toClusterID, m.toID>>

Addressed(ch, m) ==
    LET c == ch[2]  id == ch[3]
    IN  CASE ch[1] = "ToFrontend" ->
                /\ IsRequest(m)
                /\ m.fromID = id /\ m.fromClusterID = NoID
                /\ m.toID = NoID /\ m.toClusterID = NoID
          [] ch[1] = "ToClient" ->
                IsAnswer(m) /\ Recipient(m) = <<c, id>>
          [] ch[1] = "ToBackend" ->
                /\ m.fromID = id
                /\ \/ m = WorkerAlive(id)
                   \/ /\ IsAnswer(m) /\ m.taskDirection = "TASK_REPLY"
                      /\ <<m.fromClusterID, m.toID>> \in Users
          [] ch[1] = "ToWorker" ->
                IsRequest(m) /\ Sender(m) \in Users /\ m.toClusterID = c
          [] ch[1] = "CloudUp" ->
                \/ m = ClusterAlive(c)
                \/ /\ IsRequest(m) /\ Sender(m) \in Users /\ m.fromClusterID = c
                   /\ m.toID = NoID /\ m.toClusterID = NoID
                \/ IsAnswer(m) /\ Recipient(m) \in Users
          [] ch[1] = "CloudDown" ->
                \/ /\ IsRequest(m) /\ Sender(m) \in Users
                   /\ m.toID = NoID /\ m.toClusterID = c
                \/ IsAnswer(m) /\ Recipient(m) \in Users /\ m.toClusterID = c

\* Whatever path a message took, its addresses are those its next handler reads.
WellAddressed == \A ch \in Channels : \A i \in DOMAIN net[ch] : Addressed(ch, net[ch][i])

--------------------------------------------------------------------------------
\* Who waits for message m when it is on channel ch.
Owner(ch, m) ==
    CASE ch[1] = "ToFrontend" -> <<ch[2], m.fromID>>
      [] ch[1] = "ToBackend"  -> <<m.fromClusterID, m.toID>>
      [] OTHER -> IF m.taskDirection = "TASK_SUBMIT" THEN Sender(m) ELSE Recipient(m)

\* The places in network f that hold the message of the request of user u.
Positions(f) == UNION {{<<ch, i>> : i \in DOMAIN f[ch]} : ch \in Channels}
At(f, p)     == f[p[1]][p[2]]
TasksOf(f, u) ==
    {p \in Positions(f) : /\ At(f, p).taskType = "NormalTask"
                          /\ Owner(p[1], At(f, p)) = u}

HasOneTask(f, u, t) ==
    \E p \in TasksOf(f, u) : TasksOf(f, u) = {p} /\ At(f, p).taskID = t

(***************************************************************************)
(* A request is one message from the moment it is sent until its client    *)
(* has the answer: no handler loses it, none sends a second one, and what  *)
(* comes back is about the task the client asked for.  The one exception   *)
(* is a message that the router socket of the super broker dropped: its    *)
(* client waits for ever.                                                  *)
(***************************************************************************)
OneMessageFor(u) ==
    /\ IF clientState[u] = "waiting" /\ u \notin dropped
       THEN HasOneTask(net, u, clientTask[u])
       ELSE TasksOf(net, u) = {}
    /\ u \in dropped => clientState[u] = "waiting"

OneMessagePerRequest == \A u \in Users : OneMessageFor(u)

(***************************************************************************)
(* A worker is either in the ready queue of its broker, once, or has one   *)
(* message on its connection: it is never given a task while it has one,   *)
(* and never forgotten.                                                    *)
(***************************************************************************)
Queued(c, w) == \E i \in DOMAIN workReadyQueue[c] : workReadyQueue[c][i] = w

OnePlaceIn(c) ==
    /\ \A i, j \in DOMAIN workReadyQueue[c] :
            workReadyQueue[c][i] = workReadyQueue[c][j] => i = j
    /\ \A w \in WorkersOf[c] :
            Len(net[ToWorker(c, w)]) + Len(net[ToBackend(c, w)])
                = IF Queued(c, w) THEN 0 ELSE 1

OnePlacePerWorker == \A c \in Clusters : OnePlaceIn(c)

--------------------------------------------------------------------------------
(***************************************************************************)
(* The data center implements TaskService: where the message of a request  *)
(* is, and what it says, is what became of the request.                    *)
(***************************************************************************)
Serving(u) ==
    {v \in Crew : \E i \in DOMAIN net[ToWorker(v[1], v[2])] :
        Owner(ToWorker(v[1], v[2]), net[ToWorker(v[1], v[2])][i]) = u}

Told(u, verdict) ==
    \E ch \in Channels : \E i \in DOMAIN net[ch] :
        net[ch][i].taskDirection = verdict /\ Owner(ch, net[ch][i]) = u

StatusOf(u) ==
    CASE clientState[u] = "ready"         -> "idle"
      [] clientState[u] = "backoff"       -> "backoff"
      [] clientState[u] = "waiting" ->
            IF Serving(u) # {} THEN "running"
            ELSE IF Told(u, "TASK_REPLY") THEN "served"
            ELSE IF Told(u, "TASK_REPLY_REJECTED") THEN "rejected"
            ELSE IF u \in dropped THEN "lost" ELSE "open"

Service == INSTANCE TaskService WITH
    status  <- [u \in Users |-> StatusOf(u)],
    task    <- clientTask,
    servers <- [u \in Users |-> Serving(u)]

\* No request is served twice, served and rejected, answered with the outcome of
\* another one, or lost once a worker had it; no worker has two at a time.
ImplementsTaskService == Service!Spec

--------------------------------------------------------------------------------
(***************************************************************************)
(* Liveness, under FairSpec.                                               *)
(***************************************************************************)

\* Every request is answered, or was dropped by the router socket: the brokers
\* never pass it round in circles, and never wait for one another.
EveryRequestSettled ==
    \A u \in Users :
        clientState[u] = "waiting" ~> clientState[u] # "waiting" \/ u \in dropped

\* Every worker comes back to the ready queue of its broker, again and again.
WorkersRejoin == \A v \in Crew : []<>Queued(v[1], v[2])

\* The reports lag behind, but when a cluster keeps n workers ready, the super broker
\* comes to see as many, and goes on seeing them.
ViewConverges ==
    \A c \in Clusters : \A n \in 1 .. Cardinality(WorkersOf[c]) :
        <>[](readyWorkerCount(c) >= n) => <>[](clusterInfoMap[c] >= n)

--------------------------------------------------------------------------------
(***************************************************************************)
(* What comments of the code say, and the code does not do.                *)
(***************************************************************************)

\* "ready worker counter, used to be reported to super broker, so that super
\* broker can router tasks to this cluster" (cluster_broker.h:81): a task that
\* is routed to a cluster because of its count reaches that cluster.
RoutedTasksArrive == dropped = {}

\* "update address, request from cloud to local worker in this cluster"
\* (cluster_broker.cpp:274): a task a worker gets names that worker.
TaskNamesItsWorker ==
    \A v \in Crew : \A i \in DOMAIN net[ToWorker(v[1], v[2])] :
        Recipient(net[ToWorker(v[1], v[2])][i]) = v

================================================================================
