--------------------------- MODULE DataCenterFaults ----------------------------
(***************************************************************************)
(* The data center with processes that end: the super broker is restarted, *)
(* a cluster is stopped for good.  No code handles either.  ZeroMQ does    *)
(* what it does: the dealer and push sockets of the clusters connect again *)
(* and send what they have not sent yet, what the dead process had is      *)
(* gone, and the router socket drops what is for a peer that is gone.      *)
(*                                                                         *)
(* The connections of a restarted super broker come back one by one.  When *)
(* one does, the oldest messages that went up on it are gone, and the      *)
(* youngest that went down: those that were in the process or on the wire. *)
(***************************************************************************)
EXTENDS DataCenter

CONSTANTS
    MaxRestarts,    \* bound: how often the super broker is restarted
    Mortal          \* the clusters that may be stopped

ASSUME MaxRestartsAssumption == MaxRestarts \in Nat
ASSUME MortalAssumption == Mortal \subseteq Clusters

VARIABLES
    restarts,          \* the restarts so far
    brokenTasks,       \* the clusters whose task connection is not back yet
    brokenReports,     \* the clusters whose report connection is not back yet
    stopped            \* the clusters that were stopped

faultVars == <<restarts, brokenTasks, brokenReports, stopped>>
allVars == <<vars, faultVars>>

FaultInit ==
    /\ Init
    /\ restarts = 0
    /\ brokenTasks = {}
    /\ brokenReports = {}
    /\ stopped = {}

Living == Clusters \ stopped

\* What is left of a queue that lost its oldest, or its youngest messages.
Youngest(q) == {SubSeq(q, i, Len(q)) : i \in 1 .. Len(q) + 1}
Oldest(q)   == {SubSeq(q, 1, i) : i \in 0 .. Len(q)}

\* The living users whose requests network g has no message of, and f had.
LostBetween(f, g) ==
    {u \in Users : u[1] \in Living /\ TasksOf(f, u) # {} /\ TasksOf(g, u) = {}}

--------------------------------------------------------------------------------
\* The super broker starts again with an empty map and no connection.  What a
\* stopped cluster had sent it is gone, for nobody sends it again.
RestartSuperBroker ==
    /\ restarts < MaxRestarts
    /\ restarts' = restarts + 1
    /\ clusterInfoMap' = [c \in Clusters |-> 0]
    /\ routable' = {}
    /\ brokenTasks' = Living
    /\ brokenReports' = Living
    /\ net' = [ch \in Channels |->
                IF ch[1] = "CloudUp" /\ ch[2] \in stopped THEN <<>> ELSE net[ch]]
    /\ statePush' = [c \in Clusters |-> IF c \in stopped THEN <<>> ELSE statePush[c]]
    /\ dropped' = dropped \cup LostBetween(net, net')
    /\ UNCHANGED <<brokerVars, statePair, stopped>>

\* The dealer socket of cluster c is connected to the new super broker.
ReconnectTasks(c) ==
    /\ c \in brokenTasks
    /\ brokenTasks' = brokenTasks \ {c}
    /\ routable' = routable \cup {c}
    /\ \E up \in Youngest(net[CloudUp(c)]), down \in Oldest(net[CloudDown(c)]) :
        net' = [net EXCEPT ![CloudUp(c)] = up, ![CloudDown(c)] = down]
    /\ dropped' = dropped \cup LostBetween(net, net')
    /\ UNCHANGED <<brokerVars, stateVars, clusterInfoMap, restarts, brokenReports, stopped>>

\* The push socket of its reporter is.
ReconnectReports(c) ==
    /\ c \in brokenReports
    /\ brokenReports' = brokenReports \ {c}
    /\ \E up \in Youngest(statePush[c]) : statePush' = [statePush EXCEPT ![c] = up]
    /\ UNCHANGED <<net, brokerVars, statePair, superVars, restarts, brokenTasks, stopped>>

\* Cluster c is stopped, with its clients, its workers and its broker.  What had
\* reached the super broker stays there to be read.
LocalTo(c, ch) == ch[2] = c /\ ch[1] # "CloudUp"

StopCluster(c) ==
    /\ c \in Mortal \ stopped
    /\ stopped' = stopped \cup {c}
    /\ brokenTasks' = brokenTasks \ {c}
    /\ brokenReports' = brokenReports \ {c}
    /\ routable' = routable \ {c}
    /\ \E up \in Oldest(net[CloudUp(c)]), push \in Oldest(statePush[c]) :
        /\ net' = [ch \in Channels |->
                    IF ch = CloudUp(c) THEN up ELSE IF LocalTo(c, ch) THEN <<>> ELSE net[ch]]
        /\ statePush' = [statePush EXCEPT ![c] = push]
    /\ statePair' = [statePair EXCEPT ![c] = <<>>]
    /\ clientState' = [u \in Users |-> IF u[1] = c THEN "ready" ELSE clientState[u]]
    /\ clientTask' = [u \in Users |-> IF u[1] = c THEN 0 ELSE clientTask[u]]
    /\ workReadyQueue' = [workReadyQueue EXCEPT ![c] = <<>>]
    /\ dropped' = {u \in dropped \cup LostBetween(net, net') : u[1] # c}
    /\ UNCHANGED <<clusterInfoMap, restarts>>

--------------------------------------------------------------------------------
\* The steps of the parts that run.  The super broker still reads what a stopped
\* cluster sent, and answers nobody.
Working(A) == A /\ UNCHANGED faultVars

TaskRouterOf(c) == TaskRouter(c) \/ (c \in stopped /\ RouteMessage(c))

ClusterStep(c) ==
    /\ c \in Living
    /\ \/ \E k \in ClientsOf[c] : Local(ClientNext(c, k) \/ RouteLocalRequest(c, k))
       \/ \E w \in WorkersOf[c] : Local(Process(c, w) \/ RouteLocalReply(c, w))
       \/ Local(RouteCloud(c))
       \/ Report(SetClusterState(c) \/ ForwardState(c))

SuperStep(c) ==
    \/ c \in Living \ brokenTasks /\ Super(Connect(c))
    \/ c \notin brokenReports /\ Super(StatePuller(c))
    \/ Super(TaskRouterOf(c))

FaultNext ==
    \/ RestartSuperBroker
    \/ \E c \in Clusters :
        \/ Working(ClusterStep(c)) \/ Working(SuperStep(c))
        \/ ReconnectTasks(c) \/ ReconnectReports(c) \/ StopCluster(c)

FaultSpec == FaultInit /\ [][FaultNext]_allVars

(***************************************************************************)
(* The fairness of DataCenter for what runs; a connection comes back.      *)
(* Nothing has to fail.                                                    *)
(***************************************************************************)
FaultFairness ==
    /\ \A u \in Users :
        /\ WF_allVars(Working(u[1] \in Living /\ Local(ReceiveReply(u[1], u[2]))))
        /\ WF_allVars(Working(u[1] \in Living /\ Local(Wake(u[1], u[2]))))
        /\ WF_allVars(Working(u[1] \in Living /\ Local(RouteLocalRequest(u[1], u[2]))))
    /\ \A v \in Crew :
        /\ WF_allVars(Working(v[1] \in Living /\ Local(Process(v[1], v[2]))))
        /\ WF_allVars(Working(v[1] \in Living /\ Local(RouteLocalReply(v[1], v[2]))))
    /\ \A c \in Clusters :
        /\ WF_allVars(Working(c \in Living /\ Local(RouteCloud(c))))
        /\ WF_allVars(Working(c \in Living /\ Report(SetClusterState(c))))
        /\ WF_allVars(Working(c \in Living /\ Report(ForwardState(c))))
        /\ WF_allVars(Working(c \in Living \ brokenTasks /\ Super(Connect(c))))
        /\ WF_allVars(Working(c \notin brokenReports /\ Super(StatePuller(c))))
        /\ WF_allVars(Working(Super(TaskRouterOf(c))))
        /\ WF_allVars(ReconnectTasks(c))
        /\ WF_allVars(ReconnectReports(c))

FairFaultSpec == FaultSpec /\ FaultFairness

--------------------------------------------------------------------------------
FaultTypeOK ==
    /\ TypeOK
    /\ restarts \in 0 .. MaxRestarts
    /\ stopped \subseteq Mortal
    /\ brokenTasks \cup brokenReports \subseteq Living
    /\ routable \subseteq Living \ brokenTasks

(***************************************************************************)
(* Failures stay where they happen: whatever process ends, a request of a  *)
(* client that lives is one message, or it was lost with a process; never  *)
(* two, never with another task.                                           *)
(***************************************************************************)
LivingRequestsIntact == \A u \in Users : u[1] \in Living => OneMessageFor(u)

\* Whatever process ends, no worker that lives is given two tasks or forgotten.
LivingWorkersIntact == \A c \in Living : OnePlaceIn(c)

\* Under FairFaultSpec: a living client gets an answer, or its request was lost.
LivingRequestsSettled ==
    \A u \in Users :
        clientState[u] = "waiting" ~>
            clientState[u] # "waiting" \/ u \in dropped \/ u[1] \in stopped

\* A worker of a cluster that lives comes back to its queue, whatever else ends.
LivingWorkersRejoin ==
    \A v \in Crew : []<>(Queued(v[1], v[2]) \/ v[1] \in stopped)

================================================================================
