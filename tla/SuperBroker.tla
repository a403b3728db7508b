----------------------------- MODULE SuperBroker -------------------------------
(***************************************************************************)
(* The super broker (data_center/super_broker.cpp): it keeps the last      *)
(* count each cluster reported and routes the requests that a cluster      *)
(* could not serve, and the answers to them.                               *)
(***************************************************************************)
EXTENDS ClusterState

VARIABLES
    clusterInfoMap,    \* the count last reported by each cluster, 0 before the first
    routable,          \* the clusters whose identity the router socket has learned
    dropped            \* history: the users whose request the router socket dropped

superVars == <<clusterInfoMap, routable, dropped>>

SuperInit ==
    /\ clusterInfoMap = [c \in Clusters |-> 0]
    /\ routable = {}
    /\ dropped = {}

\* The task connection of cluster c completes its handshake.  It is another
\* connection than the one of the reports, and may come up after it.
Connect(c) ==
    /\ c \notin routable
    /\ routable' = routable \cup {c}
    /\ UNCHANGED <<net, statePush, clusterInfoMap, dropped>>

\* SuperBroker::statePuller.
StatePuller(c) ==
    /\ statePush[c] # <<>>
    /\ clusterInfoMap' = [clusterInfoMap EXCEPT ![c] = Head(statePush[c])]
    /\ statePush' = [statePush EXCEPT ![c] = Tail(@)]
    /\ UNCHANGED <<net, routable, dropped>>

\* The scan of clusterInfoMap_: the largest count, the first name among equals.
\* No cluster qualifies while every count is zero.
ProperCluster(t) ==
    /\ t \in Clusters
    /\ clusterInfoMap[t] > 0
    /\ \A d \in Clusters : /\ clusterInfoMap[d] <= clusterInfoMap[t]
                           /\ d < t => clusterInfoMap[d] < clusterInfoMap[t]

(***************************************************************************)
(* SuperBroker::taskRouter on a message of cluster c.  The counts are not  *)
(* changed by routing: only the next report of the target changes its own. *)
(***************************************************************************)
\* DiscardUnaddressed, a mistake, tests the fields of the recipient instead.
DiscardUnaddressed(c, m) ==
    /\ \/ m.taskType = "ALIVE_SIGNAL"
       \/ m.taskDirection = "TASK_SUBMIT" /\ NoID \in {m.toID, m.toClusterID}
    /\ net' = Receive(net, CloudUp(c))
    /\ UNCHANGED dropped

Discard(c, m) ==
    /\ \/ m.taskType = "ALIVE_SIGNAL"
       \/ m.taskDirection = "TASK_SUBMIT" /\ NoID \in {m.fromID, m.fromClusterID}
    /\ net' = Receive(net, CloudUp(c))
    /\ UNCHANGED dropped

\* The router socket drops what it cannot route, without a word to the sender.
RouteTo(c, t, m, user) ==
    \/ /\ t \in routable
       /\ Move(CloudUp(c), CloudDown(t), m)
       /\ UNCHANGED dropped
    \/ /\ t \notin routable
       /\ net' = Receive(net, CloudUp(c))
       /\ dropped' = dropped \cup {user}

RouteRequest(c, m) ==
    /\ m.taskType # "ALIVE_SIGNAL"
    /\ m.taskDirection = "TASK_SUBMIT"
    /\ NoID \notin {m.fromID, m.fromClusterID}
    /\ \/ \E t \in Clusters :
            /\ ProperCluster(t)
            /\ RouteTo(c, t, [m EXCEPT !.toClusterID = t], <<m.fromClusterID, m.fromID>>)
       \/ /\ \A t \in Clusters : clusterInfoMap[t] = 0
          /\ RouteTo(c, m.fromClusterID, Rejection(m), <<m.fromClusterID, m.fromID>>)

RouteAnswer(c, m) ==
    /\ m.taskType # "ALIVE_SIGNAL"
    /\ m.taskDirection # "TASK_SUBMIT"
    /\ RouteTo(c, m.toClusterID, m, <<m.toClusterID, m.toID>>)

\* What it does with the next message.
RouteMessage(c) ==
    /\ Nonempty(CloudUp(c))
    /\ LET m == Head(net[CloudUp(c)])
       IN  Discard(c, m) \/ RouteRequest(c, m) \/ RouteAnswer(c, m)
    /\ UNCHANGED <<statePush, clusterInfoMap, routable>>

TaskRouter(c) == c \in routable /\ RouteMessage(c)

SuperNext == \E c \in Clusters : Connect(c) \/ StatePuller(c) \/ TaskRouter(c)

================================================================================
