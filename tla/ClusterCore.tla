------------------------------ MODULE ClusterCore ------------------------------
(***************************************************************************)
(* The vocabulary of the data center (data_center/cluster_core.h): the     *)
(* clusters with their clients and workers, the task messages, and the     *)
(* ZeroMQ connections between the threads.                                 *)
(*                                                                         *)
(* A connection between two sockets is a pair of FIFO channels, one per    *)
(* direction; a channel holds the messages that were sent and not yet      *)
(* received (in flight, or in the queue of either socket).  ZeroMQ keeps   *)
(* the order within a connection, delivers the frames of a message         *)
(* together, and orders nothing between connections.                       *)
(***************************************************************************)
EXTENDS Naturals, Sequences

CONSTANTS
    Clusters,    \* cluster names; numbers, so that they have the order of std::map
    ClientsOf,   \* the identities of the clients of each cluster
    WorkersOf,   \* the identities of the workers of each cluster
    TaskIDs,     \* what genTask may draw; 0 is the value of a fresh TaskMeta
    NoID         \* the empty buffer "" of an address that was never filled

(***************************************************************************)
(* Identities are not empty: buildCluster names them client_0, worker_0... *)
(* and main builds the name of the cluster from its arguments.             *)
(***************************************************************************)
ASSUME ClustersAssumption == Clusters \subseteq Nat \ {0}
ASSUME TaskIDsAssumption == TaskIDs \subseteq Nat
ASSUME MembersAssumption ==
    /\ DOMAIN ClientsOf = Clusters
    /\ DOMAIN WorkersOf = Clusters
ASSUME NoIDAssumption ==
    /\ NoID \notin Clusters
    /\ \A c \in Clusters : NoID \notin ClientsOf[c] /\ NoID \notin WorkersOf[c]

ClientIDs == UNION {ClientsOf[c] : c \in Clusters}
WorkerIDs == UNION {WorkersOf[c] : c \in Clusters}

\* A client or a worker is named by its cluster and its identity there: every
\* cluster has a client_0 and a worker_0 of its own.
Users == {u \in Clusters \X ClientIDs : u[2] \in ClientsOf[u[1]]}
Crew  == {v \in Clusters \X WorkerIDs : v[2] \in WorkersOf[v[1]]}

--------------------------------------------------------------------------------
(***************************************************************************)
(* TaskMeta with its TaskAddr, and the frame that follows it: the request  *)
(* array, the sum a worker computes, the zero of a rejection, or the one   *)
(* byte after an alive signal.  TASK_REPLY_WITH_ERROR is never produced.   *)
(***************************************************************************)
TaskDirection == {"TASK_SUBMIT", "TASK_REPLY", "TASK_REPLY_REJECTED"}
TaskType == {"NormalTask", "ALIVE_SIGNAL"}
Payload == {"request", "sum", "zero", "byte"}

TaskMeta ==
    [fromClusterID : Clusters \cup {NoID},
     fromID        : ClientIDs \cup WorkerIDs \cup {NoID},
     toClusterID   : Clusters \cup {NoID},
     toID          : ClientIDs \cup WorkerIDs \cup {NoID},
     taskID        : TaskIDs \cup {0},
     taskType      : TaskType,
     taskDirection : TaskDirection,
     payload       : Payload]

\* A TaskMeta as its declaration initialises it.
FreshMeta ==
    [fromClusterID |-> NoID, fromID |-> NoID, toClusterID |-> NoID, toID |-> NoID,
     taskID |-> 0, taskType |-> "NormalTask", taskDirection |-> "TASK_SUBMIT",
     payload |-> "request"]

\* swapBuffer on both pairs of addresses, and the verdict: how both brokers
\* turn a request into its rejection.
\* RejectionHalfSwapped, a mistake, swaps only one pair.
RejectionHalfSwapped(m) ==
    [m EXCEPT !.fromID = m.toID, !.toID = m.fromID,
              !.taskDirection = "TASK_REPLY_REJECTED", !.payload = "zero"]

Rejection(m) ==
    [m EXCEPT !.fromID = m.toID, !.toID = m.fromID,
              !.fromClusterID = m.toClusterID, !.toClusterID = m.fromClusterID,
              !.taskDirection = "TASK_REPLY_REJECTED", !.payload = "zero"]

--------------------------------------------------------------------------------
(***************************************************************************)
(* The channels.  Client to frontend router and back, worker to backend    *)
(* router and back, cluster to super broker and back.                      *)
(***************************************************************************)
ToFrontend(c, k) == <<"ToFrontend", c, k>>
ToClient(c, k)   == <<"ToClient", c, k>>
ToBackend(c, w)  == <<"ToBackend", c, w>>
ToWorker(c, w)   == <<"ToWorker", c, w>>
CloudUp(c)       == <<"CloudUp", c, NoID>>
CloudDown(c)     == <<"CloudDown", c, NoID>>

Channels ==
         {ToFrontend(u[1], u[2]) : u \in Users} \cup {ToClient(u[1], u[2]) : u \in Users}
    \cup {ToBackend(v[1], v[2]) : v \in Crew} \cup {ToWorker(v[1], v[2]) : v \in Crew}
    \cup {CloudUp(c) : c \in Clusters} \cup {CloudDown(c) : c \in Clusters}

VARIABLE net    \* net[ch]: the messages in channel ch, oldest first

Nonempty(ch) == net[ch] # <<>>

\* A router socket drops a message for an identity that is not connected; a
\* dealer socket has one peer.  So a send outside of the channels does nothing.
Send(f, ch, m) == IF ch \in Channels THEN [f EXCEPT ![ch] = Append(@, m)] ELSE f

Receive(f, ch) == [f EXCEPT ![ch] = Tail(@)]

\* A handler takes the head of one channel and puts one message on another.
Move(from, to, m) == net' = Send(Receive(net, from), to, m)

================================================================================
