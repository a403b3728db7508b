----------------------------- MODULE ClusterBroker -----------------------------
(***************************************************************************)
(* One cluster (data_center/cluster_broker.cpp): its client threads, its   *)
(* worker threads and the thread of its LocalBalanceBroker.  An action is  *)
(* a whole handler: it receives the frames of one message, updates what    *)
(* the thread owns and sends at most one message.                          *)
(*                                                                         *)
(* LocalBalanceBroker::runTask polls its three sockets and serves each     *)
(* readable one once per round.  A message that is not handled yet may     *)
(* still be in flight, so the rounds constrain no order between two        *)
(* connections, and the handlers interleave freely.                        *)
(***************************************************************************)
EXTENDS ClusterCore

VARIABLES
    clientState,      \* clientState[u]: where client u is in sendRequest
    clientTask,       \* clientTask[u]: taskMeta.taskID of the request of client u
    workReadyQueue    \* workReadyQueue[c]: workReadyQueue_ of the broker of c

clientVars == <<clientState, clientTask>>
brokerVars == <<clientState, clientTask, workReadyQueue>>

\* Definitions that differ from the code by a plausible mistake stand before the
\* definition they replace when TLC is asked whether a property notices:
\* WorkerAliveUnsigned, PeekWorker and MarkServerReady in this module.

\* Each worker announces itself in its constructor, each broker in its own.
WorkerAliveUnsigned(w) ==
    [FreshMeta EXCEPT !.taskDirection = "TASK_REPLY", !.taskType = "ALIVE_SIGNAL",
                      !.payload = "byte"]

WorkerAlive(w) ==
    [FreshMeta EXCEPT !.fromID = w, !.taskDirection = "TASK_REPLY",
                      !.taskType = "ALIVE_SIGNAL", !.payload = "byte"]

ClusterAlive(c) ==
    [FreshMeta EXCEPT !.fromClusterID = c, !.taskType = "ALIVE_SIGNAL", !.payload = "byte"]

BrokerInit ==
    /\ net = [ch \in Channels |->
                CASE ch[1] = "ToBackend" -> <<WorkerAlive(ch[3])>>
                  [] ch[1] = "CloudUp"   -> <<ClusterAlive(ch[2])>>
                  [] OTHER               -> <<>>]
    /\ clientState = [u \in Users |-> "ready"]
    /\ clientTask = [u \in Users |-> 0]
    /\ workReadyQueue = [c \in Clusters |-> <<>>]

\* readyWorkerCount_ is refreshed after each change of the queue.
readyWorkerCount(c) == Len(workReadyQueue[c])

\* The queue itself: the first worker leaves it, the sender of a message joins it.
PeekWorker(c) == UNCHANGED workReadyQueue
TakeWorker(c) == workReadyQueue' = [workReadyQueue EXCEPT ![c] = Tail(@)]

MarkServerReady(c, m) ==
    workReadyQueue' = IF m.taskType = "ALIVE_SIGNAL" THEN workReadyQueue
                      ELSE [workReadyQueue EXCEPT ![c] = Append(@, m.fromID)]
MarkReady(c, m) == workReadyQueue' = [workReadyQueue EXCEPT ![c] = Append(@, m.fromID)]

--------------------------------------------------------------------------------
(***************************************************************************)
(* Client::sendRequest, split where it blocks: before the receive, and in  *)
(* the one second of sleep that follows a rejection.  The task the client  *)
(* waits for is a local variable; it is back at 0 when sendRequest returns.*)
(***************************************************************************)
SendRequest(c, k) ==
    /\ clientState[<<c, k>>] = "ready"
    /\ \E t \in TaskIDs :
        /\ clientTask' = [clientTask EXCEPT ![<<c, k>>] = t]
        /\ net' = Send(net, ToFrontend(c, k), [FreshMeta EXCEPT !.fromID = k, !.taskID = t])
    /\ clientState' = [clientState EXCEPT ![<<c, k>>] = "waiting"]
    /\ UNCHANGED workReadyQueue

ReceiveReply(c, k) ==
    /\ clientState[<<c, k>>] = "waiting"
    /\ Nonempty(ToClient(c, k))
    /\ net' = Receive(net, ToClient(c, k))
    /\ \/ /\ Head(net[ToClient(c, k)]).taskDirection = "TASK_REPLY"
          /\ clientState' = [clientState EXCEPT ![<<c, k>>] = "ready"]
          /\ clientTask' = [clientTask EXCEPT ![<<c, k>>] = 0]
       \/ /\ Head(net[ToClient(c, k)]).taskDirection # "TASK_REPLY"
          /\ clientState' = [clientState EXCEPT ![<<c, k>>] = "backoff"]
          /\ UNCHANGED clientTask
    /\ UNCHANGED workReadyQueue

Wake(c, k) ==
    /\ clientState[<<c, k>>] = "backoff"
    /\ clientState' = [clientState EXCEPT ![<<c, k>>] = "ready"]
    /\ clientTask' = [clientTask EXCEPT ![<<c, k>>] = 0]
    /\ UNCHANGED <<net, workReadyQueue>>

--------------------------------------------------------------------------------
\* Worker::process: the reply keeps the cluster of the request and goes back to
\* the client that was in fromID.
Process(c, w) ==
    /\ Nonempty(ToWorker(c, w))
    /\ LET m == Head(net[ToWorker(c, w)])
       IN  Move(ToWorker(c, w), ToBackend(c, w),
                [m EXCEPT !.toID = m.fromID, !.fromID = w,
                          !.taskDirection = "TASK_REPLY", !.payload = "sum"])
    /\ UNCHANGED brokerVars

--------------------------------------------------------------------------------
\* LocalBalanceBroker::routeLocalReply: whatever a worker sends makes it ready;
\* a reply then goes to a client of this cluster or up to the super broker.
RouteLocalReply(c, w) ==
    LET m == Head(net[ToBackend(c, w)])
        reply == [m EXCEPT !.toClusterID = m.fromClusterID, !.fromClusterID = c]
    IN  /\ Nonempty(ToBackend(c, w))
        /\ MarkReady(c, m)
        /\ \/ /\ m.taskType = "ALIVE_SIGNAL"
              /\ net' = Receive(net, ToBackend(c, w))
           \/ /\ m.taskType # "ALIVE_SIGNAL"
              /\ reply.toClusterID = c
              /\ Move(ToBackend(c, w), ToClient(c, m.toID), reply)
           \/ /\ m.taskType # "ALIVE_SIGNAL"
              /\ reply.toClusterID # c
              /\ Move(ToBackend(c, w), CloudUp(c), reply)
        /\ UNCHANGED clientVars

\* LocalBalanceBroker::routeLocalRequest: to the first ready worker, or up.
RouteLocalRequest(c, k) ==
    LET m == [Head(net[ToFrontend(c, k)]) EXCEPT !.fromClusterID = c]
        worker == Head(workReadyQueue[c])
    IN  /\ Nonempty(ToFrontend(c, k))
        /\ \/ /\ readyWorkerCount(c) > 0
              /\ TakeWorker(c)
              /\ Move(ToFrontend(c, k), ToWorker(c, worker),
                      [m EXCEPT !.toClusterID = c, !.toID = worker])
           \/ /\ readyWorkerCount(c) = 0
              /\ Move(ToFrontend(c, k), CloudUp(c), m)
              /\ UNCHANGED workReadyQueue
        /\ UNCHANGED clientVars

\* LocalBalanceBroker::routeCloud: a request of another cluster takes a ready
\* worker or is rejected; anything else is the answer to a client of this one.
\* The request is forwarded in the bytes it came in: the addresses the handler
\* fills into its copy of the meta are not written back.
RouteCloud(c) ==
    LET m == Head(net[CloudDown(c)])
    IN  /\ Nonempty(CloudDown(c))
        /\ \/ /\ m.taskDirection = "TASK_SUBMIT"
              /\ readyWorkerCount(c) > 0
              /\ TakeWorker(c)
              /\ Move(CloudDown(c), ToWorker(c, Head(workReadyQueue[c])), m)
           \/ /\ m.taskDirection = "TASK_SUBMIT"
              /\ readyWorkerCount(c) = 0
              /\ Move(CloudDown(c), CloudUp(c), Rejection(m))
              /\ UNCHANGED workReadyQueue
           \/ /\ m.taskDirection # "TASK_SUBMIT"
              /\ Move(CloudDown(c), ToClient(c, m.toID), m)
              /\ UNCHANGED workReadyQueue
        /\ UNCHANGED clientVars

ClientNext(c, k) == SendRequest(c, k) \/ ReceiveReply(c, k) \/ Wake(c, k)

BrokerNext ==
    \/ \E u \in Users : ClientNext(u[1], u[2]) \/ RouteLocalRequest(u[1], u[2])
    \/ \E v \in Crew : Process(v[1], v[2]) \/ RouteLocalReply(v[1], v[2])
    \/ \E c \in Clusters : RouteCloud(c)

================================================================================
