----------------------------- MODULE ClusterState ------------------------------
(***************************************************************************)
(* How a cluster tells the super broker about its load: the main thread of *)
(* OneCluster reads the count of ready workers again and again and hands   *)
(* it over a pair of sockets to the thread of its ClusterStateReporter,    *)
(* which pushes it to the super broker (data_center/cluster_state.cpp).    *)
(*                                                                         *)
(* Both pipes block their sender at the high-water mark, with one report   *)
(* in the hand of the sender; a pipe here is the socket queues plus that   *)
(* report.  Nothing paces the main thread, so both pipes fill up and what  *)
(* comes out of them may be as old as they are long.                       *)
(***************************************************************************)
EXTENDS ClusterBroker

CONSTANTS
    PairHWM,    \* reports between the main thread and the reporter thread
    PushHWM     \* reports between the reporter and the super broker

ASSUME HWMAssumption == PairHWM \in Nat \ {0} /\ PushHWM \in Nat \ {0}

VARIABLES
    statePair,    \* statePair[c]: reports between socketFe_ and socketBe_
    statePush     \* statePush[c]: reports between socketPush_ and socketPull_

stateVars == <<statePair, statePush>>

StateInit ==
    /\ statePair = [c \in Clusters |-> <<>>]
    /\ statePush = [c \in Clusters |-> <<>>]

\* One round of OneCluster::runTask: read the count, setClusterState.
\* SetClusterStateBusy, a mistake, saves the report while all workers are ready.
SetClusterStateBusy(c) ==
    /\ WorkersOf[c] \ {workReadyQueue[c][i] : i \in DOMAIN workReadyQueue[c]} # {}
    /\ Len(statePair[c]) < PairHWM
    /\ statePair' = [statePair EXCEPT ![c] = Append(@, readyWorkerCount(c))]
    /\ UNCHANGED statePush

SetClusterState(c) ==
    /\ Len(statePair[c]) < PairHWM
    /\ statePair' = [statePair EXCEPT ![c] = Append(@, readyWorkerCount(c))]
    /\ UNCHANGED statePush

\* One round of ClusterStateReporter::runTask that finds a report.
ForwardState(c) ==
    /\ statePair[c] # <<>>
    /\ Len(statePush[c]) < PushHWM
    /\ statePush' = [statePush EXCEPT ![c] = Append(@, Head(statePair[c]))]
    /\ statePair' = [statePair EXCEPT ![c] = Tail(@)]

StateNext == \E c \in Clusters : SetClusterState(c) \/ ForwardState(c)

================================================================================
