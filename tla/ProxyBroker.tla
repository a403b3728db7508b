----------------------------- MODULE ProxyBroker -------------------------------
(***************************************************************************)
(* The broker of dummy_proxy.cpp and dummy_async_server.cpp: zmq::proxy    *)
(* between a router socket for the clients and a dealer socket for the     *)
(* workers.  It has no queue of ready workers: the dealer socket deals the *)
(* tasks out in turn, also to workers that are busy, and the identity that *)
(* the router socket puts before a task finds the way back.                *)
(***************************************************************************)
EXTENDS Naturals, Sequences, FiniteSets, SequencesExt

CONSTANTS
    Clients,     \* identities of the clients
    Workers      \* the workers, which need none

VARIABLES
    toFront, toClient,    \* per client: messages to and from the router socket
    toBack, toWorker,     \* per worker: messages to and from the dealer socket
    rotation              \* the connected workers, in the order of their turns

proxyVars == <<toFront, toClient, toBack, toWorker, rotation>>

\* A socket that connects can send at once; one that is bound has no peer yet.
ProxyInit ==
    /\ toFront = [k \in Clients |-> <<>>]
    /\ toClient = [k \in Clients |-> <<>>]
    /\ toBack = [w \in Workers |-> <<>>]
    /\ toWorker = [w \in Workers |-> <<>>]
    /\ rotation = <<>>

\* The connection of a worker is complete: it has its turns from now on, and the
\* first before or after those of the others.
Connect(w) ==
    /\ w \notin ToSet(rotation)
    /\ \E i \in 1 .. Len(rotation) + 1 : rotation' = InsertAt(rotation, i, w)
    /\ UNCHANGED <<toFront, toClient, toBack, toWorker>>

Job(k, body) == [clientID |-> k, body |-> body]

\* A task from the router to the dealer socket, with the identity of its client in
\* front.  Without a worker the proxy does not take it.
\* ForwardToAll, a mistake, publishes the task to all the workers.
ForwardToAll(k) ==
    /\ toFront[k] # <<>> /\ rotation # <<>>
    /\ toWorker' = [w \in Workers |-> IF w \in ToSet(rotation)
                                        THEN Append(toWorker[w], Job(k, Head(toFront[k])))
                                        ELSE toWorker[w]]
    /\ toFront' = [toFront EXCEPT ![k] = Tail(@)]
    /\ UNCHANGED <<toClient, toBack, rotation>>

Forward(k) ==
    /\ toFront[k] # <<>> /\ rotation # <<>>
    /\ toWorker' = [toWorker EXCEPT ![Head(rotation)] =
                        Append(@, Job(k, Head(toFront[k])))]
    /\ toFront' = [toFront EXCEPT ![k] = Tail(@)]
    /\ rotation' = Append(Tail(rotation), Head(rotation))
    /\ UNCHANGED <<toClient, toBack>>

\* An answer from the dealer to the router socket, which takes the identity off.
Backward(w) ==
    /\ toBack[w] # <<>>
    /\ LET m == Head(toBack[w])
       IN  toClient' = [toClient EXCEPT ![m.clientID] = Append(@, m.body)]
    /\ toBack' = [toBack EXCEPT ![w] = Tail(@)]
    /\ UNCHANGED <<toFront, toWorker, rotation>>

ProxyNext ==
    \/ \E k \in Clients : Forward(k)
    \/ \E w \in Workers : Connect(w) \/ Backward(w)

\* The proxy takes the connections of each socket in turn, and a worker connects
\* in the end.
ProxyFairness ==
    /\ \A k \in Clients : WF_proxyVars(Forward(k))
    /\ \A w \in Workers : WF_proxyVars(Connect(w)) /\ WF_proxyVars(Backward(w))

================================================================================
