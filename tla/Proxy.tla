-------------------------------- MODULE Proxy ----------------------------------
(***************************************************************************)
(* The program dummy_proxy.cpp: clients that wait for the result of each   *)
(* of their requests, and workers behind a ProxyBroker.  Tasks may wait at *)
(* a busy worker while another has nothing to do, but to the clients it is *)
(* the service of the load balancer.                                       *)
(***************************************************************************)
EXTENDS ProxyBroker

CONSTANTS
    TaskIDs,     \* what genTask may draw
    Requests,    \* requests of each client, 3 in sendRequest
    NoJob        \* what an idle worker has

ASSUME TaskIDsAssumption == TaskIDs \subseteq Nat \ {0}
ASSUME RequestsAssumption == Requests \in Nat
ASSUME NoJobAssumption == NoJob \notin [clientID : Clients, body : TaskIDs]

VARIABLES
    clientState,    \* clientState[k]: before send or in recv
    sent,           \* sent[k]: how many requests client k has sent
    task,           \* task[k]: meta.taskID of the request in hand, 0 for none
    busy            \* busy[w]: what worker w has received and not answered

clientVars == <<clientState, sent, task>>
vars == <<proxyVars, clientVars, busy>>

Init ==
    /\ ProxyInit
    /\ clientState = [k \in Clients |-> "ready"]
    /\ sent = [k \in Clients |-> 0]
    /\ task = [k \in Clients |-> 0]
    /\ busy = [w \in Workers |-> NoJob]

--------------------------------------------------------------------------------
\* Client::sendRequestImp, up to the blocking recv and from there on.
\* SendTooMany, a mistake, makes one request more.
SendTooMany(k) ==
    /\ clientState[k] = "ready"
    /\ sent[k] <= Requests
    /\ \E t \in TaskIDs :
        /\ task' = [task EXCEPT ![k] = t]
        /\ toFront' = [toFront EXCEPT ![k] = Append(@, t)]
    /\ clientState' = [clientState EXCEPT ![k] = "waiting"]
    /\ sent' = [sent EXCEPT ![k] = @ + 1]
    /\ UNCHANGED <<toClient, toBack, toWorker, rotation, busy>>

SendRequest(k) ==
    /\ clientState[k] = "ready"
    /\ sent[k] < Requests
    /\ \E t \in TaskIDs :
        /\ task' = [task EXCEPT ![k] = t]
        /\ toFront' = [toFront EXCEPT ![k] = Append(@, t)]
    /\ clientState' = [clientState EXCEPT ![k] = "waiting"]
    /\ sent' = [sent EXCEPT ![k] = @ + 1]
    /\ UNCHANGED <<toClient, toBack, toWorker, rotation, busy>>

ReceiveResult(k) ==
    /\ clientState[k] = "waiting"
    /\ toClient[k] # <<>>
    /\ toClient' = [toClient EXCEPT ![k] = Tail(@)]
    /\ clientState' = [clientState EXCEPT ![k] = "ready"]
    /\ task' = [task EXCEPT ![k] = 0]
    /\ UNCHANGED <<sent, toFront, toBack, toWorker, rotation, busy>>

\* Worker::processImp: the blocking recv of the three frames, and the answer.
ReceiveTask(w) ==
    /\ busy[w] = NoJob
    /\ toWorker[w] # <<>>
    /\ busy' = [busy EXCEPT ![w] = Head(toWorker[w])]
    /\ toWorker' = [toWorker EXCEPT ![w] = Tail(@)]
    /\ UNCHANGED <<clientVars, toFront, toClient, toBack, rotation>>

\* SendUnaddressed, a mistake, leaves the frame of the client out: the router
\* socket cannot route the answer and drops it.
SendUnaddressed(w) ==
    /\ busy[w] # NoJob
    /\ busy' = [busy EXCEPT ![w] = NoJob]
    /\ UNCHANGED <<clientVars, proxyVars>>

SendResult(w) ==
    /\ busy[w] # NoJob
    /\ toBack' = [toBack EXCEPT ![w] = Append(@, busy[w])]
    /\ busy' = [busy EXCEPT ![w] = NoJob]
    /\ UNCHANGED <<clientVars, toFront, toClient, toWorker, rotation>>

BrokerNext == ProxyNext /\ UNCHANGED <<clientVars, busy>>

Next ==
    \/ \E k \in Clients : SendRequest(k) \/ ReceiveResult(k)
    \/ \E w \in Workers : ReceiveTask(w) \/ SendResult(w)
    \/ BrokerNext

Spec == Init /\ [][Next]_vars

\* Clients and workers are threads that loop; they sleep for a while only.
FairSpec ==
    /\ Spec
    /\ ProxyFairness
    /\ \A k \in Clients : WF_vars(SendRequest(k)) /\ WF_vars(ReceiveResult(k))
    /\ \A w \in Workers : WF_vars(ReceiveTask(w)) /\ WF_vars(SendResult(w))

--------------------------------------------------------------------------------
Jobs == [clientID : Clients, body : TaskIDs]

\* The variables have their types: no client makes more than its requests, and a
\* connected worker has one turn in a rotation.
TypeOK ==
    /\ clientState \in [Clients -> {"ready", "waiting"}]
    /\ sent \in [Clients -> 0 .. Requests]
    /\ task \in [Clients -> TaskIDs \cup {0}]
    /\ busy \in [Workers -> Jobs \cup {NoJob}]
    /\ toFront \in [Clients -> Seq(TaskIDs)]
    /\ toClient \in [Clients -> Seq(TaskIDs)]
    /\ toBack \in [Workers -> Seq(Jobs)]
    /\ toWorker \in [Workers -> Seq(Jobs)]
    /\ rotation \in Seq(Workers) /\ IsInjective(rotation)

\* The request of a waiting client is in one place, and names its task; nobody has
\* anything for a client that does not wait.
PlacesOf(k) ==
    {<<"toFront", i, toFront[k][i]>> : i \in DOMAIN toFront[k]}
    \cup {<<"toClient", i, toClient[k][i]>> : i \in DOMAIN toClient[k]}
    \cup (UNION {{<<"toWorker", w, i, toWorker[w][i].body>> :
                     i \in {j \in DOMAIN toWorker[w] : toWorker[w][j].clientID = k}} :
                 w \in Workers})
    \cup (UNION {{<<"toBack", w, i, toBack[w][i].body>> :
                     i \in {j \in DOMAIN toBack[w] : toBack[w][j].clientID = k}} :
                 w \in Workers})
    \cup {<<"busy", w, busy[w].body>> :
                w \in {v \in Workers : busy[v] # NoJob /\ busy[v].clientID = k}}

RequestsOnce ==
    \A k \in Clients :
        IF clientState[k] = "waiting"
        THEN \E p \in PlacesOf(k) : PlacesOf(k) = {p} /\ Last(p) = task[k]
        ELSE PlacesOf(k) = {}

--------------------------------------------------------------------------------
\* The service: a request that waits at a worker is still open, and the worker
\* runs it from its recv on.
Serving(k) == {w \in Workers : busy[w] # NoJob /\ busy[w].clientID = k}

Answered(k) ==
    toClient[k] # <<>> \/ \E w \in Workers : \E m \in ToSet(toBack[w]) : m.clientID = k

StatusOf(k) ==
    CASE clientState[k] = "ready" -> "idle"
      [] Serving(k) # {} -> "running"
      [] Answered(k) -> "served"
      [] OTHER -> "open"

Service == INSTANCE TaskService WITH
    Users   <- Clients,
    Crew    <- Workers,
    status  <- [k \in Clients |-> StatusOf(k)],
    servers <- [k \in Clients |-> Serving(k)]

\* A request goes to one worker, whoever's turn it is, and its answer back to the
\* client that waits for it; nothing is rejected or lost.
ImplementsTaskService == Service!Spec

\* Every request is answered, also those sent before a worker has connected, and
\* those that wait behind another at their worker.
AllServed == <>[](\A k \in Clients : clientState[k] = "ready" /\ sent[k] = Requests)

================================================================================
