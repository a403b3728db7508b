----------------------------- MODULE LoadBalance -------------------------------
(***************************************************************************)
(* The load balancer (load_balance/load_balance.cpp): a broker between     *)
(* clients that each make a few requests and workers that serve one at a   *)
(* time.  It never rejects a request: with no ready worker it does not     *)
(* even poll the socket of the clients, and that is all that keeps it from *)
(* taking the front of an empty queue.  So the round of its loop is        *)
(* modelled as it is: a poll, then the socket of the workers, then that of *)
(* the clients, each if the poll reported it.                              *)
(***************************************************************************)
EXTENDS Naturals, Sequences, FiniteSets

CONSTANTS
    Clients,     \* identities of the clients
    Workers,     \* identities of the workers
    TaskIDs,     \* what genTask may draw
    Requests,    \* requests of each client, 3 in sendRequest
    ALIVE        \* globalConstID_ALIVE, in the place of a client identity

ASSUME TaskIDsAssumption == TaskIDs \subseteq Nat
ASSUME RequestsAssumption == Requests \in Nat
ASSUME ALIVEAssumption == ALIVE \notin Clients

VARIABLES
    clientState,       \* clientState[k]: before send or in recv
    sent,              \* sent[k]: how many requests client k has sent
    task,              \* task[k]: meta.taskID of the request in hand, 0 for none
    workReadyQueue,    \* the ready workers, in the order they became ready
    revents,           \* the sockets the last poll reported and the round has still to serve
    toFrontEnd, toClient,    \* per client: task IDs on the way to and from the broker
    toBackEnd, toWorker      \* per worker: client and task ID, to and from the broker

clientVars == <<clientState, sent, task>>
vars == <<clientVars, workReadyQueue, revents, toFrontEnd, toClient, toBackEnd, toWorker>>

\* What travels between broker and worker: the frame with the identity of the
\* client and the task or its result, which keeps the meta of the task.
Job == [clientID : Clients, taskID : TaskIDs]
AliveSignal == [clientID |-> ALIVE, taskID |-> 0]

\* A worker says that it is alive in its constructor.
Init ==
    /\ clientState = [k \in Clients |-> "ready"]
    /\ sent = [k \in Clients |-> 0]
    /\ task = [k \in Clients |-> 0]
    /\ workReadyQueue = <<>>
    /\ revents = {}
    /\ toFrontEnd = [k \in Clients |-> <<>>]
    /\ toClient = [k \in Clients |-> <<>>]
    /\ toBackEnd = [w \in Workers |-> <<AliveSignal>>]
    /\ toWorker = [w \in Workers |-> <<>>]

--------------------------------------------------------------------------------
\* Client::sendRequestImp, up to the blocking recv and from there on.
SendRequest(k) ==
    /\ clientState[k] = "ready"
    /\ sent[k] < Requests
    /\ \E t \in TaskIDs :
        /\ task' = [task EXCEPT ![k] = t]
        /\ toFrontEnd' = [toFrontEnd EXCEPT ![k] = Append(@, t)]
    /\ clientState' = [clientState EXCEPT ![k] = "waiting"]
    /\ sent' = [sent EXCEPT ![k] = @ + 1]
    /\ UNCHANGED <<workReadyQueue, revents, toClient, toBackEnd, toWorker>>

\* ReceiveDontWait, a mistake, goes on when there is nothing to receive.
ReceiveDontWait(k) ==
    /\ clientState[k] = "waiting"
    /\ toClient' = [toClient EXCEPT ![k] = IF @ = <<>> THEN @ ELSE Tail(@)]
    /\ clientState' = [clientState EXCEPT ![k] = "ready"]
    /\ task' = [task EXCEPT ![k] = 0]
    /\ UNCHANGED <<sent, workReadyQueue, revents, toFrontEnd, toBackEnd, toWorker>>

ReceiveResult(k) ==
    /\ clientState[k] = "waiting"
    /\ toClient[k] # <<>>
    /\ toClient' = [toClient EXCEPT ![k] = Tail(@)]
    /\ clientState' = [clientState EXCEPT ![k] = "ready"]
    /\ task' = [task EXCEPT ![k] = 0]
    /\ UNCHANGED <<sent, workReadyQueue, revents, toFrontEnd, toBackEnd, toWorker>>

\* Worker::processImp.
Process(w) ==
    /\ toWorker[w] # <<>>
    /\ toBackEnd' = [toBackEnd EXCEPT ![w] = Append(@, Head(toWorker[w]))]
    /\ toWorker' = [toWorker EXCEPT ![w] = Tail(@)]
    /\ UNCHANGED <<clientVars, workReadyQueue, revents, toFrontEnd, toClient>>

--------------------------------------------------------------------------------
\* BalanceBroker::serve.  Of the sockets with messages on the way, the poll
\* reports those whose messages have arrived, at least one.
\* PolledAlways, a mistake, does not look at the queue.
PolledAlways == {"backend", "frontend"}
Polled == IF workReadyQueue = <<>> THEN {"backend"} ELSE {"backend", "frontend"}

Poll ==
    /\ revents = {}
    /\ revents' \in SUBSET Polled \ {{}}
    /\ "backend" \in revents' => \E w \in Workers : toBackEnd[w] # <<>>
    /\ "frontend" \in revents' => \E k \in Clients : toFrontEnd[k] # <<>>
    /\ UNCHANGED <<clientVars, workReadyQueue, toFrontEnd, toClient, toBackEnd, toWorker>>

\* The queue of ready workers: who sent a message joins it, the front leaves it.
\* MarkClient (the wrong frame), MarkAlive (only at the start) and PeekWorker (no
\* pop) are mistakes.
MarkClient(w, m) == workReadyQueue' = Append(workReadyQueue, m.clientID)
MarkAlive(w, m) ==
    workReadyQueue' = IF m = AliveSignal THEN Append(workReadyQueue, w) ELSE workReadyQueue
MarkReady(w, m) == workReadyQueue' = Append(workReadyQueue, w)
PeekWorker == UNCHANGED workReadyQueue
TakeWorker == workReadyQueue' = Tail(workReadyQueue)

\* After an alive signal the loop continues: a client the same poll reported is
\* left to the next round.
ServeBackEnd(w) ==
    LET m == Head(toBackEnd[w])
    IN  /\ "backend" \in revents
        /\ toBackEnd[w] # <<>>
        /\ toBackEnd' = [toBackEnd EXCEPT ![w] = Tail(@)]
        /\ MarkReady(w, m)
        /\ \/ /\ m.clientID = ALIVE
              /\ revents' = {}
              /\ UNCHANGED toClient
           \/ /\ m.clientID # ALIVE
              /\ revents' = revents \ {"backend"}
              /\ toClient' = [toClient EXCEPT ![m.clientID] = Append(@, m.taskID)]
        /\ UNCHANGED <<clientVars, toFrontEnd, toWorker>>

\* The identity the router forwards a task with is that of its connection.
ServeFrontEnd(k) ==
    /\ "frontend" \in revents /\ "backend" \notin revents
    /\ toFrontEnd[k] # <<>>
    /\ toFrontEnd' = [toFrontEnd EXCEPT ![k] = Tail(@)]
    /\ toWorker' = [toWorker EXCEPT ![Head(workReadyQueue)] =
                        Append(@, [clientID |-> k, taskID |-> Head(toFrontEnd[k])])]
    /\ TakeWorker
    /\ revents' = {}
    /\ UNCHANGED <<clientVars, toClient, toBackEnd>>

Next ==
    \/ \E k \in Clients : SendRequest(k) \/ ReceiveResult(k) \/ ServeFrontEnd(k)
    \/ \E w \in Workers : Process(w) \/ ServeBackEnd(w)
    \/ Poll

Spec == Init /\ [][Next]_vars

\* Clients, workers and broker are threads that loop; a client goes on to its
\* next request after 0.1 s of sleep.
FairSpec ==
    /\ Spec
    /\ \A k \in Clients : WF_vars(SendRequest(k)) /\ WF_vars(ReceiveResult(k))
    /\ \A w \in Workers : WF_vars(Process(w))
    /\ WF_vars(Poll)
    /\ WF_vars(\E w \in Workers : ServeBackEnd(w))
    /\ WF_vars(\E k \in Clients : ServeFrontEnd(k))

--------------------------------------------------------------------------------
\* The variables have their types: only a worker becomes ready, only a client is
\* sent a result.
TypeOK ==
    /\ clientState \in [Clients -> {"ready", "waiting"}]
    /\ sent \in [Clients -> 0 .. Requests]
    /\ task \in [Clients -> TaskIDs \cup {0}]
    /\ workReadyQueue \in Seq(Workers)
    /\ revents \subseteq {"backend", "frontend"}
    /\ toFrontEnd \in [Clients -> Seq(TaskIDs)]
    /\ toClient \in [Clients -> Seq(TaskIDs)]
    /\ toBackEnd \in [Workers -> Seq(Job \cup {AliveSignal})]
    /\ toWorker \in [Workers -> Seq(Job)]

\* serve calls front on the queue whenever it serves a client, after a poll and
\* perhaps a message of a worker: the queue is not empty then.
FrontHasWorker == "frontend" \in revents => workReadyQueue # <<>>

\* A worker is in the queue, once, or has one message on its connection: serve
\* never gives it a second task, and never forgets it.
Queued(w) == \E i \in DOMAIN workReadyQueue : workReadyQueue[i] = w

WorkersOnce ==
    /\ \A i, j \in DOMAIN workReadyQueue : workReadyQueue[i] = workReadyQueue[j] => i = j
    /\ \A w \in Workers :
            Len(toWorker[w]) + Len(toBackEnd[w]) = IF Queued(w) THEN 0 ELSE 1

\* The one message about the request of a waiting client is somewhere on its way
\* and names its task; the broker and the workers hold nothing for another client.
Entries(name, f, x) == {<<name, x, i, f[x][i]>> : i \in DOMAIN f[x]}

TasksOf(k) ==
    Entries("toFrontEnd", toFrontEnd, k) \cup Entries("toClient", toClient, k)
    \cup {<<e[1], e[2], e[3], e[4].taskID>> :
            e \in {x \in UNION {Entries("toWorker", toWorker, w)
                                \cup Entries("toBackEnd", toBackEnd, w) : w \in Workers} :
                   x[4].clientID = k}}

RequestsOnce ==
    \A k \in Clients :
        IF clientState[k] = "waiting"
        THEN \E p \in TasksOf(k) : TasksOf(k) = {p} /\ p[4] = task[k]
        ELSE TasksOf(k) = {}

--------------------------------------------------------------------------------
\* The load balancer implements the service of the data center too, and uses
\* only a part of it: nothing is rejected or lost.
Serving(k) == {w \in Workers : \E i \in DOMAIN toWorker[w] : toWorker[w][i].clientID = k}

Answered(k) ==
    \/ toClient[k] # <<>>
    \/ \E w \in Workers : \E i \in DOMAIN toBackEnd[w] : toBackEnd[w][i].clientID = k

StatusOf(k) ==
    CASE clientState[k] = "ready" -> "idle"
      [] Serving(k) # {} -> "running"
      [] Answered(k) -> "served"
      [] OTHER -> "open"

Service == INSTANCE TaskService WITH
    Users   <- Clients,
    Crew    <- Workers,
    status  <- [k \in Clients |-> StatusOf(k)],
    servers <- [k \in Clients |-> Serving(k)]

\* A request goes from its client to one worker, which has no other, and back.
ImplementsTaskService == Service!Spec

\* All the requests of all the clients are served, and all the workers are ready
\* in the end: neither the poll without the clients nor the skipped client of a
\* round leaves anybody waiting.
AllServed ==
    <>[](/\ \A k \in Clients : clientState[k] = "ready" /\ sent[k] = Requests
         /\ \A w \in Workers : Queued(w))

================================================================================
