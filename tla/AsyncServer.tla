----------------------------- MODULE AsyncServer -------------------------------
(***************************************************************************)
(* The program dummy_async_server.cpp: clients that send their requests    *)
(* without waiting in one thread and receive in another, and workers       *)
(* behind a ProxyBroker that answer each request several times.            *)
(*                                                                         *)
(* A task is the number of the request in its client.  The worker sends a  *)
(* copy of the frame it received, not of its result, and the client copies *)
(* the whole frame into a TaskResult, which is smaller than a Task: what   *)
(* happens then is undefined, and the model lets the process (clients,     *)
(* broker and workers are threads of one) end or go on.                    *)
(*                                                                         *)
(* The two threads of a client use one socket without a lock.  The model   *)
(* takes a send or a recv as one step, as if their calls never overlapped. *)
(***************************************************************************)
EXTENDS ProxyBroker

CONSTANTS
    Requests,    \* requests of each client, 3 in sendRequest
    Copies,      \* answers to a request, 10 in processImp
    NoJob        \* what an idle worker has

ASSUME RequestsAssumption == Requests \in Nat
ASSUME CopiesAssumption == Copies \in Nat \ {0}

\* The frames that somebody sent, a client (0) or a worker, and the same with the
\* identity of a client in front.
Frames(senders) == [type : {"Task", "TaskResult"}, taskID : 1 .. Requests, by : senders]
Jobs(senders) == [clientID : Clients, body : Frames(senders)]

ASSUME NoJobAssumption == NoJob \notin Jobs({0})

VARIABLES
    running,     \* false when the process has ended
    sent,        \* sent[k]: how many requests client k has sent
    received,    \* history: per client, the task and the worker of each answer
    busy,        \* busy[w]: the request worker w is answering
    copies       \* copies[w]: the loop counter, how many answers it has sent

vars == <<proxyVars, running, sent, received, busy, copies>>

Init ==
    /\ ProxyInit
    /\ running = TRUE
    /\ sent = [k \in Clients |-> 0]
    /\ received = [k \in Clients |-> <<>>]
    /\ busy = [w \in Workers |-> NoJob]
    /\ copies = [w \in Workers |-> 0]

\* A frame: a Task or a TaskResult, with the same meta, and for an answer who
\* sent it (history; 0 in a request).
TaskFrame(n) == [type |-> "Task", taskID |-> n, by |-> 0]

--------------------------------------------------------------------------------
\* Client::sendRequest and sendRequestImp: one round of the sending thread.
\* SendTooMany, a mistake, makes one more; SendRetried, another, sends the first
\* task once more behind the new one, as if the poll had timed out for it.
SendTooMany(k) ==
    /\ sent[k] <= Requests
    /\ sent' = [sent EXCEPT ![k] = @ + 1]
    /\ toFront' = [toFront EXCEPT ![k] = Append(@, TaskFrame(sent[k] + 1))]
    /\ UNCHANGED <<toClient, toBack, toWorker, rotation, running, received, busy, copies>>

SendRetried(k) ==
    /\ sent[k] < Requests
    /\ sent' = [sent EXCEPT ![k] = @ + 1]
    /\ toFront' = [toFront EXCEPT ![k] = @ \o <<TaskFrame(sent[k] + 1), TaskFrame(1)>>]
    /\ UNCHANGED <<toClient, toBack, toWorker, rotation, running, received, busy, copies>>

SendRequest(k) ==
    /\ sent[k] < Requests
    /\ sent' = [sent EXCEPT ![k] = @ + 1]
    /\ toFront' = [toFront EXCEPT ![k] = Append(@, TaskFrame(sent[k] + 1))]
    /\ UNCHANGED <<toClient, toBack, toWorker, rotation, running, received, busy, copies>>

\* Client::poll, a round that finds an answer; after a timeout it polls again.
Poll(k) ==
    /\ toClient[k] # <<>>
    /\ LET m == Head(toClient[k])
       IN  /\ received' = [received EXCEPT ![k] =
                            Append(@, [taskID |-> m.taskID, by |-> m.by])]
           /\ running' \in IF m.type = "Task" THEN {TRUE, FALSE} ELSE {TRUE}
    /\ toClient' = [toClient EXCEPT ![k] = Tail(@)]
    /\ UNCHANGED <<toFront, toBack, toWorker, rotation, sent, busy, copies>>

\* Worker::processImp: the recv, and each round of the loop of answers.
ReceiveTask(w) ==
    /\ busy[w] = NoJob
    /\ toWorker[w] # <<>>
    /\ busy' = [busy EXCEPT ![w] = Head(toWorker[w])]
    /\ copies' = [copies EXCEPT ![w] = 0]
    /\ toWorker' = [toWorker EXCEPT ![w] = Tail(@)]
    /\ UNCHANGED <<toFront, toClient, toBack, rotation, running, sent, received>>

\* AnswersLate, a mistake, leaves the loop one round too late, and AnswersEarly
\* one too early.
AnswersLate(w) == copies[w] = Copies
AnswersEarly(w) == copies[w] + 2 = Copies
LastAnswer(w) == copies[w] + 1 = Copies

SendAnswer(w) ==
    /\ busy[w] # NoJob
    /\ toBack' = [toBack EXCEPT ![w] = Append(@, [busy[w] EXCEPT !.body.by = w])]
    /\ \/ ~LastAnswer(w) /\ copies' = [copies EXCEPT ![w] = @ + 1] /\ UNCHANGED busy
       \/ LastAnswer(w) /\ copies' = [copies EXCEPT ![w] = 0]
                        /\ busy' = [busy EXCEPT ![w] = NoJob]
    /\ UNCHANGED <<toFront, toClient, toWorker, rotation, running, sent, received>>

BrokerNext == ProxyNext /\ UNCHANGED <<running, sent, received, busy, copies>>

Next ==
    /\ running
    /\ \/ \E k \in Clients : SendRequest(k) \/ Poll(k)
       \/ \E w \in Workers : ReceiveTask(w) \/ SendAnswer(w)
       \/ BrokerNext

Spec == Init /\ [][Next]_vars

\* As long as the process runs its threads loop; a thread sleeps for a while only.
FairSpec ==
    /\ Spec
    /\ \A k \in Clients : /\ WF_vars(running /\ SendRequest(k))
                          /\ WF_vars(running /\ Poll(k))
                          /\ WF_vars(running /\ Forward(k) /\ BrokerNext)
    /\ \A w \in Workers : /\ WF_vars(running /\ ReceiveTask(w))
                          /\ WF_vars(running /\ SendAnswer(w))
                          /\ WF_vars(running /\ Connect(w) /\ BrokerNext)
                          /\ WF_vars(running /\ Backward(w) /\ BrokerNext)

--------------------------------------------------------------------------------
\* The variables have their types; what a worker sends is signed by it.
TypeOK ==
    /\ running \in BOOLEAN
    /\ sent \in [Clients -> 0 .. Requests]
    /\ received \in [Clients -> Seq([taskID : 1 .. Requests, by : Workers])]
    /\ busy \in [Workers -> Jobs({0}) \cup {NoJob}]
    /\ copies \in [Workers -> 0 .. Copies - 1]
    /\ toFront \in [Clients -> Seq(Frames({0}))]
    /\ toClient \in [Clients -> Seq(Frames(Workers))]
    /\ toBack \in [Workers -> Seq(Jobs(Workers))]
    /\ \A w \in Workers : \A i \in DOMAIN toBack[w] : toBack[w][i].body.by = w
    /\ toWorker \in [Workers -> Seq(Jobs({0}))]
    /\ rotation \in Seq(Workers) /\ IsInjective(rotation)

\* A request is under way, once, or one worker is answering it, or has: then the
\* answers received, under way and still to send are as many as there should be.
Of(k, n, m) == m.clientID = k /\ m.body.taskID = n
FramesOf(n, q) == {i \in DOMAIN q : q[i].taskID = n}
JobsOf(k, n, f) == UNION {{w} \X {i \in DOMAIN f[w] : Of(k, n, f[w][i])} : w \in Workers}

Requested(k, n) ==
    Cardinality(FramesOf(n, toFront[k])) + Cardinality(JobsOf(k, n, toWorker))

Answers(k, n) ==
    Cardinality(FramesOf(n, received[k])) + Cardinality(FramesOf(n, toClient[k]))
    + Cardinality(JobsOf(k, n, toBack))

Answering(k, n) == {w \in Workers : busy[w] # NoJob /\ Of(k, n, busy[w])}

Accounted(k, n) ==
    IF n > sent[k]
      THEN Requested(k, n) = 0 /\ Answers(k, n) = 0 /\ Answering(k, n) = {}
      ELSE \/ Requested(k, n) = 1 /\ Answers(k, n) = 0 /\ Answering(k, n) = {}
           \/ Requested(k, n) = 0 /\ Answers(k, n) = Copies /\ Answering(k, n) = {}
           \/ /\ Requested(k, n) = 0
              /\ \E w \in Workers : Answering(k, n) = {w} /\ Answers(k, n) = copies[w]

CopiesAccounted == \A k \in Clients : \A n \in 1 .. Requests : Accounted(k, n)

\* The answers of a worker reach a client in the order of its requests; those of
\* two workers may overtake each other.
AnswersInOrder ==
    \A k \in Clients : \A i, j \in DOMAIN received[k] :
        i < j /\ received[k][i].by = received[k][j].by
            => received[k][i].taskID <= received[k][j].taskID

\* As long as the process does not end, every client gets all of its answers, and
\* the worker comes back from each loop of answers to the next request.
AllAnswered ==
    <>(\/ ~running
       \/ \A k \in Clients : sent[k] = Requests /\ Len(received[k]) = Requests * Copies)

\* processImp "send result multiple times": what a client receives is a result.
AnswersAreResults ==
    \A k \in Clients : \A m \in ToSet(toClient[k]) : m.type = "TaskResult"

================================================================================
