-------------------------- MODULE LoadBalanceProofs ----------------------------
(***************************************************************************)
(* Theorems about LoadBalance, for every set of clients, workers and tasks *)
(* and every number of requests.                                           *)
(***************************************************************************)
EXTENDS LoadBalance, QueueLemmas

(***************************************************************************)
(* The queue is not empty where serve takes its front.  That needs the     *)
(* types (what Append and Head give), and the types need that in turn: the *)
(* front of an empty queue is no worker.                                   *)
(***************************************************************************)
ServeInv == TypeOK /\ FrontHasWorker

LEMMA ServeInit == Init => ServeInv
  <1> SUFFICES ASSUME Init PROVE ServeInv
    OBVIOUS
  <1>1. toBackEnd \in [Workers -> Seq(Job \cup {AliveSignal})]
    BY DEF Init
  <1>2. sent \in [Clients -> 0 .. Requests]
    BY RequestsAssumption DEF Init
  <1> QED
    BY <1>1, <1>2 DEF ServeInv, FrontHasWorker, TypeOK, Init

LEMMA ServeStep == ServeInv /\ [Next]_vars => ServeInv'
  <1> SUFFICES ASSUME TypeOK, FrontHasWorker, [Next]_vars PROVE TypeOK' /\ FrontHasWorker'
    BY DEF ServeInv
  <1>1. ASSUME NEW k \in Clients, SendRequest(k)
        PROVE  TypeOK' /\ FrontHasWorker'
    <2>1. PICK t \in TaskIDs : /\ task' = [task EXCEPT ![k] = t]
                               /\ toFrontEnd' = [toFrontEnd EXCEPT ![k] = Append(@, t)]
      BY <1>1 DEF SendRequest
    <2>2. Append(toFrontEnd[k], t) \in Seq(TaskIDs)
      BY PutFacts DEF TypeOK
    <2>3. toFrontEnd' \in [Clients -> Seq(TaskIDs)] /\ task' \in [Clients -> TaskIDs \cup {0}]
      BY <2>1, <2>2 DEF TypeOK
    <2>4. sent' \in [Clients -> 0 .. Requests]
      BY <1>1, RequestsAssumption DEF TypeOK, SendRequest
    <2> QED
      BY <1>1, <2>3, <2>4 DEF TypeOK, FrontHasWorker, SendRequest
  <1>2. ASSUME NEW k \in Clients, ReceiveResult(k)
        PROVE  TypeOK' /\ FrontHasWorker'
    <2>1. Tail(toClient[k]) \in Seq(TaskIDs)
      BY <1>2, TakeFacts DEF TypeOK, ReceiveResult
    <2> QED
      BY <1>2, <2>1 DEF TypeOK, FrontHasWorker, ReceiveResult
  <1>3. ASSUME NEW w \in Workers, Process(w)
        PROVE  TypeOK' /\ FrontHasWorker'
    <2>1. Head(toWorker[w]) \in Job /\ Tail(toWorker[w]) \in Seq(Job)
      BY <1>3, TakeFacts DEF TypeOK, Process
    <2>2. Append(toBackEnd[w], Head(toWorker[w])) \in Seq(Job \cup {AliveSignal})
      BY <2>1, PutFacts DEF TypeOK
    <2> QED
      BY <1>3, <2>1, <2>2 DEF TypeOK, FrontHasWorker, Process, clientVars
  <1>4. ASSUME Poll
        PROVE  TypeOK' /\ FrontHasWorker'
    BY <1>4 DEF TypeOK, FrontHasWorker, Poll, Polled, clientVars
  <1>5. ASSUME NEW w \in Workers, ServeBackEnd(w)
        PROVE  TypeOK' /\ FrontHasWorker'
    <2> DEFINE m == Head(toBackEnd[w])
    <2>1. m \in Job \cup {AliveSignal} /\ Tail(toBackEnd[w]) \in Seq(Job \cup {AliveSignal})
      BY <1>5, TakeFacts DEF TypeOK, ServeBackEnd
    <2>2. toBackEnd' \in [Workers -> Seq(Job \cup {AliveSignal})]
      BY <1>5, <2>1 DEF TypeOK, ServeBackEnd
    <2>3. workReadyQueue' = Append(workReadyQueue, w)
      BY <1>5 DEF ServeBackEnd, MarkReady
    <2>4. workReadyQueue' \in Seq(Workers) /\ workReadyQueue' # <<>>
      <3>1. workReadyQueue \in Seq(Workers)
        BY DEF TypeOK
      <3>2. Append(workReadyQueue, w) \in Seq(Workers) /\ Append(workReadyQueue, w) # <<>>
        BY <3>1, PutFacts, PutNonempty
      <3> QED
        BY <2>3, <3>2
    <2>5. toClient' \in [Clients -> Seq(TaskIDs)]
      <3>1. CASE m.clientID = ALIVE
        BY <1>5, <3>1 DEF TypeOK, ServeBackEnd
      <3>2. CASE m.clientID # ALIVE
        <4>1. m.clientID \in Clients /\ m.taskID \in TaskIDs
          BY <2>1, <3>2 DEF Job, AliveSignal
        <4>2. Append(toClient[m.clientID], m.taskID) \in Seq(TaskIDs)
          BY <4>1, PutFacts DEF TypeOK
        <4> QED
          BY <1>5, <3>2, <4>1, <4>2 DEF TypeOK, ServeBackEnd
      <3> QED
        BY <3>1, <3>2
    <2> QED
      BY <1>5, <2>2, <2>4, <2>5 DEF TypeOK, FrontHasWorker, ServeBackEnd, clientVars
  <1>6. ASSUME NEW k \in Clients, ServeFrontEnd(k)
        PROVE  TypeOK' /\ FrontHasWorker'
    <2> DEFINE x == Head(workReadyQueue)
               job == [clientID |-> k, taskID |-> Head(toFrontEnd[k])]
    <2>1. x \in Workers /\ Tail(workReadyQueue) \in Seq(Workers)
      BY <1>6, TakeFacts DEF TypeOK, FrontHasWorker, ServeFrontEnd
    <2>2. Head(toFrontEnd[k]) \in TaskIDs /\ Tail(toFrontEnd[k]) \in Seq(TaskIDs)
      BY <1>6, TakeFacts DEF TypeOK, ServeFrontEnd
    <2>3. Append(toWorker[x], job) \in Seq(Job)
      BY <2>1, <2>2, PutFacts DEF TypeOK, Job
    <2>4. toWorker' \in [Workers -> Seq(Job)]
      BY <1>6, <2>1, <2>3 DEF TypeOK, ServeFrontEnd
    <2> QED
      BY <1>6, <2>1, <2>2, <2>4
         DEF TypeOK, FrontHasWorker, ServeFrontEnd, TakeWorker, clientVars
  <1>7. CASE UNCHANGED vars
    BY <1>7 DEF TypeOK, FrontHasWorker, vars, clientVars
  <1> QED
    BY <1>1, <1>2, <1>3, <1>4, <1>5, <1>6, <1>7 DEF Next

(***************************************************************************)
(* serve never takes the front of an empty queue: its guard is the set of  *)
(* sockets of a poll made earlier in the round.                            *)
(***************************************************************************)
THEOREM ServeCorrect == Spec => [](TypeOK /\ FrontHasWorker)
  <1>1. ServeInv => TypeOK /\ FrontHasWorker
    BY DEF ServeInv
  <1> QED
    BY <1>1, ServeInit, ServeStep, PTL DEF Spec

\* The types alone: only workers enter the ready queue.
THEOREM LoadBalanceTypes == Spec => []TypeOK
  BY ServeCorrect, PTL

--------------------------------------------------------------------------------
(***************************************************************************)
(* A worker is in the queue once, or has one message.  Held counts the     *)
(* messages on the connection of a worker.                                 *)
(***************************************************************************)
Held(w) == Len(toWorker[w]) + Len(toBackEnd[w])

LEMMA HeldNat ==
    ASSUME TypeOK, NEW w \in Workers
    PROVE  Len(toWorker[w]) \in Nat /\ Len(toBackEnd[w]) \in Nat /\ Held(w) \in Nat
  <1>1. Len(toWorker[w]) \in Nat /\ Len(toBackEnd[w]) \in Nat
    BY DEF TypeOK
  <1> DEFINE a == Len(toWorker[w])
             b == Len(toBackEnd[w])
  <1> HIDE DEF a, b
  <1>2. a \in Nat /\ b \in Nat => a + b \in Nat
    OBVIOUS
  <1> QED
    BY <1>1, <1>2 DEF a, b, Held

\* The three handlers that move messages or workers, and what they do to Held.
LEMMA ProcessHeld ==
    ASSUME ServeInv, NEW w \in Workers, Process(w)
    PROVE  \A x \in Workers : Held(x)' = Held(x)
  <1>1. toWorker[w] \in Seq(Job) /\ toBackEnd[w] \in Seq(Job \cup {AliveSignal})
        /\ Head(toWorker[w]) \in Job /\ toWorker[w] # <<>>
    BY TakeFacts DEF ServeInv, TypeOK, Process
  <1>2. /\ toWorker'[w] = Tail(toWorker[w])
        /\ toBackEnd'[w] = Append(toBackEnd[w], Head(toWorker[w]))
        /\ \A x \in Workers \ {w} : toWorker'[x] = toWorker[x] /\ toBackEnd'[x] = toBackEnd[x]
    BY DEF ServeInv, TypeOK, Process
  <1> DEFINE a == Len(toWorker[w])
             b == Len(toBackEnd[w])
  <1>3. /\ a \in Nat /\ b \in Nat
        /\ Len(toWorker'[w]) = a - 1 /\ Len(toBackEnd'[w]) = b + 1
    BY <1>1, <1>2, TakeFacts, PutFacts
  <1>4. Held(w)' = Len(toWorker'[w]) + Len(toBackEnd'[w]) /\ Held(w) = a + b
    BY DEF Held
  <1> HIDE DEF a, b
  <1>5. Held(w)' = Held(w)
    BY <1>3, <1>4
  <1>6. \A x \in Workers \ {w} : Held(x)' = Held(x)
    BY <1>2 DEF Held
  <1> QED
    BY <1>5, <1>6

LEMMA ServeBackEndHeld ==
    ASSUME ServeInv, NEW w \in Workers, ServeBackEnd(w)
    PROVE  /\ Held(w) >= 1 /\ Held(w)' = Held(w) - 1
           /\ \A x \in Workers \ {w} : Held(x)' = Held(x)
  <1>1. toBackEnd[w] \in Seq(Job \cup {AliveSignal}) /\ toBackEnd[w] # <<>>
    BY DEF ServeInv, TypeOK, ServeBackEnd
  <1>2. /\ toBackEnd'[w] = Tail(toBackEnd[w])
        /\ toWorker' = toWorker
        /\ \A x \in Workers \ {w} : toBackEnd'[x] = toBackEnd[x]
    BY DEF ServeInv, TypeOK, ServeBackEnd
  <1> DEFINE a == Len(toWorker[w])
             b == Len(toBackEnd[w])
  <1>3. /\ a \in Nat /\ b \in Nat /\ b >= 1
        /\ Len(toWorker'[w]) = a /\ Len(toBackEnd'[w]) = b - 1
    BY <1>1, <1>2, TakeFacts, HeldNat DEF ServeInv
  <1>4. Held(w)' = Len(toWorker'[w]) + Len(toBackEnd'[w]) /\ Held(w) = a + b
    BY DEF Held
  <1> HIDE DEF a, b
  <1>5. Held(w) >= 1 /\ Held(w)' = Held(w) - 1
    BY <1>3, <1>4
  <1>6. \A x \in Workers \ {w} : Held(x)' = Held(x)
    BY <1>2 DEF Held
  <1> QED
    BY <1>5, <1>6

LEMMA ServeFrontEndHeld ==
    ASSUME ServeInv, NEW k \in Clients, ServeFrontEnd(k),
           NEW w \in Workers, w = Head(workReadyQueue)
    PROVE  /\ Held(w)' = Held(w) + 1
           /\ \A x \in Workers \ {w} : Held(x)' = Held(x)
  <1> DEFINE job == [clientID |-> k, taskID |-> Head(toFrontEnd[k])]
  <1>1. toWorker[w] \in Seq(Job) /\ job \in Job
    BY TakeFacts DEF ServeInv, TypeOK, ServeFrontEnd, Job
  <1>2. /\ toWorker'[w] = Append(toWorker[w], job)
        /\ toBackEnd' = toBackEnd
        /\ \A x \in Workers \ {w} : toWorker'[x] = toWorker[x]
    BY DEF ServeInv, TypeOK, ServeFrontEnd
  <1> DEFINE a == Len(toWorker[w])
             b == Len(toBackEnd[w])
  <1>3. /\ a \in Nat /\ b \in Nat
        /\ Len(toWorker'[w]) = a + 1 /\ Len(toBackEnd'[w]) = b
    BY <1>1, <1>2, PutFacts, HeldNat DEF ServeInv
  <1>4. Held(w)' = Len(toWorker'[w]) + Len(toBackEnd'[w]) /\ Held(w) = a + b
    BY DEF Held
  <1> HIDE DEF a, b
  <1>5. Held(w)' = Held(w) + 1
    BY <1>3, <1>4
  <1>6. \A x \in Workers \ {w} : Held(x)' = Held(x)
    BY <1>2 DEF Held
  <1> QED
    BY <1>5, <1>6

Places ==
    /\ \A i, j \in DOMAIN workReadyQueue : workReadyQueue[i] = workReadyQueue[j] => i = j
    /\ \A w \in Workers : Held(w) = IF Queued(w) THEN 0 ELSE 1

LEMMA WorkersStep == ServeInv /\ Places /\ [Next]_vars => Places'
  <1> SUFFICES ASSUME ServeInv, Places, [Next]_vars PROVE Places'
    OBVIOUS
  <1> DEFINE q == workReadyQueue
  <1>0. /\ q \in Seq(Workers)
        /\ \A i, j \in DOMAIN q : q[i] = q[j] => i = j
    BY DEF ServeInv, TypeOK, Places
  <1>1. CASE UNCHANGED <<workReadyQueue, toBackEnd, toWorker>>
    BY <1>1 DEF Places, Held, Queued
  <1>2. ASSUME NEW w \in Workers, Process(w)
        PROVE  Places'
    <2>1. workReadyQueue' = workReadyQueue
      BY <1>2 DEF Process
    <2>2. \A x \in Workers : Queued(x)' <=> Queued(x)
      BY <2>1 DEF Queued
    <2> QED
      BY <1>2, <2>1, <2>2, ProcessHeld DEF Places
  <1>3. ASSUME NEW w \in Workers, ServeBackEnd(w)
        PROVE  Places'
    <2>1. workReadyQueue' = Append(q, w)
      BY <1>3 DEF ServeBackEnd, MarkReady
    <2>2. Held(w) = 1 /\ Held(w)' = 0 /\ ~Queued(w)
      BY <1>3, ServeBackEndHeld, HeldNat DEF Places, ServeInv
    <2>3. EachOnce(q) /\ ~InQueue(q, w)
      BY <1>0, <2>2 DEF Queued, EachOnce, InQueue
    <2>4. EachOnce(Append(q, w)) /\ \A x : InQueue(Append(q, w), x) <=> InQueue(q, x) \/ x = w
      <3> HIDE DEF q
      <3> QED
        BY <1>0, <2>3, PutOnce
    <2>5. \A x \in Workers : Queued(x)' <=> Queued(x) \/ x = w
      BY <2>1, <2>4 DEF Queued, InQueue
    <2>6. ASSUME NEW x \in Workers
          PROVE  Held(x)' = IF Queued(x)' THEN 0 ELSE 1
      <3>1. CASE x = w
        BY <2>2, <2>5, <3>1
      <3>2. CASE x # w
        BY <1>3, <2>5, <3>2, ServeBackEndHeld DEF Places
      <3> QED
        BY <3>1, <3>2
    <2> QED
      BY <2>1, <2>4, <2>6 DEF Places, EachOnce
  <1>4. ASSUME NEW k \in Clients, ServeFrontEnd(k)
        PROVE  Places'
    <2>1. q # <<>> /\ workReadyQueue' = Tail(q)
      BY <1>4 DEF ServeFrontEnd, TakeWorker, ServeInv, FrontHasWorker
    <2> PICK w \in Workers : w = Head(q)
      BY <1>0, <2>1, TakeFacts
    <2>2. 1 \in DOMAIN q /\ q[1] = w
      BY <1>0, <2>1, TakeFacts
    <2>3. Queued(w) /\ Held(w) = 0 /\ Held(w)' = 1
      BY <1>4, <2>2, ServeFrontEndHeld DEF Queued, Places
    <2>4. EachOnce(Tail(q)) /\ \A x : InQueue(Tail(q), x) <=> InQueue(q, x) /\ x # w
      <3>1. Head(q) = w /\ EachOnce(q)
        BY <1>0 DEF EachOnce
      <3> HIDE DEF q
      <3> QED
        BY <1>0, <2>1, <3>1, TakeOnce
    <2>5. \A x \in Workers : Queued(x)' <=> Queued(x) /\ x # w
      BY <2>1, <2>4 DEF Queued, InQueue
    <2>6. ASSUME NEW x \in Workers
          PROVE  Held(x)' = IF Queued(x)' THEN 0 ELSE 1
      <3>1. CASE x = w
        BY <2>3, <2>5, <3>1
      <3>2. CASE x # w
        BY <1>4, <2>5, <3>2, ServeFrontEndHeld DEF Places
      <3> QED
        BY <3>1, <3>2
    <2> QED
      BY <2>1, <2>4, <2>6 DEF Places, EachOnce
  <1> QED
    BY <1>1, <1>2, <1>3, <1>4 DEF Next, SendRequest, ReceiveResult, Poll, vars

LEMMA WorkersInit == Init => Places
  <1> SUFFICES ASSUME Init PROVE Places
    OBVIOUS
  <1>1. workReadyQueue = <<>> /\ DOMAIN <<>> = {}
    BY DEF Init
  <1>2. ASSUME NEW w \in Workers
        PROVE  Held(w) = 1 /\ ~Queued(w)
    <2>1. toWorker[w] = <<>> /\ toBackEnd[w] = <<AliveSignal>>
      BY DEF Init
    <2> DEFINE a == Len(toWorker[w])
               b == Len(toBackEnd[w])
    <2>2. a = 0 /\ b = 1
      BY <2>1
    <2> HIDE DEF a, b
    <2>3. a + b = 1
      BY <2>2
    <2> QED
      BY <1>1, <2>3 DEF Held, Queued, a, b
  <1> QED
    BY <1>1, <1>2 DEF Places

(***************************************************************************)
(* No worker of the load balancer is given a task while it has one, and    *)
(* none is forgotten.                                                      *)
(***************************************************************************)
THEOREM LoadBalanceWorkers == Spec => []WorkersOnce
  <1>1. Init => ServeInv /\ Places
    BY ServeInit, WorkersInit
  <1>2. ServeInv /\ Places /\ [Next]_vars => (ServeInv /\ Places)'
    BY ServeStep, WorkersStep
  <1>3. Places => WorkersOnce
    BY DEF Places, WorkersOnce, Held
  <1> QED
    BY <1>1, <1>2, <1>3, PTL DEF Spec


--------------------------------------------------------------------------------
(***************************************************************************)
(* The one message of each request.  The lines are the connections, each   *)
(* with its direction; About(k) are the messages on them that are about    *)
(* the request of client k.                                                *)
(***************************************************************************)
Lines == ({"toFrontEnd", "toClient"} \X Clients) \cup ({"toWorker", "toBackEnd"} \X Workers)
Item == TaskIDs \cup Job \cup {AliveSignal}

LinesOf(fe, tc, tw, be) ==
    [b \in Lines |-> IF b[1] = "toFrontEnd" THEN fe[b[2]]
                     ELSE IF b[1] = "toClient" THEN tc[b[2]]
                     ELSE IF b[1] = "toWorker" THEN tw[b[2]]
                     ELSE be[b[2]]]

Net == LinesOf(toFrontEnd, toClient, toWorker, toBackEnd)

OfClient(b) == b[1] \in {"toFrontEnd", "toClient"}
OwnerOf(b, e) == IF OfClient(b) THEN b[2] ELSE e.clientID
TaskOf(b, e) == IF OfClient(b) THEN e ELSE e.taskID

About(k) == {p \in Lines \X Item : OwnerOf(p[1], p[2]) = k}

Holds(f, k, b, e) == HasOne(Lines, f, About(k), b, e)
Free(f, k) == HasNone(Lines, f, About(k))

\* What the variables say of the connections is what the lines say.
Typed(fe, tc, tw, be) ==
    /\ fe \in [Clients -> Seq(TaskIDs)] /\ tc \in [Clients -> Seq(TaskIDs)]
    /\ tw \in [Workers -> Seq(Job)] /\ be \in [Workers -> Seq(Job \cup {AliveSignal})]

Laid(f, fe, tc, tw, be) ==
    /\ f \in [Lines -> Seq(Item)]
    /\ \A k \in Clients :
         /\ <<"toFrontEnd", k>> \in Lines /\ f[<<"toFrontEnd", k>>] = fe[k]
         /\ <<"toClient", k>> \in Lines /\ f[<<"toClient", k>>] = tc[k]
    /\ \A w \in Workers :
         /\ <<"toWorker", w>> \in Lines /\ f[<<"toWorker", w>>] = tw[w]
         /\ <<"toBackEnd", w>> \in Lines /\ f[<<"toBackEnd", w>>] = be[w]

LEMMA LinesFacts ==
    ASSUME NEW fe, NEW tc, NEW tw, NEW be, Typed(fe, tc, tw, be)
    PROVE  Laid(LinesOf(fe, tc, tw, be), fe, tc, tw, be)
  <1>1. Seq(TaskIDs) \subseteq Seq(Item) /\ Seq(Job) \subseteq Seq(Item)
        /\ Seq(Job \cup {AliveSignal}) \subseteq Seq(Item)
    BY DEF Item
  <1> HIDE DEF Item
  <1>2. ASSUME NEW b \in Lines
        PROVE  LinesOf(fe, tc, tw, be)[b] \in Seq(Item)
    <2>1. CASE b \in {"toFrontEnd", "toClient"} \X Clients
      BY <1>1, <2>1 DEF LinesOf, Typed
    <2>2. CASE b \in {"toWorker", "toBackEnd"} \X Workers
      BY <1>1, <2>2 DEF LinesOf, Typed
    <2> QED
      BY <2>1, <2>2 DEF Lines
  <1>3. LinesOf(fe, tc, tw, be) \in [Lines -> Seq(Item)]
    BY <1>2 DEF LinesOf
  <1>4. /\ \A k \in Clients : <<"toFrontEnd", k>> \in Lines /\ <<"toClient", k>> \in Lines
        /\ \A w \in Workers : <<"toWorker", w>> \in Lines /\ <<"toBackEnd", w>> \in Lines
    BY DEF Lines
  <1> QED
    BY <1>3, <1>4 DEF LinesOf, Laid

\* The lines before a step and after it.
LEMMA NetLaid == TypeOK => Laid(Net, toFrontEnd, toClient, toWorker, toBackEnd)
  BY LinesFacts DEF TypeOK, Typed, Net

LEMMA NextNetLaid == TypeOK' => Laid(Net', toFrontEnd', toClient', toWorker', toBackEnd')
  BY LinesFacts DEF TypeOK, Typed, Net

\* A line is one of the four.
LEMMA LineKinds ==
    ASSUME NEW b \in Lines
    PROVE  \/ \E k \in Clients : b = <<"toFrontEnd", k>> \/ b = <<"toClient", k>>
           \/ \E w \in Workers : b = <<"toWorker", w>> \/ b = <<"toBackEnd", w>>
  BY DEF Lines


(***************************************************************************)
(* What a step does to the requests: it leaves a client alone, or takes    *)
(* its one message along.                                                  *)
(***************************************************************************)
Untouched(k) ==
    /\ Kept(Lines, Net, Net', About(k))
    /\ clientState'[k] = clientState[k] /\ task'[k] = task[k]

OthersUntouched(k) == \A x \in Clients \ {k} : Untouched(x)

Asked(k) ==
    /\ clientState[k] = "ready" /\ clientState' = [clientState EXCEPT ![k] = "waiting"]
    /\ \E t \in TaskIDs : task' = [task EXCEPT ![k] = t]
    /\ Free(Net, k) => Holds(Net', k, <<"toFrontEnd", k>>, task'[k])
    /\ OthersUntouched(k)

Onward(c, d) ==
    \/ c[1] = "toFrontEnd" /\ \E w \in Workers : d = <<"toWorker", w>> /\ toWorker[w] = <<>>
    \/ \E w \in Workers : c = <<"toWorker", w>> /\ d = <<"toBackEnd", w>>
    \/ c[1] = "toBackEnd" /\ d[1] = "toClient"

Passed(k, c, e, d, x) ==
    /\ \A b, m : Holds(Net, k, b, m) => b = c /\ m = e /\ Holds(Net', k, d, x)
    /\ ~Free(Net, k)
    /\ TaskOf(d, x) = TaskOf(c, e)
    /\ Onward(c, d)
    /\ UNCHANGED <<clientState, task>>
    /\ OthersUntouched(k)

Collected(k) ==
    /\ clientState[k] = "waiting" /\ clientState' = [clientState EXCEPT ![k] = "ready"]
    /\ task' = [task EXCEPT ![k] = 0]
    /\ \A b, m : Holds(Net, k, b, m) => b = <<"toClient", k>> /\ Free(Net', k)
    /\ ~Free(Net, k)
    /\ OthersUntouched(k)

LEMMA AboutFacts ==
    ASSUME NEW k, NEW b \in Lines, NEW e \in Item
    PROVE  <<b, e>> \in About(k) <=> OwnerOf(b, e) = k
  BY DEF About

\* A line is the same when its variable is.
LEMMA SameLine ==
    ASSUME ServeInv, ServeInv', NEW b \in Lines,
           \A x \in Clients : b = <<"toFrontEnd", x>> => toFrontEnd'[x] = toFrontEnd[x],
           \A x \in Clients : b = <<"toClient", x>> => toClient'[x] = toClient[x],
           \A w \in Workers : b = <<"toWorker", w>> => toWorker'[w] = toWorker[w],
           \A w \in Workers : b = <<"toBackEnd", w>> => toBackEnd'[w] = toBackEnd[w]
    PROVE  Net'[b] = Net[b]
  <1> DEFINE f == Net
             g == Net'
  <1>1. /\ Laid(f, toFrontEnd, toClient, toWorker, toBackEnd)
        /\ Laid(g, toFrontEnd', toClient', toWorker', toBackEnd')
    BY NetLaid, NextNetLaid DEF ServeInv
  <1> HIDE DEF f, g
  <1>2. ASSUME NEW x \in Clients, b = <<"toFrontEnd", x>> PROVE g[b] = f[b]
    BY <1>1, <1>2 DEF Laid
  <1>3. ASSUME NEW x \in Clients, b = <<"toClient", x>> PROVE g[b] = f[b]
    BY <1>1, <1>3 DEF Laid
  <1>4. ASSUME NEW w \in Workers, b = <<"toWorker", w>> PROVE g[b] = f[b]
    BY <1>1, <1>4 DEF Laid
  <1>5. ASSUME NEW w \in Workers, b = <<"toBackEnd", w>> PROVE g[b] = f[b]
    BY <1>1, <1>5 DEF Laid
  <1>6. g[b] = f[b]
    BY <1>2, <1>3, <1>4, <1>5, LineKinds
  <1> QED
    BY <1>6 DEF f, g

\* A handler takes the head of line c and puts e in line d.
LEMMA Passes ==
    ASSUME NEW c, NEW d, NEW e, Passing(Lines, Item, Net, c, d, e, Net'),
           NEW k \in Clients, OwnerOf(c, Head(Net[c])) = k, OwnerOf(d, e) = k,
           TaskOf(d, e) = TaskOf(c, Head(Net[c])), Onward(c, d),
           UNCHANGED <<clientState, task>>
    PROVE  Passed(k, c, Head(Net[c]), d, e)
  <1>1. /\ Net \in [Lines -> Seq(Item)] /\ c \in Lines /\ Net[c] # <<>>
        /\ d \in Lines /\ e \in Item
    BY DEF Passing
  <1>2. Head(Net[c]) \in Item
    BY <1>1, TakeFacts
  <1>3. \A x : /\ <<c, Head(Net[c])>> \in About(x) <=> x = k
               /\ <<d, e>> \in About(x) <=> x = k
    BY <1>1, <1>2, AboutFacts
  <1>4. /\ ~Free(Net, k)
        /\ \A b, m : Holds(Net, k, b, m) => b = c /\ m = Head(Net[c]) /\ Holds(Net', k, d, e)
    <2>1. Moved(Lines, Net, c, Head(Net[c]), d, e, Net', About(k))
      BY <1>3, PassMine
    <2> QED
      BY <2>1 DEF Moved, Holds, Free
  <1>5. ASSUME NEW x \in Clients \ {k}
        PROVE  Kept(Lines, Net, Net', About(x))
    BY <1>3, PassOther
  <1> QED
    BY <1>4, <1>5 DEF Passed, OthersUntouched, Untouched

LEMMA RequestAsks ==
    ASSUME ServeInv, ServeInv', NEW k \in Clients, SendRequest(k)
    PROVE  Asked(k)
  <1> DEFINE c == <<"toFrontEnd", k>>
  <1>1. PICK t \in TaskIDs : /\ task' = [task EXCEPT ![k] = t]
                             /\ toFrontEnd' = [toFrontEnd EXCEPT ![k] = Append(@, t)]
    BY DEF SendRequest
  <1>2. toFrontEnd \in [Clients -> Seq(TaskIDs)] /\ task'[k] = t
    BY <1>1 DEF ServeInv, TypeOK
  <1>3. /\ Laid(Net, toFrontEnd, toClient, toWorker, toBackEnd)
        /\ Laid(Net', toFrontEnd', toClient', toWorker', toBackEnd')
    BY NetLaid, NextNetLaid DEF ServeInv
  <1>4. ASSUME NEW b \in Lines \ {c} PROVE Net'[b] = Net[b]
    <2>1. \A x \in Clients : b = <<"toFrontEnd", x>> => toFrontEnd'[x] = toFrontEnd[x]
      BY <1>1, <1>2
    <2> QED
      BY <2>1, SameLine DEF SendRequest
  <1>5. Putting(Lines, Item, Net, c, t, Net')
    <2>1. toFrontEnd'[k] = Append(toFrontEnd[k], t)
      BY <1>1, <1>2
    <2>2. c \in Lines /\ Net[c] = toFrontEnd[k] /\ Net'[c] = toFrontEnd'[k]
          /\ Net \in [Lines -> Seq(Item)] /\ t \in Item
      BY <1>3 DEF Laid, Item
    <2> QED
      BY <1>4, <2>1, <2>2 DEF Putting
  <1>6. \A x : <<c, t>> \in About(x) <=> x = k
    <2>1. c \in Lines /\ t \in Item /\ OwnerOf(c, t) = k
      BY <1>5 DEF Putting, OwnerOf, OfClient
    <2> QED
      BY <2>1, AboutFacts
  <1> HIDE DEF c
  <1>7. Free(Net, k) => Holds(Net', k, c, t)
    BY <1>5, <1>6, PutMine DEF Holds, Free
  <1>8. ASSUME NEW x \in Clients \ {k}
        PROVE  Untouched(x)
    <2>1. Kept(Lines, Net, Net', About(x))
      BY <1>5, <1>6, PutOther
    <2>2. clientState'[x] = clientState[x] /\ task'[x] = task[x]
      BY <1>1 DEF SendRequest, ServeInv, TypeOK
    <2> QED
      BY <2>1, <2>2 DEF Untouched
  <1> QED
    BY <1>1, <1>2, <1>7, <1>8 DEF Asked, OthersUntouched, SendRequest, c

LEMMA ResultCollects ==
    ASSUME ServeInv, ServeInv', NEW k \in Clients, ReceiveResult(k)
    PROVE  Collected(k)
  <1> DEFINE c == <<"toClient", k>>
             m == Head(Net[c])
  <1>1. toClient[k] # <<>> /\ toClient' = [toClient EXCEPT ![k] = Tail(@)]
    BY DEF ReceiveResult
  <1>2. toClient \in [Clients -> Seq(TaskIDs)]
    BY DEF ServeInv, TypeOK
  <1>3. /\ Laid(Net, toFrontEnd, toClient, toWorker, toBackEnd)
        /\ Laid(Net', toFrontEnd', toClient', toWorker', toBackEnd')
    BY NetLaid, NextNetLaid DEF ServeInv
  <1>4. ASSUME NEW b \in Lines \ {c} PROVE Net'[b] = Net[b]
    <2>1. \A x \in Clients : b = <<"toClient", x>> => toClient'[x] = toClient[x]
      BY <1>1, <1>2
    <2> QED
      BY <2>1, SameLine DEF ReceiveResult
  <1>5. Taking(Lines, Item, Net, c, Net')
    <2>1. toClient'[k] = Tail(toClient[k])
      BY <1>1, <1>2
    <2>2. c \in Lines /\ Net[c] = toClient[k] /\ Net'[c] = toClient'[k]
          /\ Net \in [Lines -> Seq(Item)]
      BY <1>3 DEF Laid
    <2> QED
      BY <1>1, <1>4, <2>1, <2>2 DEF Taking
  <1>6. \A x : <<c, m>> \in About(x) <=> x = k
    <2>1. c \in Lines /\ Net \in [Lines -> Seq(Item)] /\ Net[c] # <<>>
      BY <1>5 DEF Taking
    <2>2. OwnerOf(c, m) = k
      BY DEF OwnerOf, OfClient
    <2> HIDE DEF c
    <2>3. m \in Item
      BY <2>1, TakeFacts
    <2> QED
      BY <2>1, <2>2, <2>3, AboutFacts
  <1>7. /\ ~Free(Net, k)
        /\ \A b, e : Holds(Net, k, b, e) => b = c /\ Free(Net', k)
    <2> HIDE DEF c
    <2>1. Gone(Lines, Net, c, Head(Net[c]), Net', About(k))
      BY <1>5, <1>6, TakeMine
    <2> QED
      BY <2>1 DEF Gone, Holds, Free
  <1>8. ASSUME NEW x \in Clients \ {k}
        PROVE  Untouched(x)
    <2>1. Kept(Lines, Net, Net', About(x))
      <3> HIDE DEF c
      <3> QED
        BY <1>5, <1>6, TakeOther
    <2>2. clientState'[x] = clientState[x] /\ task'[x] = task[x]
      BY DEF ReceiveResult, ServeInv, TypeOK
    <2> QED
      BY <2>1, <2>2 DEF Untouched
  <1> QED
    BY <1>7, <1>8 DEF Collected, OthersUntouched, ReceiveResult


LEMMA ProcessPasses ==
    ASSUME ServeInv, ServeInv', NEW w \in Workers, Process(w)
    PROVE  \E k \in Clients : \E e, x : Passed(k, <<"toWorker", w>>, e, <<"toBackEnd", w>>, x)
  <1> DEFINE c == <<"toWorker", w>>
             d == <<"toBackEnd", w>>
             m == Head(toWorker[w])
  <1>1. /\ toWorker[w] # <<>>
        /\ toBackEnd' = [toBackEnd EXCEPT ![w] = Append(@, m)]
        /\ toWorker' = [toWorker EXCEPT ![w] = Tail(@)]
    BY DEF Process
  <1>2. /\ toWorker \in [Workers -> Seq(Job)]
        /\ toBackEnd \in [Workers -> Seq(Job \cup {AliveSignal})]
    BY DEF ServeInv, TypeOK
  <1>3. /\ Laid(Net, toFrontEnd, toClient, toWorker, toBackEnd)
        /\ Laid(Net', toFrontEnd', toClient', toWorker', toBackEnd')
    BY NetLaid, NextNetLaid DEF ServeInv
  <1>4. m \in Job
    BY <1>1, <1>2, TakeFacts
  <1> HIDE DEF m
  <1>5. ASSUME NEW b \in Lines \ {c, d} PROVE Net'[b] = Net[b]
    <2>1. /\ \A x \in Workers : b = <<"toWorker", x>> => toWorker'[x] = toWorker[x]
          /\ \A x \in Workers : b = <<"toBackEnd", x>> => toBackEnd'[x] = toBackEnd[x]
      BY <1>1, <1>2
    <2> QED
      BY <2>1, SameLine DEF Process
  <1>6. Passing(Lines, Item, Net, c, d, m, Net') /\ Head(Net[c]) = m
    <2>1. toWorker'[w] = Tail(toWorker[w]) /\ toBackEnd'[w] = Append(toBackEnd[w], m)
      BY <1>1, <1>2
    <2>2. /\ c \in Lines /\ Net[c] = toWorker[w] /\ Net'[c] = toWorker'[w]
          /\ d \in Lines /\ Net[d] = toBackEnd[w] /\ Net'[d] = toBackEnd'[w]
          /\ Net \in [Lines -> Seq(Item)]
      BY <1>3 DEF Laid
    <2>3. m \in Item /\ c # d
      BY <1>4 DEF Item
    <2> QED
      BY <1>1, <1>5, <2>1, <2>2, <2>3 DEF Passing, m
  <1>7. m.clientID \in Clients
    BY <1>4 DEF Job
  <1>8. /\ OwnerOf(c, m) = m.clientID /\ OwnerOf(d, m) = m.clientID
        /\ TaskOf(c, m) = TaskOf(d, m)
        /\ Onward(c, d)
    BY DEF OwnerOf, OfClient, TaskOf, Onward
  <1>9. Passed(m.clientID, c, m, d, m)
    <2> HIDE DEF c, d
    <2>1. UNCHANGED <<clientState, task>>
      BY DEF Process, clientVars
    <2> QED
      BY <1>6, <1>7, <1>8, <2>1, Passes
  <1> QED
    BY <1>7, <1>9

LEMMA BackEndPasses ==
    ASSUME ServeInv, ServeInv', NEW w \in Workers, ServeBackEnd(w)
    PROVE  \/ \A k \in Clients : Untouched(k)
           \/ \E k \in Clients : \E e, x : Passed(k, <<"toBackEnd", w>>, e, <<"toClient", k>>, x)
  <1> DEFINE c == <<"toBackEnd", w>>
             m == Head(toBackEnd[w])
  <1>1. /\ toBackEnd[w] # <<>> /\ toBackEnd' = [toBackEnd EXCEPT ![w] = Tail(@)]
        /\ UNCHANGED <<clientState, task, toFrontEnd, toWorker>>
    BY DEF ServeBackEnd, clientVars
  <1>2. /\ toBackEnd \in [Workers -> Seq(Job \cup {AliveSignal})]
        /\ toClient \in [Clients -> Seq(TaskIDs)]
    BY DEF ServeInv, TypeOK
  <1>3. /\ Laid(Net, toFrontEnd, toClient, toWorker, toBackEnd)
        /\ Laid(Net', toFrontEnd', toClient', toWorker', toBackEnd')
    BY NetLaid, NextNetLaid DEF ServeInv
  <1>4. m \in Job \cup {AliveSignal}
    BY <1>1, <1>2, TakeFacts
  <1>a. CASE m.clientID = ALIVE
    <2>1. UNCHANGED toClient
      BY <1>a DEF ServeBackEnd
    <2>2. ASSUME NEW b \in Lines \ {c} PROVE Net'[b] = Net[b]
      <3>1. \A x \in Workers : b = <<"toBackEnd", x>> => toBackEnd'[x] = toBackEnd[x]
        BY <1>1, <1>2
      <3> QED
        BY <1>1, <2>1, <3>1, SameLine
    <2>3. Taking(Lines, Item, Net, c, Net') /\ Head(Net[c]) = m
      <3>1. toBackEnd'[w] = Tail(toBackEnd[w])
        BY <1>1, <1>2
      <3>2. c \in Lines /\ Net[c] = toBackEnd[w] /\ Net'[c] = toBackEnd'[w]
            /\ Net \in [Lines -> Seq(Item)]
        BY <1>3 DEF Laid
      <3> QED
        BY <1>1, <2>2, <3>1, <3>2 DEF Taking
    <2>4. \A k \in Clients : <<c, m>> \notin About(k)
      BY <1>a, ALIVEAssumption DEF About, OwnerOf, OfClient
    <2> HIDE DEF c, m
    <2>5. \A k \in Clients : Kept(Lines, Net, Net', About(k))
      BY <2>3, <2>4, TakeOther
    <2> QED
      BY <1>1, <2>5 DEF Untouched
  <1>b. CASE m.clientID # ALIVE
    <2> DEFINE k == m.clientID
               d == <<"toClient", k>>
               t == m.taskID
    <2>1. k \in Clients /\ t \in TaskIDs
      BY <1>4, <1>b DEF Job, AliveSignal
    <2>2. toClient' = [toClient EXCEPT ![k] = Append(@, t)]
      BY <1>b DEF ServeBackEnd
    <2>3. OwnerOf(c, m) = k /\ TaskOf(c, m) = t
      BY DEF OwnerOf, OfClient, TaskOf
    <2> HIDE DEF m, k, t
    <2>4. ASSUME NEW b \in Lines \ {c, d} PROVE Net'[b] = Net[b]
      <3>1. /\ \A x \in Workers : b = <<"toBackEnd", x>> => toBackEnd'[x] = toBackEnd[x]
            /\ \A x \in Clients : b = <<"toClient", x>> => toClient'[x] = toClient[x]
        BY <1>1, <1>2, <2>2
      <3> QED
        BY <1>1, <3>1, SameLine
    <2>5. Passing(Lines, Item, Net, c, d, t, Net') /\ Head(Net[c]) = m
      <3>1. toBackEnd'[w] = Tail(toBackEnd[w]) /\ toClient'[k] = Append(toClient[k], t)
        BY <1>1, <1>2, <2>1, <2>2
      <3>2. /\ c \in Lines /\ Net[c] = toBackEnd[w] /\ Net'[c] = toBackEnd'[w]
            /\ d \in Lines /\ Net[d] = toClient[k] /\ Net'[d] = toClient'[k]
            /\ Net \in [Lines -> Seq(Item)]
        BY <1>3, <2>1 DEF Laid
      <3>3. t \in Item /\ c # d
        BY <2>1 DEF Item
      <3> QED
        BY <1>1, <2>4, <3>1, <3>2, <3>3 DEF Passing, m
    <2>6. OwnerOf(d, t) = k /\ TaskOf(d, t) = t /\ Onward(c, d)
      BY DEF OwnerOf, OfClient, TaskOf, Onward
    <2>7. Passed(k, c, m, d, t)
      <3> HIDE DEF c, d
      <3> QED
        BY <1>1, <2>1, <2>3, <2>5, <2>6, Passes
    <2> QED
      BY <2>1, <2>7
  <1> QED
    BY <1>a, <1>b

\* The worker that gets the task is at the front of the queue: it has nothing.
LEMMA FrontEndPasses ==
    ASSUME ServeInv, ServeInv', Places, NEW k \in Clients, ServeFrontEnd(k)
    PROVE  \E w \in Workers : \E e, x : Passed(k, <<"toFrontEnd", k>>, e, <<"toWorker", w>>, x)
  <1>1. workReadyQueue # <<>> /\ workReadyQueue \in Seq(Workers)
    BY DEF ServeFrontEnd, ServeInv, FrontHasWorker, TypeOK
  <1> PICK w \in Workers : w = Head(workReadyQueue)
    BY <1>1, TakeFacts
  <1> DEFINE c == <<"toFrontEnd", k>>
             d == <<"toWorker", w>>
             m == Head(toFrontEnd[k])
             x == [clientID |-> k, taskID |-> m]
  <1>2. /\ toFrontEnd[k] # <<>> /\ toFrontEnd' = [toFrontEnd EXCEPT ![k] = Tail(@)]
        /\ toWorker' = [toWorker EXCEPT ![w] = Append(@, x)]
        /\ UNCHANGED <<clientState, task, toClient, toBackEnd>>
    BY DEF ServeFrontEnd, clientVars
  <1>3. toFrontEnd \in [Clients -> Seq(TaskIDs)] /\ toWorker \in [Workers -> Seq(Job)]
    BY DEF ServeInv, TypeOK
  <1>4. /\ Laid(Net, toFrontEnd, toClient, toWorker, toBackEnd)
        /\ Laid(Net', toFrontEnd', toClient', toWorker', toBackEnd')
    BY NetLaid, NextNetLaid DEF ServeInv
  <1>5. m \in TaskIDs
    BY <1>2, <1>3, TakeFacts
  <1>6. toWorker[w] = <<>>
    <2>1. Queued(w)
      BY <1>1, TakeFacts DEF Queued
    <2>2. Held(w) = 0
      BY <2>1 DEF Places
    <2> DEFINE a == Len(toWorker[w])
               b == Len(toBackEnd[w])
    <2>3. a \in Nat /\ b \in Nat /\ a + b = 0
      BY <2>2, HeldNat DEF Held, ServeInv
    <2> HIDE DEF a, b
    <2>4. a = 0
      BY <2>3
    <2> QED
      BY <1>3, <2>4 DEF a
  <1>7. ASSUME NEW b \in Lines \ {c, d} PROVE Net'[b] = Net[b]
    <2>1. /\ \A y \in Clients : b = <<"toFrontEnd", y>> => toFrontEnd'[y] = toFrontEnd[y]
          /\ \A y \in Workers : b = <<"toWorker", y>> => toWorker'[y] = toWorker[y]
      BY <1>2, <1>3
    <2> QED
      BY <1>2, <2>1, SameLine
  <1>8. x \in Job /\ OwnerOf(d, x) = k /\ TaskOf(d, x) = m /\ OwnerOf(c, m) = k /\ TaskOf(c, m) = m
    BY <1>5 DEF Job, OwnerOf, OfClient, TaskOf
  <1>9. Onward(c, d)
    BY <1>6 DEF Onward
  <1> HIDE DEF x, m
  <1>10. Passing(Lines, Item, Net, c, d, x, Net') /\ Head(Net[c]) = m
    <2>1. toFrontEnd'[k] = Tail(toFrontEnd[k]) /\ toWorker'[w] = Append(toWorker[w], x)
      BY <1>2, <1>3
    <2>2. /\ c \in Lines /\ Net[c] = toFrontEnd[k] /\ Net'[c] = toFrontEnd'[k]
          /\ d \in Lines /\ Net[d] = toWorker[w] /\ Net'[d] = toWorker'[w]
          /\ Net \in [Lines -> Seq(Item)]
      BY <1>4 DEF Laid
    <2>3. x \in Item /\ c # d
      BY <1>8 DEF Item
    <2> QED
      BY <1>2, <1>7, <2>1, <2>2, <2>3 DEF Passing, m
  <1>11. Passed(k, c, m, d, x)
    <2> HIDE DEF c, d
    <2> QED
      BY <1>2, <1>8, <1>9, <1>10, Passes
  <1> QED
    BY <1>11

\* A step of the load balancer, as the requests see it.
LEMMA RequestSteps ==
    ServeInv /\ ServeInv' /\ Places /\ [Next]_vars =>
      \/ \A k \in Clients : Untouched(k)
      \/ \E k \in Clients : \/ Asked(k) \/ Collected(k)
                            \/ \E c, e, d, x : Passed(k, c, e, d, x)
  <1> SUFFICES ASSUME ServeInv, ServeInv', Places, [Next]_vars
               PROVE  \/ \A k \in Clients : Untouched(k)
                      \/ \E k \in Clients : \/ Asked(k) \/ Collected(k)
                                            \/ \E c, e, d, x : Passed(k, c, e, d, x)
    OBVIOUS
  <1>1. CASE UNCHANGED <<clientVars, toFrontEnd, toClient, toBackEnd, toWorker>>
    <2>1. Net' = Net
      BY <1>1 DEF Net
    <2> QED
      BY <1>1, <2>1 DEF Untouched, Kept, clientVars
  <1>2. ASSUME NEW k \in Clients, SendRequest(k) \/ ReceiveResult(k) \/ ServeFrontEnd(k)
        PROVE  Asked(k) \/ Collected(k) \/ \E c, e, d, x : Passed(k, c, e, d, x)
    BY <1>2, RequestAsks, ResultCollects, FrontEndPasses
  <1>3. ASSUME NEW w \in Workers, Process(w) \/ ServeBackEnd(w)
        PROVE  \/ \A k \in Clients : Untouched(k)
               \/ \E k \in Clients : \E c, e, d, x : Passed(k, c, e, d, x)
    BY <1>3, ProcessPasses, BackEndPasses
  <1>4. Poll \/ UNCHANGED vars => UNCHANGED <<clientVars, toFrontEnd, toClient, toBackEnd, toWorker>>
    BY DEF Poll, vars
  <1> QED
    BY <1>1, <1>2, <1>3, <1>4 DEF Next


--------------------------------------------------------------------------------
(***************************************************************************)
(* The invariant: a waiting client has one message, about its task, and a  *)
(* client that is not waiting has none.                                    *)
(***************************************************************************)
OneRequest(k) ==
    IF clientState[k] = "waiting"
    THEN \E b, e : Holds(Net, k, b, e) /\ TaskOf(b, e) = task[k]
    ELSE Free(Net, k)

Requested == \A k \in Clients : OneRequest(k)

LEMMA HoldsOrFree ==
    ASSUME NEW k, NEW b, NEW e, Holds(Net, k, b, e)
    PROVE  /\ ~Free(Net, k) /\ b \in Lines
           /\ \A c, x : Holds(Net, k, c, x) => c = b /\ x = e
  BY OneIsUnique DEF Holds, Free, HasOne

LEMMA UntouchedRequest ==
    ASSUME NEW k, OneRequest(k), Untouched(k)
    PROVE  OneRequest(k)'
  BY DEF OneRequest, Untouched, Kept, Holds, Free

LEMMA RequestedStep == ServeInv /\ ServeInv' /\ Places /\ Requested /\ [Next]_vars => Requested'
  <1> SUFFICES ASSUME ServeInv, ServeInv', Places, Requested, [Next]_vars, NEW k \in Clients
               PROVE  OneRequest(k)'
    BY DEF Requested
  <1>0. /\ OneRequest(k) /\ k \in DOMAIN clientState /\ k \in DOMAIN task
    BY DEF Requested, ServeInv, TypeOK
  <1>1. CASE Untouched(k)
    BY <1>0, <1>1, UntouchedRequest
  <1>2. CASE Asked(k)
    <2>1. Free(Net, k) /\ clientState'[k] = "waiting"
      BY <1>0, <1>2 DEF OneRequest, Asked
    <2>2. Holds(Net', k, <<"toFrontEnd", k>>, task'[k])
      BY <1>2, <2>1 DEF Asked
    <2>3. TaskOf(<<"toFrontEnd", k>>, task'[k]) = task'[k]
      BY DEF TaskOf, OfClient
    <2> QED
      BY <2>1, <2>2, <2>3 DEF OneRequest
  <1>3. CASE Collected(k)
    <2>1. Free(Net', k) /\ clientState'[k] = "ready"
      BY <1>0, <1>3 DEF OneRequest, Collected
    <2> QED
      BY <2>1 DEF OneRequest
  <1>4. ASSUME NEW c, NEW e, NEW d, NEW x, Passed(k, c, e, d, x)
        PROVE  OneRequest(k)'
    <2>1. PICK b, m : Holds(Net, k, b, m) /\ TaskOf(b, m) = task[k] /\ clientState[k] = "waiting"
      BY <1>0, <1>4 DEF OneRequest, Passed
    <2>2. b = c /\ m = e /\ Holds(Net', k, d, x) /\ TaskOf(d, x) = task'[k]
          /\ clientState'[k] = "waiting"
      BY <1>4, <2>1 DEF Passed
    <2> QED
      BY <2>2 DEF OneRequest
  <1>5. ASSUME NEW y \in Clients, NEW c, NEW e, NEW d, NEW x,
               Asked(y) \/ Collected(y) \/ Passed(y, c, e, d, x), y # k
        PROVE  Untouched(k)
    BY <1>5 DEF Asked, Collected, Passed, OthersUntouched
  <1> QED
    BY <1>1, <1>2, <1>3, <1>4, <1>5, RequestSteps

LEMMA RequestedInit == Init => Requested
  <1> SUFFICES ASSUME Init, NEW k \in Clients PROVE OneRequest(k)
    BY DEF Requested
  <1>1. Laid(Net, toFrontEnd, toClient, toWorker, toBackEnd)
    BY ServeInit, NetLaid DEF ServeInv
  <1>2. ASSUME NEW b \in Lines, NEW j \in DOMAIN Net[b]
        PROVE  <<b, Net[b][j]>> \notin About(k)
    <2>0. DOMAIN <<>> = {}
      OBVIOUS
    <2>1. ASSUME NEW x \in Clients, b = <<"toFrontEnd", x>> \/ b = <<"toClient", x>>
          PROVE  FALSE
      <3>0. toFrontEnd[x] = <<>> /\ toClient[x] = <<>>
        BY DEF Init
      <3>1. Net[b] = <<>>
        BY <1>1, <2>1, <3>0 DEF Laid
      <3> QED
        BY <1>2, <2>0, <3>1
    <2>2. ASSUME NEW w \in Workers, b = <<"toWorker", w>>
          PROVE  FALSE
      <3>1. Net[b] = <<>>
        BY <1>1, <2>2 DEF Laid, Init
      <3> QED
        BY <1>2, <2>0, <3>1
    <2>3. ASSUME NEW w \in Workers, b = <<"toBackEnd", w>>
          PROVE  <<b, Net[b][j]>> \notin About(k)
      <3>1. Net[b] = <<AliveSignal>>
        BY <1>1, <2>3 DEF Laid, Init
      <3>2. Net[b][j] = AliveSignal
        BY <3>1
      <3>3. OwnerOf(b, AliveSignal) = ALIVE
        BY <2>3 DEF OwnerOf, OfClient, AliveSignal
      <3> QED
        BY <3>2, <3>3, ALIVEAssumption DEF About
    <2> QED
      BY <2>1, <2>2, <2>3, LineKinds
  <1>3. Free(Net, k)
    BY <1>2 DEF Free, HasNone
  <1> QED
    BY <1>3 DEF OneRequest, Init

\* The entries that TasksOf collects.
LEMMA EntryPlaces ==
    ASSUME ServeInv, NEW k \in Clients
    PROVE  /\ \A b \in Lines : \A i \in DOMAIN Net[b] :
                 <<b, Net[b][i]>> \in About(k)
                    => <<b[1], b[2], i, TaskOf(b, Net[b][i])>> \in TasksOf(k)
           /\ \A p \in TasksOf(k) : \E b \in Lines : \E i \in DOMAIN Net[b] :
                 /\ <<b, Net[b][i]>> \in About(k)
                 /\ p = <<b[1], b[2], i, TaskOf(b, Net[b][i])>>
  <1> DEFINE W == {x \in UNION {Entries("toWorker", toWorker, w)
                                \cup Entries("toBackEnd", toBackEnd, w) : w \in Workers} :
                     x[4].clientID = k}
  <1>0. Laid(Net, toFrontEnd, toClient, toWorker, toBackEnd)
    BY NetLaid DEF ServeInv
  <1>1. TasksOf(k) = Entries("toFrontEnd", toFrontEnd, k) \cup Entries("toClient", toClient, k)
                     \cup {<<e[1], e[2], e[3], e[4].taskID>> : e \in W}
    BY DEF TasksOf
  <1>2. \A n, f, x, p : p \in Entries(n, f, x) <=> \E i \in DOMAIN f[x] : p = <<n, x, i, f[x][i]>>
    BY DEF Entries
  <1>3. \A x : x \in W <=> /\ \E w \in Workers : \/ x \in Entries("toWorker", toWorker, w)
                                                 \/ x \in Entries("toBackEnd", toBackEnd, w)
                           /\ x[4].clientID = k
    OBVIOUS
  <1> HIDE DEF W
  <1>4. ASSUME NEW b \in Lines, NEW i \in DOMAIN Net[b], <<b, Net[b][i]>> \in About(k)
        PROVE  <<b[1], b[2], i, TaskOf(b, Net[b][i])>> \in TasksOf(k)
    <2>0. OwnerOf(b, Net[b][i]) = k
      BY <1>4 DEF About
    <2>1. ASSUME NEW x \in Clients, b = <<"toFrontEnd", x>>
          PROVE  <<b[1], b[2], i, TaskOf(b, Net[b][i])>> \in Entries("toFrontEnd", toFrontEnd, k)
      BY <1>0, <1>2, <2>0, <2>1 DEF Laid, OwnerOf, OfClient, TaskOf
    <2>2. ASSUME NEW x \in Clients, b = <<"toClient", x>>
          PROVE  <<b[1], b[2], i, TaskOf(b, Net[b][i])>> \in Entries("toClient", toClient, k)
      BY <1>0, <1>2, <2>0, <2>2 DEF Laid, OwnerOf, OfClient, TaskOf
    <2>3. ASSUME NEW w \in Workers, b = <<"toWorker", w>> \/ b = <<"toBackEnd", w>>
          PROVE  <<b[1], b[2], i, TaskOf(b, Net[b][i])>> \in TasksOf(k)
      <3> DEFINE e == <<b[1], b[2], i, Net[b][i]>>
      <3>1. e \in Entries("toWorker", toWorker, w) \/ e \in Entries("toBackEnd", toBackEnd, w)
        <4>1. CASE b = <<"toWorker", w>>
          <5>1. Net[b] = toWorker[w]
            BY <1>0, <4>1 DEF Laid
          <5>2. e = <<"toWorker", w, i, toWorker[w][i]>> /\ i \in DOMAIN toWorker[w]
            BY <4>1, <5>1
          <5> HIDE DEF e
          <5> QED
            BY <1>2, <5>2
        <4>2. CASE b = <<"toBackEnd", w>>
          <5>1. Net[b] = toBackEnd[w]
            BY <1>0, <4>2 DEF Laid
          <5>2. e = <<"toBackEnd", w, i, toBackEnd[w][i]>> /\ i \in DOMAIN toBackEnd[w]
            BY <4>2, <5>1
          <5> HIDE DEF e
          <5> QED
            BY <1>2, <5>2
        <4> QED
          BY <2>3, <4>1, <4>2
      <3>2. e[4].clientID = k /\ TaskOf(b, Net[b][i]) = e[4].taskID
        BY <2>0, <2>3 DEF OwnerOf, OfClient, TaskOf
      <3>3. e \in W
        BY <1>3, <3>1, <3>2
      <3> QED
        BY <1>1, <3>2, <3>3
    <2> QED
      BY <1>1, <2>1, <2>2, <2>3, LineKinds
  <1>5. ASSUME NEW p \in TasksOf(k)
        PROVE  \E b \in Lines : \E i \in DOMAIN Net[b] :
                 /\ <<b, Net[b][i]>> \in About(k)
                 /\ p = <<b[1], b[2], i, TaskOf(b, Net[b][i])>>
    <2>0. ASSUME NEW b \in Lines, NEW i \in DOMAIN Net[b], OwnerOf(b, Net[b][i]) = k
          PROVE  <<b, Net[b][i]>> \in About(k)
      <3>1. Net[b] \in Seq(Item)
        BY <1>0 DEF Laid
      <3>2. Net[b][i] \in Item
        BY <3>1
      <3> QED
        BY <2>0, <3>2, AboutFacts
    <2>1. CASE p \in Entries("toFrontEnd", toFrontEnd, k)
      <3> DEFINE b == <<"toFrontEnd", k>>
      <3>1. b \in Lines /\ Net[b] = toFrontEnd[k] /\ OfClient(b)
        BY <1>0 DEF Laid, OfClient
      <3>2. PICK i \in DOMAIN Net[b] : p = <<"toFrontEnd", k, i, Net[b][i]>>
        BY <1>2, <2>1, <3>1
      <3>3. OwnerOf(b, Net[b][i]) = k /\ TaskOf(b, Net[b][i]) = Net[b][i]
        BY <3>1 DEF OwnerOf, TaskOf
      <3> QED
        BY <2>0, <3>1, <3>2, <3>3
    <2>2. CASE p \in Entries("toClient", toClient, k)
      <3> DEFINE b == <<"toClient", k>>
      <3>1. b \in Lines /\ Net[b] = toClient[k] /\ OfClient(b)
        BY <1>0 DEF Laid, OfClient
      <3>2. PICK i \in DOMAIN Net[b] : p = <<"toClient", k, i, Net[b][i]>>
        BY <1>2, <2>2, <3>1
      <3>3. OwnerOf(b, Net[b][i]) = k /\ TaskOf(b, Net[b][i]) = Net[b][i]
        BY <3>1 DEF OwnerOf, TaskOf
      <3> QED
        BY <2>0, <3>1, <3>2, <3>3
    <2>3. ASSUME NEW e \in W, p = <<e[1], e[2], e[3], e[4].taskID>>
          PROVE  \E b \in Lines : \E i \in DOMAIN Net[b] :
                   /\ <<b, Net[b][i]>> \in About(k)
                   /\ p = <<b[1], b[2], i, TaskOf(b, Net[b][i])>>
      <3> PICK w \in Workers : \/ e \in Entries("toWorker", toWorker, w)
                               \/ e \in Entries("toBackEnd", toBackEnd, w)
        BY <1>3
      <3>1. PICK b \in {<<"toWorker", w>>, <<"toBackEnd", w>>} :
              \E i \in DOMAIN Net[b] : e = <<b[1], b[2], i, Net[b][i]>>
        BY <1>0, <1>2 DEF Laid
      <3> PICK i \in DOMAIN Net[b] : e = <<b[1], b[2], i, Net[b][i]>>
        BY <3>1
      <3>2. b \in Lines
        BY <1>0 DEF Laid
      <3>3. e[4].clientID = k
        BY <1>3
      <3>4. OwnerOf(b, Net[b][i]) = k /\ TaskOf(b, Net[b][i]) = e[4].taskID
        BY <3>3 DEF OwnerOf, OfClient, TaskOf
      <3> QED
        BY <2>0, <2>3, <3>2, <3>4
    <2> QED
      BY <1>1, <2>1, <2>2, <2>3
  <1> QED
    BY <1>4, <1>5

LEMMA RequestsFollow == ServeInv /\ Requested => RequestsOnce
  <1> SUFFICES ASSUME ServeInv, NEW k \in Clients, OneRequest(k)
               PROVE  IF clientState[k] = "waiting"
                      THEN \E p \in TasksOf(k) : TasksOf(k) = {p} /\ p[4] = task[k]
                      ELSE TasksOf(k) = {}
    BY DEF RequestsOnce, Requested
  <1>1. CASE clientState[k] = "waiting"
    <2> PICK b, e : Holds(Net, k, b, e) /\ TaskOf(b, e) = task[k]
      BY <1>1 DEF OneRequest
    <2> PICK i \in DOMAIN Net[b] : /\ Net[b][i] = e /\ b \in Lines
                                   /\ OnlyOne(Lines, Net, About(k), b, i)
      BY DEF Holds, HasOne
    <2> DEFINE p == <<b[1], b[2], i, TaskOf(b, e)>>
    <2>1. p \in TasksOf(k)
      BY EntryPlaces DEF OnlyOne
    <2>2. ASSUME NEW q \in TasksOf(k) PROVE q = p
      <3> PICK c \in Lines : \E j \in DOMAIN Net[c] :
               /\ <<c, Net[c][j]>> \in About(k)
               /\ q = <<c[1], c[2], j, TaskOf(c, Net[c][j])>>
        BY EntryPlaces
      <3> PICK j \in DOMAIN Net[c] :
               /\ <<c, Net[c][j]>> \in About(k)
               /\ q = <<c[1], c[2], j, TaskOf(c, Net[c][j])>>
        OBVIOUS
      <3> QED
        BY DEF OnlyOne
    <2> QED
      BY <1>1, <2>1, <2>2
  <1>2. CASE clientState[k] # "waiting"
    BY <1>2, EntryPlaces DEF OneRequest, Free, HasNone
  <1> QED
    BY <1>1, <1>2

(***************************************************************************)
(* The load balancer keeps every request: a waiting client has exactly one *)
(* message on its way, which names its task.                               *)
(***************************************************************************)
THEOREM LoadBalanceRequests == Spec => []RequestsOnce
  <1> DEFINE Inv == ServeInv /\ Places /\ Requested
  <1>1. Init => Inv
    BY ServeInit, WorkersInit, RequestedInit
  <1>2. Inv /\ [Next]_vars => Inv'
    BY ServeStep, WorkersStep, RequestedStep
  <1>3. Inv => RequestsOnce
    BY RequestsFollow
  <1> HIDE DEF Inv
  <1> QED
    BY <1>1, <1>2, <1>3, PTL DEF Spec


--------------------------------------------------------------------------------
(***************************************************************************)
(* The refinement.  The line a message is on says what became of its       *)
(* request.                                                                *)
(***************************************************************************)
Outcome(b) ==
    IF b[1] = "toFrontEnd" THEN "open" ELSE IF b[1] = "toWorker" THEN "running" ELSE "served"

StatusIs(k) ==
    /\ \A b, e : Holds(Net, k, b, e) => /\ StatusOf(k) = Outcome(b)
                                        /\ Serving(k) = {w \in Workers : b = <<"toWorker", w>>}
    /\ Free(Net, k) => StatusOf(k) = "idle" /\ Serving(k) = {}

LEMMA StatusFollows ==
    ASSUME ServeInv, NEW k \in Clients, OneRequest(k)
    PROVE  StatusIs(k)
  <1>0. Laid(Net, toFrontEnd, toClient, toWorker, toBackEnd)
    BY NetLaid DEF ServeInv
  <1>a. ASSUME NEW b \in Lines, NEW i \in DOMAIN Net[b]
        PROVE  <<b, Net[b][i]>> \in About(k) <=> OwnerOf(b, Net[b][i]) = k
    <2>1. Net[b] \in Seq(Item)
      BY <1>0 DEF Laid
    <2>2. Net[b][i] \in Item
      BY <2>1
    <2> QED
      BY <2>2, AboutFacts
  \* A worker serves the client when the line to it has a message about it.
  <1>1. ASSUME NEW w \in Workers
        PROVE  w \in Serving(k) <=> \E i \in DOMAIN Net[<<"toWorker", w>>] :
                     <<<<"toWorker", w>>, Net[<<"toWorker", w>>][i]>> \in About(k)
    <2> DEFINE b == <<"toWorker", w>>
    <2>1. b \in Lines /\ Net[b] = toWorker[w] /\ \A m : OwnerOf(b, m) = m.clientID
      BY <1>0 DEF Laid, OwnerOf, OfClient
    <2> HIDE DEF b
    <2>2. w \in Serving(k) <=> \E i \in DOMAIN Net[b] : OwnerOf(b, Net[b][i]) = k
      BY <2>1 DEF Serving
    <2> QED
      BY <1>a, <2>1, <2>2 DEF b
  \* It is answered when a line on the way back has one.
  <1>b. ASSUME Answered(k)
        PROVE  \E b \in Lines : \E i \in DOMAIN Net[b] :
                 b[1] \in {"toClient", "toBackEnd"} /\ <<b, Net[b][i]>> \in About(k)
    <2>1. CASE toClient[k] # <<>>
      <3> DEFINE c == <<"toClient", k>>
      <3>1. c \in Lines /\ Net[c] = toClient[k] /\ toClient[k] \in Seq(TaskIDs)
        BY <1>0 DEF Laid, ServeInv, TypeOK
      <3>2. c[1] \in {"toClient", "toBackEnd"} /\ \A m : OwnerOf(c, m) = k
        BY DEF OwnerOf, OfClient
      <3> HIDE DEF c
      <3>3. 1 \in DOMAIN Net[c]
        BY <2>1, <3>1, TakeFacts
      <3> QED
        BY <1>a, <3>1, <3>2, <3>3
    <2>2. ASSUME NEW w \in Workers, NEW j \in DOMAIN toBackEnd[w], toBackEnd[w][j].clientID = k
          PROVE  \E b \in Lines : \E i \in DOMAIN Net[b] :
                   b[1] \in {"toClient", "toBackEnd"} /\ <<b, Net[b][i]>> \in About(k)
      <3> DEFINE c == <<"toBackEnd", w>>
      <3>1. c \in Lines /\ Net[c] = toBackEnd[w]
        BY <1>0 DEF Laid
      <3>2. c[1] \in {"toClient", "toBackEnd"} /\ \A m : OwnerOf(c, m) = m.clientID
        BY DEF OwnerOf, OfClient
      <3> HIDE DEF c
      <3> QED
        BY <1>a, <2>2, <3>1, <3>2
    <2> QED
      BY <1>b, <2>1, <2>2 DEF Answered
  <1>2. ASSUME Free(Net, k) PROVE Serving(k) = {} /\ ~Answered(k) /\ clientState[k] # "waiting"
    <2>1. ASSUME NEW w \in Workers PROVE w \notin Serving(k)
      <3>1. <<"toWorker", w>> \in Lines
        BY <1>0 DEF Laid
      <3> QED
        BY <1>1, <1>2, <3>1 DEF Free, HasNone
    <2>2. clientState[k] # "waiting"
      BY <1>2, HoldsOrFree DEF OneRequest
    <2>3. ~Answered(k)
      BY <1>2, <1>b DEF Free, HasNone
    <2> QED
      BY <2>1, <2>2, <2>3 DEF Serving
  <1>3. ASSUME NEW b, NEW e, Holds(Net, k, b, e)
        PROVE  /\ StatusOf(k) = Outcome(b)
               /\ Serving(k) = {w \in Workers : b = <<"toWorker", w>>}
    <2> PICK i \in DOMAIN Net[b] : /\ Net[b][i] = e /\ b \in Lines
                                   /\ OnlyOne(Lines, Net, About(k), b, i)
      BY <1>3 DEF Holds, HasOne
    <2>1. clientState[k] = "waiting"
      BY <1>3, HoldsOrFree DEF OneRequest
    <2>2. ASSUME NEW w \in Workers PROVE w \in Serving(k) <=> b = <<"toWorker", w>>
      <3>1. <<"toWorker", w>> \in Lines
        BY <1>0 DEF Laid
      <3> QED
        BY <1>1, <3>1 DEF OnlyOne
    <2>3. Serving(k) = {w \in Workers : b = <<"toWorker", w>>}
      BY <2>2 DEF Serving
    <2>a. Answered(k) => b[1] \in {"toClient", "toBackEnd"}
      BY <1>b DEF OnlyOne
    <2>4. CASE \E w \in Workers : b = <<"toWorker", w>>
      <3>1. Serving(k) # {} /\ Outcome(b) = "running" /\ ~Answered(k)
        BY <2>3, <2>a, <2>4 DEF Outcome
      <3> QED
        BY <2>1, <2>3, <3>1 DEF StatusOf
    <2>5. CASE b[1] \in {"toClient", "toBackEnd"}
      <3>1. Serving(k) = {} /\ Outcome(b) = "served"
        BY <2>3, <2>5 DEF Outcome
      <3>2. Answered(k)
        <4>1. OwnerOf(b, Net[b][i]) = k
          BY <1>a DEF OnlyOne
        <4>2. ASSUME NEW x \in Clients, b = <<"toClient", x>> PROVE toClient[k] # <<>>
          <5>1. x = k /\ i \in DOMAIN toClient[k]
            BY <1>0, <4>1, <4>2 DEF Laid, OwnerOf, OfClient
          <5>2. DOMAIN <<>> = {}
            OBVIOUS
          <5> QED
            BY <5>1, <5>2
        <4>3. ASSUME NEW w \in Workers, b = <<"toBackEnd", w>> PROVE Answered(k)
          BY <1>0, <4>1, <4>3 DEF Laid, OwnerOf, OfClient, Answered
        <4>4. \A x \in Clients : b # <<"toFrontEnd", x>>
          BY <2>5
        <4>5. \A w \in Workers : b # <<"toWorker", w>>
          BY <2>5
        <4> QED
          BY <4>2, <4>3, <4>4, <4>5, LineKinds DEF Answered
      <3> QED
        BY <2>1, <2>3, <3>1, <3>2 DEF StatusOf
    <2>6. CASE b[1] = "toFrontEnd"
      <3>1. Serving(k) = {} /\ Outcome(b) = "open" /\ ~Answered(k)
        BY <2>3, <2>a, <2>6 DEF Outcome
      <3> QED
        BY <2>1, <2>3, <3>1 DEF StatusOf
    <2> QED
      BY <2>4, <2>5, <2>6, LineKinds
  <1>4. Free(Net, k) => StatusOf(k) = "idle"
    BY <1>2 DEF StatusOf, ServeInv, TypeOK
  <1> QED
    BY <1>2, <1>3, <1>4 DEF StatusIs

ServiceInv ==
    /\ ServeInv /\ Places /\ Requested
    /\ \A k \in Clients : StatusIs(k)

LEMMA UntouchedStatus ==
    ASSUME NEW k, OneRequest(k), StatusIs(k), StatusIs(k)', Untouched(k)
    PROVE  StatusOf(k)' = StatusOf(k) /\ Serving(k)' = Serving(k)
  <1>1. CASE Free(Net, k)
    <2>1. Free(Net', k)
      BY <1>1 DEF Untouched, Kept, Free
    <2> QED
      BY <1>1, <2>1 DEF StatusIs
  <1>2. ASSUME NEW b, NEW e, Holds(Net, k, b, e)
        PROVE  StatusOf(k)' = StatusOf(k) /\ Serving(k)' = Serving(k)
    <2>1. Holds(Net', k, b, e)
      BY <1>2 DEF Untouched, Kept, Holds
    <2> QED
      BY <1>2, <2>1 DEF StatusIs
  <1> QED
    BY <1>1, <1>2 DEF OneRequest

\* What the abstract variables become when only client k is concerned.
LEMMA ServiceFrame ==
    ASSUME ServiceInv, ServiceInv', NEW k \in Clients, OthersUntouched(k)
    PROVE  /\ [x \in Clients |-> StatusOf(x)]'
                = [[x \in Clients |-> StatusOf(x)] EXCEPT ![k] = StatusOf(k)']
           /\ [x \in Clients |-> Serving(x)]'
                = [[x \in Clients |-> Serving(x)] EXCEPT ![k] = Serving(k)']
  <1> \A w \in Clients \ {k} : StatusOf(w)' = StatusOf(w) /\ Serving(w)' = Serving(w)
    BY UntouchedStatus DEF ServiceInv, Requested, OthersUntouched
  <1> QED
    OBVIOUS

LEMMA AskedRefines ==
    ASSUME ServiceInv, ServiceInv', NEW k \in Clients, Asked(k)
    PROVE  Service!Request(k)
  <1>1. Free(Net, k)
    BY DEF ServiceInv, Requested, OneRequest, Asked
  <1>2. Holds(Net', k, <<"toFrontEnd", k>>, task'[k])
    BY <1>1 DEF Asked
  <1>3. StatusOf(k) = "idle" /\ Serving(k) = {}
    BY <1>1 DEF ServiceInv, StatusIs
  <1>4. /\ StatusOf(k)' = Outcome(<<"toFrontEnd", k>>)
        /\ Serving(k)' = {w \in Workers : <<"toFrontEnd", k>> = <<"toWorker", w>>}
    BY <1>2 DEF ServiceInv, StatusIs
  <1>5. StatusOf(k)' = "open" /\ Serving(k)' = {}
    BY <1>4 DEF Outcome
  <1>6. /\ [x \in Clients |-> StatusOf(x)]'
            = [[x \in Clients |-> StatusOf(x)] EXCEPT ![k] = "open"]
        /\ [x \in Clients |-> Serving(x)]' = [x \in Clients |-> Serving(x)]
    BY <1>3, <1>5, ServiceFrame DEF Asked
  <1> QED
    BY <1>3, <1>6 DEF Service!Request, Service!Goes, Asked

LEMMA CollectedRefines ==
    ASSUME ServiceInv, ServiceInv', NEW k \in Clients, Collected(k)
    PROVE  Service!Collect(k)
  <1>1. PICK b, e : Holds(Net, k, b, e)
    BY DEF ServiceInv, Requested, OneRequest, Collected
  <1>2. b = <<"toClient", k>> /\ Free(Net', k)
    BY <1>1 DEF Collected
  <1>3. StatusOf(k) = "served" /\ Serving(k) = {}
    BY <1>1, <1>2 DEF ServiceInv, StatusIs, Outcome
  <1>4. StatusOf(k)' = "idle" /\ Serving(k)' = {}
    BY <1>2 DEF ServiceInv, StatusIs
  <1>5. /\ [x \in Clients |-> StatusOf(x)]'
            = [[x \in Clients |-> StatusOf(x)] EXCEPT ![k] = "idle"]
        /\ [x \in Clients |-> Serving(x)]' = [x \in Clients |-> Serving(x)]
    BY <1>3, <1>4, ServiceFrame DEF Collected
  <1> QED
    BY <1>3, <1>5 DEF Service!Collect, Service!Goes, Collected

\* The message moves on: the request is assigned, finished, or its result travels.
LEMMA PassedRefines ==
    ASSUME ServiceInv, ServiceInv', NEW k \in Clients,
           NEW c, NEW e, NEW d, NEW x, Passed(k, c, e, d, x)
    PROVE  \/ \E w \in Workers : Service!Assign(k, w)
           \/ Service!Finish(k)
           \/ UNCHANGED Service!vars
  <1>1. Holds(Net, k, c, e) /\ Holds(Net', k, d, x)
    BY DEF ServiceInv, Requested, OneRequest, Passed
  <1>2. /\ StatusOf(k) = Outcome(c) /\ Serving(k) = {w \in Workers : c = <<"toWorker", w>>}
        /\ StatusOf(k)' = Outcome(d) /\ Serving(k)' = {w \in Workers : d = <<"toWorker", w>>}
    BY <1>1 DEF ServiceInv, StatusIs
  <1>3. UNCHANGED task
    BY DEF Passed
  <1>4. /\ [y \in Clients |-> StatusOf(y)]'
            = [[y \in Clients |-> StatusOf(y)] EXCEPT ![k] = StatusOf(k)']
        /\ [y \in Clients |-> Serving(y)]'
            = [[y \in Clients |-> Serving(y)] EXCEPT ![k] = Serving(k)']
    BY ServiceFrame DEF Passed
  <1>5. ASSUME NEW w \in Workers,
               c[1] = "toFrontEnd", d = <<"toWorker", w>>, toWorker[w] = <<>>
        PROVE  Service!Assign(k, w)
    <2>1. StatusOf(k) = "open" /\ StatusOf(k)' = "running" /\ Serving(k)' = {w}
      BY <1>2, <1>5 DEF Outcome
    <2>2. DOMAIN <<>> = {}
      OBVIOUS
    <2>3. \A y \in Clients : w \notin Serving(y)
      BY <1>5, <2>2 DEF Serving
    <2> QED
      BY <1>3, <1>4, <2>1, <2>3 DEF Service!Assign, Service!Goes
  <1>6. ASSUME NEW w \in Workers, c = <<"toWorker", w>>, d = <<"toBackEnd", w>>
        PROVE  Service!Finish(k)
    <2>1. StatusOf(k) = "running" /\ StatusOf(k)' = "served" /\ Serving(k) # {} /\ Serving(k)' = {}
      BY <1>2, <1>6 DEF Outcome
    <2> QED
      BY <1>3, <1>4, <2>1 DEF Service!Finish, Service!Goes
  <1>7. CASE c[1] = "toBackEnd" /\ d[1] = "toClient"
    <2>1. StatusOf(k)' = StatusOf(k) /\ Serving(k)' = Serving(k)
      BY <1>2, <1>7 DEF Outcome
    <2> QED
      BY <1>3, <1>4, <2>1 DEF Service!vars
  <1> QED
    BY <1>5, <1>6, <1>7 DEF Passed, Onward

LEMMA ServiceStep ==
    ServiceInv /\ ServiceInv' /\ [Next]_vars => [Service!Next]_Service!vars
  <1> SUFFICES ASSUME ServiceInv, ServiceInv', [Next]_vars
               PROVE  Service!Next \/ UNCHANGED Service!vars
    OBVIOUS
  <1>1. CASE \A k \in Clients : Untouched(k)
    <2>1. \A k \in Clients : StatusOf(k)' = StatusOf(k) /\ Serving(k)' = Serving(k)
      BY <1>1, UntouchedStatus DEF ServiceInv, Requested
    <2>2. task' = task
      BY <1>1 DEF Untouched, ServiceInv, ServeInv, TypeOK
    <2> QED
      BY <2>1, <2>2 DEF Service!vars
  <1>2. ASSUME NEW k \in Clients, Asked(k) \/ Collected(k)
        PROVE  Service!Next
    BY <1>2, AskedRefines, CollectedRefines DEF Service!Next
  <1>3. ASSUME NEW k \in Clients, NEW c, NEW e, NEW d, NEW x, Passed(k, c, e, d, x)
        PROVE  Service!Next \/ UNCHANGED Service!vars
    BY <1>3, PassedRefines DEF Service!Next
  <1> QED
    BY <1>1, <1>2, <1>3, RequestSteps DEF ServiceInv

LEMMA ServiceStarts == Init => Service!Init
  <1> SUFFICES ASSUME Init PROVE Service!Init
    OBVIOUS
  <1>1. ASSUME NEW k \in Clients PROVE StatusOf(k) = "idle" /\ Serving(k) = {}
    <2>1. ServeInv /\ OneRequest(k) /\ clientState[k] = "ready"
      BY ServeInit, RequestedInit DEF Requested, Init
    <2> QED
      BY <2>1, StatusFollows DEF StatusIs, OneRequest
  <1> QED
    BY <1>1 DEF Service!Init, Init

(***************************************************************************)
(* The load balancer implements TaskService: a request goes to one worker, *)
(* which has no other, and its result back to its client.                  *)
(***************************************************************************)
THEOREM LoadBalanceImplementsTaskService == Spec => ImplementsTaskService
  <1> DEFINE Inv == ServeInv /\ Places /\ Requested
  <1>1. Init => Inv /\ Service!Init
    BY ServeInit, WorkersInit, RequestedInit, ServiceStarts
  <1>2. Inv /\ [Next]_vars => Inv'
    BY ServeStep, WorkersStep, RequestedStep
  <1>3. Inv => ServiceInv
    BY StatusFollows DEF ServiceInv, Requested
  <1>4. ServiceInv /\ ServiceInv' /\ [Next]_vars => [Service!Next]_Service!vars
    BY ServiceStep
  <1> HIDE DEF Inv
  <1> QED
    BY <1>1, <1>2, <1>3, <1>4, PTL DEF Spec, ImplementsTaskService, Service!Spec

================================================================================
