--------------------------- MODULE AsyncServerProofs ---------------------------
(***************************************************************************)
(* Theorems about AsyncServer, for every set of clients and workers, every *)
(* number of requests and every number of answers to each.                 *)
(***************************************************************************)
EXTENDS AsyncServer, QueueLemmas, FiniteSetTheorems

(***************************************************************************)
(* The types, a part for the clients, one for the workers and one for the  *)
(* turns of the workers.                                                   *)
(***************************************************************************)
Note == [taskID : 1 .. Requests, by : Workers]

ClientTypes ==
    /\ running \in BOOLEAN
    /\ sent \in [Clients -> 0 .. Requests]
    /\ received \in [Clients -> Seq(Note)]
    /\ toFront \in [Clients -> Seq(Frames({0}))]
    /\ toClient \in [Clients -> Seq(Frames(Workers))]

Signed(w, q) == \A i \in DOMAIN q : q[i].body.by = w

WorkTypes ==
    /\ busy \in [Workers -> Jobs({0}) \cup {NoJob}]
    /\ copies \in [Workers -> 0 .. Copies - 1]
    /\ toBack \in [Workers -> Seq(Jobs(Workers))]
    /\ \A w \in Workers : Signed(w, toBack[w])
    /\ toWorker \in [Workers -> Seq(Jobs({0}))]

TurnTypes == rotation \in Seq(Workers) /\ IsInjective(rotation)

LEMMA TypeParts ==
    /\ TypeOK = (ClientTypes /\ WorkTypes /\ TurnTypes)
    /\ TypeOK' = (ClientTypes' /\ WorkTypes' /\ TurnTypes')
  BY DEF TypeOK, ClientTypes, WorkTypes, TurnTypes, Note, Signed

\* What a frame and a job have.
LEMMA FrameFacts ==
    ASSUME NEW S, NEW m \in Frames(S)
    PROVE  m.taskID \in 1 .. Requests /\ m.taskID \in Nat /\ m.taskID # 0 /\ m.by \in S
  BY RequestsAssumption DEF Frames

LEMMA JobFacts ==
    ASSUME NEW S, NEW m \in Jobs(S)
    PROVE  m.clientID \in Clients /\ m.body \in Frames(S)
  BY DEF Jobs

\* The answer of worker w to a request.
Answer(w, m) == [m EXCEPT !.body.by = w]

LEMMA AnswerFacts ==
    ASSUME NEW w \in Workers, NEW m \in Jobs({0})
    PROVE  /\ Answer(w, m) \in Jobs(Workers)
           /\ Answer(w, m).clientID = m.clientID
           /\ Answer(w, m).body.taskID = m.body.taskID
           /\ Answer(w, m).body.by = w
  BY DEF Answer, Jobs, Frames

LEMMA SignedTake ==
    ASSUME NEW w, NEW S, NEW q \in Seq(S), q # <<>>, Signed(w, q)
    PROVE  Signed(w, Tail(q)) /\ Head(q).body.by = w
  <1>1. /\ Head(q) = q[1] /\ Len(q) \in Nat /\ 1 \in DOMAIN q /\ DOMAIN q = 1 .. Len(q)
        /\ DOMAIN Tail(q) = 1 .. (Len(q) - 1)
        /\ \A i \in 1 .. (Len(q) - 1) : Tail(q)[i] = q[i + 1]
    BY TakeFacts
  <1>2. ASSUME NEW i \in DOMAIN Tail(q)
        PROVE  Tail(q)[i].body.by = w
    <2>1. i + 1 \in DOMAIN q /\ Tail(q)[i] = q[i + 1]
      BY <1>1
    <2> QED
      BY <2>1 DEF Signed
  <1> QED
    BY <1>1, <1>2 DEF Signed

LEMMA SignedPut ==
    ASSUME NEW w, NEW S, NEW q \in Seq(S), NEW e \in S, Signed(w, q), e.body.by = w
    PROVE  Signed(w, Append(q, e))
  <1>1. /\ Len(q) \in Nat /\ DOMAIN q = 1 .. Len(q)
        /\ DOMAIN Append(q, e) = 1 .. (Len(q) + 1)
        /\ Append(q, e)[Len(q) + 1] = e
        /\ \A i \in 1 .. Len(q) : Append(q, e)[i] = q[i]
    BY PutFacts
  <1>2. ASSUME NEW i \in DOMAIN Append(q, e)
        PROVE  Append(q, e)[i].body.by = w
    <2>1. CASE i \in DOMAIN q
      BY <1>1, <2>1 DEF Signed
    <2>2. CASE i = Len(q) + 1
      BY <1>1, <2>2
    <2> QED
      BY <1>1, <2>1, <2>2
  <1> QED
    BY <1>2 DEF Signed

LEMMA TypesInit == Init => TypeOK
  <1> SUFFICES ASSUME Init PROVE ClientTypes /\ WorkTypes /\ TurnTypes
    BY TypeParts
  <1>1. 0 \in 0 .. Requests /\ 0 \in 0 .. Copies - 1
    BY RequestsAssumption, CopiesAssumption
  <1>2. ClientTypes
    BY <1>1 DEF Init, ProxyInit, ClientTypes
  <1>3. WorkTypes
    BY <1>1 DEF Init, ProxyInit, WorkTypes, Signed
  <1>4. TurnTypes
    BY DEF Init, ProxyInit, TurnTypes, IsInjective
  <1> QED
    BY <1>2, <1>3, <1>4

\* What is put into a client's queue, or into a worker's.
LEMMA PutTyped ==
    ASSUME NEW C, NEW S, NEW f \in [C -> Seq(S)], NEW c \in C, NEW e \in S
    PROVE  [f EXCEPT ![c] = Append(@, e)] \in [C -> Seq(S)]
  <1>1. Append(f[c], e) \in Seq(S)
    BY PutFacts
  <1> QED
    BY <1>1

LEMMA TakeTyped ==
    ASSUME NEW C, NEW S, NEW f \in [C -> Seq(S)], NEW c \in C, f[c] # <<>>
    PROVE  [f EXCEPT ![c] = Tail(@)] \in [C -> Seq(S)] /\ Head(f[c]) \in S
  <1>1. Tail(f[c]) \in Seq(S) /\ Head(f[c]) \in S
    BY TakeFacts
  <1> QED
    BY <1>1

(***************************************************************************)
(* What each step does to the variables, given their types.                *)
(***************************************************************************)
ClientSame == UNCHANGED <<running, sent, received, toFront, toClient>>
WorkSame == UNCHANGED <<busy, copies, toBack, toWorker>>

LEMMA SendRequestDoes ==
    ASSUME TypeOK, NEW k \in Clients, SendRequest(k)
    PROVE  LET e == TaskFrame(sent[k] + 1)
           IN  /\ e \in Frames({0}) /\ e.taskID = sent[k] + 1
               /\ sent[k] \in Nat /\ sent[k] + 1 \in 0 .. Requests
               /\ sent' = [sent EXCEPT ![k] = @ + 1]
               /\ toFront' = [toFront EXCEPT ![k] = Append(@, e)]
               /\ UNCHANGED <<running, received, toClient, rotation>> /\ WorkSame
  <1>1. sent[k] \in Nat /\ sent[k] + 1 \in 0 .. Requests /\ sent[k] + 1 \in 1 .. Requests
    BY RequestsAssumption DEF SendRequest, TypeOK
  <1>2. TaskFrame(sent[k] + 1) \in Frames({0})
    BY <1>1 DEF TaskFrame, Frames
  <1> QED
    BY <1>1, <1>2 DEF SendRequest, TaskFrame, WorkSame

LEMMA PollDoes ==
    ASSUME TypeOK, NEW k \in Clients, Poll(k)
    PROVE  LET m == Head(toClient[k])
               e == [taskID |-> m.taskID, by |-> m.by]
           IN  /\ toClient[k] # <<>> /\ m \in Frames(Workers) /\ e \in Note
               /\ e.taskID = m.taskID /\ e.by = m.by
               /\ running' \in BOOLEAN
               /\ received' = [received EXCEPT ![k] = Append(@, e)]
               /\ toClient' = [toClient EXCEPT ![k] = Tail(@)]
               /\ UNCHANGED <<sent, toFront, rotation>> /\ WorkSame
  <1> DEFINE m == Head(toClient[k])
  <1>1. toClient[k] # <<>> /\ toClient[k] \in Seq(Frames(Workers))
    BY DEF Poll, TypeOK
  <1>2. m \in Frames(Workers)
    BY <1>1, TakeFacts
  <1>3. running' \in BOOLEAN /\ received' = [received EXCEPT ![k] =
                            Append(@, [taskID |-> m.taskID, by |-> m.by])]
    BY DEF Poll
  <1>4. /\ toClient' = [toClient EXCEPT ![k] = Tail(@)]
        /\ UNCHANGED <<sent, toFront, rotation>> /\ WorkSame
    BY DEF Poll, WorkSame
  <1> HIDE DEF m
  <1>5. [taskID |-> m.taskID, by |-> m.by] \in Note
    BY <1>2, FrameFacts DEF Note
  <1> QED
    BY <1>1, <1>2, <1>3, <1>4, <1>5 DEF m

LEMMA ReceiveTaskDoes ==
    ASSUME TypeOK, NEW w \in Workers, ReceiveTask(w)
    PROVE  LET m == Head(toWorker[w])
           IN  /\ toWorker[w] # <<>> /\ m \in Jobs({0}) /\ busy[w] = NoJob
               /\ busy' = [busy EXCEPT ![w] = m]
               /\ copies' = [copies EXCEPT ![w] = 0]
               /\ toWorker' = [toWorker EXCEPT ![w] = Tail(@)]
               /\ UNCHANGED <<toBack, rotation>> /\ ClientSame
  <1>1. toWorker[w] # <<>> /\ toWorker[w] \in Seq(Jobs({0}))
    BY DEF ReceiveTask, TypeOK
  <1>2. Head(toWorker[w]) \in Jobs({0})
    BY <1>1, TakeFacts
  <1> QED
    BY <1>1, <1>2 DEF ReceiveTask, ClientSame

LEMMA SendAnswerDoes ==
    ASSUME TypeOK, NEW w \in Workers, SendAnswer(w)
    PROVE  /\ busy[w] # NoJob /\ busy[w] \in Jobs({0})
           /\ Answer(w, busy[w]) \in Jobs(Workers)
           /\ toBack' = [toBack EXCEPT ![w] = Append(@, Answer(w, busy[w]))]
           /\ \/ /\ copies[w] + 1 # Copies /\ copies[w] + 1 \in 0 .. Copies - 1
                 /\ copies' = [copies EXCEPT ![w] = @ + 1] /\ UNCHANGED busy
              \/ /\ copies[w] + 1 = Copies
                 /\ copies' = [copies EXCEPT ![w] = 0] /\ busy' = [busy EXCEPT ![w] = NoJob]
           /\ UNCHANGED <<toWorker, rotation>> /\ ClientSame
  <1>1. busy[w] # NoJob /\ busy[w] \in Jobs({0})
    BY DEF SendAnswer, TypeOK
  <1>2. Answer(w, busy[w]) \in Jobs(Workers)
    BY <1>1, AnswerFacts
  <1>3. copies[w] \in 0 .. Copies - 1
    BY DEF TypeOK
  <1>4. copies[w] + 1 # Copies => copies[w] + 1 \in 0 .. Copies - 1
    BY <1>3, CopiesAssumption
  <1> QED
    BY <1>1, <1>2, <1>4 DEF SendAnswer, Answer, LastAnswer, ClientSame

LEMMA ForwardDoes ==
    ASSUME TypeOK, NEW k \in Clients, Forward(k), BrokerNext
    PROVE  LET m == Head(toFront[k])
               w == Head(rotation)
               j == Job(k, m)
           IN  /\ toFront[k] # <<>> /\ m \in Frames({0})
               /\ w \in Workers /\ j \in Jobs({0}) /\ j.clientID = k /\ j.body = m
               /\ toWorker' = [toWorker EXCEPT ![w] = Append(@, j)]
               /\ toFront' = [toFront EXCEPT ![k] = Tail(@)]
               /\ rotation # <<>> /\ rotation' = Append(Tail(rotation), Head(rotation))
               /\ UNCHANGED <<running, sent, received, busy, copies, toClient, toBack>>
  <1> DEFINE m == Head(toFront[k])
             w == Head(rotation)
             j == Job(k, m)
  <1>1. /\ toFront[k] # <<>> /\ toFront[k] \in Seq(Frames({0}))
        /\ rotation # <<>> /\ rotation \in Seq(Workers)
    BY DEF Forward, TypeOK
  <1>2. m \in Frames({0}) /\ w \in Workers
    BY <1>1, TakeFacts
  <1>3. /\ toWorker' = [toWorker EXCEPT ![w] = Append(@, j)]
        /\ toFront' = [toFront EXCEPT ![k] = Tail(@)]
        /\ rotation' = Append(Tail(rotation), Head(rotation))
        /\ UNCHANGED <<running, sent, received, busy, copies, toClient, toBack>>
    BY DEF Forward, BrokerNext
  <1> HIDE DEF m
  <1>4. j \in Jobs({0}) /\ j.clientID = k /\ j.body = m
    BY <1>2 DEF Job, Jobs
  <1> QED
    BY <1>1, <1>2, <1>3, <1>4 DEF m

LEMMA BackwardDoes ==
    ASSUME TypeOK, NEW w \in Workers, Backward(w), BrokerNext
    PROVE  LET m == Head(toBack[w])
           IN  /\ toBack[w] # <<>> /\ m \in Jobs(Workers)
               /\ m.clientID \in Clients /\ m.body \in Frames(Workers) /\ m.body.by = w
               /\ toClient' = [toClient EXCEPT ![m.clientID] = Append(@, m.body)]
               /\ toBack' = [toBack EXCEPT ![w] = Tail(@)]
               /\ UNCHANGED <<running, sent, received, busy, copies, toFront, toWorker, rotation>>
  <1> DEFINE m == Head(toBack[w])
  <1>1. toBack[w] # <<>> /\ toBack[w] \in Seq(Jobs(Workers)) /\ Signed(w, toBack[w])
    BY TypeParts DEF Backward, WorkTypes
  <1>2. m \in Jobs(Workers) /\ m.body.by = w
    BY <1>1, TakeFacts, SignedTake
  <1>3. /\ toClient' = [toClient EXCEPT ![m.clientID] = Append(@, m.body)]
        /\ toBack' = [toBack EXCEPT ![w] = Tail(@)]
        /\ UNCHANGED <<running, sent, received, busy, copies, toFront, toWorker, rotation>>
    BY DEF Backward, BrokerNext
  <1> HIDE DEF m
  <1>4. m.clientID \in Clients /\ m.body \in Frames(Workers)
    BY <1>2, JobFacts
  <1> QED
    BY <1>1, <1>2, <1>3, <1>4 DEF m

LEMMA ConnectDoes ==
    ASSUME NEW w \in Workers, Connect(w), BrokerNext
    PROVE  /\ w \notin ToSet(rotation)
           /\ \E i \in 1 .. Len(rotation) + 1 : rotation' = InsertAt(rotation, i, w)
           /\ ClientSame /\ WorkSame
  BY DEF Connect, BrokerNext, ClientSame, WorkSame

\* A step is one of these.
LEMMA StepKinds ==
    ASSUME [Next]_vars
    PROVE  \/ \E k \in Clients : SendRequest(k) \/ Poll(k) \/ (Forward(k) /\ BrokerNext)
           \/ \E w \in Workers : \/ ReceiveTask(w) \/ SendAnswer(w)
                                 \/ (Connect(w) /\ BrokerNext) \/ (Backward(w) /\ BrokerNext)
           \/ ClientSame /\ WorkSame /\ UNCHANGED rotation
  <1>1. ASSUME BrokerNext
        PROVE  \/ \E k \in Clients : Forward(k) /\ BrokerNext
               \/ \E w \in Workers : (Connect(w) /\ BrokerNext) \/ (Backward(w) /\ BrokerNext)
    BY <1>1 DEF BrokerNext, ProxyNext
  <1>2. ASSUME UNCHANGED vars
        PROVE  ClientSame /\ WorkSame /\ UNCHANGED rotation
    BY <1>2 DEF vars, proxyVars, ClientSame, WorkSame
  <1> QED
    BY <1>1, <1>2 DEF Next

LEMMA TypesStep == TypeOK /\ [Next]_vars => TypeOK'
  <1> SUFFICES ASSUME TypeOK, [Next]_vars PROVE ClientTypes' /\ WorkTypes' /\ TurnTypes'
    BY TypeParts
  <1>0. ClientTypes /\ WorkTypes /\ TurnTypes
    BY TypeParts
  <1>1. ASSUME NEW k \in Clients, SendRequest(k)
        PROVE  ClientTypes' /\ WorkTypes' /\ TurnTypes'
    <2> DEFINE e == TaskFrame(sent[k] + 1)
    <2>1. /\ e \in Frames({0}) /\ sent[k] + 1 \in 0 .. Requests
          /\ sent' = [sent EXCEPT ![k] = @ + 1]
          /\ toFront' = [toFront EXCEPT ![k] = Append(@, e)]
          /\ UNCHANGED <<running, received, toClient, rotation>> /\ WorkSame
      BY <1>1, SendRequestDoes
    <2> HIDE DEF e
    <2>2. toFront' \in [Clients -> Seq(Frames({0}))]
      BY <1>0, <2>1, PutTyped DEF ClientTypes
    <2> QED
      BY <1>0, <2>1, <2>2 DEF ClientTypes, WorkTypes, TurnTypes, WorkSame
  <1>2. ASSUME NEW k \in Clients, Poll(k)
        PROVE  ClientTypes' /\ WorkTypes' /\ TurnTypes'
    <2> DEFINE e == [taskID |-> Head(toClient[k]).taskID, by |-> Head(toClient[k]).by]
    <2>1. /\ toClient[k] # <<>> /\ e \in Note /\ running' \in BOOLEAN
          /\ received' = [received EXCEPT ![k] = Append(@, e)]
          /\ toClient' = [toClient EXCEPT ![k] = Tail(@)]
          /\ UNCHANGED <<sent, toFront, rotation>> /\ WorkSame
      BY <1>2, PollDoes
    <2> HIDE DEF e
    <2>2. received' \in [Clients -> Seq(Note)]
      BY <1>0, <2>1, PutTyped DEF ClientTypes
    <2>3. toClient' \in [Clients -> Seq(Frames(Workers))]
      BY <1>0, <2>1, TakeTyped DEF ClientTypes
    <2> QED
      BY <1>0, <2>1, <2>2, <2>3 DEF ClientTypes, WorkTypes, TurnTypes, WorkSame
  <1>3. ASSUME NEW w \in Workers, ReceiveTask(w)
        PROVE  ClientTypes' /\ WorkTypes' /\ TurnTypes'
    <2>1. /\ toWorker[w] # <<>> /\ Head(toWorker[w]) \in Jobs({0})
          /\ busy' = [busy EXCEPT ![w] = Head(toWorker[w])]
          /\ copies' = [copies EXCEPT ![w] = 0]
          /\ toWorker' = [toWorker EXCEPT ![w] = Tail(@)]
          /\ UNCHANGED <<toBack, rotation>> /\ ClientSame
      BY <1>3, ReceiveTaskDoes
    <2>2. toWorker' \in [Workers -> Seq(Jobs({0}))]
      BY <1>0, <2>1, TakeTyped DEF WorkTypes
    <2>3. 0 \in 0 .. Copies - 1
      BY CopiesAssumption
    <2> QED
      BY <1>0, <2>1, <2>2, <2>3 DEF ClientTypes, WorkTypes, TurnTypes, ClientSame
  <1>4. ASSUME NEW w \in Workers, SendAnswer(w)
        PROVE  ClientTypes' /\ WorkTypes' /\ TurnTypes'
    <2> DEFINE e == Answer(w, busy[w])
    <2>1. /\ busy[w] \in Jobs({0}) /\ e \in Jobs(Workers)
          /\ toBack' = [toBack EXCEPT ![w] = Append(@, e)]
          /\ UNCHANGED <<toWorker, rotation>> /\ ClientSame
      BY <1>4, SendAnswerDoes
    <2>2. \/ /\ copies[w] + 1 \in 0 .. Copies - 1
             /\ copies' = [copies EXCEPT ![w] = @ + 1] /\ UNCHANGED busy
          \/ copies' = [copies EXCEPT ![w] = 0] /\ busy' = [busy EXCEPT ![w] = NoJob]
      BY <1>4, SendAnswerDoes
    <2>3. e.body.by = w
      BY <2>1, AnswerFacts
    <2> HIDE DEF e
    <2>4. toBack' \in [Workers -> Seq(Jobs(Workers))]
      BY <1>0, <2>1, PutTyped DEF WorkTypes
    <2>5. \A x \in Workers : Signed(x, toBack'[x])
      <3>1. Signed(w, Append(toBack[w], e))
        BY <1>0, <2>1, <2>3, SignedPut DEF WorkTypes
      <3> QED
        BY <1>0, <2>1, <3>1 DEF WorkTypes
    <2>6. 0 \in 0 .. Copies - 1
      BY CopiesAssumption
    <2>7. /\ copies' \in [Workers -> 0 .. Copies - 1]
          /\ busy' \in [Workers -> Jobs({0}) \cup {NoJob}]
      BY <1>0, <2>2, <2>6 DEF WorkTypes
    <2> QED
      BY <1>0, <2>1, <2>4, <2>5, <2>7 DEF ClientTypes, WorkTypes, TurnTypes, ClientSame
  <1>5. ASSUME NEW k \in Clients, Forward(k), BrokerNext
        PROVE  ClientTypes' /\ WorkTypes' /\ TurnTypes'
    <2> DEFINE w == Head(rotation)
               j == Job(k, Head(toFront[k]))
    <2>1. /\ toFront[k] # <<>> /\ w \in Workers /\ j \in Jobs({0})
          /\ toWorker' = [toWorker EXCEPT ![w] = Append(@, j)]
          /\ toFront' = [toFront EXCEPT ![k] = Tail(@)]
          /\ UNCHANGED <<running, sent, received, busy, copies, toClient, toBack>>
      BY <1>5, ForwardDoes
    <2>2. rotation # <<>> /\ rotation' = Append(Tail(rotation), Head(rotation))
      BY <1>5, ForwardDoes
    <2> HIDE DEF w, j
    <2>3. toFront' \in [Clients -> Seq(Frames({0}))]
      BY <1>0, <2>1, TakeTyped DEF ClientTypes
    <2>4. toWorker' \in [Workers -> Seq(Jobs({0}))]
      BY <1>0, <2>1, PutTyped DEF WorkTypes
    <2>5. TurnTypes'
      BY <1>0, <2>2, RotationTurns DEF TurnTypes
    <2> QED
      BY <1>0, <2>1, <2>3, <2>4, <2>5 DEF ClientTypes, WorkTypes
  <1>6. ASSUME NEW w \in Workers, Backward(w), BrokerNext
        PROVE  ClientTypes' /\ WorkTypes' /\ TurnTypes'
    <2> DEFINE m == Head(toBack[w])
    <2>1. /\ toBack[w] # <<>> /\ m.clientID \in Clients /\ m.body \in Frames(Workers)
          /\ toClient' = [toClient EXCEPT ![m.clientID] = Append(@, m.body)]
          /\ toBack' = [toBack EXCEPT ![w] = Tail(@)]
          /\ UNCHANGED <<running, sent, received, busy, copies, toFront, toWorker, rotation>>
      BY <1>6, BackwardDoes
    <2> HIDE DEF m
    <2>2. toClient' \in [Clients -> Seq(Frames(Workers))]
      BY <1>0, <2>1, PutTyped DEF ClientTypes
    <2>3. toBack' \in [Workers -> Seq(Jobs(Workers))]
      BY <1>0, <2>1, TakeTyped DEF WorkTypes
    <2>4. \A x \in Workers : Signed(x, toBack'[x])
      <3>1. Signed(w, Tail(toBack[w]))
        BY <1>0, <2>1, SignedTake DEF WorkTypes
      <3> QED
        BY <1>0, <2>1, <3>1 DEF WorkTypes
    <2> QED
      BY <1>0, <2>1, <2>2, <2>3, <2>4 DEF ClientTypes, WorkTypes, TurnTypes
  <1>7. ASSUME NEW w \in Workers, Connect(w), BrokerNext
        PROVE  ClientTypes' /\ WorkTypes' /\ TurnTypes'
    <2>1. ClientSame /\ WorkSame
      BY <1>7, ConnectDoes
    <2>2. TurnTypes'
      BY <1>0, <1>7, ConnectDoes, RotationJoins DEF TurnTypes
    <2> QED
      BY <1>0, <2>1, <2>2 DEF ClientTypes, WorkTypes, ClientSame, WorkSame
  <1>8. ASSUME ClientSame, WorkSame, UNCHANGED rotation
        PROVE  ClientTypes' /\ WorkTypes' /\ TurnTypes'
    BY <1>0, <1>8 DEF ClientTypes, WorkTypes, TurnTypes, ClientSame, WorkSame
  <1> QED
    BY <1>1, <1>2, <1>3, <1>4, <1>5, <1>6, <1>7, <1>8, StepKinds

(***************************************************************************)
(* The client's two threads and the answering loops keep within Requests   *)
(* and Copies, what travels is a frame of a client, and an answer names    *)
(* the worker that sent it.                                                *)
(***************************************************************************)
THEOREM AsyncTypes == Spec => []TypeOK
  BY TypesInit, TypesStep, PTL DEF Spec

--------------------------------------------------------------------------------
(***************************************************************************)
(* The order of the answers.  What is under way between client k and       *)
(* worker w, seen from the client, is in six lines: the answers k has,     *)
(* those that come from the broker and from the worker, the request in the *)
(* hand of the worker, those that wait for it, and those that wait at the  *)
(* broker.  A message is in them with its number, or with 0 when it is     *)
(* somebody else's.  All along the lines the numbers never decrease.       *)
(***************************************************************************)
Places == 1 .. 6

Ordered(L) ==
    \A a, b \in Places : \A i \in DOMAIN L[a], j \in DOMAIN L[b] :
        (a < b \/ (a = b /\ i < j)) /\ L[a][i] # 0 /\ L[b][j] # 0 => L[a][i] <= L[b][j]

Bounded(L, n) == \A a \in Places : \A i \in DOMAIN L[a] : L[a][i] <= n

Fine(L, n) == L \in [Places -> Seq(Nat)] /\ n \in Nat /\ Ordered(L) /\ Bounded(L, n)

\* The head of one line is taken.
LEMMA LineTake ==
    ASSUME NEW L, NEW n, Fine(L, n), NEW c \in Places, L[c] # <<>>,
           NEW g \in [Places -> Seq(Nat)], g[c] = Tail(L[c]), \A b \in Places \ {c} : g[b] = L[b]
    PROVE  Fine(g, n)
  <1>1. /\ Len(L[c]) \in Nat /\ DOMAIN L[c] = 1 .. Len(L[c])
        /\ DOMAIN g[c] = 1 .. (Len(L[c]) - 1)
        /\ \A i \in 1 .. (Len(L[c]) - 1) : g[c][i] = L[c][i + 1]
    BY TakeFacts DEF Fine
  <1> DEFINE old(a, i) == IF a = c THEN i + 1 ELSE i
  <1>2. ASSUME NEW a \in Places, NEW i \in DOMAIN g[a]
        PROVE  old(a, i) \in DOMAIN L[a] /\ g[a][i] = L[a][old(a, i)]
    <2>1. CASE a = c
      <3>1. i \in 1 .. (Len(L[c]) - 1) /\ old(a, i) = i + 1
        BY <1>1, <2>1
      <3>2. i + 1 \in 1 .. Len(L[c]) /\ g[c][i] = L[c][i + 1]
        BY <1>1, <3>1
      <3> QED
        BY <1>1, <2>1, <3>1, <3>2
    <2>2. CASE a # c
      BY <2>2
    <2> QED
      BY <2>1, <2>2
  <1>3. ASSUME NEW i \in DOMAIN g[c], NEW j \in DOMAIN g[c], i < j
        PROVE  old(c, i) < old(c, j)
    BY <1>1, <1>3
  <1>4. ASSUME NEW a \in Places, NEW i \in DOMAIN g[a], NEW j \in DOMAIN g[a], i < j
        PROVE  old(a, i) < old(a, j)
    BY <1>3, <1>4
  <1> HIDE DEF old
  <1>5. ASSUME NEW a \in Places, NEW b \in Places, NEW i \in DOMAIN g[a], NEW j \in DOMAIN g[b],
               a < b \/ (a = b /\ i < j), g[a][i] # 0, g[b][j] # 0
        PROVE  g[a][i] <= g[b][j]
    <2>1. /\ old(a, i) \in DOMAIN L[a] /\ g[a][i] = L[a][old(a, i)]
          /\ old(b, j) \in DOMAIN L[b] /\ g[b][j] = L[b][old(b, j)]
      BY <1>2
    <2>2. a < b \/ (a = b /\ old(a, i) < old(b, j))
      BY <1>4, <1>5
    <2> QED
      BY <1>5, <2>1, <2>2 DEF Fine, Ordered
  <1>6. Bounded(g, n)
    BY <1>2 DEF Fine, Bounded
  <1> QED
    BY <1>5, <1>6 DEF Fine, Ordered

\* A place for number e at the end of line c.
Fits(L, c, e) ==
    e # 0 => \A a \in Places : \A i \in DOMAIN L[a] :
                /\ a <= c /\ L[a][i] # 0 => L[a][i] <= e
                /\ a > c /\ L[a][i] # 0 => e <= L[a][i]

Grown(L, c, e, g) ==
    g \in [Places -> Seq(Nat)] /\ g[c] = Append(L[c], e) /\ \A b \in Places \ {c} : g[b] = L[b]

\* A number is put at the end of a line: 0, or one between those before and behind.
LEMMA LinePut ==
    ASSUME NEW L, NEW n, Fine(L, n), NEW c \in Places, NEW e \in Nat, NEW m \in Nat, n <= m, e <= m,
           Fits(L, c, e), NEW g, Grown(L, c, e, g)
    PROVE  Fine(g, m)
  <1>0. /\ L \in [Places -> Seq(Nat)] /\ n \in Nat /\ Ordered(L) /\ Bounded(L, n)
        /\ g \in [Places -> Seq(Nat)] /\ g[c] = Append(L[c], e)
        /\ \A b \in Places \ {c} : g[b] = L[b]
    BY DEF Fine, Grown
  <1>1. /\ Len(L[c]) \in Nat /\ DOMAIN L[c] = 1 .. Len(L[c])
        /\ DOMAIN g[c] = 1 .. (Len(L[c]) + 1)
        /\ g[c][Len(L[c]) + 1] = e
        /\ \A i \in 1 .. Len(L[c]) : g[c][i] = L[c][i]
    BY <1>0, PutFacts
  <1> DEFINE k == Len(L[c]) + 1
  <1>2. ASSUME NEW a \in Places, NEW i \in DOMAIN g[a]
        PROVE  \/ i \in DOMAIN L[a] /\ g[a][i] = L[a][i] /\ (a = c => i < k)
               \/ a = c /\ i = k /\ g[a][i] = e
    <2>1. CASE a = c
      BY <1>1, <2>1
    <2>2. CASE a # c
      BY <1>0, <2>2
    <2> QED
      BY <2>1, <2>2
  <1>3. k \in Nat
    BY <1>1
  <1> HIDE DEF k
  <1>4. ASSUME NEW a \in Places, NEW b \in Places, NEW i \in DOMAIN g[a], NEW j \in DOMAIN g[b],
               a < b \/ (a = b /\ i < j), g[a][i] # 0, g[b][j] # 0
        PROVE  g[a][i] <= g[b][j]
    <2>1. CASE i \in DOMAIN L[a] /\ g[a][i] = L[a][i] /\ j \in DOMAIN L[b] /\ g[b][j] = L[b][j]
      BY <1>0, <1>4, <2>1 DEF Ordered
    <2>2. CASE a = c /\ i = k /\ g[a][i] = e
      <3>1. ~(b = c /\ j = k)
        BY <1>3, <1>4, <2>2 DEF Places
      <3>2. j \in DOMAIN L[b] /\ g[b][j] = L[b][j] /\ (b = c => j < k)
        BY <1>2, <3>1
      <3>3. b > c
        <4>1. b = c => j \in Nat
          BY <1>1, <3>2
        <4> QED
          BY <1>3, <1>4, <2>2, <3>2, <4>1 DEF Places
      <3> QED
        BY <1>4, <2>2, <3>2, <3>3 DEF Fits
    <2>3. CASE /\ i \in DOMAIN L[a] /\ g[a][i] = L[a][i]
               /\ b = c /\ j = k /\ g[b][j] = e
      <3>1. a <= c
        BY <1>4, <2>3 DEF Places
      <3> QED
        BY <1>4, <2>3, <3>1 DEF Fits
    <2> QED
      BY <1>2, <2>1, <2>2, <2>3
  <1>5. ASSUME NEW a \in Places, NEW i \in DOMAIN g[a] PROVE g[a][i] <= m
    <2>1. i \in DOMAIN L[a] => L[a][i] <= n /\ L[a][i] \in Nat
      BY <1>0 DEF Bounded
    <2> QED
      BY <1>0, <1>2, <2>1
  <1> QED
    BY <1>0, <1>4, <1>5 DEF Fine, Ordered, Bounded

\* What concerns somebody else leaves the order alone.
LEMMA LineOther ==
    ASSUME NEW L, NEW n, Fine(L, n), NEW c \in Places,
           NEW g \in [Places -> Seq(Nat)], g[c] = Append(L[c], 0),
           \A b \in Places \ {c} : g[b] = L[b]
    PROVE  Fine(g, n)
  <1>1. n \in Nat /\ 0 \in Nat /\ 0 <= n /\ n <= n /\ Fits(L, c, 0) /\ Grown(L, c, 0, g)
    BY DEF Fine, Fits, Grown
  <1> QED
    BY <1>1, LinePut

\* The head of a line is copied to the end of the line before, and stays or goes.
LEMMA LineCopy ==
    ASSUME NEW L, NEW n, Fine(L, n), NEW c \in 1 .. 5, L[c + 1] # <<>>,
           NEW g \in [Places -> Seq(Nat)], g[c] = Append(L[c], Head(L[c + 1])),
           \A b \in Places \ {c} : g[b] = L[b]
    PROVE  Fine(g, n)
  <1> DEFINE e == Head(L[c + 1])
  <1>0. /\ L \in [Places -> Seq(Nat)] /\ n \in Nat /\ Ordered(L) /\ Bounded(L, n)
        /\ c \in Places /\ c + 1 \in Places
    <2>1. c \in Places /\ c + 1 \in Places
      BY DEF Places
    <2> QED
      BY <2>1 DEF Fine
  <1>1. e \in Nat /\ e = L[c + 1][1] /\ 1 \in DOMAIN L[c + 1] /\ DOMAIN L[c + 1] \subseteq Nat \ {0}
    BY <1>0, TakeFacts
  <1>2. e <= n
    BY <1>0, <1>1 DEF Bounded
  <1> HIDE DEF e
  <1>3. ASSUME e # 0, NEW a \in Places, NEW i \in DOMAIN L[a], L[a][i] # 0
        PROVE  (a <= c => L[a][i] <= e) /\ (a > c => e <= L[a][i])
    <2>1. CASE a <= c
      <3>1. a < c + 1 /\ ~(a > c)
        BY <1>0, <2>1 DEF Places
      <3> QED
        BY <1>0, <1>1, <1>3, <3>1 DEF Ordered
    <2>2. CASE a = c + 1 /\ i = 1
      <3>1. e <= L[a][i] /\ ~(a <= c)
        BY <1>0, <1>1, <2>2 DEF Places
      <3> QED
        BY <3>1
    <2>3. CASE a > c /\ ~(a = c + 1 /\ i = 1)
      <3>1. c + 1 < a \/ (c + 1 = a /\ 1 < i)
        <4>0. a > c /\ a \in Int /\ c \in Int
          BY <2>3 DEF Places
        <4>1. c + 1 < a \/ c + 1 = a
          BY <4>0
        <4>2. c + 1 = a => i \in Nat \ {0} /\ i # 1
          BY <1>1, <2>3
        <4> QED
          BY <4>1, <4>2
      <3>2. ~(a <= c)
        BY <1>0, <2>3 DEF Places
      <3> QED
        BY <1>0, <1>1, <1>3, <3>1, <3>2 DEF Ordered
    <2> QED
      BY <1>0, <2>1, <2>2, <2>3 DEF Places
  <1>4. n <= n /\ Grown(L, c, e, g)
    BY <1>0 DEF e, Grown
  <1>5. Fits(L, c, e)
    BY <1>3 DEF Fits
  <1>6. c \in Places /\ e \in Nat /\ n \in Nat
    BY <1>0, <1>1
  <1> QED
    BY <1>2, <1>4, <1>5, <1>6, LinePut

LEMMA NextPlace ==
    /\ 1 \in Places /\ 2 \in Places /\ 3 \in Places /\ 4 \in Places /\ 5 \in Places /\ 6 \in Places
    /\ 2 = 1 + 1 /\ 3 = 2 + 1 /\ 4 = 3 + 1 /\ 5 = 4 + 1 /\ 6 = 5 + 1
  BY DEF Places

\* The same, from line d to c.
Copied(L, c, d, g) ==
    /\ c \in Places /\ d \in Places /\ d = c + 1
    /\ g \in [Places -> Seq(Nat)]
    /\ L[d] # <<>> /\ g[c] = Append(L[c], Head(L[d]))
    /\ \A b \in Places \ {c} : g[b] = L[b]

Passed(L, c, d, g) ==
    /\ c \in Places /\ d \in Places /\ d = c + 1
    /\ g \in [Places -> Seq(Nat)]
    /\ L[d] # <<>> /\ g[c] = Append(L[c], Head(L[d])) /\ g[d] = Tail(L[d])
    /\ \A b \in Places \ {c, d} : g[b] = L[b]

LEMMA LineCopied ==
    ASSUME NEW L, NEW n, Fine(L, n), NEW c, NEW d, NEW g, Copied(L, c, d, g)
    PROVE  Fine(g, n)
  <1>1. c \in 1 .. 5
    BY DEF Copied, Places
  <1> QED
    BY <1>1, LineCopy DEF Copied

LEMMA LinePassed ==
    ASSUME NEW L, NEW n, Fine(L, n), NEW c, NEW d, NEW g, Passed(L, c, d, g)
    PROVE  Fine(g, n)
  <1> DEFINE h == [L EXCEPT ![c] = Append(L[c], Head(L[d]))]
  <1>0. /\ L \in [Places -> Seq(Nat)] /\ c \in Places /\ d \in Places /\ d = c + 1 /\ d # c
        /\ L[d] # <<>>
    BY DEF Fine, Passed, Places
  <1>1. Head(L[d]) \in Nat
    BY <1>0, TakeFacts
  <1>2. /\ h \in [Places -> Seq(Nat)] /\ h[c] = Append(L[c], Head(L[d]))
        /\ \A b \in Places \ {c} : h[b] = L[b]
    <2>1. Append(L[c], Head(L[d])) \in Seq(Nat)
      BY <1>0, <1>1, PutFacts
    <2> QED
      BY <1>0, <2>1
  <1> HIDE DEF h
  <1>3. Copied(L, c, d, h)
    BY <1>0, <1>2 DEF Copied
  <1>4. Fine(h, n)
    BY <1>3, LineCopied
  <1>5. /\ h[d] = L[d] /\ g[d] = Tail(h[d]) /\ \A b \in Places \ {d} : g[b] = h[b]
        /\ g \in [Places -> Seq(Nat)]
    BY <1>0, <1>2 DEF Passed
  <1> QED
    BY <1>0, <1>4, <1>5, LineTake

\* A queue of messages as a line of numbers: f is the number of each message.
Marked(q, f) == [i \in DOMAIN q |-> f[q[i]]]

LEMMA MarkedFacts ==
    ASSUME NEW S, NEW f \in [S -> Nat], NEW q \in Seq(S)
    PROVE  Marked(q, f) \in Seq(Nat)
  <1>1. Len(q) \in Nat /\ DOMAIN q = 1 .. Len(q) /\ \A i \in 1 .. Len(q) : q[i] \in S
    OBVIOUS
  <1>2. Marked(q, f) = [i \in 1 .. Len(q) |-> f[q[i]]] /\ \A i \in 1 .. Len(q) : f[q[i]] \in Nat
    BY <1>1 DEF Marked
  <1> QED
    BY <1>1, <1>2

LEMMA MarkedPut ==
    ASSUME NEW S, NEW f \in [S -> Nat], NEW q \in Seq(S), NEW e \in S
    PROVE  Marked(Append(q, e), f) = Append(Marked(q, f), f[e])
  <1> DEFINE a == Append(q, e)
             m == Marked(q, f)
             x == f[e]
  <1>1. /\ a \in Seq(S) /\ Len(q) \in Nat /\ DOMAIN q = 1 .. Len(q)
        /\ DOMAIN a = 1 .. (Len(q) + 1) /\ a[Len(q) + 1] = e
        /\ \A i \in 1 .. Len(q) : a[i] = q[i]
    BY PutFacts
  <1>2. m \in Seq(Nat) /\ x \in Nat
    BY MarkedFacts
  <1>3. DOMAIN m = 1 .. Len(q) /\ \A i \in 1 .. Len(q) : m[i] = f[q[i]]
    BY <1>1 DEF Marked
  <1>4. Len(m) = Len(q)
    BY <1>1, <1>2, <1>3
  <1> HIDE DEF m
  <1>5. /\ Append(m, x) \in Seq(Nat) /\ DOMAIN Append(m, x) = 1 .. (Len(m) + 1)
        /\ Append(m, x)[Len(m) + 1] = x /\ \A i \in 1 .. Len(m) : Append(m, x)[i] = m[i]
    <2> HIDE DEF x
    <2> QED
      BY <1>2, PutFacts
  <1>6. Append(m, x) = [i \in 1 .. (Len(q) + 1) |-> Append(m, x)[i]]
    BY <1>4, <1>5
  <1>7. Marked(a, f) = [i \in 1 .. (Len(q) + 1) |-> f[a[i]]]
    BY <1>1 DEF Marked
  <1>8. \A i \in 1 .. (Len(q) + 1) : f[a[i]] = Append(m, x)[i]
    <2> TAKE i \in 1 .. (Len(q) + 1)
    <2>1. CASE i \in 1 .. Len(q)
      BY <1>1, <1>3, <1>4, <1>5, <2>1
    <2>2. CASE i = Len(q) + 1
      BY <1>1, <1>4, <1>5, <2>2
    <2>3. i \in 1 .. Len(q) \/ i = Len(q) + 1
      BY <1>1
    <2> HIDE DEF a, x
    <2> QED
      BY <2>1, <2>2, <2>3
  <1> HIDE DEF a, x
  <1>9. Marked(a, f) = Append(m, x)
    BY <1>6, <1>7, <1>8
  <1> QED
    BY <1>9 DEF a, m, x

LEMMA MarkedTake ==
    ASSUME NEW S, NEW f \in [S -> Nat], NEW q \in Seq(S), q # <<>>
    PROVE  /\ Marked(q, f) # <<>>
           /\ Head(Marked(q, f)) = f[Head(q)]
           /\ Marked(Tail(q), f) = Tail(Marked(q, f))
  <1> DEFINE m == Marked(q, f)
  <1>1. /\ Head(q) = q[1] /\ Len(q) \in Nat /\ Len(q) >= 1 /\ DOMAIN q = 1 .. Len(q)
        /\ DOMAIN Tail(q) = 1 .. (Len(q) - 1)
        /\ \A i \in 1 .. (Len(q) - 1) : Tail(q)[i] = q[i + 1]
    BY TakeFacts
  <1>2. m \in Seq(Nat) /\ DOMAIN m = 1 .. Len(q) /\ \A i \in 1 .. Len(q) : m[i] = f[q[i]]
    BY <1>1, MarkedFacts DEF Marked
  <1>3. Len(m) = Len(q) /\ m # <<>>
    BY <1>1, <1>2
  <1>4. Marked(Tail(q), f) = [i \in 1 .. (Len(q) - 1) |-> f[Tail(q)[i]]]
    BY <1>1 DEF Marked
  <1> HIDE DEF m
  <1>5. /\ Head(m) = m[1] /\ Tail(m) \in Seq(Nat) /\ DOMAIN Tail(m) = 1 .. (Len(m) - 1)
        /\ \A i \in 1 .. (Len(m) - 1) : Tail(m)[i] = m[i + 1]
    BY <1>2, <1>3, TakeFacts
  <1>6. Tail(m) = [i \in 1 .. (Len(q) - 1) |-> Tail(m)[i]]
    <2>1. DOMAIN Tail(m) = 1 .. (Len(q) - 1)
      BY <1>3, <1>5
    <2>2. \A z \in Seq(Nat) : z = [i \in DOMAIN z |-> z[i]]
      OBVIOUS
    <2>3. Tail(m) = [i \in DOMAIN Tail(m) |-> Tail(m)[i]]
      BY <1>5, <2>2
    <2> QED
      BY <2>1, <2>3
  <1>7. \A i \in 1 .. (Len(q) - 1) : f[Tail(q)[i]] = Tail(m)[i]
    <2> TAKE i \in 1 .. (Len(q) - 1)
    <2>1. i + 1 \in 1 .. Len(q)
      BY <1>1
    <2>2. f[Tail(q)[i]] = f[q[i + 1]] /\ Tail(m)[i] = m[i + 1]
      BY <1>1, <1>3, <1>5
    <2> QED
      BY <1>2, <2>1, <2>2
  <1>8. Marked(Tail(q), f) = Tail(m)
    BY <1>4, <1>6, <1>7
  <1>9. Head(m) = f[Head(q)]
    <2>1. 1 \in 1 .. Len(q)
      BY <1>1
    <2> QED
      BY <1>1, <1>2, <1>5, <2>1
  <1> QED
    BY <1>3, <1>8, <1>9 DEF m

(***************************************************************************)
(* The six lines of a client and a worker.                                 *)
(***************************************************************************)
NoteMark(w) == [m \in Note |-> IF m.by = w THEN m.taskID ELSE 0]
AnswerMark(w) == [m \in Frames(Workers) |-> IF m.by = w THEN m.taskID ELSE 0]
SentMark(k) == [m \in Jobs(Workers) |-> IF m.clientID = k THEN m.body.taskID ELSE 0]
JobMark(k) == [m \in Jobs({0}) |-> IF m.clientID = k THEN m.body.taskID ELSE 0]
FrameMark == [m \in Frames({0}) |-> m.taskID]

LEMMA MarkTypes ==
    ASSUME NEW k, NEW w
    PROVE  /\ NoteMark(w) \in [Note -> Nat]
           /\ AnswerMark(w) \in [Frames(Workers) -> Nat]
           /\ SentMark(k) \in [Jobs(Workers) -> Nat]
           /\ JobMark(k) \in [Jobs({0}) -> Nat]
           /\ FrameMark \in [Frames({0}) -> Nat]
  <1>1. \A m \in Note : m.taskID \in Nat
    BY RequestsAssumption DEF Note
  <1>2. \A S : \A m \in Frames(S) : m.taskID \in Nat
    BY FrameFacts
  <1>3. \A S : \A m \in Jobs(S) : m.body.taskID \in Nat
    BY <1>2, JobFacts
  <1> QED
    BY <1>1, <1>2, <1>3 DEF NoteMark, AnswerMark, SentMark, JobMark, FrameMark

ReceivedLine(k, w) == Marked(received[k], NoteMark(w))
ClientLine(k, w) == Marked(toClient[k], AnswerMark(w))
BackLine(k, w) == Marked(toBack[w], SentMark(k))
HandLine(k, w) == IF busy[w] = NoJob THEN <<>> ELSE <<JobMark(k)[busy[w]]>>
WorkerLine(k, w) == Marked(toWorker[w], JobMark(k))
FrontLine(k) == Marked(toFront[k], FrameMark)

Lines(k, w) ==
    [a \in Places |-> IF a = 1 THEN ReceivedLine(k, w)
                      ELSE IF a = 2 THEN ClientLine(k, w)
                      ELSE IF a = 3 THEN BackLine(k, w)
                      ELSE IF a = 4 THEN HandLine(k, w)
                      ELSE IF a = 5 THEN WorkerLine(k, w)
                      ELSE FrontLine(k)]

LEMMA LinesAre ==
    ASSUME NEW k, NEW w
    PROVE  /\ Lines(k, w)[1] = ReceivedLine(k, w) /\ Lines(k, w)[2] = ClientLine(k, w)
           /\ Lines(k, w)[3] = BackLine(k, w) /\ Lines(k, w)[4] = HandLine(k, w)
           /\ Lines(k, w)[5] = WorkerLine(k, w) /\ Lines(k, w)[6] = FrontLine(k)
           /\ Lines(k, w)'[1] = ReceivedLine(k, w)' /\ Lines(k, w)'[2] = ClientLine(k, w)'
           /\ Lines(k, w)'[3] = BackLine(k, w)' /\ Lines(k, w)'[4] = HandLine(k, w)'
           /\ Lines(k, w)'[5] = WorkerLine(k, w)' /\ Lines(k, w)'[6] = FrontLine(k)'
           /\ \A a \in Places : a \in {1, 2, 3, 4, 5, 6}
  <1>1. /\ 1 \in Places /\ 2 \in Places /\ 3 \in Places /\ 4 \in Places /\ 5 \in Places /\ 6 \in Places
        /\ \A a \in Places : a \in {1, 2, 3, 4, 5, 6}
    BY DEF Places
  <1> QED
    BY <1>1 DEF Lines

LEMMA LinesTyped ==
    ASSUME NEW k \in Clients, NEW w \in Workers
    PROVE  /\ TypeOK => Lines(k, w) \in [Places -> Seq(Nat)]
           /\ TypeOK' => Lines(k, w)' \in [Places -> Seq(Nat)]
  <1>1. ASSUME NEW x \in Nat PROVE <<x>> \in Seq(Nat)
    BY <1>1
  <1>2. ASSUME TypeOK PROVE Lines(k, w) \in [Places -> Seq(Nat)]
    <2>1. ClientTypes /\ WorkTypes
      BY <1>2, TypeParts
    <2>2. ReceivedLine(k, w) \in Seq(Nat) /\ ClientLine(k, w) \in Seq(Nat) /\ FrontLine(k) \in Seq(Nat)
      BY <2>1, MarkTypes, MarkedFacts DEF ClientTypes, ReceivedLine, ClientLine, FrontLine
    <2>3. BackLine(k, w) \in Seq(Nat) /\ WorkerLine(k, w) \in Seq(Nat)
      BY <2>1, MarkTypes, MarkedFacts DEF WorkTypes, BackLine, WorkerLine
    <2>4. HandLine(k, w) \in Seq(Nat)
      <3>1. busy[w] # NoJob => JobMark(k)[busy[w]] \in Nat
        BY <2>1, MarkTypes DEF WorkTypes
      <3> QED
        BY <1>1, <3>1 DEF HandLine
    <2> QED
      BY <2>2, <2>3, <2>4 DEF Lines
  <1>3. ASSUME TypeOK' PROVE Lines(k, w)' \in [Places -> Seq(Nat)]
    <2>1. ClientTypes' /\ WorkTypes'
      BY <1>3, TypeParts
    <2>2. ReceivedLine(k, w)' \in Seq(Nat) /\ ClientLine(k, w)' \in Seq(Nat) /\ FrontLine(k)' \in Seq(Nat)
      BY <2>1, MarkTypes, MarkedFacts DEF ClientTypes, ReceivedLine, ClientLine, FrontLine
    <2>3. BackLine(k, w)' \in Seq(Nat) /\ WorkerLine(k, w)' \in Seq(Nat)
      BY <2>1, MarkTypes, MarkedFacts DEF WorkTypes, BackLine, WorkerLine
    <2>4. HandLine(k, w)' \in Seq(Nat)
      <3>1. busy'[w] # NoJob => JobMark(k)[busy'[w]] \in Nat
        BY <2>1, MarkTypes DEF WorkTypes
      <3> QED
        BY <1>1, <3>1 DEF HandLine
    <2> QED
      BY <2>2, <2>3, <2>4 DEF Lines
  <1> QED
    BY <1>2, <1>3

\* A line is the same when its variable is.
LEMMA LinesSame ==
    ASSUME NEW k \in Clients, NEW w \in Workers
    PROVE  /\ received'[k] = received[k] => Lines(k, w)'[1] = Lines(k, w)[1]
           /\ toClient'[k] = toClient[k] => Lines(k, w)'[2] = Lines(k, w)[2]
           /\ toBack'[w] = toBack[w] => Lines(k, w)'[3] = Lines(k, w)[3]
           /\ busy'[w] = busy[w] => Lines(k, w)'[4] = Lines(k, w)[4]
           /\ toWorker'[w] = toWorker[w] => Lines(k, w)'[5] = Lines(k, w)[5]
           /\ toFront'[k] = toFront[k] => Lines(k, w)'[6] = Lines(k, w)[6]
  <1>1. received'[k] = received[k] => ReceivedLine(k, w)' = ReceivedLine(k, w)
    BY DEF ReceivedLine
  <1>2. toClient'[k] = toClient[k] => ClientLine(k, w)' = ClientLine(k, w)
    BY DEF ClientLine
  <1>3. toBack'[w] = toBack[w] => BackLine(k, w)' = BackLine(k, w)
    BY DEF BackLine
  <1>4. busy'[w] = busy[w] => HandLine(k, w)' = HandLine(k, w)
    BY DEF HandLine
  <1>5. toWorker'[w] = toWorker[w] => WorkerLine(k, w)' = WorkerLine(k, w)
    BY DEF WorkerLine
  <1>6. toFront'[k] = toFront[k] => FrontLine(k)' = FrontLine(k)
    BY DEF FrontLine
  <1> QED
    BY <1>1, <1>2, <1>3, <1>4, <1>5, <1>6, LinesAre

(***************************************************************************)
(* Each step, for a client x and a worker v, keeps their lines in order.   *)
(***************************************************************************)
OrderInv == TypeOK /\ \A k \in Clients, w \in Workers : Fine(Lines(k, w), sent[k])

LEMMA OrderSame ==
    ASSUME OrderInv, TypeOK', NEW x \in Clients, NEW v \in Workers, sent'[x] = sent[x],
           received'[x] = received[x], toClient'[x] = toClient[x], toFront'[x] = toFront[x],
           toBack'[v] = toBack[v], busy'[v] = busy[v], toWorker'[v] = toWorker[v]
    PROVE  Fine(Lines(x, v)', sent'[x])
  <1> DEFINE L == Lines(x, v)
             g == Lines(x, v)'
  <1>1. Fine(L, sent[x]) /\ L \in [Places -> Seq(Nat)] /\ g \in [Places -> Seq(Nat)]
    BY LinesTyped DEF OrderInv, Fine
  <1>2. \A a \in Places : g[a] = L[a]
    BY LinesAre, LinesSame
  <1> HIDE DEF L, g
  <1>3. g = L
    BY <1>1, <1>2
  <1>4. Fine(g, sent'[x])
    BY <1>1, <1>3
  <1> QED
    BY <1>4 DEF g

LEMMA SendRequestOrder ==
    ASSUME OrderInv, TypeOK', NEW k \in Clients, SendRequest(k), NEW x \in Clients, NEW v \in Workers
    PROVE  Fine(Lines(x, v)', sent'[x])
  <1> DEFINE e == TaskFrame(sent[k] + 1)
             L == Lines(k, v)
             g == Lines(k, v)'
             n == sent[k]
  <1>0. TypeOK /\ ClientTypes /\ WorkTypes
    BY TypeParts DEF OrderInv
  <1>1. /\ e \in Frames({0}) /\ e.taskID = n + 1 /\ n \in Nat
        /\ sent' = [sent EXCEPT ![k] = @ + 1]
        /\ toFront' = [toFront EXCEPT ![k] = Append(@, e)]
        /\ UNCHANGED <<received, toClient>> /\ WorkSame
    BY <1>0, SendRequestDoes
  <1> HIDE DEF e
  <1>2. ASSUME x # k PROVE Fine(Lines(x, v)', sent'[x])
    BY <1>0, <1>1, <1>2, OrderSame DEF ClientTypes, WorkSame
  <1>3. ASSUME x = k PROVE Fine(Lines(x, v)', sent'[x])
    <2>1. Fine(L, n) /\ g \in [Places -> Seq(Nat)]
      BY LinesTyped DEF OrderInv
    <2>2. \A b \in Places \ {6} : g[b] = L[b]
      BY <1>1, LinesAre, LinesSame DEF WorkSame
    <2>3. g[6] = Append(L[6], n + 1)
      <3>1. toFront'[k] = Append(toFront[k], e) /\ toFront[k] \in Seq(Frames({0}))
        BY <1>0, <1>1 DEF ClientTypes
      <3>2. Marked(Append(toFront[k], e), FrameMark) = Append(Marked(toFront[k], FrameMark), FrameMark[e])
        <4>1. FrameMark \in [Frames({0}) -> Nat]
          BY MarkTypes
        <4> QED
          BY <1>1, <3>1, <4>1, MarkedPut
      <3>3. FrameMark[e] = n + 1
        BY <1>1 DEF FrameMark
      <3>4. FrontLine(k)' = Append(FrontLine(k), n + 1)
        BY <3>1, <3>2, <3>3 DEF FrontLine
      <3> QED
        BY <3>4, LinesAre
    <2> HIDE DEF L, g, n
    <2>4. Fits(L, 6, n + 1)
      <3>1. ASSUME NEW a \in Places, NEW i \in DOMAIN L[a] PROVE L[a][i] <= n + 1 /\ ~(a > 6)
        <4>1. L[a][i] <= n /\ L[a][i] \in Nat /\ n \in Nat
          BY <2>1 DEF Fine, Bounded
        <4> QED
          BY <4>1 DEF Places
      <3> QED
        BY <3>1 DEF Fits
    <2>5. n \in Nat /\ n + 1 \in Nat /\ n <= n + 1 /\ n + 1 <= n + 1 /\ 6 \in Places
      BY <1>1 DEF Places
    <2>6. Grown(L, 6, n + 1, g)
      BY <2>1, <2>2, <2>3 DEF Grown
    <2>7. Fine(g, n + 1)
      BY <2>1, <2>4, <2>5, <2>6, LinePut
    <2>8. sent'[k] = n + 1
      BY <1>0, <1>1 DEF ClientTypes, n
    <2> QED
      BY <1>3, <2>7, <2>8 DEF g
  <1> QED
    BY <1>2, <1>3

LEMMA PollOrder ==
    ASSUME OrderInv, TypeOK', NEW k \in Clients, Poll(k), NEW x \in Clients, NEW v \in Workers
    PROVE  Fine(Lines(x, v)', sent'[x])
  <1> DEFINE m == Head(toClient[k])
             e == [taskID |-> m.taskID, by |-> m.by]
             L == Lines(k, v)
             g == Lines(k, v)'
  <1>0. TypeOK /\ ClientTypes /\ WorkTypes
    BY TypeParts DEF OrderInv
  <1>1. /\ toClient[k] # <<>> /\ m \in Frames(Workers) /\ e \in Note
        /\ e.taskID = m.taskID /\ e.by = m.by
        /\ received' = [received EXCEPT ![k] = Append(@, e)]
        /\ toClient' = [toClient EXCEPT ![k] = Tail(@)]
        /\ UNCHANGED <<sent, toFront>> /\ WorkSame
    BY <1>0, PollDoes
  <1> HIDE DEF m, e
  <1>2. ASSUME x # k PROVE Fine(Lines(x, v)', sent'[x])
    BY <1>0, <1>1, <1>2, OrderSame DEF ClientTypes, WorkSame
  <1>3. ASSUME x = k PROVE Fine(Lines(x, v)', sent'[x])
    <2>1. Fine(L, sent[k]) /\ g \in [Places -> Seq(Nat)]
      BY LinesTyped DEF OrderInv
    <2>2. \A b \in Places \ {1, 2} : g[b] = L[b]
      BY <1>1, LinesAre, LinesSame DEF WorkSame
    <2>3. L[2] # <<>> /\ Head(L[2]) = AnswerMark(v)[m] /\ g[2] = Tail(L[2])
      <3>1. toClient'[k] = Tail(toClient[k]) /\ toClient[k] \in Seq(Frames(Workers))
        BY <1>0, <1>1 DEF ClientTypes
      <3>2. /\ ClientLine(k, v) # <<>> /\ Head(ClientLine(k, v)) = AnswerMark(v)[m]
            /\ ClientLine(k, v)' = Tail(ClientLine(k, v))
        BY <1>1, <3>1, MarkTypes, MarkedTake DEF ClientLine, m
      <3>3. L[2] = ClientLine(k, v) /\ g[2] = ClientLine(k, v)'
        BY LinesAre
      <3> QED
        BY <3>2, <3>3
    <2>4. g[1] = Append(L[1], AnswerMark(v)[m])
      <3>1. received'[k] = Append(received[k], e) /\ received[k] \in Seq(Note)
        BY <1>0, <1>1 DEF ClientTypes
      <3>2. NoteMark(v)[e] = AnswerMark(v)[m]
        BY <1>1 DEF NoteMark, AnswerMark
      <3>3. Marked(Append(received[k], e), NoteMark(v)) = Append(Marked(received[k], NoteMark(v)), NoteMark(v)[e])
        <4>1. NoteMark(v) \in [Note -> Nat]
          BY MarkTypes
        <4> QED
          BY <1>1, <3>1, <4>1, MarkedPut
      <3>4. ReceivedLine(k, v)' = Append(ReceivedLine(k, v), AnswerMark(v)[m])
        BY <3>1, <3>2, <3>3 DEF ReceivedLine
      <3> QED
        BY <3>4, LinesAre
    <2> HIDE DEF L, g
    <2>5. Fine(g, sent[k])
      <3>1. Passed(L, 1, 2, g)
        BY <2>1, <2>2, <2>3, <2>4, NextPlace DEF Passed
      <3> QED
        BY <2>1, <3>1, LinePassed
    <2> QED
      BY <1>1, <1>3, <2>5 DEF g
  <1> QED
    BY <1>2, <1>3

LEMMA ReceiveTaskOrder ==
    ASSUME OrderInv, TypeOK', NEW w \in Workers, ReceiveTask(w), NEW x \in Clients, NEW v \in Workers
    PROVE  Fine(Lines(x, v)', sent'[x])
  <1> DEFINE m == Head(toWorker[w])
             L == Lines(x, w)
             g == Lines(x, w)'
  <1>0. TypeOK /\ ClientTypes /\ WorkTypes
    BY TypeParts DEF OrderInv
  <1>1. /\ toWorker[w] # <<>> /\ m \in Jobs({0}) /\ busy[w] = NoJob
        /\ busy' = [busy EXCEPT ![w] = m]
        /\ toWorker' = [toWorker EXCEPT ![w] = Tail(@)]
        /\ UNCHANGED toBack /\ ClientSame
    BY <1>0, ReceiveTaskDoes
  <1> HIDE DEF m
  <1>2. ASSUME v # w PROVE Fine(Lines(x, v)', sent'[x])
    BY <1>0, <1>1, <1>2, OrderSame DEF WorkTypes, ClientSame
  <1>3. ASSUME v = w PROVE Fine(Lines(x, v)', sent'[x])
    <2>1. Fine(L, sent[x]) /\ g \in [Places -> Seq(Nat)]
      BY LinesTyped DEF OrderInv
    <2>2. \A b \in Places \ {4, 5} : g[b] = L[b]
      BY <1>1, LinesAre, LinesSame DEF ClientSame
    <2>3. L[5] # <<>> /\ Head(L[5]) = JobMark(x)[m] /\ g[5] = Tail(L[5])
      <3>1. toWorker'[w] = Tail(toWorker[w]) /\ toWorker[w] \in Seq(Jobs({0}))
        BY <1>0, <1>1 DEF WorkTypes
      <3>2. /\ WorkerLine(x, w) # <<>> /\ Head(WorkerLine(x, w)) = JobMark(x)[m]
            /\ WorkerLine(x, w)' = Tail(WorkerLine(x, w))
        <4>1. JobMark(x) \in [Jobs({0}) -> Nat]
          BY MarkTypes
        <4> QED
          BY <1>1, <3>1, <4>1, MarkedTake DEF WorkerLine, m
      <3> QED
        BY <3>2, LinesAre
    <2>4. g[4] = Append(L[4], JobMark(x)[m])
      <3>1. HandLine(x, w) = <<>>
        BY <1>1 DEF HandLine
      <3>2. busy'[w] = m /\ m # NoJob
        BY <1>0, <1>1, NoJobAssumption DEF WorkTypes
      <3>3. HandLine(x, w)' = <<JobMark(x)[m]>>
        BY <3>2 DEF HandLine
      <3>4. \A n : Append(<<>>, n) = <<n>>
        OBVIOUS
      <3>5. HandLine(x, w)' = Append(HandLine(x, w), JobMark(x)[m])
        BY <3>1, <3>3, <3>4
      <3> QED
        BY <3>5, LinesAre
    <2> HIDE DEF L, g
    <2>5. Passed(L, 4, 5, g)
      BY <2>1, <2>2, <2>3, <2>4, NextPlace DEF Passed
    <2>6. Fine(g, sent[x])
      BY <2>1, <2>5, LinePassed
    <2> QED
      BY <1>1, <1>3, <2>6 DEF g, ClientSame
  <1> QED
    BY <1>2, <1>3

LEMMA SendAnswerOrder ==
    ASSUME OrderInv, TypeOK', NEW w \in Workers, SendAnswer(w), NEW x \in Clients, NEW v \in Workers
    PROVE  Fine(Lines(x, v)', sent'[x])
  <1> DEFINE m == busy[w]
             e == Answer(w, m)
             L == Lines(x, w)
             g == Lines(x, w)'
  <1>0. TypeOK /\ ClientTypes /\ WorkTypes
    BY TypeParts DEF OrderInv
  <1>1. /\ m # NoJob /\ m \in Jobs({0}) /\ e \in Jobs(Workers)
        /\ toBack' = [toBack EXCEPT ![w] = Append(@, e)]
        /\ (UNCHANGED busy \/ busy' = [busy EXCEPT ![w] = NoJob])
        /\ UNCHANGED toWorker /\ ClientSame
    BY <1>0, SendAnswerDoes
  <1>2. e.clientID = m.clientID /\ e.body.taskID = m.body.taskID
    BY <1>1, AnswerFacts
  <1> HIDE DEF e
  <1>3. ASSUME v # w PROVE Fine(Lines(x, v)', sent'[x])
    <2>1. busy'[v] = busy[v] /\ toBack'[v] = toBack[v]
      BY <1>0, <1>1, <1>3 DEF WorkTypes
    <2> QED
      BY <1>1, <2>1, OrderSame DEF ClientSame
  <1>4. ASSUME v = w PROVE Fine(Lines(x, v)', sent'[x])
    <2>1. Fine(L, sent[x]) /\ g \in [Places -> Seq(Nat)]
      BY LinesTyped DEF OrderInv
    <2>2. \A b \in Places \ {3, 4} : g[b] = L[b]
      BY <1>1, LinesAre, LinesSame DEF ClientSame
    <2>3. L[4] = <<JobMark(x)[m]>>
      <3>1. HandLine(x, w) = <<JobMark(x)[m]>>
        BY <1>1 DEF HandLine
      <3> QED
        BY <3>1, LinesAre
    <2>4. g[3] = Append(L[3], JobMark(x)[m])
      <3>1. toBack'[w] = Append(toBack[w], e) /\ toBack[w] \in Seq(Jobs(Workers))
        BY <1>0, <1>1 DEF WorkTypes
      <3>2. SentMark(x)[e] = JobMark(x)[m]
        BY <1>1, <1>2 DEF SentMark, JobMark
      <3>3. Marked(Append(toBack[w], e), SentMark(x)) = Append(Marked(toBack[w], SentMark(x)), SentMark(x)[e])
        <4>1. SentMark(x) \in [Jobs(Workers) -> Nat]
          BY MarkTypes
        <4> QED
          BY <1>1, <3>1, <4>1, MarkedPut
      <3>4. BackLine(x, w)' = Append(BackLine(x, w), JobMark(x)[m])
        BY <3>1, <3>2, <3>3 DEF BackLine
      <3> QED
        BY <3>4, LinesAre
    <2>5. g[4] = L[4] \/ g[4] = Tail(L[4])
      <3>1. CASE busy'[w] = busy[w]
        BY <3>1, LinesSame
      <3>2. CASE busy' = [busy EXCEPT ![w] = NoJob]
        <4>1. busy'[w] = NoJob
          BY <1>0, <3>2 DEF WorkTypes
        <4>2. HandLine(x, w)' = <<>>
          BY <4>1 DEF HandLine
        <4>3. \A n : Tail(<<n>>) = <<>>
          OBVIOUS
        <4> QED
          BY <2>3, <4>2, <4>3, LinesAre
      <3> QED
        BY <1>1, <3>1, <3>2
    <2>6. L[4] # <<>> /\ Head(L[4]) = JobMark(x)[m]
      BY <2>3
    <2> HIDE DEF L, g
    <2>7. Copied(L, 3, 4, g) \/ Passed(L, 3, 4, g)
      <3>1. CASE g[4] = L[4]
        <4>1. \A b \in Places \ {3} : g[b] = L[b]
          BY <2>2, <3>1
        <4> QED
          BY <2>1, <2>4, <2>6, <4>1, NextPlace DEF Copied
      <3>2. CASE g[4] = Tail(L[4])
        BY <2>1, <2>2, <2>4, <2>6, <3>2, NextPlace DEF Passed
      <3> QED
        BY <2>5, <3>1, <3>2
    <2>8. Fine(g, sent[x])
      BY <2>1, <2>7, LinePassed, LineCopied
    <2> QED
      BY <1>1, <1>4, <2>8 DEF g, ClientSame
  <1> QED
    BY <1>3, <1>4

LEMMA ForwardOrder ==
    ASSUME OrderInv, TypeOK', NEW k \in Clients, Forward(k), BrokerNext,
           NEW x \in Clients, NEW v \in Workers
    PROVE  Fine(Lines(x, v)', sent'[x])
  <1> DEFINE m == Head(toFront[k])
             w == Head(rotation)
             j == Job(k, m)
             L == Lines(x, v)
             g == Lines(x, v)'
             n == sent[x]
  <1>0. TypeOK /\ ClientTypes /\ WorkTypes
    BY TypeParts DEF OrderInv
  <1>1. /\ toFront[k] # <<>> /\ m \in Frames({0})
        /\ w \in Workers /\ j \in Jobs({0}) /\ j.clientID = k /\ j.body = m
        /\ toWorker' = [toWorker EXCEPT ![w] = Append(@, j)]
        /\ toFront' = [toFront EXCEPT ![k] = Tail(@)]
        /\ UNCHANGED <<running, sent, received, busy, copies, toClient, toBack>>
    BY <1>0, ForwardDoes
  <1> HIDE DEF m, w, j
  <1>2. Fine(L, n) /\ g \in [Places -> Seq(Nat)]
    BY LinesTyped DEF OrderInv
  <1>3. \A b \in Places \ {5, 6} : g[b] = L[b]
    BY <1>1, LinesAre, LinesSame
  <1>4. x # k => g[6] = L[6]
    BY <1>0, <1>1, LinesSame DEF ClientTypes
  <1>5. x = k => L[6] # <<>> /\ Head(L[6]) = m.taskID /\ g[6] = Tail(L[6])
    <2> SUFFICES ASSUME x = k PROVE L[6] # <<>> /\ Head(L[6]) = m.taskID /\ g[6] = Tail(L[6])
      OBVIOUS
    <2>1. toFront'[x] = Tail(toFront[x]) /\ toFront[x] \in Seq(Frames({0}))
      BY <1>0, <1>1 DEF ClientTypes
    <2>2. FrontLine(x) # <<>> /\ Head(FrontLine(x)) = FrameMark[m] /\ FrontLine(x)' = Tail(FrontLine(x))
      <3>1. FrameMark \in [Frames({0}) -> Nat]
        BY MarkTypes
      <3> QED
        BY <1>1, <2>1, <3>1, MarkedTake DEF FrontLine, m
    <2>3. FrameMark[m] = m.taskID
      BY <1>1 DEF FrameMark
    <2> QED
      BY <2>2, <2>3, LinesAre
  <1>6. v # w => g[5] = L[5]
    BY <1>0, <1>1, LinesSame DEF WorkTypes
  <1>7. v = w => g[5] = Append(L[5], IF x = k THEN m.taskID ELSE 0)
    <2> SUFFICES ASSUME v = w PROVE g[5] = Append(L[5], IF x = k THEN m.taskID ELSE 0)
      OBVIOUS
    <2>1. toWorker'[v] = Append(toWorker[v], j) /\ toWorker[v] \in Seq(Jobs({0}))
      BY <1>0, <1>1 DEF WorkTypes
    <2>2. JobMark(x)[j] = IF x = k THEN m.taskID ELSE 0
      BY <1>1 DEF JobMark
    <2>3. Marked(Append(toWorker[v], j), JobMark(x)) = Append(Marked(toWorker[v], JobMark(x)), JobMark(x)[j])
      <3>1. JobMark(x) \in [Jobs({0}) -> Nat]
        BY MarkTypes
      <3> QED
        BY <1>1, <2>1, <3>1, MarkedPut
    <2>4. WorkerLine(x, v)' = Append(WorkerLine(x, v), IF x = k THEN m.taskID ELSE 0)
      BY <2>1, <2>2, <2>3 DEF WorkerLine
    <2> QED
      BY <2>4, LinesAre
  <1>8. sent'[x] = n
    BY <1>1
  <1> HIDE DEF L, g, n
  <1>9. 5 \in Places /\ 6 \in Places /\ 6 = 5 + 1
    BY DEF Places
  <1>10. CASE x = k /\ v = w
    <2>1. Passed(L, 5, 6, g)
      BY <1>2, <1>3, <1>5, <1>7, <1>9, <1>10 DEF Passed
    <2>2. Fine(g, n)
      BY <1>2, <2>1, LinePassed
    <2> QED
      BY <1>8, <2>2 DEF g
  <1>11. CASE x = k /\ v # w
    <2>1. \A b \in Places \ {6} : g[b] = L[b]
      BY <1>3, <1>6, <1>11
    <2>2. Fine(g, n)
      BY <1>2, <1>5, <1>9, <1>11, <2>1, LineTake
    <2> QED
      BY <1>8, <2>2 DEF g
  <1>12. CASE x # k /\ v = w
    <2>1. \A b \in Places \ {5} : g[b] = L[b]
      BY <1>3, <1>4, <1>12
    <2>2. g[5] = Append(L[5], 0)
      BY <1>7, <1>12
    <2>3. Fine(g, n)
      BY <1>2, <1>9, <2>1, <2>2, LineOther
    <2> QED
      BY <1>8, <2>3 DEF g
  <1>13. CASE x # k /\ v # w
    <2>1. toFront'[x] = toFront[x] /\ toWorker'[v] = toWorker[v]
      BY <1>0, <1>1, <1>13 DEF ClientTypes, WorkTypes
    <2> QED
      BY <1>1, <2>1, OrderSame
  <1> QED
    BY <1>10, <1>11, <1>12, <1>13

LEMMA BackwardOrder ==
    ASSUME OrderInv, TypeOK', NEW w \in Workers, Backward(w), BrokerNext,
           NEW x \in Clients, NEW v \in Workers
    PROVE  Fine(Lines(x, v)', sent'[x])
  <1> DEFINE m == Head(toBack[w])
             k == m.clientID
             L == Lines(x, v)
             g == Lines(x, v)'
             n == sent[x]
             e == m.body.taskID
  <1>0. TypeOK /\ ClientTypes /\ WorkTypes
    BY TypeParts DEF OrderInv
  <1>1. /\ toBack[w] # <<>> /\ m \in Jobs(Workers)
        /\ k \in Clients /\ m.body \in Frames(Workers) /\ m.body.by = w
        /\ toClient' = [toClient EXCEPT ![k] = Append(@, m.body)]
        /\ toBack' = [toBack EXCEPT ![w] = Tail(@)]
        /\ UNCHANGED <<running, sent, received, busy, copies, toFront, toWorker>>
    BY <1>0, BackwardDoes
  <1> HIDE DEF m
  <1>2. Fine(L, n) /\ g \in [Places -> Seq(Nat)]
    BY LinesTyped DEF OrderInv
  <1>3. \A b \in Places \ {2, 3} : g[b] = L[b]
    BY <1>1, LinesAre, LinesSame
  <1>4. v # w => g[3] = L[3]
    BY <1>0, <1>1, LinesSame DEF WorkTypes
  <1>5. v = w => L[3] # <<>> /\ Head(L[3]) = (IF x = k THEN e ELSE 0) /\ g[3] = Tail(L[3])
    <2> SUFFICES ASSUME v = w
                 PROVE  L[3] # <<>> /\ Head(L[3]) = (IF x = k THEN e ELSE 0) /\ g[3] = Tail(L[3])
      OBVIOUS
    <2>1. toBack'[v] = Tail(toBack[v]) /\ toBack[v] \in Seq(Jobs(Workers))
      BY <1>0, <1>1 DEF WorkTypes
    <2>2. BackLine(x, v) # <<>> /\ Head(BackLine(x, v)) = SentMark(x)[m] /\ BackLine(x, v)' = Tail(BackLine(x, v))
      <3>1. SentMark(x) \in [Jobs(Workers) -> Nat]
        BY MarkTypes
      <3> QED
        BY <1>1, <2>1, <3>1, MarkedTake DEF BackLine, m
    <2>3. SentMark(x)[m] = IF x = k THEN e ELSE 0
      BY <1>1 DEF SentMark
    <2> QED
      BY <2>2, <2>3, LinesAre
  <1>6. x # k => g[2] = L[2]
    BY <1>0, <1>1, LinesSame DEF ClientTypes
  <1>7. x = k => g[2] = Append(L[2], IF v = w THEN e ELSE 0)
    <2> SUFFICES ASSUME x = k PROVE g[2] = Append(L[2], IF v = w THEN e ELSE 0)
      OBVIOUS
    <2>1. toClient'[x] = Append(toClient[x], m.body) /\ toClient[x] \in Seq(Frames(Workers))
      BY <1>0, <1>1 DEF ClientTypes
    <2>2. AnswerMark(v)[m.body] = IF v = w THEN e ELSE 0
      BY <1>1 DEF AnswerMark
    <2>3. Marked(Append(toClient[x], m.body), AnswerMark(v))
            = Append(Marked(toClient[x], AnswerMark(v)), AnswerMark(v)[m.body])
      <3>1. AnswerMark(v) \in [Frames(Workers) -> Nat]
        BY MarkTypes
      <3> QED
        BY <1>1, <2>1, <3>1, MarkedPut
    <2>4. ClientLine(x, v)' = Append(ClientLine(x, v), IF v = w THEN e ELSE 0)
      BY <2>1, <2>2, <2>3 DEF ClientLine
    <2> QED
      BY <2>4, LinesAre
  <1>8. sent'[x] = n
    BY <1>1
  <1> HIDE DEF L, g, n, k, e
  <1>9. 2 \in Places /\ 3 \in Places /\ 3 = 2 + 1
    BY DEF Places
  <1>10. CASE x = k /\ v = w
    <2>1. Passed(L, 2, 3, g)
      BY <1>2, <1>3, <1>5, <1>7, <1>9, <1>10 DEF Passed
    <2>2. Fine(g, n)
      BY <1>2, <2>1, LinePassed
    <2> QED
      BY <1>8, <2>2 DEF g
  <1>11. CASE x # k /\ v = w
    <2>1. \A b \in Places \ {3} : g[b] = L[b]
      BY <1>3, <1>6, <1>11
    <2>2. Fine(g, n)
      BY <1>2, <1>5, <1>9, <1>11, <2>1, LineTake
    <2> QED
      BY <1>8, <2>2 DEF g
  <1>12. CASE x = k /\ v # w
    <2>1. \A b \in Places \ {2} : g[b] = L[b]
      BY <1>3, <1>4, <1>12
    <2>2. g[2] = Append(L[2], 0)
      BY <1>7, <1>12
    <2>3. Fine(g, n)
      BY <1>2, <1>9, <2>1, <2>2, LineOther
    <2> QED
      BY <1>8, <2>3 DEF g
  <1>13. CASE x # k /\ v # w
    <2>1. toClient'[x] = toClient[x] /\ toBack'[v] = toBack[v]
      BY <1>0, <1>1, <1>13 DEF ClientTypes, WorkTypes
    <2> QED
      BY <1>1, <2>1, OrderSame
  <1> QED
    BY <1>10, <1>11, <1>12, <1>13

LEMMA OrderInit == Init => OrderInv
  <1> SUFFICES ASSUME Init, NEW k \in Clients, NEW w \in Workers
               PROVE  Fine(Lines(k, w), sent[k])
    BY TypesInit DEF OrderInv
  <1>1. Lines(k, w) \in [Places -> Seq(Nat)] /\ sent[k] = 0
    BY TypesInit, LinesTyped DEF Init
  <1>2. /\ received[k] = <<>> /\ toClient[k] = <<>> /\ toFront[k] = <<>>
        /\ toBack[w] = <<>> /\ busy[w] = NoJob /\ toWorker[w] = <<>>
    BY DEF Init, ProxyInit
  <1>3. \A f : DOMAIN Marked(<<>>, f) = {}
    BY DEF Marked
  <1>4. DOMAIN HandLine(k, w) = {}
    BY <1>2 DEF HandLine
  <1>5. \A a \in Places : DOMAIN Lines(k, w)[a] = {}
    BY <1>2, <1>3, <1>4, LinesAre
       DEF ReceivedLine, ClientLine, BackLine, WorkerLine, FrontLine
  <1> QED
    BY <1>1, <1>5 DEF Fine, Ordered, Bounded

LEMMA OrderStep == OrderInv /\ [Next]_vars => OrderInv'
  <1> SUFFICES ASSUME OrderInv, [Next]_vars PROVE OrderInv'
    OBVIOUS
  <1>1. TypeOK /\ TypeOK'
    BY TypesStep DEF OrderInv
  <1>2. ASSUME NEW x \in Clients, NEW v \in Workers
        PROVE  Fine(Lines(x, v)', sent'[x])
    <2>1. ASSUME NEW k \in Clients, SendRequest(k) \/ Poll(k) \/ (Forward(k) /\ BrokerNext)
          PROVE  Fine(Lines(x, v)', sent'[x])
      BY <1>1, <2>1, SendRequestOrder, PollOrder, ForwardOrder
    <2>2. ASSUME NEW w \in Workers, ReceiveTask(w) \/ SendAnswer(w) \/ (Backward(w) /\ BrokerNext)
          PROVE  Fine(Lines(x, v)', sent'[x])
      BY <1>1, <2>2, ReceiveTaskOrder, SendAnswerOrder, BackwardOrder
    <2>3. ASSUME ClientSame /\ WorkSame
          PROVE  Fine(Lines(x, v)', sent'[x])
      BY <1>1, <2>3, OrderSame DEF ClientSame, WorkSame
    <2>4. ASSUME NEW w \in Workers, Connect(w), BrokerNext
          PROVE  ClientSame /\ WorkSame
      BY <2>4, ConnectDoes
    <2> QED
      BY <2>1, <2>2, <2>3, <2>4, StepKinds
  <1>3. \A x \in Clients, v \in Workers : Fine(Lines(x, v)', sent'[x])
    BY <1>2
  <1> QED
    BY <1>1, <1>3 DEF OrderInv

LEMMA OrderMeans == OrderInv => AnswersInOrder
  <1> SUFFICES ASSUME OrderInv, NEW k \in Clients,
                      NEW i \in DOMAIN received[k], NEW j \in DOMAIN received[k],
                      i < j, received[k][i].by = received[k][j].by
               PROVE  received[k][i].taskID <= received[k][j].taskID
    BY DEF AnswersInOrder
  <1> DEFINE w == received[k][i].by
             L == Lines(k, w)
  <1>1. received[k] \in Seq(Note)
    BY TypeParts DEF OrderInv, ClientTypes
  <1>2. received[k][i] \in Note /\ received[k][j] \in Note
    BY <1>1
  <1>3. /\ w \in Workers
        /\ received[k][i].taskID \in Nat \ {0} /\ received[k][j].taskID \in Nat \ {0}
    BY <1>2, RequestsAssumption DEF Note
  <1>4. Ordered(L)
    BY <1>3 DEF OrderInv, Fine
  <1>5. L[1] = ReceivedLine(k, w) /\ 1 \in Places
    BY LinesAre DEF Places
  <1>6. /\ i \in DOMAIN L[1] /\ L[1][i] = received[k][i].taskID
        /\ j \in DOMAIN L[1] /\ L[1][j] = received[k][j].taskID
    BY <1>2, <1>5 DEF ReceivedLine, Marked, NoteMark
  <1> HIDE DEF w, L
  <1> QED
    BY <1>3, <1>4, <1>5, <1>6 DEF Ordered

(***************************************************************************)
(* The loop of answers, the proxy and the two threads of the client keep   *)
(* the order: the answers of one worker reach a client in the order of its *)
(* requests, however many are under way.                                   *)
(***************************************************************************)
THEOREM AsyncOrder == Spec => []AnswersInOrder
  BY OrderInit, OrderStep, OrderMeans, PTL DEF Spec

--------------------------------------------------------------------------------
(***************************************************************************)
(* Counting.  A queue whose head is taken has one message less of those    *)
(* that are counted, if the head is one; the others move up by a place.    *)
(***************************************************************************)
One(p) == IF p THEN 1 ELSE 0

Shifts(h, A, x, B) ==
    /\ h \in [A \ {x} -> B]
    /\ \A i, j \in A \ {x} : h[i] = h[j] => i = j
    /\ \A b \in B : \E i \in A \ {x} : h[i] = b

LEMMA ShiftCount ==
    ASSUME NEW A, IsFiniteSet(A), NEW x, NEW B, NEW h, Shifts(h, A, x, B)
    PROVE  /\ IsFiniteSet(B)
           /\ Cardinality(A) \in Nat /\ Cardinality(B) \in Nat
           /\ x \in A => Cardinality(A) = Cardinality(B) + 1
           /\ x \notin A => Cardinality(A) = Cardinality(B)
  <1>1. h \in Bijection(A \ {x}, B)
    BY DEF Shifts, Bijection, Injection, Surjection, IsInjective
  <1>2. ExistsBijection(A \ {x}, B)
    BY <1>1 DEF ExistsBijection
  <1>3. /\ IsFiniteSet(A \ {x})
        /\ Cardinality(A \ {x}) = IF x \in A THEN Cardinality(A) - 1 ELSE Cardinality(A)
    BY FS_RemoveElement
  <1>4. IsFiniteSet(B) /\ Cardinality(B) = Cardinality(A \ {x})
    BY <1>2, <1>3, FS_Bijection
  <1>5. Cardinality(A) \in Nat /\ Cardinality(B) \in Nat
    BY <1>4, FS_CardinalityType
  <1> QED
    BY <1>3, <1>4, <1>5

LEMMA FramesFinite ==
    ASSUME NEW S, NEW q \in Seq(S), NEW n
    PROVE  IsFiniteSet(FramesOf(n, q)) /\ Cardinality(FramesOf(n, q)) \in Nat
  <1>1. FramesOf(n, q) \in SUBSET (1 .. Len(q)) /\ Len(q) \in Int /\ 1 \in Int
    BY DEF FramesOf
  <1>2. IsFiniteSet(1 .. Len(q))
    BY <1>1, FS_Interval
  <1>3. IsFiniteSet(FramesOf(n, q))
    BY <1>1, <1>2, FS_Subset
  <1> QED
    BY <1>3, FS_CardinalityType

LEMMA FramesTake ==
    ASSUME NEW S, NEW q \in Seq(S), NEW n, q # <<>>
    PROVE  Cardinality(FramesOf(n, q)) = Cardinality(FramesOf(n, Tail(q))) + One(Head(q).taskID = n)
  <1> DEFINE A == FramesOf(n, q)
             B == FramesOf(n, Tail(q))
             h == [i \in A \ {1} |-> i - 1]
  <1>1. /\ Head(q) = q[1] /\ Len(q) \in Nat /\ Len(q) >= 1 /\ DOMAIN q = 1 .. Len(q)
        /\ Tail(q) \in Seq(S) /\ DOMAIN Tail(q) = 1 .. (Len(q) - 1)
        /\ \A i \in 1 .. (Len(q) - 1) : Tail(q)[i] = q[i + 1]
    BY TakeFacts
  <1>2. \A i : i \in A <=> i \in 1 .. Len(q) /\ q[i].taskID = n
    BY <1>1 DEF FramesOf
  <1>3. \A i : i \in B <=> i \in 1 .. (Len(q) - 1) /\ q[i + 1].taskID = n
    BY <1>1 DEF FramesOf
  <1>4. IsFiniteSet(A)
    BY FramesFinite
  <1> HIDE DEF A, B
  <1>5. ASSUME NEW i \in A \ {1} PROVE i \in Nat /\ i - 1 \in B
    <2>1. i \in 2 .. Len(q) /\ q[i].taskID = n
      BY <1>1, <1>2
    <2>2. i - 1 \in 1 .. (Len(q) - 1) /\ (i - 1) + 1 = i /\ i \in Nat
      BY <1>1, <2>1
    <2>3. q[(i - 1) + 1].taskID = n
      BY <2>1, <2>2
    <2> QED
      BY <1>3, <2>2, <2>3
  <1>6. h \in [A \ {1} -> B]
    BY <1>5
  <1>7. \A i, j \in A \ {1} : h[i] = h[j] => i = j
    BY <1>5
  <1>8. ASSUME NEW b \in B PROVE \E i \in A \ {1} : h[i] = b
    <2>1. b \in Nat /\ b + 1 \in A \ {1} /\ (b + 1) - 1 = b
      BY <1>1, <1>2, <1>3
    <2>2. h[b + 1] = b
      BY <2>1
    <2> QED
      BY <2>1, <2>2
  <1>9. 1 \in A <=> Head(q).taskID = n
    BY <1>1, <1>2
  <1> HIDE DEF h
  <1>10. /\ Cardinality(A) \in Nat /\ Cardinality(B) \in Nat
         /\ 1 \in A => Cardinality(A) = Cardinality(B) + 1
         /\ 1 \notin A => Cardinality(A) = Cardinality(B)
    <2>1. Shifts(h, A, 1, B)
      BY <1>6, <1>7, <1>8 DEF Shifts
    <2> QED
      BY <1>4, <2>1, ShiftCount
  <1>11. Cardinality(A) = Cardinality(B) + One(Head(q).taskID = n)
    BY <1>9, <1>10 DEF One
  <1> QED
    BY <1>11 DEF A, B

LEMMA FramesPut ==
    ASSUME NEW S, NEW q \in Seq(S), NEW n, NEW e \in S
    PROVE  Cardinality(FramesOf(n, Append(q, e))) = Cardinality(FramesOf(n, q)) + One(e.taskID = n)
  <1> DEFINE A == FramesOf(n, q)
             B == FramesOf(n, Append(q, e))
             k == Len(q) + 1
  <1>1. /\ Len(q) \in Nat /\ DOMAIN q = 1 .. Len(q)
        /\ DOMAIN Append(q, e) = 1 .. (Len(q) + 1)
        /\ Append(q, e)[Len(q) + 1] = e
        /\ \A i \in 1 .. Len(q) : Append(q, e)[i] = q[i]
    BY PutFacts
  <1>2. \A i : i \in A <=> i \in 1 .. Len(q) /\ q[i].taskID = n
    BY <1>1 DEF FramesOf
  <1>3. \A i : i \in B <=> i \in 1 .. k /\ Append(q, e)[i].taskID = n
    BY <1>1 DEF FramesOf
  <1>4. IsFiniteSet(A) /\ Cardinality(A) \in Nat
    BY FramesFinite
  <1> HIDE DEF A, B
  <1>5. k \notin A /\ (k \in B <=> e.taskID = n)
    BY <1>1, <1>2, <1>3
  <1>6. \A i : i # k => (i \in A <=> i \in B)
    <2> SUFFICES ASSUME NEW i, i # k PROVE i \in A <=> i \in B
      OBVIOUS
    <2>1. i \in 1 .. k <=> i \in 1 .. Len(q)
      BY <1>1
    <2> QED
      BY <1>1, <1>2, <1>3, <2>1
  <1> HIDE DEF k
  <1>7. CASE e.taskID = n
    <2>1. B = A \cup {k}
      BY <1>5, <1>6, <1>7
    <2>2. Cardinality(B) = Cardinality(A) + 1
      BY <1>4, <1>5, <2>1, FS_AddElement
    <2> QED
      BY <1>7, <2>2 DEF A, B, One
  <1>8. CASE e.taskID # n
    <2>1. B = A
      <3>1. \A i : i \in A <=> i \in B
        BY <1>5, <1>6, <1>8
      <3> QED
        BY <3>1
    <2> QED
      BY <1>4, <1>8, <2>1 DEF A, B, One
  <1> QED
    BY <1>7, <1>8

\* The same for the queues of all workers, when the one of worker w changes.
LEMMA JobPlace ==
    ASSUME NEW k, NEW n, NEW f, NEW S, f \in [Workers -> Seq(S)]
    PROVE  \A p : p \in JobsOf(k, n, f)
                    <=> \E b \in Workers : \E i \in 1 .. Len(f[b]) : p = <<b, i>> /\ Of(k, n, f[b][i])
  <1>1. \A b \in Workers : DOMAIN f[b] = 1 .. Len(f[b])
    OBVIOUS
  <1>2. ASSUME NEW p, p \in JobsOf(k, n, f)
        PROVE  \E b \in Workers : \E i \in 1 .. Len(f[b]) : p = <<b, i>> /\ Of(k, n, f[b][i])
    <2> PICK b \in Workers : p \in {b} \X {i \in DOMAIN f[b] : Of(k, n, f[b][i])}
      BY <1>2 DEF JobsOf
    <2>1. p = <<b, p[2]>> /\ p[2] \in DOMAIN f[b] /\ Of(k, n, f[b][p[2]])
      OBVIOUS
    <2> QED
      BY <1>1, <2>1
  <1>3. ASSUME NEW p, NEW b \in Workers, NEW i \in 1 .. Len(f[b]), p = <<b, i>>, Of(k, n, f[b][i])
        PROVE  p \in JobsOf(k, n, f)
    <2>1. p \in {b} \X {j \in DOMAIN f[b] : Of(k, n, f[b][j])}
      BY <1>1, <1>3
    <2> QED
      BY <2>1 DEF JobsOf
  <1> QED
    BY <1>2, <1>3

LEMMA JobsTake ==
    ASSUME NEW k, NEW n, NEW S, NEW f, f \in [Workers -> Seq(S)], NEW w \in Workers, f[w] # <<>>,
           IsFiniteSet(JobsOf(k, n, f))
    PROVE  LET g == [f EXCEPT ![w] = Tail(@)]
           IN  /\ IsFiniteSet(JobsOf(k, n, g)) /\ Cardinality(JobsOf(k, n, g)) \in Nat
               /\ Cardinality(JobsOf(k, n, f))
                    = Cardinality(JobsOf(k, n, g)) + One(Of(k, n, Head(f[w])))
  <1> DEFINE g == [f EXCEPT ![w] = Tail(@)]
             A == JobsOf(k, n, f)
             B == JobsOf(k, n, g)
             x == <<w, 1>>
             h == [p \in A \ {x} |-> IF p[1] = w THEN <<w, p[2] - 1>> ELSE p]
  <1>1. /\ Head(f[w]) = f[w][1] /\ Len(f[w]) \in Nat /\ Len(f[w]) >= 1
        /\ Tail(f[w]) \in Seq(S) /\ Len(Tail(f[w])) = Len(f[w]) - 1
        /\ \A i \in 1 .. (Len(f[w]) - 1) : Tail(f[w])[i] = f[w][i + 1]
    BY TakeFacts
  <1>2. /\ g \in [Workers -> Seq(S)] /\ g[w] = Tail(f[w])
        /\ \A b \in Workers \ {w} : g[b] = f[b]
    BY <1>1
  <1> HIDE DEF g
  <1>3. \A p : p \in A <=> \E b \in Workers : \E i \in 1 .. Len(f[b]) : p = <<b, i>> /\ Of(k, n, f[b][i])
    BY JobPlace
  <1>4. \A p : p \in B <=> \E b \in Workers : \E i \in 1 .. Len(g[b]) : p = <<b, i>> /\ Of(k, n, g[b][i])
    BY <1>2, JobPlace
  <1> HIDE DEF A, B
  <1>5. ASSUME NEW p \in A \ {x}
        PROVE  \E b \in Workers : \E i \in Nat :
                    p = <<b, i>> /\ h[p] \in B /\ h[p] = IF b = w THEN <<w, i - 1>> ELSE <<b, i>>
    <2> PICK b \in Workers : \E j \in 1 .. Len(f[b]) : p = <<b, j>> /\ Of(k, n, f[b][j])
      BY <1>3
    <2> PICK i \in 1 .. Len(f[b]) : p = <<b, i>> /\ Of(k, n, f[b][i])
      OBVIOUS
    <2>0. i \in Nat /\ p[1] = b /\ p[2] = i
      OBVIOUS
    <2>1. CASE b = w
      <3>1. i # 1
        BY <2>1
      <3>2. i - 1 \in 1 .. Len(g[w]) /\ (i - 1) + 1 = i
        BY <1>1, <1>2, <2>1, <3>1
      <3>3. g[w][i - 1] = f[w][i]
        BY <1>1, <1>2, <3>2
      <3>4. <<w, i - 1>> \in B
        BY <1>4, <2>1, <3>2, <3>3
      <3> QED
        BY <2>0, <2>1, <3>4
    <2>2. CASE b # w
      <3>1. p \in B
        BY <1>2, <1>4, <2>2
      <3>2. h[p] = p
        BY <2>0, <2>2
      <3> QED
        BY <2>0, <2>2, <3>1, <3>2
    <2> QED
      BY <2>1, <2>2
  <1>6. h \in [A \ {x} -> B]
    <2>1. \A p \in A \ {x} : h[p] \in B
      <3> HIDE DEF h
      <3> QED
        BY <1>5
    <2> QED
      BY <2>1
  <1>7. ASSUME NEW p \in A \ {x}, NEW r \in A \ {x}, h[p] = h[r] PROVE p = r
    <2> HIDE DEF h, x
    <2> PICK b \in Workers : \E i \in Nat :
            p = <<b, i>> /\ h[p] = IF b = w THEN <<w, i - 1>> ELSE <<b, i>>
      BY <1>5
    <2> PICK i \in Nat : p = <<b, i>> /\ h[p] = IF b = w THEN <<w, i - 1>> ELSE <<b, i>>
      OBVIOUS
    <2> PICK c \in Workers : \E j \in Nat :
            r = <<c, j>> /\ h[r] = IF c = w THEN <<w, j - 1>> ELSE <<c, j>>
      BY <1>5
    <2> PICK j \in Nat : r = <<c, j>> /\ h[r] = IF c = w THEN <<w, j - 1>> ELSE <<c, j>>
      OBVIOUS
    <2>1. h[p][1] = b /\ h[r][1] = c
      OBVIOUS
    <2>2. b = c
      BY <1>7, <2>1
    <2>3. h[p][2] = (IF b = w THEN i - 1 ELSE i) /\ h[r][2] = (IF b = w THEN j - 1 ELSE j)
      BY <2>2
    <2>4. i = j
      BY <1>7, <2>3
    <2> QED
      BY <2>2, <2>4
  <1>8. ASSUME NEW p \in B PROVE \E r \in A \ {x} : h[r] = p
    <2> PICK b \in Workers : \E j \in 1 .. Len(g[b]) : p = <<b, j>> /\ Of(k, n, g[b][j])
      BY <1>4
    <2> PICK i \in 1 .. Len(g[b]) : p = <<b, i>> /\ Of(k, n, g[b][i])
      OBVIOUS
    <2>1. CASE b = w
      <3>1. i \in 1 .. (Len(f[w]) - 1) /\ i \in Nat /\ i + 1 \in 1 .. Len(f[w]) /\ i + 1 # 1 /\ (i + 1) - 1 = i
        BY <1>1, <1>2, <2>1
      <3>2. g[w][i] = f[w][i + 1]
        BY <1>1, <1>2, <3>1
      <3>3. <<w, i + 1>> \in A
        BY <1>3, <2>1, <3>1, <3>2
      <3>4. <<w, i + 1>> # x
        BY <3>1
      <3>5. h[<<w, i + 1>>] = <<w, (i + 1) - 1>>
        BY <3>3, <3>4
      <3> QED
        BY <2>1, <3>1, <3>3, <3>4, <3>5
    <2>2. CASE b # w
      <3>1. p \in A
        BY <1>2, <1>3, <2>2
      <3>2. p[1] = b /\ p # x
        BY <2>2
      <3>3. h[p] = p
        BY <2>2, <3>1, <3>2
      <3> QED
        BY <3>1, <3>2, <3>3
    <2> QED
      BY <2>1, <2>2
  <1>9. x \in A <=> Of(k, n, Head(f[w]))
    <2>1. x \in A => Of(k, n, f[w][1])
      BY <1>3
    <2>2. 1 \in 1 .. Len(f[w])
      BY <1>1
    <2>3. Of(k, n, f[w][1]) => x \in A
      BY <1>3, <2>2
    <2> QED
      BY <1>1, <2>1, <2>3
  <1> HIDE DEF h, x
  <1>10. Shifts(h, A, x, B)
    BY <1>6, <1>7, <1>8 DEF Shifts
  <1>11. IsFiniteSet(A)
    BY DEF A
  <1>12. /\ IsFiniteSet(B) /\ Cardinality(A) \in Nat /\ Cardinality(B) \in Nat
         /\ x \in A => Cardinality(A) = Cardinality(B) + 1
         /\ x \notin A => Cardinality(A) = Cardinality(B)
    BY <1>10, <1>11, ShiftCount
  <1>13. Cardinality(A) = Cardinality(B) + One(Of(k, n, Head(f[w])))
    BY <1>9, <1>12 DEF One
  <1> QED
    BY <1>12, <1>13 DEF A, B, g

\* The queues g are those of f with e at the end of the one of w.
Puts(f, S, w, e, g) ==
    /\ f \in [Workers -> Seq(S)] /\ w \in Workers /\ e \in S
    /\ g = [f EXCEPT ![w] = Append(@, e)]

LEMMA JobsPut ==
    ASSUME NEW k, NEW n, NEW S, NEW f, NEW w, NEW e, NEW g, Puts(f, S, w, e, g),
           IsFiniteSet(JobsOf(k, n, f))
    PROVE  /\ IsFiniteSet(JobsOf(k, n, g)) /\ Cardinality(JobsOf(k, n, f)) \in Nat
           /\ Cardinality(JobsOf(k, n, g)) = Cardinality(JobsOf(k, n, f)) + One(Of(k, n, e))
  <1> DEFINE A == JobsOf(k, n, f)
             B == JobsOf(k, n, g)
             l == Len(f[w])
             x == <<w, l + 1>>
  <1>0. f \in [Workers -> Seq(S)] /\ w \in Workers /\ e \in S /\ f[w] \in Seq(S)
    BY DEF Puts
  <1>1. /\ Append(f[w], e) \in Seq(S) /\ l \in Nat /\ Len(Append(f[w], e)) = l + 1
        /\ Append(f[w], e)[l + 1] = e
        /\ \A i \in 1 .. l : Append(f[w], e)[i] = f[w][i]
    BY <1>0, PutFacts
  <1>2. /\ g \in [Workers -> Seq(S)] /\ g[w] = Append(f[w], e)
        /\ \A b \in Workers \ {w} : g[b] = f[b]
    BY <1>0, <1>1 DEF Puts
  <1>3. \A p : p \in A <=> \E b \in Workers : \E i \in 1 .. Len(f[b]) : p = <<b, i>> /\ Of(k, n, f[b][i])
    BY <1>0, JobPlace
  <1>4. \A p : p \in B <=> \E b \in Workers : \E i \in 1 .. Len(g[b]) : p = <<b, i>> /\ Of(k, n, g[b][i])
    BY <1>2, JobPlace
  <1> HIDE DEF A, B
  <1>5. x \notin A
    <2> SUFFICES ASSUME NEW b \in Workers, NEW i \in 1 .. Len(f[b]), x = <<b, i>> PROVE FALSE
      BY <1>3
    <2> QED
      BY <1>1
  <1>6. x \in B <=> Of(k, n, e)
    <2>1. ASSUME NEW b \in Workers, NEW i \in 1 .. Len(g[b]), x = <<b, i>>, Of(k, n, g[b][i])
          PROVE  Of(k, n, e)
      BY <1>1, <1>2, <2>1
    <2>2. l + 1 \in 1 .. Len(g[w]) /\ g[w][l + 1] = e
      BY <1>1, <1>2
    <2>3. Of(k, n, e) => x \in B
      BY <1>0, <1>4, <2>2
    <2> QED
      BY <1>4, <2>1, <2>3
  <1>7. ASSUME NEW p, p # x PROVE p \in A <=> p \in B
    <2>1. ASSUME NEW b \in Workers, NEW i \in 1 .. Len(f[b])
          PROVE  i \in 1 .. Len(g[b]) /\ g[b][i] = f[b][i]
      <3>1. CASE b = w
        BY <1>1, <1>2, <3>1
      <3>2. CASE b # w
        BY <1>2, <3>2
      <3> QED
        BY <3>1, <3>2
    <2>2. ASSUME NEW b \in Workers, NEW i \in 1 .. Len(g[b]), p = <<b, i>>
          PROVE  i \in 1 .. Len(f[b])
      <3>1. CASE b = w
        <4>1. i # l + 1
          BY <1>7, <2>2, <3>1
        <4> QED
          BY <1>1, <1>2, <3>1, <4>1
      <3>2. CASE b # w
        BY <1>2, <3>2
      <3> QED
        BY <3>1, <3>2
    <2>3. p \in A => p \in B
      <3> HAVE p \in A
      <3> PICK b \in Workers : \E i \in 1 .. Len(f[b]) : p = <<b, i>> /\ Of(k, n, f[b][i])
        BY <1>3
      <3> PICK i \in 1 .. Len(f[b]) : p = <<b, i>> /\ Of(k, n, f[b][i])
        OBVIOUS
      <3> QED
        BY <1>4, <2>1
    <2>4. p \in B => p \in A
      <3> HAVE p \in B
      <3> PICK b \in Workers : \E i \in 1 .. Len(g[b]) : p = <<b, i>> /\ Of(k, n, g[b][i])
        BY <1>4
      <3> PICK i \in 1 .. Len(g[b]) : p = <<b, i>> /\ Of(k, n, g[b][i])
        OBVIOUS
      <3> QED
        BY <1>3, <2>1, <2>2
    <2> QED
      BY <2>3, <2>4
  <1>8. IsFiniteSet(A) /\ Cardinality(A) \in Nat
    BY FS_CardinalityType DEF A
  <1> HIDE DEF x
  <1>9. CASE Of(k, n, e)
    <2>1. B = A \cup {x}
      <3>1. \A p : p \in B <=> p \in A \cup {x}
        BY <1>6, <1>7, <1>9
      <3> QED
        BY <3>1
    <2>2. IsFiniteSet(B) /\ Cardinality(B) = Cardinality(A) + 1
      BY <1>5, <1>8, <2>1, FS_AddElement
    <2> QED
      BY <1>8, <1>9, <2>2 DEF A, B, One
  <1>10. CASE ~Of(k, n, e)
    <2>1. B = A
      <3>1. \A p : p \in B <=> p \in A
        BY <1>5, <1>6, <1>7, <1>10
      <3> QED
        BY <3>1
    <2> QED
      BY <1>8, <1>10, <2>1 DEF A, B, One
  <1> QED
    BY <1>9, <1>10

(***************************************************************************)
(* What a step does to the counts of request n of client x.                *)
(***************************************************************************)
Finite(x, n) == IsFiniteSet(JobsOf(x, n, toWorker)) /\ IsFiniteSet(JobsOf(x, n, toBack))

CountsSame(x, n) ==
    Finite(x, n)' /\ Requested(x, n)' = Requested(x, n) /\ Answers(x, n)' = Answers(x, n)

LEMMA CountsNat ==
    ASSUME TypeOK, NEW x \in Clients, NEW n, Finite(x, n)
    PROVE  /\ Requested(x, n) \in Nat /\ Answers(x, n) \in Nat
           /\ Cardinality(FramesOf(n, toFront[x])) \in Nat
           /\ Cardinality(FramesOf(n, toClient[x])) \in Nat
           /\ Cardinality(FramesOf(n, received[x])) \in Nat
           /\ Cardinality(JobsOf(x, n, toWorker)) \in Nat
           /\ Cardinality(JobsOf(x, n, toBack)) \in Nat
  <1>1. /\ toFront[x] \in Seq(Frames({0})) /\ toClient[x] \in Seq(Frames(Workers))
        /\ received[x] \in Seq(Note)
    BY TypeParts DEF ClientTypes
  <1>2. /\ Cardinality(FramesOf(n, toFront[x])) \in Nat
        /\ Cardinality(FramesOf(n, toClient[x])) \in Nat
        /\ Cardinality(FramesOf(n, received[x])) \in Nat
    BY <1>1, FramesFinite
  <1>3. /\ Cardinality(JobsOf(x, n, toWorker)) \in Nat
        /\ Cardinality(JobsOf(x, n, toBack)) \in Nat
    BY FS_CardinalityType DEF Finite
  <1> QED
    BY <1>2, <1>3 DEF Requested, Answers

LEMMA CountsStay ==
    ASSUME NEW x, NEW n, Finite(x, n),
           received'[x] = received[x], toClient'[x] = toClient[x], toFront'[x] = toFront[x],
           UNCHANGED <<toBack, toWorker>>
    PROVE  CountsSame(x, n)
  BY DEF CountsSame, Finite, Requested, Answers

LEMMA SendRequestCounts ==
    ASSUME TypeOK, NEW k \in Clients, SendRequest(k), NEW x \in Clients, NEW n, Finite(x, n)
    PROVE  /\ Finite(x, n)' /\ Answers(x, n)' = Answers(x, n)
           /\ Requested(x, n)' = Requested(x, n) + One(x = k /\ n = sent[k] + 1)
  <1> DEFINE e == TaskFrame(sent[k] + 1)
  <1>0. ClientTypes /\ WorkTypes
    BY TypeParts
  <1>1. /\ e \in Frames({0}) /\ e.taskID = sent[k] + 1
        /\ toFront' = [toFront EXCEPT ![k] = Append(@, e)]
        /\ UNCHANGED <<received, toClient>> /\ WorkSame
    BY SendRequestDoes
  <1> HIDE DEF e
  <1>2. Finite(x, n)' /\ Answers(x, n)' = Answers(x, n)
    BY <1>1 DEF Finite, Answers, WorkSame
  <1>3. CASE x # k
    <2>1. Requested(x, n)' = Requested(x, n)
      BY <1>0, <1>1, <1>3 DEF Requested, ClientTypes, WorkSame
    <2>2. Requested(x, n) \in Nat
      BY CountsNat
    <2> QED
      BY <1>2, <1>3, <2>1, <2>2 DEF One
  <1>4. CASE x = k
    <2>1. toFront'[x] = Append(toFront[x], e) /\ toFront[x] \in Seq(Frames({0}))
      BY <1>0, <1>1, <1>4 DEF ClientTypes
    <2>2. Cardinality(FramesOf(n, toFront'[x])) = Cardinality(FramesOf(n, toFront[x])) + One(e.taskID = n)
      BY <1>1, <2>1, FramesPut
    <2>3. UNCHANGED toWorker
      BY <1>1 DEF WorkSame
    <2>4. Requested(x, n)' = Cardinality(FramesOf(n, toFront'[x])) + Cardinality(JobsOf(x, n, toWorker))
      BY <2>3 DEF Requested
    <2>5. /\ Cardinality(FramesOf(n, toFront[x])) \in Nat /\ Cardinality(JobsOf(x, n, toWorker)) \in Nat
          /\ Requested(x, n) = Cardinality(FramesOf(n, toFront[x])) + Cardinality(JobsOf(x, n, toWorker))
      BY CountsNat DEF Requested
    <2>6. Requested(x, n)' = Requested(x, n) + One(n = sent[k] + 1)
      BY <1>1, <2>2, <2>4, <2>5 DEF One
    <2> QED
      BY <1>2, <1>4, <2>6 DEF One
  <1> QED
    BY <1>3, <1>4

LEMMA PollCounts ==
    ASSUME TypeOK, NEW k \in Clients, Poll(k), NEW x \in Clients, NEW n, Finite(x, n)
    PROVE  CountsSame(x, n)
  <1> DEFINE m == Head(toClient[k])
             e == [taskID |-> m.taskID, by |-> m.by]
  <1>0. ClientTypes /\ WorkTypes
    BY TypeParts
  <1>1. /\ toClient[k] # <<>> /\ m \in Frames(Workers) /\ e \in Note /\ e.taskID = m.taskID
        /\ received' = [received EXCEPT ![k] = Append(@, e)]
        /\ toClient' = [toClient EXCEPT ![k] = Tail(@)]
        /\ UNCHANGED toFront /\ WorkSame
    BY PollDoes
  <1> HIDE DEF m, e
  <1>2. Finite(x, n)' /\ Requested(x, n)' = Requested(x, n)
    BY <1>1 DEF Finite, Requested, WorkSame
  <1>3. CASE x # k
    BY <1>0, <1>1, <1>3, CountsStay DEF ClientTypes, WorkSame
  <1>4. CASE x = k
    <2>1. /\ toClient'[x] = Tail(toClient[x]) /\ toClient[x] \in Seq(Frames(Workers))
          /\ received'[x] = Append(received[x], e) /\ received[x] \in Seq(Note)
      BY <1>0, <1>1, <1>4 DEF ClientTypes
    <2>2. Cardinality(FramesOf(n, received'[x])) = Cardinality(FramesOf(n, received[x])) + One(m.taskID = n)
      BY <1>1, <2>1, FramesPut
    <2>3. Cardinality(FramesOf(n, toClient[x])) = Cardinality(FramesOf(n, toClient'[x])) + One(m.taskID = n)
      BY <1>1, <1>4, <2>1, FramesTake DEF m
    <2>4. UNCHANGED toBack
      BY <1>1 DEF WorkSame
    <2>5. Answers(x, n)' = Cardinality(FramesOf(n, received'[x])) + Cardinality(FramesOf(n, toClient'[x]))
                           + Cardinality(JobsOf(x, n, toBack))
      BY <2>4 DEF Answers
    <2>6. Tail(toClient[x]) \in Seq(Frames(Workers))
      BY <1>1, <1>4, <2>1, TakeFacts
    <2>7. Cardinality(FramesOf(n, toClient'[x])) \in Nat
      BY <2>1, <2>6, FramesFinite
    <2>8. /\ Cardinality(FramesOf(n, received[x])) \in Nat /\ Cardinality(FramesOf(n, toClient[x])) \in Nat
          /\ Cardinality(JobsOf(x, n, toBack)) \in Nat
          /\ Answers(x, n) = Cardinality(FramesOf(n, received[x])) + Cardinality(FramesOf(n, toClient[x]))
                             + Cardinality(JobsOf(x, n, toBack))
      BY CountsNat DEF Answers
    <2>9. Answers(x, n)' = Answers(x, n)
      BY <2>2, <2>3, <2>5, <2>7, <2>8 DEF One
    <2> QED
      BY <1>2, <2>9 DEF CountsSame
  <1> QED
    BY <1>3, <1>4

LEMMA ReceiveTaskCounts ==
    ASSUME TypeOK, NEW w \in Workers, ReceiveTask(w), NEW x \in Clients, NEW n, Finite(x, n)
    PROVE  /\ Finite(x, n)' /\ Answers(x, n)' = Answers(x, n) /\ Requested(x, n)' \in Nat
           /\ Requested(x, n) = Requested(x, n)' + One(Of(x, n, Head(toWorker[w])))
  <1> DEFINE m == Head(toWorker[w])
  <1>1. /\ toWorker[w] # <<>> /\ toWorker' = [toWorker EXCEPT ![w] = Tail(@)]
        /\ UNCHANGED toBack /\ ClientSame
    BY ReceiveTaskDoes
  <1>2. toWorker \in [Workers -> Seq(Jobs({0}))]
    BY TypeParts DEF WorkTypes
  <1>3. /\ IsFiniteSet(JobsOf(x, n, toWorker')) /\ Cardinality(JobsOf(x, n, toWorker')) \in Nat
        /\ Cardinality(JobsOf(x, n, toWorker)) = Cardinality(JobsOf(x, n, toWorker')) + One(Of(x, n, m))
    BY <1>1, <1>2, JobsTake DEF Finite
  <1>4. Finite(x, n)' /\ Answers(x, n)' = Answers(x, n)
    BY <1>1, <1>3 DEF Finite, Answers, ClientSame
  <1>5. Requested(x, n)' = Cardinality(FramesOf(n, toFront[x])) + Cardinality(JobsOf(x, n, toWorker'))
    BY <1>1 DEF Requested, ClientSame
  <1>6. /\ Cardinality(FramesOf(n, toFront[x])) \in Nat
        /\ Requested(x, n) = Cardinality(FramesOf(n, toFront[x])) + Cardinality(JobsOf(x, n, toWorker))
    BY CountsNat DEF Requested
  <1> QED
    BY <1>3, <1>4, <1>5, <1>6 DEF One

LEMMA SendAnswerCounts ==
    ASSUME TypeOK, NEW w \in Workers, SendAnswer(w), NEW x \in Clients, NEW n, Finite(x, n)
    PROVE  /\ Finite(x, n)' /\ Requested(x, n)' = Requested(x, n)
           /\ Answers(x, n)' = Answers(x, n) + One(Of(x, n, busy[w]))
  <1> DEFINE e == Answer(w, busy[w])
  <1>1. /\ busy[w] \in Jobs({0}) /\ e \in Jobs(Workers)
        /\ toBack' = [toBack EXCEPT ![w] = Append(@, e)]
        /\ UNCHANGED toWorker /\ ClientSame
    BY SendAnswerDoes
  <1>2. Of(x, n, e) <=> Of(x, n, busy[w])
    BY <1>1, AnswerFacts DEF Of
  <1> HIDE DEF e
  <1>3. toBack \in [Workers -> Seq(Jobs(Workers))]
    BY TypeParts DEF WorkTypes
  <1>4. /\ IsFiniteSet(JobsOf(x, n, toBack'))
        /\ Cardinality(JobsOf(x, n, toBack')) = Cardinality(JobsOf(x, n, toBack)) + One(Of(x, n, e))
    <2>1. IsFiniteSet(JobsOf(x, n, toBack))
      BY DEF Finite
    <2>2. Puts(toBack, Jobs(Workers), w, e, toBack')
      BY <1>1, <1>3 DEF Puts
    <2> QED
      BY <2>1, <2>2, JobsPut
  <1>5. Finite(x, n)' /\ Requested(x, n)' = Requested(x, n)
    BY <1>1, <1>4 DEF Finite, Requested, ClientSame
  <1>6. Answers(x, n)' = Cardinality(FramesOf(n, received[x])) + Cardinality(FramesOf(n, toClient[x]))
                         + Cardinality(JobsOf(x, n, toBack'))
    BY <1>1 DEF Answers, ClientSame
  <1>7. /\ Cardinality(FramesOf(n, received[x])) \in Nat /\ Cardinality(FramesOf(n, toClient[x])) \in Nat
        /\ Cardinality(JobsOf(x, n, toBack)) \in Nat
        /\ Answers(x, n) = Cardinality(FramesOf(n, received[x])) + Cardinality(FramesOf(n, toClient[x]))
                           + Cardinality(JobsOf(x, n, toBack))
    BY CountsNat DEF Answers
  <1>8. Answers(x, n)' = Answers(x, n) + One(Of(x, n, busy[w]))
    BY <1>2, <1>4, <1>6, <1>7 DEF One
  <1> QED
    BY <1>5, <1>8

LEMMA ForwardCounts ==
    ASSUME TypeOK, NEW k \in Clients, Forward(k), BrokerNext, NEW x \in Clients, NEW n, Finite(x, n)
    PROVE  CountsSame(x, n)
  <1> DEFINE m == Head(toFront[k])
             w == Head(rotation)
             j == Job(k, m)
             d == One(x = k /\ m.taskID = n)
  <1>0. ClientTypes /\ WorkTypes
    BY TypeParts
  <1>1. /\ toFront[k] # <<>> /\ w \in Workers /\ j \in Jobs({0}) /\ j.clientID = k /\ j.body = m
        /\ toWorker' = [toWorker EXCEPT ![w] = Append(@, j)]
        /\ toFront' = [toFront EXCEPT ![k] = Tail(@)]
        /\ UNCHANGED <<running, sent, received, busy, copies, toClient, toBack>>
    BY ForwardDoes
  <1> HIDE DEF m, w, j
  <1>2. /\ IsFiniteSet(JobsOf(x, n, toWorker'))
        /\ Cardinality(JobsOf(x, n, toWorker')) = Cardinality(JobsOf(x, n, toWorker)) + d
    <2>1. One(Of(x, n, j)) = d
      BY <1>1 DEF Of, One
    <2> HIDE DEF d
    <2>2. toWorker \in [Workers -> Seq(Jobs({0}))] /\ IsFiniteSet(JobsOf(x, n, toWorker))
      BY <1>0 DEF WorkTypes, Finite
    <2>3. Puts(toWorker, Jobs({0}), w, j, toWorker')
      BY <1>1, <2>2 DEF Puts
    <2> QED
      BY <2>1, <2>2, <2>3, JobsPut
  <1>3. /\ Cardinality(FramesOf(n, toFront[x])) = Cardinality(FramesOf(n, toFront'[x])) + d
        /\ Cardinality(FramesOf(n, toFront'[x])) \in Nat
    <2>1. CASE x = k
      <3>1. toFront'[x] = Tail(toFront[x]) /\ toFront[x] \in Seq(Frames({0})) /\ toFront[x] # <<>>
        BY <1>0, <1>1, <2>1 DEF ClientTypes
      <3>2. Tail(toFront[x]) \in Seq(Frames({0}))
        BY <3>1, TakeFacts
      <3>3. Cardinality(FramesOf(n, toFront[x])) = Cardinality(FramesOf(n, toFront'[x])) + One(Head(toFront[x]).taskID = n)
        BY <3>1, FramesTake
      <3>4. One(Head(toFront[x]).taskID = n) = d
        BY <2>1 DEF One, m
      <3>5. Cardinality(FramesOf(n, toFront'[x])) \in Nat
        BY <3>1, <3>2, FramesFinite
      <3> HIDE DEF d
      <3> QED
        BY <3>3, <3>4, <3>5
    <2>2. CASE x # k
      <3>1. toFront'[x] = toFront[x] /\ d = 0
        BY <1>0, <1>1, <2>2 DEF ClientTypes, One
      <3>2. Cardinality(FramesOf(n, toFront[x])) \in Nat
        BY CountsNat
      <3> HIDE DEF d
      <3> QED
        BY <3>1, <3>2
    <2> QED
      BY <2>1, <2>2
  <1>4. d \in Nat
    BY DEF One
  <1> HIDE DEF d
  <1>5. Finite(x, n)' /\ Answers(x, n)' = Answers(x, n)
    BY <1>1, <1>2 DEF Finite, Answers
  <1>6. Requested(x, n)' = Cardinality(FramesOf(n, toFront'[x])) + Cardinality(JobsOf(x, n, toWorker'))
    BY DEF Requested
  <1>7. /\ Cardinality(FramesOf(n, toFront[x])) \in Nat /\ Cardinality(JobsOf(x, n, toWorker)) \in Nat
        /\ Requested(x, n) = Cardinality(FramesOf(n, toFront[x])) + Cardinality(JobsOf(x, n, toWorker))
    BY CountsNat DEF Requested
  <1>8. Requested(x, n)' = Requested(x, n)
    BY <1>2, <1>3, <1>4, <1>6, <1>7
  <1> QED
    BY <1>5, <1>8 DEF CountsSame

LEMMA BackwardCounts ==
    ASSUME TypeOK, NEW w \in Workers, Backward(w), BrokerNext, NEW x \in Clients, NEW n, Finite(x, n)
    PROVE  CountsSame(x, n)
  <1> DEFINE m == Head(toBack[w])
             k == m.clientID
             d == One(x = k /\ m.body.taskID = n)
  <1>0. ClientTypes /\ WorkTypes
    BY TypeParts
  <1>1. /\ toBack[w] # <<>> /\ k \in Clients /\ m.body \in Frames(Workers)
        /\ toClient' = [toClient EXCEPT ![k] = Append(@, m.body)]
        /\ toBack' = [toBack EXCEPT ![w] = Tail(@)]
        /\ UNCHANGED <<running, sent, received, busy, copies, toFront, toWorker>>
    BY BackwardDoes
  <1>2. /\ IsFiniteSet(JobsOf(x, n, toBack')) /\ Cardinality(JobsOf(x, n, toBack')) \in Nat
        /\ Cardinality(JobsOf(x, n, toBack)) = Cardinality(JobsOf(x, n, toBack')) + d
    <2>1. One(Of(x, n, m)) = d
      BY DEF Of, One
    <2> HIDE DEF d
    <2>2. toBack \in [Workers -> Seq(Jobs(Workers))] /\ IsFiniteSet(JobsOf(x, n, toBack))
      BY <1>0 DEF WorkTypes, Finite
    <2> QED
      BY <1>1, <2>1, <2>2, JobsTake
  <1> HIDE DEF m
  <1>3. Cardinality(FramesOf(n, toClient'[x])) = Cardinality(FramesOf(n, toClient[x])) + d
    <2>1. CASE x = k
      <3>1. toClient'[x] = Append(toClient[x], m.body) /\ toClient[x] \in Seq(Frames(Workers))
        BY <1>0, <1>1, <2>1 DEF ClientTypes
      <3>2. Cardinality(FramesOf(n, toClient'[x])) = Cardinality(FramesOf(n, toClient[x])) + One(m.body.taskID = n)
        BY <1>1, <3>1, FramesPut
      <3>3. One(m.body.taskID = n) = d
        BY <2>1 DEF One
      <3> HIDE DEF d
      <3> QED
        BY <3>2, <3>3
    <2>2. CASE x # k
      <3>1. toClient'[x] = toClient[x] /\ d = 0
        BY <1>0, <1>1, <2>2 DEF ClientTypes, One
      <3>2. Cardinality(FramesOf(n, toClient[x])) \in Nat
        BY CountsNat
      <3> HIDE DEF d
      <3> QED
        BY <3>1, <3>2
    <2> QED
      BY <2>1, <2>2
  <1>4. d \in Nat
    BY DEF One
  <1> HIDE DEF d
  <1>5. Finite(x, n)' /\ Requested(x, n)' = Requested(x, n)
    BY <1>1, <1>2 DEF Finite, Requested
  <1>6. Answers(x, n)' = Cardinality(FramesOf(n, received[x])) + Cardinality(FramesOf(n, toClient'[x]))
                         + Cardinality(JobsOf(x, n, toBack'))
    BY <1>1 DEF Answers
  <1>7. /\ Cardinality(FramesOf(n, received[x])) \in Nat /\ Cardinality(FramesOf(n, toClient[x])) \in Nat
        /\ Cardinality(JobsOf(x, n, toBack)) \in Nat
        /\ Answers(x, n) = Cardinality(FramesOf(n, received[x])) + Cardinality(FramesOf(n, toClient[x]))
                           + Cardinality(JobsOf(x, n, toBack))
    BY CountsNat DEF Answers
  <1>8. Answers(x, n)' = Answers(x, n)
    BY <1>2, <1>3, <1>4, <1>6, <1>7
  <1> QED
    BY <1>5, <1>8 DEF CountsSame

(***************************************************************************)
(* Every request is accounted for.  Books is Accounted, told of numbers.   *)
(***************************************************************************)
Books(n, s, r, a, W, c) ==
    IF n > s
      THEN r = 0 /\ a = 0 /\ W = {}
      ELSE \/ r = 1 /\ a = 0 /\ W = {}
           \/ r = 0 /\ a = Copies /\ W = {}
           \/ r = 0 /\ \E w \in Workers : W = {w} /\ a = c[w]

LEMMA AccountedBooks ==
    ASSUME NEW x, NEW n
    PROVE  /\ Accounted(x, n)
                <=> Books(n, sent[x], Requested(x, n), Answers(x, n), Answering(x, n), copies)
           /\ Accounted(x, n)'
                <=> Books(n, sent'[x], Requested(x, n)', Answers(x, n)', Answering(x, n)', copies')
  BY DEF Accounted, Books

Booked(x, n) == Finite(x, n) /\ Accounted(x, n)

CopiesInv == TypeOK /\ \A k \in Clients : \A n \in 1 .. Requests : Booked(k, n)

\* A step that leaves the workers' hands and the counts alone.
LEMMA BookedSame ==
    ASSUME NEW x, NEW n, Booked(x, n), CountsSame(x, n), sent'[x] = sent[x], UNCHANGED <<busy, copies>>
    PROVE  Booked(x, n)'
  <1>1. Answering(x, n)' = Answering(x, n)
    BY DEF Answering
  <1>2. Finite(x, n)' /\ Requested(x, n)' = Requested(x, n) /\ Answers(x, n)' = Answers(x, n)
    BY DEF CountsSame
  <1>3. Accounted(x, n)'
    BY <1>1, <1>2, AccountedBooks DEF Booked
  <1> QED
    BY <1>2, <1>3 DEF Booked

LEMMA SendRequestBooked ==
    ASSUME TypeOK, NEW k \in Clients, SendRequest(k),
           NEW x \in Clients, NEW n \in 1 .. Requests, Booked(x, n)
    PROVE  Booked(x, n)'
  <1>1. /\ sent[k] \in Nat /\ sent' = [sent EXCEPT ![k] = @ + 1] /\ UNCHANGED <<busy, copies>>
    BY SendRequestDoes DEF WorkSame
  <1>2. /\ Finite(x, n)' /\ Answers(x, n)' = Answers(x, n)
        /\ Requested(x, n)' = Requested(x, n) + One(x = k /\ n = sent[k] + 1)
    BY SendRequestCounts DEF Booked
  <1>3. Requested(x, n) \in Nat
    BY CountsNat DEF Booked
  <1>4. Answering(x, n)' = Answering(x, n)
    BY <1>1 DEF Answering
  <1>5. sent[x] \in Nat /\ n \in Nat /\ sent'[x] = sent[x] + One(x = k)
    <2>1. sent \in [Clients -> 0 .. Requests]
      BY TypeParts DEF ClientTypes
    <2>2. sent[x] \in Nat /\ n \in Nat
      BY <2>1, RequestsAssumption
    <2>3. x = k => sent'[x] = sent[x] + 1
      BY <1>1, <2>1
    <2>4. x # k => sent'[x] = sent[x] + 0
      BY <1>1, <2>1, <2>2
    <2> QED
      BY <2>2, <2>3, <2>4 DEF One
  <1>6. Books(n, sent[x], Requested(x, n), Answers(x, n), Answering(x, n), copies)
    BY AccountedBooks DEF Booked
  <1>7. CASE x = k /\ n = sent[k] + 1
    <2>1. n > sent[x] /\ ~(n > sent'[x]) /\ Requested(x, n)' = Requested(x, n) + 1
      BY <1>2, <1>5, <1>7 DEF One
    <2>2. Requested(x, n) = 0 /\ Answers(x, n) = 0 /\ Answering(x, n) = {}
      BY <1>6, <2>1 DEF Books
    <2>3. Requested(x, n)' = 1 /\ Answers(x, n)' = 0 /\ Answering(x, n)' = {}
      BY <1>2, <1>4, <2>1, <2>2
    <2>4. Accounted(x, n)'
      BY <2>1, <2>3, AccountedBooks DEF Books
    <2> QED
      BY <1>2, <2>4 DEF Booked
  <1>8. CASE ~(x = k /\ n = sent[k] + 1)
    <2>1. n > sent'[x] <=> n > sent[x]
      <3>1. CASE x = k
        BY <1>5, <1>8, <3>1 DEF One
      <3>2. CASE x # k
        BY <1>5, <3>2 DEF One
      <3> QED
        BY <3>1, <3>2
    <2>2. Requested(x, n)' = Requested(x, n)
      BY <1>2, <1>3, <1>8 DEF One
    <2>3. Books(n, sent'[x], Requested(x, n)', Answers(x, n)', Answering(x, n)', copies')
      BY <1>1, <1>2, <1>4, <1>6, <2>1, <2>2 DEF Books
    <2> QED
      BY <1>2, <2>3, AccountedBooks DEF Booked
  <1> QED
    BY <1>7, <1>8

LEMMA ReceiveTaskBooked ==
    ASSUME TypeOK, NEW w \in Workers, ReceiveTask(w),
           NEW x \in Clients, NEW n \in 1 .. Requests, Booked(x, n)
    PROVE  Booked(x, n)'
  <1> DEFINE m == Head(toWorker[w])
  <1>1. /\ m \in Jobs({0}) /\ busy[w] = NoJob /\ busy' = [busy EXCEPT ![w] = m]
        /\ copies' = [copies EXCEPT ![w] = 0] /\ sent' = sent
    BY ReceiveTaskDoes DEF ClientSame
  <1>2. /\ Finite(x, n)' /\ Answers(x, n)' = Answers(x, n) /\ Requested(x, n)' \in Nat
        /\ Requested(x, n) = Requested(x, n)' + One(Of(x, n, m))
    BY ReceiveTaskCounts DEF Booked
  <1> HIDE DEF m
  <1>3. m # NoJob
    BY <1>1, NoJobAssumption
  <1>4. w \notin Answering(x, n)
    BY <1>1 DEF Answering
  <1>5. /\ busy \in [Workers -> Jobs({0}) \cup {NoJob}] /\ copies \in [Workers -> 0 .. Copies - 1]
    BY TypeParts DEF WorkTypes
  <1>6. /\ busy'[w] = m /\ copies'[w] = 0
        /\ \A v \in Workers \ {w} : busy'[v] = busy[v] /\ copies'[v] = copies[v]
    BY <1>1, <1>5
  <1>7. Books(n, sent[x], Requested(x, n), Answers(x, n), Answering(x, n), copies)
    BY AccountedBooks DEF Booked
  <1>8. Answering(x, n) \subseteq Workers
    BY DEF Answering
  <1>9. CASE Of(x, n, m)
    <2>1. Answering(x, n)' = Answering(x, n) \cup {w}
      <3>1. \A v : v \in Answering(x, n)' <=> v \in Answering(x, n) \cup {w}
        BY <1>3, <1>6, <1>9 DEF Answering
      <3> QED
        BY <3>1
    <2>2. Requested(x, n) = Requested(x, n)' + 1
      BY <1>2, <1>9 DEF One
    <2>3. Requested(x, n) # 0
      BY <1>2, <2>2
    <2>4. ~(n > sent[x]) /\ Requested(x, n) = 1 /\ Answers(x, n) = 0 /\ Answering(x, n) = {}
      BY <1>7, <2>3 DEF Books
    <2>5. /\ Requested(x, n)' = 0 /\ Answers(x, n)' = copies'[w]
          /\ Answering(x, n)' = {w} /\ ~(n > sent'[x])
      BY <1>1, <1>2, <1>6, <2>1, <2>2, <2>4
    <2>6. Books(n, sent'[x], Requested(x, n)', Answers(x, n)', Answering(x, n)', copies')
      BY <2>5 DEF Books
    <2> QED
      BY <1>2, <2>6, AccountedBooks DEF Booked
  <1>10. CASE ~Of(x, n, m)
    <2>1. Answering(x, n)' = Answering(x, n)
      <3>1. \A v : v \in Answering(x, n)' <=> v \in Answering(x, n)
        BY <1>4, <1>6, <1>10 DEF Answering
      <3> QED
        BY <3>1
    <2>2. Requested(x, n)' = Requested(x, n)
      BY <1>2, <1>10 DEF One
    <2>3. \A v \in Answering(x, n) : copies'[v] = copies[v]
      BY <1>4, <1>6, <1>8
    <2>4. Books(n, sent'[x], Requested(x, n)', Answers(x, n)', Answering(x, n)', copies')
      BY <1>1, <1>2, <1>7, <2>1, <2>2, <2>3 DEF Books
    <2> QED
      BY <1>2, <2>4, AccountedBooks DEF Booked
  <1> QED
    BY <1>9, <1>10


LEMMA SendAnswerBooked ==
    ASSUME TypeOK, NEW w \in Workers, SendAnswer(w),
           NEW x \in Clients, NEW n \in 1 .. Requests, Booked(x, n)
    PROVE  Booked(x, n)'
  <1>1. /\ busy[w] # NoJob /\ sent' = sent
        /\ \/ /\ copies[w] + 1 # Copies
              /\ copies' = [copies EXCEPT ![w] = @ + 1] /\ UNCHANGED busy
           \/ /\ copies[w] + 1 = Copies
              /\ copies' = [copies EXCEPT ![w] = 0] /\ busy' = [busy EXCEPT ![w] = NoJob]
    BY SendAnswerDoes DEF ClientSame
  <1>2. /\ Finite(x, n)' /\ Requested(x, n)' = Requested(x, n)
        /\ Answers(x, n)' = Answers(x, n) + One(Of(x, n, busy[w]))
    BY SendAnswerCounts DEF Booked
  <1>3. /\ busy \in [Workers -> Jobs({0}) \cup {NoJob}] /\ copies \in [Workers -> 0 .. Copies - 1]
    BY TypeParts DEF WorkTypes
  <1>4. /\ \A v \in Workers \ {w} : busy'[v] = busy[v] /\ copies'[v] = copies[v]
        /\ copies[w] + 1 # Copies => busy'[w] = busy[w] /\ copies'[w] = copies[w] + 1
        /\ copies[w] + 1 = Copies => busy'[w] = NoJob
    BY <1>1, <1>3
  <1>5. w \in Answering(x, n) <=> Of(x, n, busy[w])
    BY <1>1 DEF Answering
  <1>6. Books(n, sent[x], Requested(x, n), Answers(x, n), Answering(x, n), copies)
    BY AccountedBooks DEF Booked
  <1>7. Answering(x, n) \subseteq Workers /\ Answers(x, n) \in Nat
    BY CountsNat DEF Answering, Booked
  <1>8. CASE Of(x, n, busy[w])
    <2>1. /\ ~(n > sent[x]) /\ Requested(x, n) = 0 /\ Answering(x, n) = {w}
          /\ Answers(x, n) = copies[w]
      BY <1>5, <1>6, <1>8 DEF Books
    <2>2. Answers(x, n)' = copies[w] + 1 /\ Requested(x, n)' = 0 /\ ~(n > sent'[x])
      BY <1>1, <1>2, <1>8, <2>1 DEF One
    <2>3. CASE copies[w] + 1 # Copies
      <3>1. \A v : v \in Answering(x, n)' <=> v \in Answering(x, n)
        BY <1>4, <2>3 DEF Answering
      <3>2. Answering(x, n)' = {w}
        BY <2>1, <3>1
      <3>3. Books(n, sent'[x], Requested(x, n)', Answers(x, n)', Answering(x, n)', copies')
        BY <1>4, <2>2, <2>3, <3>2 DEF Books
      <3> QED
        BY <1>2, <3>3, AccountedBooks DEF Booked
    <2>4. CASE copies[w] + 1 = Copies
      <3>1. \A v : v \in Answering(x, n)' <=> v \in Answering(x, n) \ {w}
        BY <1>4, <2>4 DEF Answering
      <3>2. Answering(x, n)' = {}
        BY <2>1, <3>1
      <3>3. Books(n, sent'[x], Requested(x, n)', Answers(x, n)', Answering(x, n)', copies')
        BY <2>2, <2>4, <3>2 DEF Books
      <3> QED
        BY <1>2, <3>3, AccountedBooks DEF Booked
    <2> QED
      BY <2>3, <2>4
  <1>9. CASE ~Of(x, n, busy[w])
    <2>1. Answering(x, n)' = Answering(x, n)
      <3>1. ASSUME NEW v PROVE v \in Answering(x, n)' <=> v \in Answering(x, n)
        <4>1. CASE v = w
          BY <1>4, <1>9, <4>1, <1>1 DEF Answering
        <4>2. CASE v # w
          BY <1>4, <4>2 DEF Answering
        <4> QED
          BY <4>1, <4>2
      <3> QED
        BY <3>1
    <2>2. Answers(x, n)' = Answers(x, n)
      BY <1>2, <1>7, <1>9 DEF One
    <2>3. \A v \in Answering(x, n) : copies'[v] = copies[v]
      BY <1>4, <1>5, <1>7, <1>9
    <2>4. Books(n, sent'[x], Requested(x, n)', Answers(x, n)', Answering(x, n)', copies')
      BY <1>1, <1>2, <1>6, <2>1, <2>2, <2>3 DEF Books
    <2> QED
      BY <1>2, <2>4, AccountedBooks DEF Booked
  <1> QED
    BY <1>8, <1>9

LEMMA CopiesInit == Init => CopiesInv
  <1> SUFFICES ASSUME Init PROVE CopiesInv
    OBVIOUS
  <1>1. TypeOK
    BY TypesInit
  <1> SUFFICES ASSUME NEW k \in Clients, NEW n \in 1 .. Requests PROVE Booked(k, n)
    BY <1>1 DEF CopiesInv
  <1>2. /\ toFront[k] = <<>> /\ toClient[k] = <<>> /\ received[k] = <<>> /\ sent[k] = 0
        /\ \A w \in Workers : toWorker[w] = <<>> /\ toBack[w] = <<>> /\ busy[w] = NoJob
    BY DEF Init, ProxyInit
  <1>3. /\ FramesOf(n, toFront[k]) = {} /\ FramesOf(n, toClient[k]) = {}
        /\ FramesOf(n, received[k]) = {}
    BY <1>2 DEF FramesOf
  <1>4. JobsOf(k, n, toWorker) = {} /\ JobsOf(k, n, toBack) = {}
    BY <1>2 DEF JobsOf
  <1>5. IsFiniteSet({}) /\ Cardinality({}) = 0
    BY FS_EmptySet
  <1>6. Requested(k, n) = 0 /\ Answers(k, n) = 0
    BY <1>3, <1>4, <1>5 DEF Requested, Answers
  <1>7. Answering(k, n) = {}
    BY <1>2 DEF Answering
  <1>8. n > sent[k]
    BY <1>2
  <1>9. Accounted(k, n)
    BY <1>6, <1>7, <1>8 DEF Accounted
  <1> QED
    BY <1>4, <1>5, <1>9 DEF Booked, Finite

LEMMA CopiesStep == CopiesInv /\ [Next]_vars => CopiesInv'
  <1> SUFFICES ASSUME CopiesInv, [Next]_vars PROVE CopiesInv'
    OBVIOUS
  <1>1. TypeOK'
    BY TypesStep DEF CopiesInv
  <1> SUFFICES ASSUME NEW x \in Clients, NEW n \in 1 .. Requests PROVE Booked(x, n)'
    BY <1>1 DEF CopiesInv
  <1>2. TypeOK /\ Booked(x, n) /\ Finite(x, n)
    BY DEF CopiesInv, Booked
  <1>3. ASSUME NEW k \in Clients, SendRequest(k) PROVE Booked(x, n)'
    BY <1>2, <1>3, SendRequestBooked
  <1>4. ASSUME NEW k \in Clients, Poll(k) PROVE Booked(x, n)'
    <2>1. CountsSame(x, n)
      BY <1>2, <1>4, PollCounts
    <2>2. sent' = sent /\ UNCHANGED <<busy, copies>>
      BY <1>4 DEF Poll
    <2> QED
      BY <1>2, <2>1, <2>2, BookedSame
  <1>5. ASSUME NEW k \in Clients, Forward(k), BrokerNext PROVE Booked(x, n)'
    <2>1. CountsSame(x, n)
      BY <1>2, <1>5, ForwardCounts
    <2>2. sent' = sent /\ UNCHANGED <<busy, copies>>
      BY <1>5 DEF BrokerNext
    <2> QED
      BY <1>2, <2>1, <2>2, BookedSame
  <1>6. ASSUME NEW w \in Workers, ReceiveTask(w) PROVE Booked(x, n)'
    BY <1>2, <1>6, ReceiveTaskBooked
  <1>7. ASSUME NEW w \in Workers, SendAnswer(w) PROVE Booked(x, n)'
    BY <1>2, <1>7, SendAnswerBooked
  <1>8. ASSUME NEW w \in Workers, Backward(w), BrokerNext PROVE Booked(x, n)'
    <2>1. CountsSame(x, n)
      BY <1>2, <1>8, BackwardCounts
    <2>2. sent' = sent /\ UNCHANGED <<busy, copies>>
      BY <1>8 DEF BrokerNext
    <2> QED
      BY <1>2, <2>1, <2>2, BookedSame
  <1>9. ASSUME ClientSame, WorkSame PROVE Booked(x, n)'
    <2>1. CountsSame(x, n)
      BY <1>2, <1>9, CountsStay DEF ClientSame, WorkSame
    <2> QED
      BY <1>2, <1>9, <2>1, BookedSame DEF ClientSame, WorkSame
  <1>10. ASSUME NEW w \in Workers, Connect(w), BrokerNext PROVE Booked(x, n)'
    BY <1>9, <1>10, ConnectDoes
  <1> QED
    BY <1>3, <1>4, <1>5, <1>6, <1>7, <1>8, <1>9, <1>10, StepKinds

\* CopiesAccounted: processImp answers a request it received Copies times, and
\* the broker and the sockets lose, double or misplace neither the request nor an
\* answer, so at every moment the copies of a request are all accounted for.
THEOREM AsyncCopies == Spec => []CopiesAccounted
  <1>1. CopiesInv => CopiesAccounted
    BY DEF CopiesInv, CopiesAccounted, Booked
  <1> QED
    BY CopiesInit, CopiesStep, <1>1, PTL DEF Spec

================================================================================
