----------------------------- MODULE ProxyProofs -------------------------------
(***************************************************************************)
(* Theorems about Proxy, for every set of clients and workers and every    *)
(* number of requests.                                                     *)
(***************************************************************************)
EXTENDS Proxy, QueueLemmas

--------------------------------------------------------------------------------
(***************************************************************************)
(* The types, a part for the clients and a part for the rest.              *)
(***************************************************************************)
ClientTypes ==
    /\ clientState \in [Clients -> {"ready", "waiting"}]
    /\ sent \in [Clients -> 0 .. Requests]
    /\ task \in [Clients -> TaskIDs \cup {0}]

WorkTypes ==
    /\ busy \in [Workers -> Jobs \cup {NoJob}]
    /\ toFront \in [Clients -> Seq(TaskIDs)]
    /\ toClient \in [Clients -> Seq(TaskIDs)]
    /\ toBack \in [Workers -> Seq(Jobs)]
    /\ toWorker \in [Workers -> Seq(Jobs)]

TurnTypes == rotation \in Seq(Workers) /\ IsInjective(rotation)

LEMMA TypeParts ==
    /\ TypeOK = (ClientTypes /\ WorkTypes /\ TurnTypes)
    /\ TypeOK' = (ClientTypes' /\ WorkTypes' /\ TurnTypes')
  BY DEF TypeOK, ClientTypes, WorkTypes, TurnTypes

LEMMA TypesInit == Init => TypeOK
  <1> SUFFICES ASSUME Init PROVE ClientTypes /\ WorkTypes /\ TurnTypes
    BY TypeParts
  <1>1. 0 \in 0 .. Requests
    BY RequestsAssumption
  <1>2. ClientTypes
    BY <1>1 DEF Init, ClientTypes
  <1>3. WorkTypes
    BY DEF Init, ProxyInit, WorkTypes
  <1>4. TurnTypes
    BY DEF Init, ProxyInit, TurnTypes, IsInjective
  <1> QED
    BY <1>2, <1>3, <1>4

LEMMA TypesStep == TypeOK /\ [Next]_vars => TypeOK'
  <1> SUFFICES ASSUME ClientTypes, WorkTypes, TurnTypes, [Next]_vars
               PROVE  ClientTypes' /\ WorkTypes' /\ TurnTypes'
    BY TypeParts
  <1>1. ASSUME NEW k \in Clients, SendRequest(k)
        PROVE  ClientTypes' /\ WorkTypes' /\ TurnTypes'
    <2> PICK t \in TaskIDs : /\ task' = [task EXCEPT ![k] = t]
                             /\ toFront' = [toFront EXCEPT ![k] = Append(@, t)]
      BY <1>1 DEF SendRequest
    <2>1. Append(toFront[k], t) \in Seq(TaskIDs)
      BY PutFacts DEF WorkTypes
    <2>2. sent[k] + 1 \in 0 .. Requests
      BY <1>1, RequestsAssumption DEF SendRequest, ClientTypes
    <2> QED
      BY <1>1, <2>1, <2>2 DEF SendRequest, ClientTypes, WorkTypes, TurnTypes
  <1>2. ASSUME NEW k \in Clients, ReceiveResult(k)
        PROVE  ClientTypes' /\ WorkTypes' /\ TurnTypes'
    <2>1. Tail(toClient[k]) \in Seq(TaskIDs)
      BY <1>2, TakeFacts DEF ReceiveResult, WorkTypes
    <2> QED
      BY <1>2, <2>1 DEF ReceiveResult, ClientTypes, WorkTypes, TurnTypes
  <1>3. ASSUME NEW w \in Workers, ReceiveTask(w)
        PROVE  ClientTypes' /\ WorkTypes' /\ TurnTypes'
    <2>1. Head(toWorker[w]) \in Jobs /\ Tail(toWorker[w]) \in Seq(Jobs)
      BY <1>3, TakeFacts DEF ReceiveTask, WorkTypes
    <2> QED
      BY <1>3, <2>1 DEF ReceiveTask, ClientTypes, WorkTypes, TurnTypes, clientVars
  <1>4. ASSUME NEW w \in Workers, SendResult(w)
        PROVE  ClientTypes' /\ WorkTypes' /\ TurnTypes'
    <2>1. busy[w] \in Jobs
      BY <1>4 DEF SendResult, WorkTypes
    <2>2. Append(toBack[w], busy[w]) \in Seq(Jobs)
      BY <2>1, PutFacts DEF WorkTypes
    <2> QED
      BY <1>4, <2>2 DEF SendResult, ClientTypes, WorkTypes, TurnTypes, clientVars
  <1>5. ASSUME BrokerNext
        PROVE  ClientTypes' /\ WorkTypes' /\ TurnTypes'
    <2>1. ClientTypes'
      BY <1>5 DEF BrokerNext, ClientTypes, clientVars
    <2>2. ASSUME NEW k \in Clients, Forward(k)
          PROVE  WorkTypes' /\ TurnTypes'
      <3> DEFINE m == Head(toFront[k])
                 w == Head(rotation)
                 j == Job(k, m)
      <3>1. m \in TaskIDs /\ Tail(toFront[k]) \in Seq(TaskIDs) /\ w \in Workers
        BY <2>2, TakeFacts DEF Forward, WorkTypes, TurnTypes
      <3>2. j \in Jobs
        BY <3>1 DEF Job, Jobs
      <3> HIDE DEF m, w, j
      <3>3. Append(toWorker[w], j) \in Seq(Jobs)
        BY <3>1, <3>2, PutFacts DEF WorkTypes
      <3>4. toWorker' = [toWorker EXCEPT ![w] = Append(@, j)]
        BY <2>2 DEF Forward, m, w, j
      <3>5. WorkTypes'
        BY <1>5, <2>2, <3>1, <3>3, <3>4 DEF BrokerNext, Forward, WorkTypes
      <3>6. TurnTypes'
        BY <2>2, RotationTurns DEF Forward, TurnTypes
      <3> QED
        BY <3>5, <3>6
    <2>3. ASSUME NEW w \in Workers, Connect(w)
          PROVE  WorkTypes' /\ TurnTypes'
      <3>1. WorkTypes'
        BY <1>5, <2>3 DEF BrokerNext, Connect, WorkTypes
      <3>2. TurnTypes'
        BY <2>3, RotationJoins DEF Connect, TurnTypes
      <3> QED
        BY <3>1, <3>2
    <2>4. ASSUME NEW w \in Workers, Backward(w)
          PROVE  WorkTypes' /\ TurnTypes'
      <3> DEFINE m == Head(toBack[w])
      <3>1. m \in Jobs /\ Tail(toBack[w]) \in Seq(Jobs)
        BY <2>4, TakeFacts DEF Backward, WorkTypes
      <3>2. toClient' = [toClient EXCEPT ![m.clientID] = Append(@, m.body)]
        BY <2>4 DEF Backward
      <3> HIDE DEF m
      <3>3. m.clientID \in Clients /\ m.body \in TaskIDs
        BY <3>1 DEF Jobs
      <3>4. Append(toClient[m.clientID], m.body) \in Seq(TaskIDs)
        BY <3>3, PutFacts DEF WorkTypes
      <3>5. toClient' \in [Clients -> Seq(TaskIDs)]
        BY <3>2, <3>3, <3>4 DEF WorkTypes
      <3> QED
        BY <1>5, <2>4, <3>1, <3>5 DEF BrokerNext, Backward, WorkTypes, TurnTypes
    <2> QED
      BY <1>5, <2>1, <2>2, <2>3, <2>4 DEF BrokerNext, ProxyNext
  <1>6. ASSUME UNCHANGED vars
        PROVE  ClientTypes' /\ WorkTypes' /\ TurnTypes'
    BY <1>6 DEF vars, proxyVars, clientVars, ClientTypes, WorkTypes, TurnTypes
  <1> QED
    BY <1>1, <1>2, <1>3, <1>4, <1>5, <1>6 DEF Next

(***************************************************************************)
(* No client makes more than its requests, what travels is the task of a   *)
(* client, and a connected worker has one turn in a rotation.              *)
(***************************************************************************)
THEOREM ProxyTypes == Spec => []TypeOK
  BY TypesInit, TypesStep, PTL DEF Spec

--------------------------------------------------------------------------------
(***************************************************************************)
(* The one message of each request.  The lines are the connections, each   *)
(* with its direction, and the hand of each worker, which is a line of at  *)
(* most one message; About(k) are the messages about the request of k.     *)
(***************************************************************************)
Lines == ({"toFront", "toClient"} \X Clients) \cup ({"toWorker", "busy", "toBack"} \X Workers)
Item == TaskIDs \cup Jobs

Hand == [w \in Workers |-> IF busy[w] = NoJob THEN <<>> ELSE <<busy[w]>>]

LinesOf(fr, tc, tw, hd, bk) ==
    [b \in Lines |-> IF b[1] = "toFront" THEN fr[b[2]]
                     ELSE IF b[1] = "toClient" THEN tc[b[2]]
                     ELSE IF b[1] = "toWorker" THEN tw[b[2]]
                     ELSE IF b[1] = "busy" THEN hd[b[2]]
                     ELSE bk[b[2]]]

Net == LinesOf(toFront, toClient, toWorker, Hand, toBack)

OfClient(b) == b[1] \in {"toFront", "toClient"}
OwnerOf(b, e) == IF OfClient(b) THEN b[2] ELSE e.clientID
TaskOf(b, e) == IF OfClient(b) THEN e ELSE e.body

About(k) == {p \in Lines \X Item : OwnerOf(p[1], p[2]) = k}

Holds(f, k, b, e) == HasOne(Lines, f, About(k), b, e)
Free(f, k) == HasNone(Lines, f, About(k))

\* What the variables say of the connections is what the lines say.
Typed(fr, tc, tw, hd, bk) ==
    /\ fr \in [Clients -> Seq(TaskIDs)] /\ tc \in [Clients -> Seq(TaskIDs)]
    /\ tw \in [Workers -> Seq(Jobs)] /\ hd \in [Workers -> Seq(Jobs)]
    /\ bk \in [Workers -> Seq(Jobs)]

Laid(f, fr, tc, tw, hd, bk) ==
    /\ f \in [Lines -> Seq(Item)]
    /\ \A k \in Clients :
         /\ <<"toFront", k>> \in Lines /\ f[<<"toFront", k>>] = fr[k]
         /\ <<"toClient", k>> \in Lines /\ f[<<"toClient", k>>] = tc[k]
    /\ \A w \in Workers :
         /\ <<"toWorker", w>> \in Lines /\ f[<<"toWorker", w>>] = tw[w]
         /\ <<"busy", w>> \in Lines /\ f[<<"busy", w>>] = hd[w]
         /\ <<"toBack", w>> \in Lines /\ f[<<"toBack", w>>] = bk[w]

LEMMA LinesFacts ==
    ASSUME NEW fr, NEW tc, NEW tw, NEW hd, NEW bk, Typed(fr, tc, tw, hd, bk)
    PROVE  Laid(LinesOf(fr, tc, tw, hd, bk), fr, tc, tw, hd, bk)
  <1>1. Seq(TaskIDs) \subseteq Seq(Item) /\ Seq(Jobs) \subseteq Seq(Item)
    BY DEF Item
  <1> HIDE DEF Item
  <1>2. ASSUME NEW b \in Lines
        PROVE  LinesOf(fr, tc, tw, hd, bk)[b] \in Seq(Item)
    <2>1. CASE b \in {"toFront", "toClient"} \X Clients
      BY <1>1, <2>1 DEF LinesOf, Typed
    <2>2. CASE b \in {"toWorker", "busy", "toBack"} \X Workers
      BY <1>1, <2>2 DEF LinesOf, Typed
    <2> QED
      BY <2>1, <2>2 DEF Lines
  <1>3. LinesOf(fr, tc, tw, hd, bk) \in [Lines -> Seq(Item)]
    BY <1>2 DEF LinesOf
  <1>4. /\ \A k \in Clients : <<"toFront", k>> \in Lines /\ <<"toClient", k>> \in Lines
        /\ \A w \in Workers : /\ <<"toWorker", w>> \in Lines /\ <<"busy", w>> \in Lines
                              /\ <<"toBack", w>> \in Lines
    BY DEF Lines
  <1> QED
    BY <1>3, <1>4 DEF LinesOf, Laid

\* The hand of a worker is empty or has its job.
LEMMA HandFacts ==
    ASSUME TypeOK
    PROVE  /\ Hand \in [Workers -> Seq(Jobs)]
           /\ \A w \in Workers : /\ busy[w] = NoJob => Hand[w] = <<>>
                                 /\ busy[w] # NoJob => Hand[w] = <<busy[w]>> /\ busy[w] \in Jobs
  <1>1. \A w \in Workers : busy[w] # NoJob => busy[w] \in Jobs
    BY DEF TypeOK
  <1> QED
    BY <1>1 DEF Hand

LEMMA NextHandFacts ==
    ASSUME TypeOK'
    PROVE  /\ Hand' \in [Workers -> Seq(Jobs)]
           /\ \A w \in Workers : /\ busy'[w] = NoJob => Hand'[w] = <<>>
                                 /\ busy'[w] # NoJob => Hand'[w] = <<busy'[w]>> /\ busy'[w] \in Jobs
  <1>1. \A w \in Workers : busy'[w] # NoJob => busy'[w] \in Jobs
    BY DEF TypeOK
  <1> QED
    BY <1>1 DEF Hand

\* The lines before a step and after it.
LEMMA NetLaid == TypeOK => Laid(Net, toFront, toClient, toWorker, Hand, toBack)
  BY LinesFacts, HandFacts DEF TypeOK, Typed, Net

LEMMA NextNetLaid == TypeOK' => Laid(Net', toFront', toClient', toWorker', Hand', toBack')
  BY LinesFacts, NextHandFacts DEF TypeOK, Typed, Net

\* A line is one of the five.
LEMMA LineKinds ==
    ASSUME NEW b \in Lines
    PROVE  \/ \E k \in Clients : b = <<"toFront", k>> \/ b = <<"toClient", k>>
           \/ \E w \in Workers : b = <<"toWorker", w>> \/ b = <<"busy", w>> \/ b = <<"toBack", w>>
  BY DEF Lines

(***************************************************************************)
(* What a step does to the requests: it leaves a client alone, or takes    *)
(* its one message along.                                                  *)
(***************************************************************************)
Untouched(k) ==
    /\ Kept(Lines, Net, Net', About(k))
    /\ clientState'[k] = clientState[k] /\ task'[k] = task[k]

OthersUntouched(k) == \A x \in Clients \ {k} : Untouched(x)

Asked(k) ==
    /\ clientState[k] = "ready" /\ clientState' = [clientState EXCEPT ![k] = "waiting"]
    /\ \E t \in TaskIDs : task' = [task EXCEPT ![k] = t]
    /\ Free(Net, k) => Holds(Net', k, <<"toFront", k>>, task'[k])
    /\ OthersUntouched(k)

Onward(c, d) ==
    \/ c[1] = "toFront" /\ d[1] = "toWorker"
    \/ \E w \in Workers : c = <<"toWorker", w>> /\ d = <<"busy", w>> /\ busy[w] = NoJob
    \/ \E w \in Workers : c = <<"busy", w>> /\ d = <<"toBack", w>>
    \/ c[1] = "toBack" /\ d[1] = "toClient"

Passed(k, c, e, d, x) ==
    /\ \A b, m : Holds(Net, k, b, m) => b = c /\ m = e /\ Holds(Net', k, d, x)
    /\ ~Free(Net, k)
    /\ TaskOf(d, x) = TaskOf(c, e)
    /\ Onward(c, d)
    /\ UNCHANGED <<clientState, task>>
    /\ OthersUntouched(k)

Collected(k) ==
    /\ clientState[k] = "waiting" /\ clientState' = [clientState EXCEPT ![k] = "ready"]
    /\ task' = [task EXCEPT ![k] = 0]
    /\ \A b, m : Holds(Net, k, b, m) => b = <<"toClient", k>> /\ Free(Net', k)
    /\ ~Free(Net, k)
    /\ OthersUntouched(k)

LEMMA AboutFacts ==
    ASSUME NEW k, NEW b \in Lines, NEW e \in Item
    PROVE  <<b, e>> \in About(k) <=> OwnerOf(b, e) = k
  BY DEF About

\* A line is the same when its variable is.
LEMMA SameLine ==
    ASSUME TypeOK, TypeOK', NEW b \in Lines,
           \A x \in Clients : b = <<"toFront", x>> => toFront'[x] = toFront[x],
           \A x \in Clients : b = <<"toClient", x>> => toClient'[x] = toClient[x],
           \A w \in Workers : b = <<"toWorker", w>> => toWorker'[w] = toWorker[w],
           \A w \in Workers : b = <<"busy", w>> => busy'[w] = busy[w],
           \A w \in Workers : b = <<"toBack", w>> => toBack'[w] = toBack[w]
    PROVE  Net'[b] = Net[b]
  <1> DEFINE f == Net
             g == Net'
  <1>1. /\ Laid(f, toFront, toClient, toWorker, Hand, toBack)
        /\ Laid(g, toFront', toClient', toWorker', Hand', toBack')
    BY NetLaid, NextNetLaid
  <1> HIDE DEF f, g
  <1>2. ASSUME NEW x \in Clients, b = <<"toFront", x>> PROVE g[b] = f[b]
    BY <1>1, <1>2 DEF Laid
  <1>3. ASSUME NEW x \in Clients, b = <<"toClient", x>> PROVE g[b] = f[b]
    BY <1>1, <1>3 DEF Laid
  <1>4. ASSUME NEW w \in Workers, b = <<"toWorker", w>> PROVE g[b] = f[b]
    BY <1>1, <1>4 DEF Laid
  <1>5. ASSUME NEW w \in Workers, b = <<"toBack", w>> PROVE g[b] = f[b]
    BY <1>1, <1>5 DEF Laid
  <1>6. ASSUME NEW w \in Workers, b = <<"busy", w>> PROVE g[b] = f[b]
    <2>1. Hand'[w] = Hand[w]
      BY <1>6 DEF Hand
    <2> QED
      BY <1>1, <1>6, <2>1 DEF Laid
  <1>7. g[b] = f[b]
    BY <1>2, <1>3, <1>4, <1>5, <1>6, LineKinds
  <1> QED
    BY <1>7 DEF f, g

\* A handler takes the head of line c and puts e in line d.
LEMMA Passes ==
    ASSUME NEW c, NEW d, NEW e, Passing(Lines, Item, Net, c, d, e, Net'),
           NEW k \in Clients, OwnerOf(c, Head(Net[c])) = k, OwnerOf(d, e) = k,
           TaskOf(d, e) = TaskOf(c, Head(Net[c])), Onward(c, d),
           UNCHANGED <<clientState, task>>
    PROVE  Passed(k, c, Head(Net[c]), d, e)
  <1>1. /\ Net \in [Lines -> Seq(Item)] /\ c \in Lines /\ Net[c] # <<>>
        /\ d \in Lines /\ e \in Item
    BY DEF Passing
  <1>2. Head(Net[c]) \in Item
    BY <1>1, TakeFacts
  <1>3. \A x : /\ <<c, Head(Net[c])>> \in About(x) <=> x = k
               /\ <<d, e>> \in About(x) <=> x = k
    BY <1>1, <1>2, AboutFacts
  <1>4. /\ ~Free(Net, k)
        /\ \A b, m : Holds(Net, k, b, m) => b = c /\ m = Head(Net[c]) /\ Holds(Net', k, d, e)
    <2>1. Moved(Lines, Net, c, Head(Net[c]), d, e, Net', About(k))
      BY <1>3, PassMine
    <2> QED
      BY <2>1 DEF Moved, Holds, Free
  <1>5. ASSUME NEW x \in Clients \ {k}
        PROVE  Kept(Lines, Net, Net', About(x))
    BY <1>3, PassOther
  <1> QED
    BY <1>4, <1>5 DEF Passed, OthersUntouched, Untouched

--------------------------------------------------------------------------------
(***************************************************************************)
(* The steps, as the requests see them.                                    *)
(***************************************************************************)
LEMMA RequestAsks ==
    ASSUME TypeOK, TypeOK', NEW k \in Clients, SendRequest(k)
    PROVE  Asked(k)
  <1> DEFINE c == <<"toFront", k>>
  <1>1. PICK t \in TaskIDs : /\ task' = [task EXCEPT ![k] = t]
                             /\ toFront' = [toFront EXCEPT ![k] = Append(@, t)]
    BY DEF SendRequest
  <1>2. toFront \in [Clients -> Seq(TaskIDs)] /\ task'[k] = t
    BY <1>1 DEF TypeOK
  <1>3. /\ Laid(Net, toFront, toClient, toWorker, Hand, toBack)
        /\ Laid(Net', toFront', toClient', toWorker', Hand', toBack')
    BY NetLaid, NextNetLaid
  <1>4. ASSUME NEW b \in Lines \ {c} PROVE Net'[b] = Net[b]
    <2>1. \A x \in Clients : b = <<"toFront", x>> => toFront'[x] = toFront[x]
      BY <1>1, <1>2
    <2> QED
      BY <2>1, SameLine DEF SendRequest
  <1>5. Putting(Lines, Item, Net, c, t, Net')
    <2>1. toFront'[k] = Append(toFront[k], t)
      BY <1>1, <1>2
    <2>2. c \in Lines /\ Net[c] = toFront[k] /\ Net'[c] = toFront'[k]
          /\ Net \in [Lines -> Seq(Item)] /\ t \in Item
      BY <1>3 DEF Laid, Item
    <2> QED
      BY <1>4, <2>1, <2>2 DEF Putting
  <1>6. \A x : <<c, t>> \in About(x) <=> x = k
    <2>1. c \in Lines /\ t \in Item /\ OwnerOf(c, t) = k
      BY <1>5 DEF Putting, OwnerOf, OfClient
    <2> QED
      BY <2>1, AboutFacts
  <1> HIDE DEF c
  <1>7. Free(Net, k) => Holds(Net', k, c, t)
    BY <1>5, <1>6, PutMine DEF Holds, Free
  <1>8. ASSUME NEW x \in Clients \ {k}
        PROVE  Untouched(x)
    <2>1. Kept(Lines, Net, Net', About(x))
      BY <1>5, <1>6, PutOther
    <2>2. clientState'[x] = clientState[x] /\ task'[x] = task[x]
      BY <1>1 DEF SendRequest, TypeOK
    <2> QED
      BY <2>1, <2>2 DEF Untouched
  <1> QED
    BY <1>1, <1>2, <1>7, <1>8 DEF Asked, OthersUntouched, SendRequest, c

LEMMA ResultCollects ==
    ASSUME TypeOK, TypeOK', NEW k \in Clients, ReceiveResult(k)
    PROVE  Collected(k)
  <1> DEFINE c == <<"toClient", k>>
             m == Head(Net[c])
  <1>1. toClient[k] # <<>> /\ toClient' = [toClient EXCEPT ![k] = Tail(@)]
    BY DEF ReceiveResult
  <1>2. toClient \in [Clients -> Seq(TaskIDs)]
    BY DEF TypeOK
  <1>3. /\ Laid(Net, toFront, toClient, toWorker, Hand, toBack)
        /\ Laid(Net', toFront', toClient', toWorker', Hand', toBack')
    BY NetLaid, NextNetLaid
  <1>4. ASSUME NEW b \in Lines \ {c} PROVE Net'[b] = Net[b]
    <2>1. \A x \in Clients : b = <<"toClient", x>> => toClient'[x] = toClient[x]
      BY <1>1, <1>2
    <2> QED
      BY <2>1, SameLine DEF ReceiveResult
  <1>5. Taking(Lines, Item, Net, c, Net')
    <2>1. toClient'[k] = Tail(toClient[k])
      BY <1>1, <1>2
    <2>2. c \in Lines /\ Net[c] = toClient[k] /\ Net'[c] = toClient'[k]
          /\ Net \in [Lines -> Seq(Item)]
      BY <1>3 DEF Laid
    <2> QED
      BY <1>1, <1>4, <2>1, <2>2 DEF Taking
  <1>6. \A x : <<c, m>> \in About(x) <=> x = k
    <2>1. c \in Lines /\ Net \in [Lines -> Seq(Item)] /\ Net[c] # <<>>
      BY <1>5 DEF Taking
    <2>2. OwnerOf(c, m) = k
      BY DEF OwnerOf, OfClient
    <2> HIDE DEF c
    <2>3. m \in Item
      BY <2>1, TakeFacts
    <2> QED
      BY <2>1, <2>2, <2>3, AboutFacts
  <1>7. /\ ~Free(Net, k)
        /\ \A b, e : Holds(Net, k, b, e) => b = c /\ Free(Net', k)
    <2> HIDE DEF c
    <2>1. Gone(Lines, Net, c, Head(Net[c]), Net', About(k))
      BY <1>5, <1>6, TakeMine
    <2> QED
      BY <2>1 DEF Gone, Holds, Free
  <1>8. ASSUME NEW x \in Clients \ {k}
        PROVE  Untouched(x)
    <2>1. Kept(Lines, Net, Net', About(x))
      <3> HIDE DEF c
      <3> QED
        BY <1>5, <1>6, TakeOther
    <2>2. clientState'[x] = clientState[x] /\ task'[x] = task[x]
      BY DEF ReceiveResult, TypeOK
    <2> QED
      BY <2>1, <2>2 DEF Untouched
  <1> QED
    BY <1>7, <1>8 DEF Collected, OthersUntouched, ReceiveResult

\* A worker takes a task into its hand, which is empty.
LEMMA TaskPasses ==
    ASSUME TypeOK, TypeOK', NEW w \in Workers, ReceiveTask(w)
    PROVE  \E k \in Clients : \E e, x : Passed(k, <<"toWorker", w>>, e, <<"busy", w>>, x)
  <1> DEFINE c == <<"toWorker", w>>
             d == <<"busy", w>>
             m == Head(toWorker[w])
  <1>1. /\ toWorker[w] # <<>> /\ busy[w] = NoJob
        /\ busy' = [busy EXCEPT ![w] = m]
        /\ toWorker' = [toWorker EXCEPT ![w] = Tail(@)]
    BY DEF ReceiveTask
  <1>2. toWorker \in [Workers -> Seq(Jobs)] /\ busy \in [Workers -> Jobs \cup {NoJob}]
    BY DEF TypeOK
  <1>3. /\ Laid(Net, toFront, toClient, toWorker, Hand, toBack)
        /\ Laid(Net', toFront', toClient', toWorker', Hand', toBack')
    BY NetLaid, NextNetLaid
  <1>4. m \in Jobs
    BY <1>1, <1>2, TakeFacts
  <1> HIDE DEF m
  <1>5. ASSUME NEW b \in Lines \ {c, d} PROVE Net'[b] = Net[b]
    <2>1. /\ \A x \in Workers : b = <<"toWorker", x>> => toWorker'[x] = toWorker[x]
          /\ \A x \in Workers : b = <<"busy", x>> => busy'[x] = busy[x]
      BY <1>1, <1>2
    <2> QED
      BY <2>1, SameLine DEF ReceiveTask
  <1>6. Passing(Lines, Item, Net, c, d, m, Net') /\ Head(Net[c]) = m
    <2>1. toWorker'[w] = Tail(toWorker[w])
      BY <1>1, <1>2
    <2>2. Hand[w] = <<>> /\ Hand'[w] = Append(Hand[w], m)
      <3>1. busy'[w] = m /\ m # NoJob
        BY <1>1, <1>2, <1>4, NoJobAssumption DEF Jobs
      <3>2. Hand[w] = <<>> /\ Hand'[w] = <<m>>
        BY <1>1, <3>1, HandFacts, NextHandFacts
      <3>3. <<m>> = Append(<<>>, m)
        OBVIOUS
      <3> QED
        BY <3>2, <3>3
    <2>3. /\ c \in Lines /\ Net[c] = toWorker[w] /\ Net'[c] = toWorker'[w]
          /\ d \in Lines /\ Net[d] = Hand[w] /\ Net'[d] = Hand'[w]
          /\ Net \in [Lines -> Seq(Item)]
      BY <1>3 DEF Laid
    <2>4. m \in Item /\ c # d
      BY <1>4 DEF Item
    <2> QED
      BY <1>1, <1>5, <2>1, <2>2, <2>3, <2>4 DEF Passing, m
  <1>7. m.clientID \in Clients
    BY <1>4 DEF Jobs
  <1>8. /\ OwnerOf(c, m) = m.clientID /\ OwnerOf(d, m) = m.clientID
        /\ TaskOf(c, m) = TaskOf(d, m)
        /\ Onward(c, d)
    BY <1>1 DEF OwnerOf, OfClient, TaskOf, Onward
  <1>9. Passed(m.clientID, c, m, d, m)
    <2> HIDE DEF c, d
    <2>1. UNCHANGED <<clientState, task>>
      BY DEF ReceiveTask, clientVars
    <2> QED
      BY <1>6, <1>7, <1>8, <2>1, Passes
  <1> QED
    BY <1>7, <1>9

LEMMA SendPasses ==
    ASSUME TypeOK, TypeOK', NEW w \in Workers, SendResult(w)
    PROVE  \E k \in Clients : \E e, x : Passed(k, <<"busy", w>>, e, <<"toBack", w>>, x)
  <1> DEFINE c == <<"busy", w>>
             d == <<"toBack", w>>
             m == busy[w]
  <1>1. /\ m # NoJob
        /\ busy' = [busy EXCEPT ![w] = NoJob]
        /\ toBack' = [toBack EXCEPT ![w] = Append(@, m)]
    BY DEF SendResult
  <1>2. toBack \in [Workers -> Seq(Jobs)] /\ busy \in [Workers -> Jobs \cup {NoJob}]
    BY DEF TypeOK
  <1>3. /\ Laid(Net, toFront, toClient, toWorker, Hand, toBack)
        /\ Laid(Net', toFront', toClient', toWorker', Hand', toBack')
    BY NetLaid, NextNetLaid
  <1>4. m \in Jobs
    BY <1>1, <1>2
  <1>5. ASSUME NEW b \in Lines \ {c, d} PROVE Net'[b] = Net[b]
    <2>1. /\ \A x \in Workers : b = <<"toBack", x>> => toBack'[x] = toBack[x]
          /\ \A x \in Workers : b = <<"busy", x>> => busy'[x] = busy[x]
      BY <1>1, <1>2
    <2> QED
      BY <2>1, SameLine DEF SendResult
  <1>6. Passing(Lines, Item, Net, c, d, m, Net') /\ Head(Net[c]) = m
    <2>1. toBack'[w] = Append(toBack[w], m)
      BY <1>1, <1>2
    <2>2. Hand[w] = <<m>> /\ Hand'[w] = <<>>
      BY <1>1, <1>2, HandFacts, NextHandFacts
    <2>3. Hand[w] # <<>> /\ Head(Hand[w]) = m /\ Hand'[w] = Tail(Hand[w])
      BY <2>2
    <2>4. /\ c \in Lines /\ Net[c] = Hand[w] /\ Net'[c] = Hand'[w]
          /\ d \in Lines /\ Net[d] = toBack[w] /\ Net'[d] = toBack'[w]
          /\ Net \in [Lines -> Seq(Item)]
      BY <1>3 DEF Laid
    <2>5. m \in Item /\ c # d
      BY <1>4 DEF Item
    <2> HIDE DEF m
    <2> QED
      BY <1>5, <2>1, <2>3, <2>4, <2>5 DEF Passing
  <1> HIDE DEF m
  <1>7. m.clientID \in Clients
    BY <1>4 DEF Jobs
  <1>8. /\ OwnerOf(c, m) = m.clientID /\ OwnerOf(d, m) = m.clientID
        /\ TaskOf(c, m) = TaskOf(d, m)
        /\ Onward(c, d)
    BY DEF OwnerOf, OfClient, TaskOf, Onward
  <1>9. Passed(m.clientID, c, m, d, m)
    <2> HIDE DEF c, d
    <2>1. UNCHANGED <<clientState, task>>
      BY DEF SendResult, clientVars
    <2> QED
      BY <1>6, <1>7, <1>8, <2>1, Passes
  <1> QED
    BY <1>7, <1>9

\* The proxy hands a task to the worker whose turn it is.
LEMMA ForwardPasses ==
    ASSUME TypeOK, TypeOK', NEW k \in Clients, Forward(k), UNCHANGED <<clientVars, busy>>
    PROVE  \E w \in Workers : \E e, x : Passed(k, <<"toFront", k>>, e, <<"toWorker", w>>, x)
  <1>1. rotation # <<>> /\ rotation \in Seq(Workers)
    BY DEF Forward, TypeOK
  <1> PICK w \in Workers : w = Head(rotation)
    BY <1>1, TakeFacts
  <1> DEFINE c == <<"toFront", k>>
             d == <<"toWorker", w>>
             m == Head(toFront[k])
             x == Job(k, m)
  <1>2. /\ toFront[k] # <<>> /\ toFront' = [toFront EXCEPT ![k] = Tail(@)]
        /\ toWorker' = [toWorker EXCEPT ![w] = Append(@, x)]
        /\ UNCHANGED <<clientState, task, toClient, toBack, busy>>
    BY DEF Forward, clientVars
  <1>3. toFront \in [Clients -> Seq(TaskIDs)] /\ toWorker \in [Workers -> Seq(Jobs)]
    BY DEF TypeOK
  <1>4. /\ Laid(Net, toFront, toClient, toWorker, Hand, toBack)
        /\ Laid(Net', toFront', toClient', toWorker', Hand', toBack')
    BY NetLaid, NextNetLaid
  <1>5. m \in TaskIDs
    BY <1>2, <1>3, TakeFacts
  <1>6. ASSUME NEW b \in Lines \ {c, d} PROVE Net'[b] = Net[b]
    <2>1. /\ \A y \in Clients : b = <<"toFront", y>> => toFront'[y] = toFront[y]
          /\ \A y \in Workers : b = <<"toWorker", y>> => toWorker'[y] = toWorker[y]
      BY <1>2, <1>3
    <2> QED
      BY <1>2, <2>1, SameLine
  <1>7. x \in Jobs /\ OwnerOf(d, x) = k /\ TaskOf(d, x) = m /\ OwnerOf(c, m) = k /\ TaskOf(c, m) = m
    BY <1>5 DEF Job, Jobs, OwnerOf, OfClient, TaskOf
  <1>8. Onward(c, d)
    BY DEF Onward
  <1> HIDE DEF x, m
  <1>9. Passing(Lines, Item, Net, c, d, x, Net') /\ Head(Net[c]) = m
    <2>1. toFront'[k] = Tail(toFront[k]) /\ toWorker'[w] = Append(toWorker[w], x)
      BY <1>2, <1>3
    <2>2. /\ c \in Lines /\ Net[c] = toFront[k] /\ Net'[c] = toFront'[k]
          /\ d \in Lines /\ Net[d] = toWorker[w] /\ Net'[d] = toWorker'[w]
          /\ Net \in [Lines -> Seq(Item)]
      BY <1>4 DEF Laid
    <2>3. x \in Item /\ c # d
      BY <1>7 DEF Item
    <2> QED
      BY <1>2, <1>6, <2>1, <2>2, <2>3 DEF Passing, m
  <1>10. Passed(k, c, m, d, x)
    <2> HIDE DEF c, d
    <2> QED
      BY <1>2, <1>7, <1>8, <1>9, Passes
  <1> QED
    BY <1>10

LEMMA BackwardPasses ==
    ASSUME TypeOK, TypeOK', NEW w \in Workers, Backward(w), UNCHANGED <<clientVars, busy>>
    PROVE  \E k \in Clients : \E e, x : Passed(k, <<"toBack", w>>, e, <<"toClient", k>>, x)
  <1> DEFINE m == Head(toBack[w])
             k == m.clientID
             t == m.body
             c == <<"toBack", w>>
             d == <<"toClient", k>>
  <1>1. /\ toBack[w] # <<>> /\ toBack' = [toBack EXCEPT ![w] = Tail(@)]
        /\ toClient' = [toClient EXCEPT ![k] = Append(@, t)]
        /\ UNCHANGED <<clientState, task, toFront, toWorker, busy>>
    BY DEF Backward, clientVars
  <1>2. toBack \in [Workers -> Seq(Jobs)] /\ toClient \in [Clients -> Seq(TaskIDs)]
    BY DEF TypeOK
  <1>3. /\ Laid(Net, toFront, toClient, toWorker, Hand, toBack)
        /\ Laid(Net', toFront', toClient', toWorker', Hand', toBack')
    BY NetLaid, NextNetLaid
  <1>4. m \in Jobs
    BY <1>1, <1>2, TakeFacts
  <1>5. k \in Clients /\ t \in TaskIDs
    BY <1>4 DEF Jobs
  <1>6. /\ OwnerOf(c, m) = k /\ TaskOf(c, m) = t
        /\ OwnerOf(d, t) = k /\ TaskOf(d, t) = t /\ Onward(c, d)
    BY DEF OwnerOf, OfClient, TaskOf, Onward
  <1> HIDE DEF m, k, t
  <1>7. ASSUME NEW b \in Lines \ {c, d} PROVE Net'[b] = Net[b]
    <2>1. /\ \A x \in Workers : b = <<"toBack", x>> => toBack'[x] = toBack[x]
          /\ \A x \in Clients : b = <<"toClient", x>> => toClient'[x] = toClient[x]
      BY <1>1, <1>2
    <2> QED
      BY <1>1, <2>1, SameLine
  <1>8. Passing(Lines, Item, Net, c, d, t, Net') /\ Head(Net[c]) = m
    <2>1. toBack'[w] = Tail(toBack[w]) /\ toClient'[k] = Append(toClient[k], t)
      BY <1>1, <1>2, <1>5
    <2>2. /\ c \in Lines /\ Net[c] = toBack[w] /\ Net'[c] = toBack'[w]
          /\ d \in Lines /\ Net[d] = toClient[k] /\ Net'[d] = toClient'[k]
          /\ Net \in [Lines -> Seq(Item)]
      BY <1>3, <1>5 DEF Laid
    <2>3. t \in Item /\ c # d
      BY <1>5 DEF Item
    <2> QED
      BY <1>1, <1>7, <2>1, <2>2, <2>3 DEF Passing, m
  <1>9. Passed(k, c, m, d, t)
    <2> HIDE DEF c, d
    <2> QED
      BY <1>1, <1>5, <1>6, <1>8, Passes
  <1> QED
    BY <1>5, <1>9

LEMMA RequestSteps ==
    TypeOK /\ TypeOK' /\ [Next]_vars =>
      \/ \A k \in Clients : Untouched(k)
      \/ \E k \in Clients : \/ Asked(k) \/ Collected(k)
                            \/ \E c, e, d, x : Passed(k, c, e, d, x)
  <1> SUFFICES ASSUME TypeOK, TypeOK', [Next]_vars
               PROVE  \/ \A k \in Clients : Untouched(k)
                      \/ \E k \in Clients : \/ Asked(k) \/ Collected(k)
                                            \/ \E c, e, d, x : Passed(k, c, e, d, x)
    OBVIOUS
  <1>1. ASSUME UNCHANGED <<clientVars, toFront, toClient, toBack, toWorker, busy>>
        PROVE  \A k \in Clients : Untouched(k)
    <2>1. Net' = Net
      BY <1>1 DEF Net, Hand
    <2> QED
      BY <1>1, <2>1 DEF Untouched, Kept, clientVars
  <1>2. ASSUME NEW k \in Clients, SendRequest(k) \/ ReceiveResult(k)
        PROVE  Asked(k) \/ Collected(k)
    BY <1>2, RequestAsks, ResultCollects
  <1>3. ASSUME NEW w \in Workers, ReceiveTask(w) \/ SendResult(w)
        PROVE  \E k \in Clients : \E c, e, d, x : Passed(k, c, e, d, x)
    BY <1>3, TaskPasses, SendPasses
  <1>4. ASSUME BrokerNext, NEW k \in Clients, Forward(k)
        PROVE  \E c, e, d, x : Passed(k, c, e, d, x)
    BY <1>4, ForwardPasses DEF BrokerNext
  <1>5. ASSUME BrokerNext, NEW w \in Workers, Backward(w)
        PROVE  \E k \in Clients : \E c, e, d, x : Passed(k, c, e, d, x)
    BY <1>5, BackwardPasses DEF BrokerNext
  <1>6. ASSUME BrokerNext, NEW w \in Workers, Connect(w)
        PROVE  \A k \in Clients : Untouched(k)
    BY <1>1, <1>6 DEF BrokerNext, Connect
  <1>7. ASSUME BrokerNext
        PROVE  \/ \A k \in Clients : Untouched(k)
               \/ \E k \in Clients : \E c, e, d, x : Passed(k, c, e, d, x)
    BY <1>4, <1>5, <1>6, <1>7 DEF BrokerNext, ProxyNext
  <1>8. ASSUME UNCHANGED vars
        PROVE  \A k \in Clients : Untouched(k)
    BY <1>1, <1>8 DEF vars, proxyVars
  <1> QED
    BY <1>2, <1>3, <1>7, <1>8 DEF Next

--------------------------------------------------------------------------------
(***************************************************************************)
(* The invariant: a waiting client has one message, about its task, and a  *)
(* client that is not waiting has none.                                    *)
(***************************************************************************)
OneRequest(k) ==
    IF clientState[k] = "waiting"
    THEN \E b, e : Holds(Net, k, b, e) /\ TaskOf(b, e) = task[k]
    ELSE Free(Net, k)

Requested == \A k \in Clients : OneRequest(k)

LEMMA HoldsOrFree ==
    ASSUME NEW k, NEW b, NEW e, Holds(Net, k, b, e)
    PROVE  /\ ~Free(Net, k) /\ b \in Lines
           /\ \A c, x : Holds(Net, k, c, x) => c = b /\ x = e
  BY OneIsUnique DEF Holds, Free, HasOne

LEMMA UntouchedRequest ==
    ASSUME NEW k, OneRequest(k), Untouched(k)
    PROVE  OneRequest(k)'
  BY DEF OneRequest, Untouched, Kept, Holds, Free

LEMMA RequestedStep == TypeOK /\ TypeOK' /\ Requested /\ [Next]_vars => Requested'
  <1> SUFFICES ASSUME TypeOK, TypeOK', Requested, [Next]_vars, NEW k \in Clients
               PROVE  OneRequest(k)'
    BY DEF Requested
  <1>0. /\ OneRequest(k) /\ k \in DOMAIN clientState /\ k \in DOMAIN task
    BY DEF Requested, TypeOK
  <1>1. CASE Untouched(k)
    BY <1>0, <1>1, UntouchedRequest
  <1>2. CASE Asked(k)
    <2>1. Free(Net, k) /\ clientState'[k] = "waiting"
      BY <1>0, <1>2 DEF OneRequest, Asked
    <2>2. Holds(Net', k, <<"toFront", k>>, task'[k])
      BY <1>2, <2>1 DEF Asked
    <2>3. TaskOf(<<"toFront", k>>, task'[k]) = task'[k]
      BY DEF TaskOf, OfClient
    <2> QED
      BY <2>1, <2>2, <2>3 DEF OneRequest
  <1>3. CASE Collected(k)
    <2>1. Free(Net', k) /\ clientState'[k] = "ready"
      BY <1>0, <1>3 DEF OneRequest, Collected
    <2> QED
      BY <2>1 DEF OneRequest
  <1>4. ASSUME NEW c, NEW e, NEW d, NEW x, Passed(k, c, e, d, x)
        PROVE  OneRequest(k)'
    <2>1. PICK b, m : Holds(Net, k, b, m) /\ TaskOf(b, m) = task[k] /\ clientState[k] = "waiting"
      BY <1>0, <1>4 DEF OneRequest, Passed
    <2>2. b = c /\ m = e /\ Holds(Net', k, d, x) /\ TaskOf(d, x) = task'[k]
          /\ clientState'[k] = "waiting"
      BY <1>4, <2>1 DEF Passed
    <2> QED
      BY <2>2 DEF OneRequest
  <1>5. ASSUME NEW y \in Clients, NEW c, NEW e, NEW d, NEW x,
               Asked(y) \/ Collected(y) \/ Passed(y, c, e, d, x), y # k
        PROVE  Untouched(k)
    BY <1>5 DEF Asked, Collected, Passed, OthersUntouched
  <1> QED
    BY <1>1, <1>2, <1>3, <1>4, <1>5, RequestSteps

LEMMA RequestedInit == Init => Requested
  <1> SUFFICES ASSUME Init, NEW k \in Clients PROVE OneRequest(k)
    BY DEF Requested
  <1>1. Laid(Net, toFront, toClient, toWorker, Hand, toBack)
    BY TypesInit, NetLaid
  <1>2. ASSUME NEW b \in Lines, NEW j \in DOMAIN Net[b]
        PROVE  FALSE
    <2>0. DOMAIN <<>> = {}
      OBVIOUS
    <2>1. /\ \A x \in Clients : toFront[x] = <<>> /\ toClient[x] = <<>>
          /\ \A w \in Workers : toWorker[w] = <<>> /\ toBack[w] = <<>> /\ Hand[w] = <<>>
      BY DEF Init, ProxyInit, Hand
    <2>a. ASSUME NEW x \in Clients, b = <<"toFront", x>> \/ b = <<"toClient", x>>
          PROVE  Net[b] = <<>>
      BY <1>1, <2>1, <2>a DEF Laid
    <2>b. ASSUME NEW w \in Workers, b = <<"toWorker", w>> \/ b = <<"busy", w>> \/ b = <<"toBack", w>>
          PROVE  Net[b] = <<>>
      BY <1>1, <2>1, <2>b DEF Laid
    <2>2. Net[b] = <<>>
      BY <2>a, <2>b, LineKinds
    <2> QED
      BY <1>2, <2>0, <2>2
  <1>3. Free(Net, k)
    BY <1>2 DEF Free, HasNone
  <1> QED
    BY <1>3 DEF OneRequest, Init

\* The places that PlacesOf collects.
PlaceOf(b, i, e) ==
    IF OfClient(b) THEN <<b[1], i, e>>
    ELSE IF b[1] = "busy" THEN <<"busy", b[2], e.body>>
    ELSE <<b[1], b[2], i, e.body>>

LEMMA PlaceKinds ==
    ASSUME NEW k \in Clients
    PROVE  \A p : p \in PlacesOf(k) <=>
             \/ \E i \in DOMAIN toFront[k] : p = <<"toFront", i, toFront[k][i]>>
             \/ \E i \in DOMAIN toClient[k] : p = <<"toClient", i, toClient[k][i]>>
             \/ \E w \in Workers : \E i \in DOMAIN toWorker[w] :
                  toWorker[w][i].clientID = k /\ p = <<"toWorker", w, i, toWorker[w][i].body>>
             \/ \E w \in Workers : \E i \in DOMAIN toBack[w] :
                  toBack[w][i].clientID = k /\ p = <<"toBack", w, i, toBack[w][i].body>>
             \/ \E w \in Workers :
                  busy[w] # NoJob /\ busy[w].clientID = k /\ p = <<"busy", w, busy[w].body>>
  <1> DEFINE F == {<<"toFront", i, toFront[k][i]>> : i \in DOMAIN toFront[k]}
             R == {<<"toClient", i, toClient[k][i]>> : i \in DOMAIN toClient[k]}
             T == UNION {{<<"toWorker", w, i, toWorker[w][i].body>> :
                             i \in {j \in DOMAIN toWorker[w] : toWorker[w][j].clientID = k}} :
                         w \in Workers}
             B == UNION {{<<"toBack", w, i, toBack[w][i].body>> :
                             i \in {j \in DOMAIN toBack[w] : toBack[w][j].clientID = k}} :
                         w \in Workers}
             H == {<<"busy", w, busy[w].body>> :
                             w \in {v \in Workers : busy[v] # NoJob /\ busy[v].clientID = k}}
  <1>1. PlacesOf(k) = F \cup R \cup T \cup B \cup H
    BY DEF PlacesOf
  <1>2. \A p : p \in F <=> \E i \in DOMAIN toFront[k] : p = <<"toFront", i, toFront[k][i]>>
    OBVIOUS
  <1>3. \A p : p \in R <=> \E i \in DOMAIN toClient[k] : p = <<"toClient", i, toClient[k][i]>>
    OBVIOUS
  <1>4. \A p : p \in T <=> \E w \in Workers : \E i \in DOMAIN toWorker[w] :
                  toWorker[w][i].clientID = k /\ p = <<"toWorker", w, i, toWorker[w][i].body>>
    OBVIOUS
  <1>5. \A p : p \in B <=> \E w \in Workers : \E i \in DOMAIN toBack[w] :
                  toBack[w][i].clientID = k /\ p = <<"toBack", w, i, toBack[w][i].body>>
    OBVIOUS
  <1>6. \A p : p \in H <=> \E w \in Workers :
                  busy[w] # NoJob /\ busy[w].clientID = k /\ p = <<"busy", w, busy[w].body>>
    OBVIOUS
  <1> HIDE DEF F, R, T, B, H
  <1> QED
    BY <1>1, <1>2, <1>3, <1>4, <1>5, <1>6

LEMMA EntryPlaces ==
    ASSUME TypeOK, NEW k \in Clients
    PROVE  /\ \A b \in Lines : \A i \in DOMAIN Net[b] :
                 <<b, Net[b][i]>> \in About(k) => PlaceOf(b, i, Net[b][i]) \in PlacesOf(k)
           /\ \A p \in PlacesOf(k) : \E b \in Lines : \E i \in DOMAIN Net[b] :
                 <<b, Net[b][i]>> \in About(k) /\ p = PlaceOf(b, i, Net[b][i])
  <1>0. Laid(Net, toFront, toClient, toWorker, Hand, toBack)
    BY NetLaid
  <1>1. ASSUME NEW b \in Lines, NEW i \in DOMAIN Net[b]
        PROVE  <<b, Net[b][i]>> \in About(k) <=> OwnerOf(b, Net[b][i]) = k
    <2>1. Net[b] \in Seq(Item)
      BY <1>0 DEF Laid
    <2>2. Net[b][i] \in Item
      BY <2>1
    <2> QED
      BY <2>2, AboutFacts
  \* The hand of a worker, a line of at most one message.
  <1>2. ASSUME NEW w \in Workers
        PROVE  /\ \A i \in DOMAIN Hand[w] : busy[w] # NoJob /\ Hand[w][i] = busy[w]
               /\ busy[w] # NoJob => 1 \in DOMAIN Hand[w] /\ Hand[w][1] = busy[w]
    <2>1. CASE busy[w] = NoJob
      <3>1. DOMAIN <<>> = {}
        OBVIOUS
      <3> QED
        BY <2>1, <3>1, HandFacts
    <2>2. CASE busy[w] # NoJob
      <3>1. Hand[w] = <<busy[w]>>
        BY <2>2, HandFacts
      <3> QED
        BY <2>2, <3>1
    <2> QED
      BY <2>1, <2>2
  <1>3. ASSUME NEW b \in Lines, NEW i \in DOMAIN Net[b], <<b, Net[b][i]>> \in About(k)
        PROVE  PlaceOf(b, i, Net[b][i]) \in PlacesOf(k)
    <2>0. OwnerOf(b, Net[b][i]) = k
      BY <1>1, <1>3
    <2>1. ASSUME NEW x \in Clients, b = <<"toFront", x>>
          PROVE  x = k /\ i \in DOMAIN toFront[k]
                 /\ PlaceOf(b, i, Net[b][i]) = <<"toFront", i, toFront[k][i]>>
      BY <1>0, <2>0, <2>1 DEF Laid, OwnerOf, OfClient, PlaceOf
    <2>2. ASSUME NEW x \in Clients, b = <<"toClient", x>>
          PROVE  x = k /\ i \in DOMAIN toClient[k]
                 /\ PlaceOf(b, i, Net[b][i]) = <<"toClient", i, toClient[k][i]>>
      BY <1>0, <2>0, <2>2 DEF Laid, OwnerOf, OfClient, PlaceOf
    <2>3. ASSUME NEW w \in Workers, b = <<"toWorker", w>>
          PROVE  i \in DOMAIN toWorker[w] /\ toWorker[w][i].clientID = k
                 /\ PlaceOf(b, i, Net[b][i]) = <<"toWorker", w, i, toWorker[w][i].body>>
      BY <1>0, <2>0, <2>3 DEF Laid, OwnerOf, OfClient, PlaceOf
    <2>4. ASSUME NEW w \in Workers, b = <<"toBack", w>>
          PROVE  i \in DOMAIN toBack[w] /\ toBack[w][i].clientID = k
                 /\ PlaceOf(b, i, Net[b][i]) = <<"toBack", w, i, toBack[w][i].body>>
      BY <1>0, <2>0, <2>4 DEF Laid, OwnerOf, OfClient, PlaceOf
    <2>5. ASSUME NEW w \in Workers, b = <<"busy", w>>
          PROVE  busy[w] # NoJob /\ busy[w].clientID = k
                 /\ PlaceOf(b, i, Net[b][i]) = <<"busy", w, busy[w].body>>
      <3>1. Net[b] = Hand[w]
        BY <1>0, <2>5 DEF Laid
      <3>2. busy[w] # NoJob /\ Net[b][i] = busy[w]
        BY <1>2, <3>1
      <3> QED
        BY <2>0, <2>5, <3>2 DEF OwnerOf, OfClient, PlaceOf
    <2> QED
      BY <2>1, <2>2, <2>3, <2>4, <2>5, LineKinds, PlaceKinds
  <1>4. ASSUME NEW b \in Lines, NEW i \in DOMAIN Net[b], NEW p,
               OwnerOf(b, Net[b][i]) = k, p = PlaceOf(b, i, Net[b][i])
        PROVE  \E c \in Lines : \E j \in DOMAIN Net[c] :
                 <<c, Net[c][j]>> \in About(k) /\ p = PlaceOf(c, j, Net[c][j])
    BY <1>1, <1>4
  <1>5. ASSUME NEW p \in PlacesOf(k)
        PROVE  \E b \in Lines : \E i \in DOMAIN Net[b] :
                 <<b, Net[b][i]>> \in About(k) /\ p = PlaceOf(b, i, Net[b][i])
    <2>1. ASSUME NEW i \in DOMAIN toFront[k], p = <<"toFront", i, toFront[k][i]>>
          PROVE  \E c \in Lines : \E j \in DOMAIN Net[c] :
                   OwnerOf(c, Net[c][j]) = k /\ p = PlaceOf(c, j, Net[c][j])
      <3> DEFINE c == <<"toFront", k>>
      <3>1. c \in Lines /\ Net[c] = toFront[k] /\ OfClient(c)
        BY <1>0 DEF Laid, OfClient
      <3>2. OwnerOf(c, Net[c][i]) = k /\ p = PlaceOf(c, i, Net[c][i])
        BY <2>1, <3>1 DEF OwnerOf, PlaceOf
      <3> QED
        BY <3>1, <3>2
    <2>2. ASSUME NEW i \in DOMAIN toClient[k], p = <<"toClient", i, toClient[k][i]>>
          PROVE  \E c \in Lines : \E j \in DOMAIN Net[c] :
                   OwnerOf(c, Net[c][j]) = k /\ p = PlaceOf(c, j, Net[c][j])
      <3> DEFINE c == <<"toClient", k>>
      <3>1. c \in Lines /\ Net[c] = toClient[k] /\ OfClient(c)
        BY <1>0 DEF Laid, OfClient
      <3>2. OwnerOf(c, Net[c][i]) = k /\ p = PlaceOf(c, i, Net[c][i])
        BY <2>2, <3>1 DEF OwnerOf, PlaceOf
      <3> QED
        BY <3>1, <3>2
    <2>3. ASSUME NEW w \in Workers, NEW i \in DOMAIN toWorker[w], toWorker[w][i].clientID = k,
                 p = <<"toWorker", w, i, toWorker[w][i].body>>
          PROVE  \E c \in Lines : \E j \in DOMAIN Net[c] :
                   OwnerOf(c, Net[c][j]) = k /\ p = PlaceOf(c, j, Net[c][j])
      <3> DEFINE c == <<"toWorker", w>>
      <3>1. c \in Lines /\ Net[c] = toWorker[w]
        BY <1>0 DEF Laid
      <3>2. OwnerOf(c, Net[c][i]) = k /\ p = PlaceOf(c, i, Net[c][i])
        BY <2>3, <3>1 DEF OwnerOf, PlaceOf, OfClient
      <3> QED
        BY <3>1, <3>2
    <2>4. ASSUME NEW w \in Workers, NEW i \in DOMAIN toBack[w], toBack[w][i].clientID = k,
                 p = <<"toBack", w, i, toBack[w][i].body>>
          PROVE  \E c \in Lines : \E j \in DOMAIN Net[c] :
                   OwnerOf(c, Net[c][j]) = k /\ p = PlaceOf(c, j, Net[c][j])
      <3> DEFINE c == <<"toBack", w>>
      <3>1. c \in Lines /\ Net[c] = toBack[w]
        BY <1>0 DEF Laid
      <3>2. OwnerOf(c, Net[c][i]) = k /\ p = PlaceOf(c, i, Net[c][i])
        BY <2>4, <3>1 DEF OwnerOf, PlaceOf, OfClient
      <3> QED
        BY <3>1, <3>2
    <2>5. ASSUME NEW w \in Workers, busy[w] # NoJob, busy[w].clientID = k,
                 p = <<"busy", w, busy[w].body>>
          PROVE  \E c \in Lines : \E j \in DOMAIN Net[c] :
                   OwnerOf(c, Net[c][j]) = k /\ p = PlaceOf(c, j, Net[c][j])
      <3> DEFINE c == <<"busy", w>>
      <3>1. c \in Lines /\ Net[c] = Hand[w]
        BY <1>0 DEF Laid
      <3>2. 1 \in DOMAIN Net[c] /\ Net[c][1] = busy[w]
        BY <1>2, <2>5, <3>1
      <3>3. OwnerOf(c, Net[c][1]) = k /\ p = PlaceOf(c, 1, Net[c][1])
        BY <2>5, <3>2 DEF OwnerOf, PlaceOf, OfClient
      <3> QED
        BY <3>1, <3>2, <3>3
    <2>6. \E c \in Lines : \E j \in DOMAIN Net[c] :
            OwnerOf(c, Net[c][j]) = k /\ p = PlaceOf(c, j, Net[c][j])
      BY <2>1, <2>2, <2>3, <2>4, <2>5, PlaceKinds
    <2> QED
      BY <1>4, <2>6
  <1> QED
    BY <1>3, <1>5

LEMMA RequestsFollow == TypeOK /\ Requested => RequestsOnce
  <1> SUFFICES ASSUME TypeOK, NEW k \in Clients, OneRequest(k)
               PROVE  IF clientState[k] = "waiting"
                      THEN \E p \in PlacesOf(k) : PlacesOf(k) = {p} /\ Last(p) = task[k]
                      ELSE PlacesOf(k) = {}
    BY DEF RequestsOnce, Requested
  <1>1. CASE clientState[k] = "waiting"
    <2> PICK b, e : Holds(Net, k, b, e) /\ TaskOf(b, e) = task[k]
      BY <1>1 DEF OneRequest
    <2> PICK i \in DOMAIN Net[b] : /\ Net[b][i] = e /\ b \in Lines
                                   /\ OnlyOne(Lines, Net, About(k), b, i)
      BY DEF Holds, HasOne
    <2> DEFINE p == PlaceOf(b, i, e)
    <2>1. p \in PlacesOf(k)
      BY EntryPlaces DEF OnlyOne
    <2>2. ASSUME NEW q \in PlacesOf(k) PROVE q = p
      BY EntryPlaces DEF OnlyOne
    <2>3. Last(p) = TaskOf(b, e)
      BY DEF Last, PlaceOf, TaskOf
    <2> QED
      BY <1>1, <2>1, <2>2, <2>3
  <1>2. CASE clientState[k] # "waiting"
    BY <1>2, EntryPlaces DEF OneRequest, Free, HasNone
  <1> QED
    BY <1>1, <1>2

(***************************************************************************)
(* The proxy keeps every request, whoever's turn it is and however long it *)
(* waits behind others at its worker: a waiting client has exactly one     *)
(* message on its way or in a hand, which names its task.                  *)
(***************************************************************************)
THEOREM ProxyRequests == Spec => []RequestsOnce
  <1> DEFINE Inv == TypeOK /\ Requested
  <1>1. Init => Inv
    BY TypesInit, RequestedInit
  <1>2. Inv /\ [Next]_vars => Inv'
    BY TypesStep, RequestedStep
  <1>3. Inv => RequestsOnce
    BY RequestsFollow
  <1> HIDE DEF Inv
  <1> QED
    BY <1>1, <1>2, <1>3, PTL DEF Spec

--------------------------------------------------------------------------------
(***************************************************************************)
(* The refinement.  The line a message is on says what became of its       *)
(* request.                                                                *)
(***************************************************************************)
Outcome(b) ==
    IF b[1] \in {"toFront", "toWorker"} THEN "open" ELSE IF b[1] = "busy" THEN "running" ELSE "served"

StatusIs(k) ==
    /\ \A b, e : Holds(Net, k, b, e) => /\ StatusOf(k) = Outcome(b)
                                        /\ Serving(k) = {w \in Workers : b = <<"busy", w>>}
    /\ Free(Net, k) => StatusOf(k) = "idle" /\ Serving(k) = {}

LEMMA StatusFollows ==
    ASSUME TypeOK, NEW k \in Clients, OneRequest(k)
    PROVE  StatusIs(k)
  <1>0. Laid(Net, toFront, toClient, toWorker, Hand, toBack)
    BY NetLaid
  <1>a. ASSUME NEW b \in Lines, NEW i \in DOMAIN Net[b]
        PROVE  <<b, Net[b][i]>> \in About(k) <=> OwnerOf(b, Net[b][i]) = k
    <2>1. Net[b] \in Seq(Item)
      BY <1>0 DEF Laid
    <2>2. Net[b][i] \in Item
      BY <2>1
    <2> QED
      BY <2>2, AboutFacts
  \* A worker serves the client when it has a job of it in its hand.
  <1>1. ASSUME NEW w \in Workers
        PROVE  w \in Serving(k) <=> \E i \in DOMAIN Net[<<"busy", w>>] :
                     <<<<"busy", w>>, Net[<<"busy", w>>][i]>> \in About(k)
    <2> DEFINE b == <<"busy", w>>
    <2>1. b \in Lines /\ Net[b] = Hand[w] /\ \A m : OwnerOf(b, m) = m.clientID
      BY <1>0 DEF Laid, OwnerOf, OfClient
    <2> HIDE DEF b
    <2>2. w \in Serving(k) <=> \E i \in DOMAIN Hand[w] : OwnerOf(b, Hand[w][i]) = k
      <3>1. CASE busy[w] = NoJob
        <4>1. DOMAIN Hand[w] = {}
          BY <3>1, HandFacts
        <4> QED
          BY <3>1, <4>1 DEF Serving
      <3>2. CASE busy[w] # NoJob
        <4>1. Hand[w] = <<busy[w]>>
          BY <3>2, HandFacts
        <4>2. DOMAIN Hand[w] = {1} /\ Hand[w][1] = busy[w]
          BY <4>1
        <4> QED
          BY <2>1, <3>2, <4>2 DEF Serving
      <3> QED
        BY <3>1, <3>2
    <2> QED
      BY <1>a, <2>1, <2>2 DEF b
  \* It is answered when a line on the way back has an answer.
  <1>b. ASSUME Answered(k)
        PROVE  \E b \in Lines : \E i \in DOMAIN Net[b] :
                 b[1] \in {"toClient", "toBack"} /\ <<b, Net[b][i]>> \in About(k)
    <2>1. CASE toClient[k] # <<>>
      <3> DEFINE c == <<"toClient", k>>
      <3>1. c \in Lines /\ Net[c] = toClient[k] /\ toClient[k] \in Seq(TaskIDs)
        BY <1>0 DEF Laid, TypeOK
      <3>2. c[1] \in {"toClient", "toBack"} /\ \A m : OwnerOf(c, m) = k
        BY DEF OwnerOf, OfClient
      <3> HIDE DEF c
      <3>3. 1 \in DOMAIN Net[c]
        BY <2>1, <3>1, TakeFacts
      <3> QED
        BY <1>a, <3>1, <3>2, <3>3
    <2>2. ASSUME NEW w \in Workers, NEW j \in DOMAIN toBack[w], toBack[w][j].clientID = k
          PROVE  \E b \in Lines : \E i \in DOMAIN Net[b] :
                   b[1] \in {"toClient", "toBack"} /\ <<b, Net[b][i]>> \in About(k)
      <3> DEFINE c == <<"toBack", w>>
      <3>1. c \in Lines /\ Net[c] = toBack[w]
        BY <1>0 DEF Laid
      <3>2. c[1] \in {"toClient", "toBack"} /\ \A m : OwnerOf(c, m) = m.clientID
        BY DEF OwnerOf, OfClient
      <3> HIDE DEF c
      <3> QED
        BY <1>a, <2>2, <3>1, <3>2
    <2> QED
      BY <1>b, <2>1, <2>2 DEF Answered, ToSet
  <1>2. ASSUME Free(Net, k) PROVE Serving(k) = {} /\ ~Answered(k) /\ clientState[k] # "waiting"
    <2>1. ASSUME NEW w \in Workers PROVE w \notin Serving(k)
      <3>1. <<"busy", w>> \in Lines
        BY <1>0 DEF Laid
      <3> QED
        BY <1>1, <1>2, <3>1 DEF Free, HasNone
    <2>2. clientState[k] # "waiting"
      BY <1>2, HoldsOrFree DEF OneRequest
    <2>3. ~Answered(k)
      BY <1>2, <1>b DEF Free, HasNone
    <2> QED
      BY <2>1, <2>2, <2>3 DEF Serving
  <1>3. ASSUME NEW b, NEW e, Holds(Net, k, b, e)
        PROVE  /\ StatusOf(k) = Outcome(b)
               /\ Serving(k) = {w \in Workers : b = <<"busy", w>>}
    <2> PICK i \in DOMAIN Net[b] : /\ Net[b][i] = e /\ b \in Lines
                                   /\ OnlyOne(Lines, Net, About(k), b, i)
      BY <1>3 DEF Holds, HasOne
    <2>1. clientState[k] = "waiting"
      BY <1>3, HoldsOrFree DEF OneRequest
    <2>2. ASSUME NEW w \in Workers PROVE w \in Serving(k) <=> b = <<"busy", w>>
      <3>1. <<"busy", w>> \in Lines
        BY <1>0 DEF Laid
      <3> QED
        BY <1>1, <3>1 DEF OnlyOne
    <2>3. Serving(k) = {w \in Workers : b = <<"busy", w>>}
      BY <2>2 DEF Serving
    <2>a. Answered(k) => b[1] \in {"toClient", "toBack"}
      BY <1>b DEF OnlyOne
    <2>4. CASE \E w \in Workers : b = <<"busy", w>>
      <3>1. Serving(k) # {} /\ Outcome(b) = "running" /\ ~Answered(k)
        BY <2>3, <2>a, <2>4 DEF Outcome
      <3> QED
        BY <2>1, <2>3, <3>1 DEF StatusOf
    <2>5. CASE b[1] \in {"toClient", "toBack"}
      <3>1. Serving(k) = {} /\ Outcome(b) = "served"
        BY <2>3, <2>5 DEF Outcome
      <3>2. Answered(k)
        <4>1. OwnerOf(b, Net[b][i]) = k
          BY <1>a DEF OnlyOne
        <4>2. ASSUME NEW x \in Clients, b = <<"toClient", x>> PROVE toClient[k] # <<>>
          <5>1. x = k /\ i \in DOMAIN toClient[k]
            BY <1>0, <4>1, <4>2 DEF Laid, OwnerOf, OfClient
          <5>2. DOMAIN <<>> = {}
            OBVIOUS
          <5> QED
            BY <5>1, <5>2
        <4>3. ASSUME NEW w \in Workers, b = <<"toBack", w>> PROVE Answered(k)
          BY <1>0, <4>1, <4>3 DEF Laid, OwnerOf, OfClient, Answered, ToSet
        <4>4. \A x \in Clients : b # <<"toFront", x>>
          BY <2>5
        <4>5. \A w \in Workers : b # <<"toWorker", w>> /\ b # <<"busy", w>>
          BY <2>5
        <4> QED
          BY <4>2, <4>3, <4>4, <4>5, LineKinds DEF Answered
      <3> QED
        BY <2>1, <2>3, <3>1, <3>2 DEF StatusOf
    <2>6. CASE b[1] \in {"toFront", "toWorker"}
      <3>1. Serving(k) = {} /\ Outcome(b) = "open" /\ ~Answered(k)
        BY <2>3, <2>a, <2>6 DEF Outcome
      <3> QED
        BY <2>1, <2>3, <3>1 DEF StatusOf
    <2> QED
      BY <2>4, <2>5, <2>6, LineKinds
  <1>4. Free(Net, k) => StatusOf(k) = "idle"
    BY <1>2 DEF StatusOf, TypeOK
  <1> QED
    BY <1>2, <1>3, <1>4 DEF StatusIs

ServiceInv ==
    /\ TypeOK /\ Requested
    /\ \A k \in Clients : StatusIs(k)

LEMMA UntouchedStatus ==
    ASSUME NEW k, OneRequest(k), StatusIs(k), StatusIs(k)', Untouched(k)
    PROVE  StatusOf(k)' = StatusOf(k) /\ Serving(k)' = Serving(k)
  <1>1. CASE Free(Net, k)
    <2>1. Free(Net', k)
      BY <1>1 DEF Untouched, Kept, Free
    <2> QED
      BY <1>1, <2>1 DEF StatusIs
  <1>2. ASSUME NEW b, NEW e, Holds(Net, k, b, e)
        PROVE  StatusOf(k)' = StatusOf(k) /\ Serving(k)' = Serving(k)
    <2>1. Holds(Net', k, b, e)
      BY <1>2 DEF Untouched, Kept, Holds
    <2> QED
      BY <1>2, <2>1 DEF StatusIs
  <1> QED
    BY <1>1, <1>2 DEF OneRequest

\* What the abstract variables become when only client k is concerned.
LEMMA ServiceFrame ==
    ASSUME ServiceInv, ServiceInv', NEW k \in Clients, OthersUntouched(k)
    PROVE  /\ [x \in Clients |-> StatusOf(x)]'
                = [[x \in Clients |-> StatusOf(x)] EXCEPT ![k] = StatusOf(k)']
           /\ [x \in Clients |-> Serving(x)]'
                = [[x \in Clients |-> Serving(x)] EXCEPT ![k] = Serving(k)']
  <1> \A w \in Clients \ {k} : StatusOf(w)' = StatusOf(w) /\ Serving(w)' = Serving(w)
    BY UntouchedStatus DEF ServiceInv, Requested, OthersUntouched
  <1> QED
    OBVIOUS

LEMMA AskedRefines ==
    ASSUME ServiceInv, ServiceInv', NEW k \in Clients, Asked(k)
    PROVE  Service!Request(k)
  <1>1. Free(Net, k)
    BY DEF ServiceInv, Requested, OneRequest, Asked
  <1>2. Holds(Net', k, <<"toFront", k>>, task'[k])
    BY <1>1 DEF Asked
  <1>3. StatusOf(k) = "idle" /\ Serving(k) = {}
    BY <1>1 DEF ServiceInv, StatusIs
  <1>4. /\ StatusOf(k)' = Outcome(<<"toFront", k>>)
        /\ Serving(k)' = {w \in Workers : <<"toFront", k>> = <<"busy", w>>}
    BY <1>2 DEF ServiceInv, StatusIs
  <1>5. StatusOf(k)' = "open" /\ Serving(k)' = {}
    BY <1>4 DEF Outcome
  <1>6. /\ [x \in Clients |-> StatusOf(x)]'
            = [[x \in Clients |-> StatusOf(x)] EXCEPT ![k] = "open"]
        /\ [x \in Clients |-> Serving(x)]' = [x \in Clients |-> Serving(x)]
    BY <1>3, <1>5, ServiceFrame DEF Asked
  <1> QED
    BY <1>3, <1>6 DEF Service!Request, Service!Goes, Asked

LEMMA CollectedRefines ==
    ASSUME ServiceInv, ServiceInv', NEW k \in Clients, Collected(k)
    PROVE  Service!Collect(k)
  <1>1. PICK b, e : Holds(Net, k, b, e)
    BY DEF ServiceInv, Requested, OneRequest, Collected
  <1>2. b = <<"toClient", k>> /\ Free(Net', k)
    BY <1>1 DEF Collected
  <1>3. StatusOf(k) = "served" /\ Serving(k) = {}
    BY <1>1, <1>2 DEF ServiceInv, StatusIs, Outcome
  <1>4. StatusOf(k)' = "idle" /\ Serving(k)' = {}
    BY <1>2 DEF ServiceInv, StatusIs
  <1>5. /\ [x \in Clients |-> StatusOf(x)]'
            = [[x \in Clients |-> StatusOf(x)] EXCEPT ![k] = "idle"]
        /\ [x \in Clients |-> Serving(x)]' = [x \in Clients |-> Serving(x)]
    BY <1>3, <1>4, ServiceFrame DEF Collected
  <1> QED
    BY <1>3, <1>5 DEF Service!Collect, Service!Goes, Collected

\* The message moves on: the request is assigned, finished, or only travels.
LEMMA PassedRefines ==
    ASSUME ServiceInv, ServiceInv', NEW k \in Clients,
           NEW c, NEW e, NEW d, NEW x, Passed(k, c, e, d, x)
    PROVE  \/ \E w \in Workers : Service!Assign(k, w)
           \/ Service!Finish(k)
           \/ UNCHANGED Service!vars
  <1>1. Holds(Net, k, c, e) /\ Holds(Net', k, d, x)
    BY DEF ServiceInv, Requested, OneRequest, Passed
  <1>2. /\ StatusOf(k) = Outcome(c) /\ Serving(k) = {w \in Workers : c = <<"busy", w>>}
        /\ StatusOf(k)' = Outcome(d) /\ Serving(k)' = {w \in Workers : d = <<"busy", w>>}
    BY <1>1 DEF ServiceInv, StatusIs
  <1>3. UNCHANGED task
    BY DEF Passed
  <1>4. /\ [y \in Clients |-> StatusOf(y)]'
            = [[y \in Clients |-> StatusOf(y)] EXCEPT ![k] = StatusOf(k)']
        /\ [y \in Clients |-> Serving(y)]'
            = [[y \in Clients |-> Serving(y)] EXCEPT ![k] = Serving(k)']
    BY ServiceFrame DEF Passed
  <1>5. ASSUME NEW w \in Workers, c = <<"toWorker", w>>, d = <<"busy", w>>, busy[w] = NoJob
        PROVE  Service!Assign(k, w)
    <2>1. StatusOf(k) = "open" /\ StatusOf(k)' = "running" /\ Serving(k)' = {w}
      BY <1>2, <1>5 DEF Outcome
    <2>2. \A y \in Clients : w \notin Serving(y)
      BY <1>5 DEF Serving
    <2> QED
      BY <1>3, <1>4, <2>1, <2>2 DEF Service!Assign, Service!Goes
  <1>6. ASSUME NEW w \in Workers, c = <<"busy", w>>, d = <<"toBack", w>>
        PROVE  Service!Finish(k)
    <2>1. StatusOf(k) = "running" /\ StatusOf(k)' = "served" /\ Serving(k) # {} /\ Serving(k)' = {}
      BY <1>2, <1>6 DEF Outcome
    <2> QED
      BY <1>3, <1>4, <2>1 DEF Service!Finish, Service!Goes
  <1>7. CASE (c[1] = "toFront" /\ d[1] = "toWorker") \/ (c[1] = "toBack" /\ d[1] = "toClient")
    <2>1. StatusOf(k)' = StatusOf(k) /\ Serving(k)' = Serving(k)
      BY <1>2, <1>7 DEF Outcome
    <2> QED
      BY <1>3, <1>4, <2>1 DEF Service!vars
  <1> QED
    BY <1>5, <1>6, <1>7 DEF Passed, Onward

LEMMA ServiceStep ==
    ServiceInv /\ ServiceInv' /\ [Next]_vars => [Service!Next]_Service!vars
  <1> SUFFICES ASSUME ServiceInv, ServiceInv', [Next]_vars
               PROVE  Service!Next \/ UNCHANGED Service!vars
    OBVIOUS
  <1>1. CASE \A k \in Clients : Untouched(k)
    <2>1. \A k \in Clients : StatusOf(k)' = StatusOf(k) /\ Serving(k)' = Serving(k)
      BY <1>1, UntouchedStatus DEF ServiceInv, Requested
    <2>2. task' = task
      BY <1>1 DEF Untouched, ServiceInv, TypeOK
    <2> QED
      BY <2>1, <2>2 DEF Service!vars
  <1>2. ASSUME NEW k \in Clients, Asked(k) \/ Collected(k)
        PROVE  Service!Next
    BY <1>2, AskedRefines, CollectedRefines DEF Service!Next
  <1>3. ASSUME NEW k \in Clients, NEW c, NEW e, NEW d, NEW x, Passed(k, c, e, d, x)
        PROVE  Service!Next \/ UNCHANGED Service!vars
    BY <1>3, PassedRefines DEF Service!Next
  <1> QED
    BY <1>1, <1>2, <1>3, RequestSteps DEF ServiceInv

LEMMA ServiceStarts == Init => Service!Init
  <1> SUFFICES ASSUME Init PROVE Service!Init
    OBVIOUS
  <1>1. ASSUME NEW k \in Clients PROVE StatusOf(k) = "idle" /\ Serving(k) = {}
    <2>1. TypeOK /\ OneRequest(k) /\ clientState[k] = "ready"
      BY TypesInit, RequestedInit DEF Requested, Init
    <2> QED
      BY <2>1, StatusFollows DEF StatusIs, OneRequest
  <1> QED
    BY <1>1 DEF Service!Init, Init

(***************************************************************************)
(* The proxy implements TaskService as the load balancer does, though its  *)
(* tasks wait at busy workers: a worker runs one request at a time, and    *)
(* the answer goes back to the client that waits for it.                   *)
(***************************************************************************)
THEOREM ProxyImplementsTaskService == Spec => ImplementsTaskService
  <1> DEFINE Inv == TypeOK /\ Requested
  <1>1. Init => Inv /\ Service!Init
    BY TypesInit, RequestedInit, ServiceStarts
  <1>2. Inv /\ [Next]_vars => Inv'
    BY TypesStep, RequestedStep
  <1>3. Inv => ServiceInv
    BY StatusFollows DEF ServiceInv, Requested
  <1>4. ServiceInv /\ ServiceInv' /\ [Next]_vars => [Service!Next]_Service!vars
    BY ServiceStep
  <1> HIDE DEF Inv
  <1> QED
    BY <1>1, <1>2, <1>3, <1>4, PTL DEF Spec, ImplementsTaskService, Service!Spec

================================================================================
