---------------------------- MODULE PushPullProofs -----------------------------
(***************************************************************************)
(* Theorems about PushPull, for every set of workers, whichever of them    *)
(* may be killed, and every number of tasks.                               *)
(***************************************************************************)
EXTENDS PushPull, QueueLemmas, FiniteSetTheorems

(***************************************************************************)
(* Queues of tasks in increasing order, and the tasks in them.             *)
(***************************************************************************)
LEMMA OrderedTake ==
    ASSUME NEW S, S \subseteq Nat, NEW q \in Seq(S), InOrderOnce(q), q # <<>>
    PROVE  /\ InOrderOnce(Tail(q))
           /\ Head(q) \in Queued(q)
           /\ Queued(Tail(q)) = Queued(q) \ {Head(q)}
           /\ \A x \in Queued(Tail(q)) : Head(q) < x
  <1>1. /\ Head(q) = q[1] /\ Len(q) \in Nat /\ Len(q) >= 1
        /\ DOMAIN q = 1 .. Len(q) /\ DOMAIN Tail(q) = 1 .. (Len(q) - 1)
        /\ \A i \in 1 .. (Len(q) - 1) : Tail(q)[i] = q[i + 1]
    BY TakeFacts
  <1>2. \A i \in 1 .. Len(q) : q[i] \in Nat
    <2>1. \A i \in 1 .. Len(q) : q[i] \in S
      OBVIOUS
    <2> QED
      BY <2>1
  <1>3. ASSUME NEW i \in DOMAIN Tail(q), NEW j \in DOMAIN Tail(q), i < j
        PROVE  Tail(q)[i] < Tail(q)[j]
    <2>1. i + 1 \in DOMAIN q /\ j + 1 \in DOMAIN q /\ i + 1 < j + 1
      BY <1>1, <1>3
    <2> QED
      BY <1>1, <2>1 DEF InOrderOnce
  <1>4. ASSUME NEW i \in DOMAIN Tail(q)
        PROVE  Head(q) < Tail(q)[i] /\ Tail(q)[i] \in Queued(q)
    <2>1. 1 \in DOMAIN q /\ i + 1 \in DOMAIN q /\ 1 < i + 1
      BY <1>1
    <2> QED
      BY <1>1, <2>1 DEF InOrderOnce, Queued
  <1>5. ASSUME NEW x \in Queued(q), x # Head(q)
        PROVE  x \in Queued(Tail(q))
    <2> PICK i \in DOMAIN q : q[i] = x
      BY DEF Queued
    <2>1. i # 1
      BY <1>1, <1>5
    <2>2. i - 1 \in DOMAIN Tail(q) /\ (i - 1) + 1 = i
      BY <1>1, <2>1
    <2>3. Tail(q)[i - 1] = x
      BY <1>1, <2>2
    <2> QED
      BY <2>2, <2>3 DEF Queued
  <1>6. Head(q) \in Queued(q) /\ Head(q) \in Nat
    BY <1>1, <1>2 DEF Queued
  <1>7. \A x \in Queued(Tail(q)) : Head(q) < x /\ x \in Queued(q) /\ x \in Nat
    BY <1>1, <1>2, <1>4 DEF Queued
  <1>8. Queued(Tail(q)) = Queued(q) \ {Head(q)}
    BY <1>5, <1>6, <1>7
  <1> QED
    BY <1>3, <1>6, <1>7, <1>8 DEF InOrderOnce

LEMMA OrderedPut ==
    ASSUME NEW S, NEW q \in Seq(S), NEW e \in S
    PROVE  /\ Queued(Append(q, e)) = Queued(q) \cup {e}
           /\ InOrderOnce(q) /\ (\A x \in Queued(q) : x < e) => InOrderOnce(Append(q, e))
  <1>1. /\ Len(q) \in Nat /\ DOMAIN q = 1 .. Len(q)
        /\ DOMAIN Append(q, e) = 1 .. (Len(q) + 1)
        /\ Append(q, e)[Len(q) + 1] = e
        /\ \A i \in 1 .. Len(q) : Append(q, e)[i] = q[i]
    BY PutFacts
  <1> DEFINE a == Append(q, e)
  <1> HIDE DEF a
  <1>2. \A i \in DOMAIN a : (i \in DOMAIN q /\ a[i] = q[i]) \/ (i = Len(q) + 1 /\ a[i] = e)
    BY <1>1 DEF a
  <1>3. \A i \in DOMAIN q : i \in DOMAIN a /\ a[i] = q[i]
    BY <1>1 DEF a
  <1>4. Len(q) + 1 \in DOMAIN a /\ a[Len(q) + 1] = e
    BY <1>1 DEF a
  <1>5. Queued(a) = Queued(q) \cup {e}
    BY <1>2, <1>3, <1>4 DEF Queued
  <1>6. ASSUME InOrderOnce(q), \A x \in Queued(q) : x < e,
               NEW i \in DOMAIN a, NEW j \in DOMAIN a, i < j
        PROVE  a[i] < a[j]
    <2>1. i \in DOMAIN q
      BY <1>1, <1>2, <1>6
    <2>2. CASE j \in DOMAIN q
      BY <1>3, <1>6, <2>1, <2>2 DEF InOrderOnce
    <2>3. CASE j = Len(q) + 1
      BY <1>3, <1>4, <1>6, <2>1, <2>3 DEF Queued
    <2> QED
      BY <1>2, <2>2, <2>3
  <1> QED
    BY <1>5, <1>6 DEF InOrderOnce, a

\* A queue is cut after n messages.
LEMMA OrderedCut ==
    ASSUME NEW S, S \subseteq Nat, NEW q \in Seq(S), InOrderOnce(q), NEW n \in 0 .. Len(q)
    PROVE  LET a == SubSeq(q, 1, n)
               b == SubSeq(q, n + 1, Len(q))
           IN  /\ InOrderOnce(a)
               /\ Queued(a) \cup Queued(b) = Queued(q)
               /\ Queued(a) \cap Queued(b) = {}
  <1> DEFINE a == SubSeq(q, 1, n)
             b == SubSeq(q, n + 1, Len(q))
  <1>1. /\ Len(q) \in Nat /\ n \in Nat /\ n <= Len(q) /\ DOMAIN q = 1 .. Len(q)
        /\ \A i \in 1 .. Len(q) : q[i] \in Nat
    <2>1. Len(q) \in Nat /\ DOMAIN q = 1 .. Len(q) /\ \A i \in 1 .. Len(q) : q[i] \in S
      OBVIOUS
    <2>2. n \in Nat /\ n <= Len(q)
      BY <2>1
    <2> QED
      BY <2>1, <2>2
  <1>2. /\ DOMAIN a = 1 .. n
        /\ \A i \in 1 .. n : a[i] = q[i]
    BY <1>1
  <1>3. /\ DOMAIN b = 1 .. (Len(q) - n)
        /\ \A i \in 1 .. (Len(q) - n) : b[i] = q[i + n]
    BY <1>1
  <1> HIDE DEF a, b
  <1>4. InOrderOnce(a)
    BY <1>1, <1>2 DEF InOrderOnce
  <1>5. ASSUME NEW i \in DOMAIN q
        PROVE  q[i] \in Queued(a) \cup Queued(b)
    <2>1. CASE i <= n
      BY <1>1, <1>2, <2>1 DEF Queued
    <2>2. CASE ~(i <= n)
      <3>1. i - n \in DOMAIN b /\ (i - n) + n = i
        BY <1>1, <1>3, <2>2
      <3>2. b[i - n] = q[i]
        BY <1>3, <3>1
      <3> QED
        BY <3>1, <3>2 DEF Queued
    <2> QED
      BY <2>1, <2>2
  <1>6. ASSUME NEW i \in DOMAIN a, NEW j \in DOMAIN b
        PROVE  a[i] \in Queued(q) /\ b[j] \in Queued(q) /\ a[i] # b[j]
    <2>1. i \in DOMAIN q /\ j + n \in DOMAIN q /\ i < j + n
      BY <1>1, <1>2, <1>3
    <2>2. a[i] = q[i] /\ b[j] = q[j + n] /\ q[i] \in Nat /\ q[j + n] \in Nat
      BY <1>1, <1>2, <1>3, <2>1
    <2>3. q[i] < q[j + n]
      BY <2>1 DEF InOrderOnce
    <2> QED
      BY <2>1, <2>2, <2>3 DEF Queued
  <1>7. \A i \in DOMAIN a : a[i] \in Queued(q)
    BY <1>1, <1>2 DEF Queued
  <1>8. \A j \in DOMAIN b : b[j] \in Queued(q)
    <2> TAKE j \in DOMAIN b
    <2>1. j + n \in DOMAIN q /\ b[j] = q[j + n]
      BY <1>1, <1>3
    <2> QED
      BY <2>1 DEF Queued
  <1>9. Queued(a) \cup Queued(b) = Queued(q)
    BY <1>5, <1>7, <1>8 DEF Queued
  <1>10. Queued(a) \cap Queued(b) = {}
    BY <1>6 DEF Queued
  <1> QED
    BY <1>4, <1>9, <1>10 DEF a, b

--------------------------------------------------------------------------------
\* The tasks of a queue of results.
Result == [task : Tasks, data : 0 .. GlobalTaskNum \div 2]
TaskSeq(q) == [i \in DOMAIN q |-> q[i].task]

LEMMA TaskSeqFacts ==
    ASSUME NEW q \in Seq(Result)
    PROVE  /\ TaskSeq(q) \in Seq(Tasks)
           /\ Len(TaskSeq(q)) = Len(q)
           /\ Reported(q) = Queued(TaskSeq(q))
           /\ \A r \in Result : TaskSeq(Append(q, r)) = Append(TaskSeq(q), r.task)
           /\ q # <<>> => /\ TaskSeq(q) # <<>> /\ Head(TaskSeq(q)) = Head(q).task
                          /\ TaskSeq(Tail(q)) = Tail(TaskSeq(q))
           /\ \A m, n \in Nat : m >= 1 /\ n <= Len(q)
                => TaskSeq(SubSeq(q, m, n)) = SubSeq(TaskSeq(q), m, n)
  <1> DEFINE s == TaskSeq(q)
  <1>1. /\ Len(q) \in Nat /\ DOMAIN q = 1 .. Len(q)
        /\ \A i \in 1 .. Len(q) : q[i] \in Result
    OBVIOUS
  <1>2. \A i \in 1 .. Len(q) : q[i].task \in Tasks
    BY <1>1 DEF Result
  <1>3. s \in Seq(Tasks) /\ Len(s) = Len(q) /\ DOMAIN s = 1 .. Len(q)
        /\ \A i \in 1 .. Len(q) : s[i] = q[i].task
    BY <1>1, <1>2 DEF TaskSeq
  <1>4. Reported(q) = Queued(s)
    BY <1>1, <1>3 DEF Reported, Queued
  <1> HIDE DEF s
  <1>5. ASSUME NEW r \in Result
        PROVE  TaskSeq(Append(q, r)) = Append(s, r.task)
    <2>1. r.task \in Tasks
      BY DEF Result
    <2>2. /\ DOMAIN Append(q, r) = 1 .. Len(q) + 1
          /\ DOMAIN Append(s, r.task) = 1 .. Len(q) + 1
          /\ \A i \in 1 .. Len(q) + 1 : Append(q, r)[i].task = Append(s, r.task)[i]
      BY <1>1, <1>3
    <2>3. Append(s, r.task) \in Seq(Tasks)
      BY <1>3, <2>1
    <2>4. Append(s, r.task) = [i \in 1 .. Len(q) + 1 |-> Append(s, r.task)[i]]
      BY <2>2, <2>3
    <2> QED
      BY <2>2, <2>4 DEF TaskSeq
  <1>6. ASSUME q # <<>>
        PROVE  s # <<>> /\ Head(s) = Head(q).task /\ TaskSeq(Tail(q)) = Tail(s)
    <2>1. Len(q) >= 1
      BY <1>6
    <2>2. s # <<>> /\ Head(s) = Head(q).task
      BY <1>1, <1>3, <1>6, <2>1
    <2>3. /\ DOMAIN Tail(q) = 1 .. Len(q) - 1 /\ DOMAIN Tail(s) = 1 .. Len(q) - 1
          /\ \A i \in 1 .. Len(q) - 1 : Tail(q)[i].task = Tail(s)[i]
      BY <1>1, <1>3, <2>1, <2>2
    <2>4. Tail(s) = [i \in 1 .. Len(q) - 1 |-> Tail(s)[i]]
      <3> DEFINE t == Tail(s)
      <3>1. t \in Seq(Tasks) /\ Len(t) = Len(q) - 1
        BY <1>3, <2>2, TakeFacts
      <3> HIDE DEF t
      <3>2. t = [i \in 1 .. Len(t) |-> t[i]]
        BY <3>1
      <3> QED
        BY <3>1, <3>2 DEF t
    <2> QED
      BY <2>2, <2>3, <2>4 DEF TaskSeq
  <1>7. ASSUME NEW m \in Nat, NEW n \in Nat, m >= 1, n <= Len(q)
        PROVE  TaskSeq(SubSeq(q, m, n)) = SubSeq(s, m, n)
    <2>1. /\ SubSeq(q, m, n) = [i \in 1 .. (n - m + 1) |-> q[i + m - 1]]
          /\ SubSeq(s, m, n) = [i \in 1 .. (n - m + 1) |-> s[i + m - 1]]
      BY <1>1, <1>3
    <2>2. \A i \in 1 .. (n - m + 1) : i + m - 1 \in 1 .. Len(q)
      BY <1>1, <1>7
    <2>3. \A i \in 1 .. (n - m + 1) : SubSeq(q, m, n)[i].task = s[i + m - 1]
      BY <1>3, <2>1, <2>2
    <2>4. DOMAIN SubSeq(q, m, n) = 1 .. (n - m + 1)
      BY <2>1
    <2> QED
      BY <2>1, <2>3, <2>4 DEF TaskSeq
  <1> QED
    BY <1>3, <1>4, <1>5, <1>6, <1>7 DEF s


--------------------------------------------------------------------------------
(***************************************************************************)
(* The types.  A worker has a task in its hand when it is busy and only    *)
(* then.                                                                   *)
(***************************************************************************)
HandState ==
    \A w \in Workers : IF workerState[w] = "busy" THEN \E t \in Tasks : inHand[w] = {t}
                                                  ELSE inHand[w] = {}

\* A result is the half of its task.
Halved(q) == \A i \in DOMAIN q : q[i].data = q[i].task \div 2

LEMMA WorkHalves ==
    ASSUME NEW t \in Tasks
    PROVE  Work(t) \in Result /\ Work(t).task = t /\ Work(t).data = t \div 2
  <1>1. t \in Nat /\ t <= GlobalTaskNum
    BY GlobalTaskNumAssumption DEF Tasks
  <1>2. t \div 2 \in 0 .. GlobalTaskNum \div 2
    BY <1>1, GlobalTaskNumAssumption
  <1> QED
    BY <1>2 DEF Work, Result

LEMMA HalvedTake ==
    ASSUME NEW q \in Seq(Result), Halved(q), q # <<>>
    PROVE  Halved(Tail(q)) /\ Tail(q) \in Seq(Result) /\ Head(q) \in Result
  <1>1. /\ Tail(q) \in Seq(Result) /\ Head(q) \in Result
        /\ Len(q) \in Nat /\ DOMAIN q = 1 .. Len(q) /\ DOMAIN Tail(q) = 1 .. (Len(q) - 1)
        /\ \A i \in 1 .. (Len(q) - 1) : Tail(q)[i] = q[i + 1]
    BY TakeFacts
  <1>2. \A i \in DOMAIN Tail(q) : i + 1 \in DOMAIN q /\ Tail(q)[i] = q[i + 1]
    BY <1>1
  <1> QED
    BY <1>1, <1>2 DEF Halved

LEMMA HalvedPut ==
    ASSUME NEW q \in Seq(Result), Halved(q), NEW t \in Tasks
    PROVE  Halved(Append(q, Work(t))) /\ Append(q, Work(t)) \in Seq(Result)
  <1> DEFINE r == Work(t)
  <1>1. r \in Result /\ r.data = r.task \div 2
    BY WorkHalves
  <1> HIDE DEF r
  <1>2. /\ Append(q, r) \in Seq(Result)
        /\ Len(q) \in Nat /\ DOMAIN q = 1 .. Len(q)
        /\ DOMAIN Append(q, r) = 1 .. (Len(q) + 1)
        /\ Append(q, r)[Len(q) + 1] = r
        /\ \A i \in 1 .. Len(q) : Append(q, r)[i] = q[i]
    BY <1>1, PutFacts
  <1>3. ASSUME NEW i \in DOMAIN Append(q, r)
        PROVE  Append(q, r)[i].data = Append(q, r)[i].task \div 2
    <2>1. i = Len(q) + 1 \/ i \in DOMAIN q
      BY <1>2
    <2> QED
      BY <1>1, <1>2, <2>1 DEF Halved
  <1> QED
    BY <1>2, <1>3 DEF Halved, r

LEMMA HalvedCut ==
    ASSUME NEW q \in Seq(Result), Halved(q), NEW n \in 0 .. Len(q)
    PROVE  /\ SubSeq(q, 1, n) \in Seq(Result) /\ Halved(SubSeq(q, 1, n))
           /\ Reported(SubSeq(q, n + 1, Len(q))) \subseteq Tasks
  <1>1. /\ Len(q) \in Nat /\ n \in Nat /\ n <= Len(q) /\ DOMAIN q = 1 .. Len(q)
        /\ \A i \in 1 .. Len(q) : q[i] \in Result
    OBVIOUS
  <1> DEFINE a == SubSeq(q, 1, n)
             b == SubSeq(q, n + 1, Len(q))
  <1>2. /\ a \in Seq(Result) /\ DOMAIN a = 1 .. n /\ \A i \in 1 .. n : a[i] = q[i]
    BY <1>1
  <1>3. /\ DOMAIN b = 1 .. (Len(q) - n) /\ \A i \in 1 .. (Len(q) - n) : b[i] = q[i + n]
    BY <1>1
  <1> HIDE DEF a, b
  <1>4. Halved(a)
    BY <1>1, <1>2 DEF Halved
  <1>5. ASSUME NEW i \in DOMAIN b PROVE b[i].task \in Tasks
    <2>1. i + n \in 1 .. Len(q) /\ b[i] = q[i + n]
      BY <1>1, <1>3
    <2> QED
      BY <1>1, <2>1 DEF Result
  <1> QED
    BY <1>2, <1>4, <1>5 DEF Reported, a, b

LEMMA TypesInit == Init => TypeOK /\ HandState
  <1> SUFFICES ASSUME Init PROVE TypeOK /\ HandState
    OBVIOUS
  <1>1. /\ toSend \in 0 .. GlobalTaskNum /\ count \in 0 .. GlobalTaskNum /\ sum \in Nat
    BY GlobalTaskNumAssumption DEF Init
  <1>2. \A w \in Workers : \A i \in DOMAIN results[w] : FALSE
    BY DEF Init
  <1> QED
    BY <1>1, <1>2 DEF Init, TypeOK, HandState

LEMMA TypesMean ==
    ASSUME TypeOK, NEW w \in Workers
    PROVE  /\ tasks[w] \in Seq(Tasks) /\ inHand[w] \subseteq Tasks
           /\ results[w] \in Seq(Result) /\ Halved(results[w])
  BY DEF TypeOK, Result, Halved

LEMMA TypesStep == TypeOK /\ HandState /\ [Next]_vars => TypeOK' /\ HandState'
  <1> SUFFICES ASSUME TypeOK, HandState, [Next]_vars PROVE TypeOK' /\ HandState'
    OBVIOUS
  <1> DEFINE Types == /\ toSend \in 0 .. GlobalTaskNum
                      /\ workerState \in [Workers -> {"off", "idle", "busy", "dead", "gone"}]
                      /\ tasks \in [Workers -> Seq(Tasks)]
                      /\ inHand \in [Workers -> SUBSET Tasks]
                      /\ results \in [Workers -> Seq(Result)]
                      /\ \A w \in Workers : Halved(results[w])
                      /\ count \in 0 .. GlobalTaskNum
                      /\ sum \in Nat
                      /\ collected \subseteq Tasks
                      /\ lost \subseteq Tasks
  <1>0. TypeOK = Types /\ TypeOK' = Types'
    BY DEF TypeOK, Result, Halved
  <1>a. Types
    BY <1>0
  <1>1. ASSUME NEW w \in Workers, Distribute(w)
        PROVE  Types' /\ HandState'
    <2>1. toSend \in Tasks /\ toSend + 1 \in 0 .. GlobalTaskNum
      BY <1>1, <1>a, GlobalTaskNumAssumption DEF Distribute, Tasks
    <2>2. Append(tasks[w], toSend) \in Seq(Tasks)
      BY <1>a, <2>1, PutFacts
    <2> QED
      BY <1>1, <1>a, <2>1, <2>2 DEF Distribute, HandState, sinkVars
  <1>2. ASSUME NEW w \in Workers, Start(w)
        PROVE  Types' /\ HandState'
    BY <1>2, <1>a DEF Start, HandState, sinkVars
  <1>3. ASSUME NEW w \in Workers, ReceiveTask(w)
        PROVE  Types' /\ HandState'
    <2>1. Head(tasks[w]) \in Tasks /\ Tail(tasks[w]) \in Seq(Tasks)
      BY <1>3, <1>a, TakeFacts DEF ReceiveTask
    <2> HIDE DEF Types
    <2>2. Types'
      <3> USE DEF Types
      <3> QED
        BY <1>3, <1>a, <2>1 DEF ReceiveTask, sinkVars
    <2>3. HandState'
      BY <1>3, <1>a, <2>1 DEF ReceiveTask, HandState, Types
    <2> QED
      BY <2>2, <2>3
  <1>4. ASSUME NEW w \in Workers, SendResult(w)
        PROVE  Types' /\ HandState'
    <2> PICK t \in Tasks : inHand[w] = {t}
      BY <1>4 DEF SendResult, HandState
    <2>1. results' = [results EXCEPT ![w] = Append(@, Work(t))]
      BY <1>4 DEF SendResult
    <2>2. Halved(Append(results[w], Work(t))) /\ Append(results[w], Work(t)) \in Seq(Result)
      BY <1>a, HalvedPut
    <2> DEFINE a == Append(results[w], Work(t))
    <2>3. results' = [results EXCEPT ![w] = a] /\ a \in Seq(Result) /\ Halved(a)
      BY <2>1, <2>2
    <2> HIDE DEF a
    <2>4. results' \in [Workers -> Seq(Result)] /\ \A x \in Workers : Halved(results'[x])
      BY <1>a, <2>3
    <2> QED
      BY <1>4, <1>a, <2>4 DEF SendResult, HandState, sinkVars
  <1>5. ASSUME NEW w \in Workers, CollectResult(w)
        PROVE  Types' /\ HandState'
    <2> DEFINE a == Tail(results[w])
               r == Head(results[w])
    <2>1. Halved(a) /\ a \in Seq(Result) /\ r \in Result
      BY <1>5, <1>a, HalvedTake DEF CollectResult
    <2>2. /\ results' = [results EXCEPT ![w] = a]
          /\ sum' = sum + r.data /\ collected' = collected \cup {r.task} /\ count' = count + 1
          /\ count < GlobalTaskNum
      BY <1>5 DEF CollectResult, Collecting
    <2> HIDE DEF a, r
    <2>3. results' \in [Workers -> Seq(Result)] /\ \A x \in Workers : Halved(results'[x])
      BY <1>a, <2>1, <2>2
    <2>4. r.data \in Nat /\ r.task \in Tasks
      BY <2>1, GlobalTaskNumAssumption DEF Result
    <2>5. sum' \in Nat /\ collected' \subseteq Tasks /\ count' \in 0 .. GlobalTaskNum
      BY <1>a, <2>2, <2>4, GlobalTaskNumAssumption
    <2> QED
      BY <1>5, <1>a, <2>3, <2>5 DEF CollectResult, HandState, workerVars
  <1>6. ASSUME NEW w \in Workers, Kill(w)
        PROVE  Types' /\ HandState'
    <2> PICK n \in 0 .. Len(results[w]) :
          /\ results' = [results EXCEPT ![w] = SubSeq(@, 1, n)]
          /\ lost' = lost \cup inHand[w]
                          \cup Reported(SubSeq(results[w], n + 1, Len(results[w])))
      BY <1>6 DEF Kill
    <2> DEFINE a == SubSeq(results[w], 1, n)
    <2>1. /\ a \in Seq(Result) /\ Halved(a)
          /\ Reported(SubSeq(results[w], n + 1, Len(results[w]))) \subseteq Tasks
      BY <1>a, HalvedCut
    <2>2. results' = [results EXCEPT ![w] = a]
      OBVIOUS
    <2> HIDE DEF a
    <2>3. results' \in [Workers -> Seq(Result)] /\ \A x \in Workers : Halved(results'[x])
      BY <1>a, <2>1, <2>2
    <2>4. lost' \subseteq Tasks
      BY <1>a, <2>1
    <2> QED
      BY <1>6, <1>a, <2>3, <2>4 DEF Kill, HandState, sinkVars
  <1>7. ASSUME NEW w \in Workers, Disconnect(w)
        PROVE  Types' /\ HandState'
    <2>1. Queued(tasks[w]) \subseteq Tasks
      <3>1. tasks[w] \in Seq(Tasks)
        BY <1>a
      <3> QED
        BY <3>1 DEF Queued
    <2>2. lost' \subseteq Tasks
      BY <1>7, <1>a, <2>1 DEF Disconnect
    <2> QED
      BY <1>7, <1>a, <2>2 DEF Disconnect, HandState, sinkVars
  <1>8. ASSUME UNCHANGED vars
        PROVE  Types' /\ HandState'
    BY <1>8, <1>a DEF vars, HandState
  <1> HIDE DEF Types
  <1> QED
    BY <1>0, <1>1, <1>2, <1>3, <1>4, <1>5, <1>6, <1>7, <1>8 DEF Next

(***************************************************************************)
(* No process of the pipeline has a task that the ventilator did not make, *)
(* or a result that is not its half.                                       *)
(***************************************************************************)
THEOREM PushPullTypes == Spec => []TypeOK
  BY TypesInit, TypesStep, PTL DEF Spec


--------------------------------------------------------------------------------
(***************************************************************************)
(* Where a task is.                                                        *)
(***************************************************************************)
QueueOf(t)  == {w \in Workers : t \in Queued(tasks[w])}
HandOf(t)   == {w \in Workers : t \in inHand[w]}
ResultOf(t) == {w \in Workers : t \in Reported(results[w])}

OneHolder(t) ==
    \/ /\ \E w : QueueOf(t) = {w}
       /\ HandOf(t) = {} /\ ResultOf(t) = {} /\ t \notin collected /\ t \notin lost
    \/ /\ \E w : HandOf(t) = {w}
       /\ QueueOf(t) = {} /\ ResultOf(t) = {} /\ t \notin collected /\ t \notin lost
    \/ /\ \E w : ResultOf(t) = {w}
       /\ QueueOf(t) = {} /\ HandOf(t) = {} /\ t \notin collected /\ t \notin lost
    \/ /\ t \in collected
       /\ QueueOf(t) = {} /\ HandOf(t) = {} /\ ResultOf(t) = {} /\ t \notin lost
    \/ /\ t \in lost
       /\ QueueOf(t) = {} /\ HandOf(t) = {} /\ ResultOf(t) = {} /\ t \notin collected

Nowhere(t) ==
    QueueOf(t) = {} /\ HandOf(t) = {} /\ ResultOf(t) = {} /\ t \notin collected /\ t \notin lost

LEMMA PlacesMean ==
    ASSUME NEW t
    PROVE  /\ OneHolder(t) => \E p \in Places(t) : Places(t) = {p}
           /\ Nowhere(t) => Places(t) = {}
           /\ t \in collected => <<"sum">> \in Places(t)
           /\ t \in lost => <<"lost">> \in Places(t)
           /\ \A w \in Workers : /\ t \in Queued(tasks[w]) => <<w, "queue">> \in Places(t)
                                 /\ t \in inHand[w] => <<w, "hand">> \in Places(t)
                                 /\ t \in Reported(results[w]) => <<w, "result">> \in Places(t)
  <1> DEFINE Q == {<<w, "queue">> : w \in QueueOf(t)}
             H == {<<w, "hand">> : w \in HandOf(t)}
             R == {<<w, "result">> : w \in ResultOf(t)}
             S == {<<"sum">> : s \in {t} \cap collected}
             L == {<<"lost">> : s \in {t} \cap lost}
  <1>1. Places(t) = Q \cup H \cup R \cup S \cup L
    BY DEF Places, QueueOf, HandOf, ResultOf
  <1>2. /\ QueueOf(t) = {} => Q = {}
        /\ HandOf(t) = {} => H = {}
        /\ ResultOf(t) = {} => R = {}
    OBVIOUS
  <1>3. /\ \A w : QueueOf(t) = {w} => Q = {<<w, "queue">>}
        /\ \A w : HandOf(t) = {w} => H = {<<w, "hand">>}
        /\ \A w : ResultOf(t) = {w} => R = {<<w, "result">>}
    OBVIOUS
  <1>4. S = (IF t \in collected THEN {<<"sum">>} ELSE {})
    OBVIOUS
  <1>5. L = (IF t \in lost THEN {<<"lost">>} ELSE {})
    OBVIOUS
  <1>6. \A w \in Workers : /\ t \in Queued(tasks[w]) => <<w, "queue">> \in Q
                           /\ t \in inHand[w] => <<w, "hand">> \in H
                           /\ t \in Reported(results[w]) => <<w, "result">> \in R
    BY DEF QueueOf, HandOf, ResultOf
  <1> HIDE DEF Q, H, R, S, L
  <1>7. OneHolder(t) => \E p : Places(t) = {p}
    <2>1. ASSUME NEW w, QueueOf(t) = {w}, HandOf(t) = {}, ResultOf(t) = {},
                 t \notin collected, t \notin lost
          PROVE  Places(t) = {<<w, "queue">>}
      BY <1>1, <1>2, <1>3, <1>4, <1>5, <2>1
    <2>2. ASSUME NEW w, HandOf(t) = {w}, QueueOf(t) = {}, ResultOf(t) = {},
                 t \notin collected, t \notin lost
          PROVE  Places(t) = {<<w, "hand">>}
      BY <1>1, <1>2, <1>3, <1>4, <1>5, <2>2
    <2>3. ASSUME NEW w, ResultOf(t) = {w}, QueueOf(t) = {}, HandOf(t) = {},
                 t \notin collected, t \notin lost
          PROVE  Places(t) = {<<w, "result">>}
      BY <1>1, <1>2, <1>3, <1>4, <1>5, <2>3
    <2>4. ASSUME t \in collected, QueueOf(t) = {}, HandOf(t) = {}, ResultOf(t) = {}, t \notin lost
          PROVE  Places(t) = {<<"sum">>}
      BY <1>1, <1>2, <1>4, <1>5, <2>4
    <2>5. ASSUME t \in lost, QueueOf(t) = {}, HandOf(t) = {}, ResultOf(t) = {}, t \notin collected
          PROVE  Places(t) = {<<"lost">>}
      BY <1>1, <1>2, <1>4, <1>5, <2>5
    <2> QED
      BY <2>1, <2>2, <2>3, <2>4, <2>5 DEF OneHolder
  <1>8. Nowhere(t) => Places(t) = {}
    BY <1>1, <1>2, <1>4, <1>5 DEF Nowhere
  <1> QED
    BY <1>1, <1>4, <1>5, <1>6, <1>7, <1>8

(***************************************************************************)
(* The invariant.  The tasks of a worker are in a line: those whose        *)
(* results are under way, then the one in its hand, then the queue, in     *)
(* increasing order, and the ventilator has made them all.  That is why no *)
(* task is twice in a queue.                                               *)
(***************************************************************************)
InLine(w) ==
    /\ InOrderOnce(tasks[w])
    /\ InOrderOnce(TaskSeq(results[w]))
    /\ \A x \in Queued(tasks[w]) : x < toSend
    /\ \A h \in inHand[w] : h < toSend /\ \A x \in Queued(tasks[w]) : h < x
    /\ \A r \in Reported(results[w]) :
         r < toSend /\ \A x \in inHand[w] \cup Queued(tasks[w]) : r < x

AllInLine == \A w \in Workers : InLine(w)

Held == \A t \in Tasks : IF t < toSend THEN OneHolder(t) ELSE Nowhere(t)

PipeInv == TypeOK /\ HandState /\ AllInLine /\ Held

\* The lines of the workers that a step does not concern.
LEMMA SameLine ==
    ASSUME NEW w, InLine(w), toSend \in Nat, toSend' \in Nat, toSend <= toSend',
           tasks'[w] = tasks[w], inHand'[w] = inHand[w], results'[w] = results[w],
           Queued(tasks[w]) \cup inHand[w] \cup Reported(results[w]) \subseteq Nat
    PROVE  InLine(w)'
  BY DEF InLine

LEMMA InLineNat ==
    ASSUME TypeOK, NEW w \in Workers
    PROVE  /\ Queued(tasks[w]) \cup inHand[w] \cup Reported(results[w]) \subseteq Nat
           /\ Queued(tasks[w]) \cup inHand[w] \cup Reported(results[w]) \subseteq Tasks
           /\ toSend \in Nat
  <1>1. tasks[w] \in Seq(Tasks) /\ inHand[w] \subseteq Tasks /\ results[w] \in Seq(Result)
    BY TypesMean
  <1>2. Queued(tasks[w]) \subseteq Tasks
    BY <1>1 DEF Queued
  <1>3. Reported(results[w]) \subseteq Tasks
    <2>1. TaskSeq(results[w]) \in Seq(Tasks) /\ Reported(results[w]) = Queued(TaskSeq(results[w]))
      BY <1>1, TaskSeqFacts
    <2> QED
      BY <2>1 DEF Queued
  <1>4. Tasks \subseteq Nat
    BY GlobalTaskNumAssumption DEF Tasks
  <1>5. toSend \in Nat
    BY GlobalTaskNumAssumption DEF TypeOK
  <1> QED
    BY <1>1, <1>2, <1>3, <1>4, <1>5


\* Who has a task is the only one that has it.
LEMMA HolderIs ==
    ASSUME NEW t, OneHolder(t), NEW w
    PROVE  /\ w \in QueueOf(t) => /\ QueueOf(t) = {w} /\ HandOf(t) = {} /\ ResultOf(t) = {}
                                  /\ t \notin collected /\ t \notin lost
           /\ w \in HandOf(t) => /\ HandOf(t) = {w} /\ QueueOf(t) = {} /\ ResultOf(t) = {}
                                 /\ t \notin collected /\ t \notin lost
           /\ w \in ResultOf(t) => /\ ResultOf(t) = {w} /\ QueueOf(t) = {} /\ HandOf(t) = {}
                                   /\ t \notin collected /\ t \notin lost
  BY DEF OneHolder

\* A task that a step leaves where it is.
LEMMA SameHolder ==
    ASSUME NEW t, QueueOf(t)' = QueueOf(t), HandOf(t)' = HandOf(t), ResultOf(t)' = ResultOf(t),
           t \in collected' <=> t \in collected, t \in lost' <=> t \in lost
    PROVE  /\ OneHolder(t) => OneHolder(t)'
           /\ Nowhere(t) => Nowhere(t)'
  BY DEF OneHolder, Nowhere

--------------------------------------------------------------------------------
(***************************************************************************)
(* The steps, one after the other.                                         *)
(***************************************************************************)
LEMMA DistributeStep ==
    ASSUME PipeInv, NEW w \in Workers, Distribute(w), toSend' \in Nat
    PROVE  AllInLine' /\ Held'
  <1>0. TypeOK /\ AllInLine /\ Held /\ Tasks \subseteq Nat
    BY GlobalTaskNumAssumption DEF PipeInv, Tasks
  <1>1. /\ toSend \in Nat /\ toSend \in Tasks /\ toSend' = toSend + 1
        /\ tasks' = [tasks EXCEPT ![w] = Append(@, toSend)]
        /\ UNCHANGED <<workerState, inHand, results, collected, lost>>
    BY <1>0, GlobalTaskNumAssumption, InLineNat DEF Distribute, Tasks, sinkVars
  <1> DEFINE q == Append(tasks[w], toSend)
  <1>2. tasks'[w] = q /\ \A x \in Workers \ {w} : tasks'[x] = tasks[x]
    BY <1>0, <1>1 DEF TypeOK
  <1>3. InLine(w) /\ tasks[w] \in Seq(Tasks)
    BY <1>0, TypesMean DEF AllInLine
  <1>4. Queued(q) = Queued(tasks[w]) \cup {toSend} /\ InOrderOnce(q)
    <2>1. InOrderOnce(tasks[w]) /\ \A x \in Queued(tasks[w]) : x < toSend
      BY <1>3 DEF InLine
    <2>2. toSend \in Tasks /\ tasks[w] \in Seq(Tasks)
      BY <1>1, <1>3
    <2>3. /\ Queued(Append(tasks[w], toSend)) = Queued(tasks[w]) \cup {toSend}
          /\ InOrderOnce(Append(tasks[w], toSend))
      <3> HIDE DEF q
      <3> QED
        BY ONLY <2>1, <2>2, OrderedPut
    <2> QED
      BY <2>3
  <1> HIDE DEF q
  <1>5. InLine(w)'
    <2>1. Queued(tasks[w]) \cup inHand[w] \cup Reported(results[w]) \subseteq Nat
      BY <1>0, InLineNat
    <2>2. /\ tasks'[w] = q /\ inHand'[w] = inHand[w] /\ results'[w] = results[w]
      BY <1>1, <1>2
    <2>3. /\ \A x \in Queued(tasks[w]) : x < toSend
          /\ \A h \in inHand[w] : h < toSend /\ \A x \in Queued(tasks[w]) : h < x
          /\ \A r \in Reported(results[w]) :
               r < toSend /\ \A x \in inHand[w] \cup Queued(tasks[w]) : r < x
          /\ InOrderOnce(TaskSeq(results[w]))
      BY <1>3 DEF InLine
    <2>4. \A x \in Queued(q) : x < toSend'
      BY <1>1, <1>4, <2>1, <2>3
    <2>5. ASSUME NEW h \in inHand[w]
          PROVE  h < toSend' /\ \A x \in Queued(q) : h < x
      BY <1>1, <1>4, <2>1, <2>3
    <2>6. ASSUME NEW r \in Reported(results[w])
          PROVE  r < toSend' /\ \A x \in inHand[w] \cup Queued(q) : r < x
      BY <1>1, <1>4, <2>1, <2>3
    <2> QED
      BY <1>4, <2>2, <2>3, <2>4, <2>5, <2>6 DEF InLine
  <1>6. ASSUME NEW x \in Workers \ {w} PROVE InLine(x)'
    BY <1>0, <1>1, <1>2, SameLine, InLineNat DEF AllInLine
  <1>7. ASSUME NEW t \in Tasks
        PROVE  /\ QueueOf(t)' = IF t = toSend THEN QueueOf(t) \cup {w} ELSE QueueOf(t)
               /\ HandOf(t)' = HandOf(t) /\ ResultOf(t)' = ResultOf(t)
    BY <1>1, <1>2, <1>4 DEF QueueOf, HandOf, ResultOf
  <1>8. ASSUME NEW t \in Tasks
        PROVE  IF t < toSend' THEN OneHolder(t)' ELSE Nowhere(t)'
    <2>0. t \in Nat /\ (t < toSend' <=> t < toSend \/ t = toSend)
      BY <1>0, <1>1
    <2>1. CASE t = toSend
      <3>1. Nowhere(t)
        BY <1>0, <2>0, <2>1 DEF Held
      <3> QED
        BY <1>1, <1>7, <2>0, <2>1, <3>1 DEF Nowhere, OneHolder
    <2>2. CASE t # toSend
      BY <1>0, <1>1, <1>7, <2>0, <2>2, SameHolder DEF Held
    <2> QED
      BY <2>1, <2>2
  <1> QED
    BY <1>5, <1>6, <1>8 DEF AllInLine, Held

LEMMA ReceiveStep ==
    ASSUME PipeInv, NEW w \in Workers, ReceiveTask(w)
    PROVE  AllInLine' /\ Held'
  <1> DEFINE h == Head(tasks[w])
             q == Tail(tasks[w])
  <1>0. TypeOK /\ AllInLine /\ Held /\ Tasks \subseteq Nat /\ toSend \in Nat
    BY GlobalTaskNumAssumption, InLineNat DEF PipeInv, Tasks
  <1>1. /\ tasks[w] # <<>>
        /\ inHand' = [inHand EXCEPT ![w] = {h}] /\ tasks' = [tasks EXCEPT ![w] = q]
        /\ UNCHANGED <<toSend, results, collected, lost>>
    BY DEF ReceiveTask, sinkVars
  <1>2. /\ tasks'[w] = q /\ inHand'[w] = {h} /\ results'[w] = results[w]
        /\ \A x \in Workers \ {w} : tasks'[x] = tasks[x] /\ inHand'[x] = inHand[x]
    BY <1>0, <1>1 DEF TypeOK
  <1>3. InLine(w) /\ tasks[w] \in Seq(Tasks) /\ inHand[w] = {}
    BY <1>0, TypesMean DEF AllInLine, PipeInv, HandState, ReceiveTask
  <1>4. /\ InOrderOnce(q) /\ h \in Queued(tasks[w]) /\ Queued(q) = Queued(tasks[w]) \ {h}
        /\ \A x \in Queued(q) : h < x
    BY <1>0, <1>1, <1>3, OrderedTake DEF InLine
  <1> HIDE DEF h, q
  <1>5. InLine(w)'
    BY <1>1, <1>2, <1>3, <1>4 DEF InLine
  <1>6. ASSUME NEW x \in Workers \ {w} PROVE InLine(x)'
    BY <1>0, <1>1, <1>2, SameLine, InLineNat DEF AllInLine
  <1>7. ASSUME NEW t \in Tasks
        PROVE  /\ QueueOf(t)' = IF t = h THEN QueueOf(t) \ {w} ELSE QueueOf(t)
               /\ HandOf(t)' = IF t = h THEN HandOf(t) \cup {w} ELSE HandOf(t)
               /\ ResultOf(t)' = ResultOf(t)
    BY <1>1, <1>2, <1>3, <1>4 DEF QueueOf, HandOf, ResultOf
  <1>8. ASSUME NEW t \in Tasks
        PROVE  IF t < toSend' THEN OneHolder(t)' ELSE Nowhere(t)'
    <2>1. CASE t = h
      <3>1. t < toSend /\ w \in QueueOf(t)
        BY <1>3, <1>4, <2>1 DEF InLine, QueueOf
      <3>2. /\ QueueOf(t) = {w} /\ HandOf(t) = {} /\ ResultOf(t) = {}
            /\ t \notin collected /\ t \notin lost
        BY <1>0, <3>1, HolderIs DEF Held
      <3> QED
        BY <1>1, <1>7, <2>1, <3>1, <3>2 DEF OneHolder
    <2>2. CASE t # h
      BY <1>0, <1>1, <1>7, <2>2, SameHolder DEF Held
    <2> QED
      BY <2>1, <2>2
  <1> QED
    BY <1>5, <1>6, <1>8 DEF AllInLine, Held

LEMMA SendStep ==
    ASSUME PipeInv, NEW w \in Workers, SendResult(w)
    PROVE  AllInLine' /\ Held'
  <1>0. TypeOK /\ AllInLine /\ Held /\ Tasks \subseteq Nat /\ toSend \in Nat
    BY GlobalTaskNumAssumption, InLineNat DEF PipeInv, Tasks
  <1> PICK h \in Tasks : inHand[w] = {h}
    BY DEF SendResult, PipeInv, HandState
  <1> DEFINE q == Append(results[w], Work(h))
  <1>1. /\ results' = [results EXCEPT ![w] = q] /\ inHand' = [inHand EXCEPT ![w] = {}]
        /\ UNCHANGED <<toSend, tasks, collected, lost>>
    BY DEF SendResult, sinkVars
  <1>2. /\ results'[w] = q /\ inHand'[w] = {} /\ tasks'[w] = tasks[w]
        /\ \A x \in Workers \ {w} : results'[x] = results[x] /\ inHand'[x] = inHand[x]
    BY <1>0, <1>1 DEF TypeOK
  <1>3. InLine(w) /\ results[w] \in Seq(Result) /\ Halved(results[w])
    BY <1>0, TypesMean DEF AllInLine
  <1>4. /\ TaskSeq(q) = Append(TaskSeq(results[w]), h) /\ q \in Seq(Result)
        /\ TaskSeq(results[w]) \in Seq(Tasks)
        /\ Reported(results[w]) = Queued(TaskSeq(results[w]))
    <2>1. Work(h) \in Result /\ Work(h).task = h
      BY WorkHalves
    <2> QED
      BY <1>3, <2>1, TaskSeqFacts, PutFacts
  <1> HIDE DEF q
  <1>5. /\ InOrderOnce(TaskSeq(q)) /\ Reported(q) = Reported(results[w]) \cup {h}
    <2>1. \A x \in Queued(TaskSeq(results[w])) : x < h
      BY <1>3, <1>4 DEF InLine
    <2>2. InOrderOnce(TaskSeq(results[w]))
      BY <1>3 DEF InLine
    <2>3. /\ InOrderOnce(Append(TaskSeq(results[w]), h))
          /\ Queued(Append(TaskSeq(results[w]), h)) = Queued(TaskSeq(results[w])) \cup {h}
      <3> DEFINE s == TaskSeq(results[w])
      <3>1. s \in Seq(Tasks) /\ InOrderOnce(s) /\ \A x \in Queued(s) : x < h
        BY <1>4, <2>1, <2>2
      <3> HIDE DEF s
      <3>2. /\ Queued(Append(s, h)) = Queued(s) \cup {h}
            /\ InOrderOnce(s) /\ (\A x \in Queued(s) : x < h) => InOrderOnce(Append(s, h))
        <4>1. s \in Seq(Tasks) /\ h \in Tasks
          BY <3>1
        <4> QED
          BY ONLY <4>1, OrderedPut
      <3>3. InOrderOnce(Append(s, h)) /\ Queued(Append(s, h)) = Queued(s) \cup {h}
        BY <3>1, <3>2
      <3> QED
        BY <3>3 DEF s
    <2>4. Reported(q) = Queued(TaskSeq(q))
      BY <1>4, TaskSeqFacts
    <2> QED
      BY <1>4, <2>3, <2>4
  <1>6. InLine(w)'
    BY <1>1, <1>2, <1>3, <1>5 DEF InLine
  <1>7. ASSUME NEW x \in Workers \ {w} PROVE InLine(x)'
    BY <1>0, <1>1, <1>2, SameLine, InLineNat DEF AllInLine
  <1>8. ASSUME NEW t \in Tasks
        PROVE  /\ QueueOf(t)' = QueueOf(t)
               /\ HandOf(t)' = IF t = h THEN HandOf(t) \ {w} ELSE HandOf(t)
               /\ ResultOf(t)' = IF t = h THEN ResultOf(t) \cup {w} ELSE ResultOf(t)
    BY <1>1, <1>2, <1>5 DEF QueueOf, HandOf, ResultOf
  <1>9. ASSUME NEW t \in Tasks
        PROVE  IF t < toSend' THEN OneHolder(t)' ELSE Nowhere(t)'
    <2>1. CASE t = h
      <3>1. t < toSend /\ w \in HandOf(t)
        BY <1>3, <2>1 DEF InLine, HandOf
      <3>2. /\ HandOf(t) = {w} /\ QueueOf(t) = {} /\ ResultOf(t) = {}
            /\ t \notin collected /\ t \notin lost
        BY <1>0, <3>1, HolderIs DEF Held
      <3> QED
        BY <1>1, <1>8, <2>1, <3>1, <3>2 DEF OneHolder
    <2>2. CASE t # h
      BY <1>0, <1>1, <1>8, <2>2, SameHolder DEF Held
    <2> QED
      BY <2>1, <2>2
  <1> QED
    BY <1>6, <1>7, <1>9 DEF AllInLine, Held

LEMMA CollectStep ==
    ASSUME PipeInv, NEW w \in Workers, CollectResult(w)
    PROVE  /\ AllInLine' /\ Held'
           /\ \E h \in Tasks \ collected : collected' = collected \cup {h}
  <1> DEFINE r == Head(results[w])
             h == r.task
             q == Tail(results[w])
  <1>0. TypeOK /\ AllInLine /\ Held /\ Tasks \subseteq Nat /\ toSend \in Nat
    BY GlobalTaskNumAssumption, InLineNat DEF PipeInv, Tasks
  <1>1. /\ results[w] # <<>> /\ results' = [results EXCEPT ![w] = q]
        /\ collected' = collected \cup {h}
        /\ UNCHANGED <<toSend, tasks, inHand, lost>>
    BY DEF CollectResult, workerVars
  <1>2. /\ results'[w] = q /\ tasks'[w] = tasks[w] /\ inHand'[w] = inHand[w]
        /\ \A x \in Workers \ {w} : results'[x] = results[x]
    BY <1>0, <1>1 DEF TypeOK
  <1>3. InLine(w) /\ results[w] \in Seq(Result)
    BY <1>0, TypesMean DEF AllInLine
  <1>4. /\ TaskSeq(results[w]) \in Seq(Tasks) /\ TaskSeq(results[w]) # <<>>
        /\ TaskSeq(q) = Tail(TaskSeq(results[w])) /\ h = Head(TaskSeq(results[w]))
        /\ Reported(results[w]) = Queued(TaskSeq(results[w]))
        /\ q \in Seq(Result)
    BY <1>1, <1>3, TaskSeqFacts, TakeFacts
  <1> HIDE DEF h, q, r
  <1>5. /\ InOrderOnce(TaskSeq(q)) /\ h \in Reported(results[w])
        /\ Reported(q) = Reported(results[w]) \ {h}
    <2>1. InOrderOnce(TaskSeq(results[w]))
      BY <1>3 DEF InLine
    <2>2. Reported(q) = Queued(TaskSeq(q))
      BY <1>4, TaskSeqFacts
    <2> QED
      BY <1>0, <1>4, <2>1, <2>2, OrderedTake
  <1>6. InLine(w)'
    BY <1>1, <1>2, <1>3, <1>5 DEF InLine
  <1>7. ASSUME NEW x \in Workers \ {w} PROVE InLine(x)'
    BY <1>0, <1>1, <1>2, SameLine, InLineNat DEF AllInLine
  <1>8. ASSUME NEW t \in Tasks
        PROVE  /\ QueueOf(t)' = QueueOf(t) /\ HandOf(t)' = HandOf(t)
               /\ ResultOf(t)' = IF t = h THEN ResultOf(t) \ {w} ELSE ResultOf(t)
    BY <1>1, <1>2, <1>5 DEF QueueOf, HandOf, ResultOf
  <1>a. h < toSend /\ w \in ResultOf(h) /\ h \in Tasks
    BY <1>0, <1>3, <1>5, InLineNat DEF InLine, ResultOf
  <1>b. /\ ResultOf(h) = {w} /\ QueueOf(h) = {} /\ HandOf(h) = {}
        /\ h \notin collected /\ h \notin lost
    BY <1>0, <1>a, HolderIs DEF Held
  <1>9. ASSUME NEW t \in Tasks
        PROVE  IF t < toSend' THEN OneHolder(t)' ELSE Nowhere(t)'
    <2>1. CASE t = h
      BY <1>1, <1>8, <1>a, <1>b, <2>1 DEF OneHolder
    <2>2. CASE t # h
      BY <1>0, <1>1, <1>8, <2>2, SameHolder DEF Held
    <2> QED
      BY <2>1, <2>2
  <1> QED
    BY <1>1, <1>6, <1>7, <1>9, <1>a, <1>b DEF AllInLine, Held

\* The results that stay under way when a worker is killed, and those that go.
LEMMA ReportedCut ==
    ASSUME NEW q \in Seq(Result), InOrderOnce(TaskSeq(q)), NEW n \in 0 .. Len(q), Tasks \subseteq Nat
    PROVE  LET a == SubSeq(q, 1, n)
               b == SubSeq(q, n + 1, Len(q))
           IN  /\ InOrderOnce(TaskSeq(a))
               /\ Reported(a) \cup Reported(b) = Reported(q)
               /\ Reported(a) \cap Reported(b) = {}
  <1> DEFINE a == SubSeq(q, 1, n)
             b == SubSeq(q, n + 1, Len(q))
             s == TaskSeq(q)
  <1>1. Len(q) \in Nat /\ n \in Nat /\ n <= Len(q) /\ a \in Seq(Result) /\ b \in Seq(Result)
    <2>1. Len(q) \in Nat /\ n \in Nat /\ n <= Len(q)
      OBVIOUS
    <2>2. \A i \in 1 .. Len(q) : q[i] \in Result
      OBVIOUS
    <2>3. a \in Seq(Result)
      BY <2>1, <2>2
    <2>4. b \in Seq(Result)
      <3>1. b = [i \in 1 .. (Len(q) - n) |-> q[i + n]]
        BY <2>1
      <3>2. \A i \in 1 .. (Len(q) - n) : q[i + n] \in Result
        BY <2>1, <2>2
      <3>3. Len(q) - n \in Nat
        BY <2>1
      <3> QED
        BY <3>1, <3>2, <3>3
    <2> QED
      BY <2>1, <2>3, <2>4
  <1>2. /\ s \in Seq(Tasks) /\ Len(s) = Len(q) /\ Reported(q) = Queued(s)
        /\ \A k, m \in Nat : k >= 1 /\ m <= Len(q)
             => TaskSeq(SubSeq(q, k, m)) = SubSeq(s, k, m)
    BY TaskSeqFacts
  <1>3. TaskSeq(a) = SubSeq(s, 1, n) /\ TaskSeq(b) = SubSeq(s, n + 1, Len(s))
    <2>1. 1 \in Nat /\ n + 1 \in Nat /\ n + 1 >= 1 /\ Len(q) <= Len(q)
      BY <1>1
    <2> HIDE DEF s
    <2>2. TaskSeq(SubSeq(q, 1, n)) = SubSeq(s, 1, n)
      BY <1>1, <1>2, <2>1
    <2>3. TaskSeq(SubSeq(q, n + 1, Len(q))) = SubSeq(s, n + 1, Len(q))
      BY <1>1, <1>2, <2>1
    <2> QED
      BY <1>2, <2>2, <2>3
  <1>4. Reported(a) = Queued(TaskSeq(a)) /\ Reported(b) = Queued(TaskSeq(b))
    BY <1>1, TaskSeqFacts
  <1>5. n \in 0 .. Len(s) /\ InOrderOnce(s)
    BY <1>2
  <1> HIDE DEF a, b, s
  <1>6. /\ InOrderOnce(SubSeq(s, 1, n))
        /\ Queued(SubSeq(s, 1, n)) \cup Queued(SubSeq(s, n + 1, Len(s))) = Queued(s)
        /\ Queued(SubSeq(s, 1, n)) \cap Queued(SubSeq(s, n + 1, Len(s))) = {}
    BY ONLY <1>2, <1>5, OrderedCut, Tasks \subseteq Nat
  <1> QED
    BY <1>2, <1>3, <1>4, <1>6 DEF a, b

LEMMA KillStep ==
    ASSUME PipeInv, NEW w \in Workers, Kill(w)
    PROVE  AllInLine' /\ Held'
  <1>0. TypeOK /\ AllInLine /\ Held /\ Tasks \subseteq Nat /\ toSend \in Nat
    BY GlobalTaskNumAssumption, InLineNat DEF PipeInv, Tasks
  <1> PICK n \in 0 .. Len(results[w]) :
        /\ results' = [results EXCEPT ![w] = SubSeq(@, 1, n)]
        /\ lost' = lost \cup inHand[w]
                        \cup Reported(SubSeq(results[w], n + 1, Len(results[w])))
    BY DEF Kill
  <1> DEFINE a == SubSeq(results[w], 1, n)
             b == Reported(SubSeq(results[w], n + 1, Len(results[w])))
  <1>1. /\ results' = [results EXCEPT ![w] = a] /\ inHand' = [inHand EXCEPT ![w] = {}]
        /\ lost' = lost \cup inHand[w] \cup b
        /\ UNCHANGED <<toSend, tasks, collected>>
    BY DEF Kill, sinkVars
  <1>2. InLine(w) /\ results[w] \in Seq(Result)
    BY <1>0, TypesMean DEF AllInLine
  <1>3. /\ InOrderOnce(TaskSeq(a)) /\ Reported(a) \cup b = Reported(results[w])
        /\ Reported(a) \cap b = {}
    BY <1>0, <1>2, ReportedCut DEF InLine
  <1> HIDE DEF a, b
  <1>4. /\ results'[w] = a /\ tasks'[w] = tasks[w] /\ inHand'[w] = {}
        /\ \A x \in Workers \ {w} : results'[x] = results[x] /\ inHand'[x] = inHand[x]
    BY <1>0, <1>1 DEF TypeOK
  <1>5. InLine(w)'
    BY <1>1, <1>2, <1>3, <1>4 DEF InLine
  <1>6. ASSUME NEW x \in Workers \ {w} PROVE InLine(x)'
    BY <1>0, <1>1, <1>4, SameLine, InLineNat DEF AllInLine
  <1>7. ASSUME NEW t \in Tasks
        PROVE  /\ QueueOf(t)' = QueueOf(t)
               /\ HandOf(t)' = HandOf(t) \ {w}
               /\ ResultOf(t)' = IF t \in b THEN ResultOf(t) \ {w} ELSE ResultOf(t)
    BY <1>1, <1>3, <1>4 DEF QueueOf, HandOf, ResultOf
  <1>8. ASSUME NEW t \in Tasks
        PROVE  IF t < toSend' THEN OneHolder(t)' ELSE Nowhere(t)'
    <2>1. CASE t \in inHand[w]
      <3>1. t < toSend /\ w \in HandOf(t)
        BY <1>2, <2>1 DEF InLine, HandOf
      <3>2. /\ HandOf(t) = {w} /\ QueueOf(t) = {} /\ ResultOf(t) = {} /\ t \notin collected
        BY <1>0, <3>1, HolderIs DEF Held
      <3> QED
        BY <1>1, <1>7, <2>1, <3>1, <3>2 DEF OneHolder
    <2>2. CASE t \in b
      <3>1. t < toSend /\ w \in ResultOf(t)
        BY <1>2, <1>3, <2>2 DEF InLine, ResultOf
      <3>2. /\ ResultOf(t) = {w} /\ QueueOf(t) = {} /\ HandOf(t) = {} /\ t \notin collected
        BY <1>0, <3>1, HolderIs DEF Held
      <3> QED
        BY <1>1, <1>7, <2>2, <3>1, <3>2 DEF OneHolder
    <2>3. CASE t \notin inHand[w] /\ t \notin b
      <3>1. HandOf(t)' = HandOf(t)
        BY <1>7, <2>3 DEF HandOf
      <3> QED
        BY <1>0, <1>1, <1>7, <2>3, <3>1, SameHolder DEF Held
    <2> QED
      BY <2>1, <2>2, <2>3
  <1> QED
    BY <1>5, <1>6, <1>8 DEF AllInLine, Held

LEMMA DisconnectStep ==
    ASSUME PipeInv, NEW w \in Workers, Disconnect(w)
    PROVE  AllInLine' /\ Held'
  <1> DEFINE b == Queued(tasks[w])
  <1>0. TypeOK /\ AllInLine /\ Held /\ Tasks \subseteq Nat /\ toSend \in Nat
    BY GlobalTaskNumAssumption, InLineNat DEF PipeInv, Tasks
  <1>1. /\ tasks' = [tasks EXCEPT ![w] = <<>>] /\ lost' = lost \cup b
        /\ UNCHANGED <<toSend, inHand, results, collected>>
    BY DEF Disconnect, sinkVars
  <1>2. InLine(w) /\ inHand[w] = {}
    BY <1>0 DEF AllInLine, PipeInv, HandState, Disconnect
  <1>3. /\ tasks'[w] = <<>> /\ inHand'[w] = {} /\ results'[w] = results[w]
        /\ \A x \in Workers \ {w} : tasks'[x] = tasks[x]
    BY <1>0, <1>1, <1>2 DEF TypeOK
  <1>4. Queued(<<>>) = {} /\ InOrderOnce(<<>>)
    BY DEF Queued, InOrderOnce
  <1>5. InLine(w)'
    BY <1>1, <1>2, <1>3, <1>4 DEF InLine
  <1>6. ASSUME NEW x \in Workers \ {w} PROVE InLine(x)'
    BY <1>0, <1>1, <1>3, SameLine, InLineNat DEF AllInLine
  <1> HIDE DEF b
  <1>7. ASSUME NEW t \in Tasks
        PROVE  /\ QueueOf(t)' = QueueOf(t) \ {w}
               /\ HandOf(t)' = HandOf(t) /\ ResultOf(t)' = ResultOf(t)
    BY <1>1, <1>3, <1>4 DEF QueueOf, HandOf, ResultOf
  <1>8. ASSUME NEW t \in Tasks
        PROVE  IF t < toSend' THEN OneHolder(t)' ELSE Nowhere(t)'
    <2>1. CASE t \in b
      <3>1. t < toSend /\ w \in QueueOf(t)
        BY <1>2, <2>1 DEF InLine, QueueOf, b
      <3>2. /\ QueueOf(t) = {w} /\ HandOf(t) = {} /\ ResultOf(t) = {} /\ t \notin collected
        BY <1>0, <3>1, HolderIs DEF Held
      <3> QED
        BY <1>1, <1>7, <2>1, <3>1, <3>2 DEF OneHolder
    <2>2. CASE t \notin b
      <3>1. QueueOf(t)' = QueueOf(t)
        BY <1>7, <2>2 DEF QueueOf, b
      <3> QED
        BY <1>0, <1>1, <1>7, <2>2, <3>1, SameHolder DEF Held
    <2> QED
      BY <2>1, <2>2
  <1> QED
    BY <1>5, <1>6, <1>8 DEF AllInLine, Held

LEMMA StayStep ==
    ASSUME PipeInv, UNCHANGED <<toSend, tasks, inHand, results, collected, lost>>
    PROVE  AllInLine' /\ Held'
  <1>1. AllInLine /\ Held
    BY DEF PipeInv
  <1>2. AllInLine'
    BY <1>1 DEF AllInLine, InLine
  <1>3. \A t : /\ QueueOf(t)' = QueueOf(t) /\ HandOf(t)' = HandOf(t) /\ ResultOf(t)' = ResultOf(t)
    BY DEF QueueOf, HandOf, ResultOf
  <1>4. Held'
    BY <1>1, <1>3, SameHolder DEF Held
  <1> QED
    BY <1>2, <1>4

LEMMA PipeInit == Init => PipeInv
  <1> SUFFICES ASSUME Init PROVE PipeInv
    OBVIOUS
  <1>1. TypeOK /\ HandState
    BY TypesInit
  <1>2. Queued(<<>>) = {} /\ Reported(<<>>) = {} /\ InOrderOnce(<<>>) /\ TaskSeq(<<>>) = <<>>
    BY DEF Queued, Reported, InOrderOnce, TaskSeq
  <1>3. \A w \in Workers : tasks[w] = <<>> /\ inHand[w] = {} /\ results[w] = <<>>
    BY DEF Init
  <1>4. AllInLine
    BY <1>2, <1>3 DEF AllInLine, InLine
  <1>5. \A t : Nowhere(t)
    BY <1>2, <1>3 DEF Nowhere, QueueOf, HandOf, ResultOf, Init
  <1>6. \A t \in Tasks : ~(t < toSend)
    BY GlobalTaskNumAssumption DEF Init, Tasks
  <1> QED
    BY <1>1, <1>4, <1>5, <1>6 DEF PipeInv, Held

LEMMA PipeStep == PipeInv /\ [Next]_vars => PipeInv'
  <1> SUFFICES ASSUME PipeInv, [Next]_vars PROVE PipeInv'
    OBVIOUS
  <1>1. TypeOK' /\ HandState'
    BY TypesStep DEF PipeInv
  <1>2. toSend' \in Nat
    BY <1>1, GlobalTaskNumAssumption DEF TypeOK
  <1>3. ASSUME NEW w \in Workers, Distribute(w) PROVE AllInLine' /\ Held'
    BY <1>2, <1>3, DistributeStep
  <1>4. ASSUME NEW w \in Workers, Start(w) PROVE AllInLine' /\ Held'
    BY <1>4, StayStep DEF Start, sinkVars
  <1>5. ASSUME NEW w \in Workers, ReceiveTask(w) PROVE AllInLine' /\ Held'
    BY <1>5, ReceiveStep
  <1>6. ASSUME NEW w \in Workers, SendResult(w) PROVE AllInLine' /\ Held'
    BY <1>6, SendStep
  <1>7. ASSUME NEW w \in Workers, CollectResult(w) PROVE AllInLine' /\ Held'
    BY <1>7, CollectStep
  <1>8. ASSUME NEW w \in Workers, Kill(w) PROVE AllInLine' /\ Held'
    BY <1>8, KillStep
  <1>9. ASSUME NEW w \in Workers, Disconnect(w) PROVE AllInLine' /\ Held'
    BY <1>9, DisconnectStep
  <1>10. ASSUME UNCHANGED vars PROVE AllInLine' /\ Held'
    BY <1>10, StayStep DEF vars
  <1> QED
    BY <1>1, <1>3, <1>4, <1>5, <1>6, <1>7, <1>8, <1>9, <1>10 DEF Next, PipeInv

LEMMA PipeMeans == PipeInv => EveryTaskOnce
  <1> SUFFICES ASSUME PipeInv PROVE EveryTaskOnce
    OBVIOUS
  <1>1. ASSUME NEW t \in Tasks
        PROVE  IF t < toSend THEN \E p \in Places(t) : Places(t) = {p} ELSE Places(t) = {}
    BY PlacesMean DEF PipeInv, Held
  <1>2. ASSUME NEW w \in Workers
        PROVE  /\ InOrderOnce(tasks[w])
               /\ InOrderOnce([i \in DOMAIN results[w] |-> results[w][i].task])
    BY DEF PipeInv, AllInLine, InLine, TaskSeq
  <1> QED
    BY <1>1, <1>2 DEF EveryTaskOnce

(***************************************************************************)
(* However the tasks are shared out, and whoever is killed, a task that    *)
(* was sent is queued for one worker, in its hand, in one result under     *)
(* way, in the sum or lost, and only that; and what goes over a connection *)
(* is in the order in which the ventilator made it.                        *)
(***************************************************************************)
THEOREM PushPullTasks == Spec => []EveryTaskOnce
  BY PipeInit, PipeStep, PipeMeans, PTL DEF Spec

--------------------------------------------------------------------------------
(***************************************************************************)
(* The sink counts each task it collects, and adds its half: so its count  *)
(* is that of the tasks it has, and its sum that of their units.           *)
(***************************************************************************)
CountInv ==
    /\ PipeInv
    /\ IsFiniteSet(collected) /\ count = Cardinality(collected)
    /\ IsFiniteSet(Units(collected)) /\ sum = Cardinality(Units(collected))

\* A number of pairs with one first part.
LEMMA PairsCount ==
    ASSUME NEW t, NEW n \in Nat
    PROVE  IsFiniteSet({t} \X (1 .. n)) /\ Cardinality({t} \X (1 .. n)) = n
  <1> DEFINE f == [i \in 1 .. n |-> <<t, i>>]
             P == {t} \X (1 .. n)
  <1>1. IsFiniteSet(1 .. n) /\ Cardinality(1 .. n) = n
    <2>1. /\ IsFiniteSet(1 .. n)
          /\ Cardinality(1 .. n) = IF 1 > n THEN 0 ELSE n - 1 + 1
      BY FS_Interval
    <2> QED
      BY <2>1
  <1>2. f \in [1 .. n -> P]
    OBVIOUS
  <1>3. \A i, j \in 1 .. n : f[i] = f[j] => i = j
    OBVIOUS
  <1>4. \A p \in P : \E i \in 1 .. n : f[i] = p
    <2> TAKE p \in P
    <2>1. p[2] \in 1 .. n /\ p = <<t, p[2]>>
      OBVIOUS
    <2>2. f[p[2]] = p
      BY <2>1
    <2> QED
      BY <2>1, <2>2
  <1> HIDE DEF f, P
  <1>5. f \in Bijection(1 .. n, P)
    BY <1>2, <1>3, <1>4 DEF Bijection, Injection, Surjection, IsInjective
  <1>6. ExistsBijection(1 .. n, P)
    BY <1>5 DEF ExistsBijection
  <1> QED
    BY <1>1, <1>6, FS_Bijection DEF P

\* A task that comes to others brings as many units as its half.
LEMMA UnitsAdd ==
    ASSUME NEW s \in SUBSET Tasks, NEW t \in Tasks \ s, IsFiniteSet(Units(s))
    PROVE  /\ IsFiniteSet(Units(s \cup {t}))
           /\ Cardinality(Units(s \cup {t})) = Cardinality(Units(s)) + t \div 2
  <1> DEFINE n == t \div 2
             P == {t} \X (1 .. n)
  <1>1. n \in Nat /\ n <= GlobalTaskNum
    BY GlobalTaskNumAssumption DEF Tasks
  <1>2. Units(s \cup {t}) = Units(s) \cup P
    <2>1. ASSUME NEW u \in Units(s \cup {t}) PROVE u \in Units(s) \cup P
      <3>1. u \in (s \cup {t}) \X (1 .. GlobalTaskNum) /\ u[2] <= u[1] \div 2
        BY DEF Units
      <3>2. u = <<u[1], u[2]>> /\ u[1] \in s \cup {t} /\ u[2] \in 1 .. GlobalTaskNum
        BY <3>1
      <3>3. CASE u[1] \in s
        BY <3>1, <3>2, <3>3 DEF Units
      <3>4. CASE u[1] = t
        <4>1. u[2] \in 1 .. n
          BY <1>1, <3>1, <3>2, <3>4, GlobalTaskNumAssumption
        <4> QED
          BY <3>2, <3>4, <4>1
      <3> QED
        BY <3>2, <3>3, <3>4
    <2>2. ASSUME NEW u \in P PROVE u \in Units(s \cup {t})
      <3>1. u = <<t, u[2]>> /\ u[1] = t /\ u[2] \in 1 .. n
        OBVIOUS
      <3>2. u[2] \in 1 .. GlobalTaskNum /\ u[2] <= n
        BY <1>1, <3>1, GlobalTaskNumAssumption
      <3> QED
        BY <3>1, <3>2 DEF Units
    <2>3. Units(s) \subseteq Units(s \cup {t})
      BY DEF Units
    <2> QED
      BY <2>1, <2>2, <2>3
  <1>3. Units(s) \cap P = {}
    BY DEF Units
  <1> HIDE DEF n
  <1>4. IsFiniteSet(P) /\ Cardinality(P) = n
    BY <1>1, PairsCount
  <1> HIDE DEF P
  <1>5. Cardinality(Units(s)) \in Nat
    BY FS_CardinalityType
  <1>6. /\ IsFiniteSet(Units(s) \cup P)
        /\ Cardinality(Units(s) \cup P) = Cardinality(Units(s)) + Cardinality(P) - Cardinality({})
    BY <1>3, <1>4, FS_Union
  <1>7. Cardinality({}) = 0
    BY FS_EmptySet
  <1>8. Cardinality(Units(s) \cup P) = Cardinality(Units(s)) + n
    BY <1>1, <1>4, <1>5, <1>6, <1>7
  <1> QED
    BY <1>2, <1>6, <1>8 DEF n

LEMMA CountInit == Init => CountInv
  <1> SUFFICES ASSUME Init PROVE CountInv
    OBVIOUS
  <1>1. collected = {} /\ count = 0 /\ sum = 0 /\ PipeInv
    BY PipeInit DEF Init
  <1>2. Units(collected) = {}
    BY <1>1 DEF Units
  <1> QED
    BY <1>1, <1>2, FS_EmptySet DEF CountInv

LEMMA CountStep == CountInv /\ [Next]_vars => CountInv'
  <1> SUFFICES ASSUME CountInv, [Next]_vars PROVE CountInv'
    OBVIOUS
  <1>1. PipeInv /\ PipeInv'
    BY PipeStep DEF CountInv
  <1>2. ASSUME NEW w \in Workers, CollectResult(w)
        PROVE  /\ IsFiniteSet(collected') /\ count' = Cardinality(collected')
               /\ IsFiniteSet(Units(collected')) /\ sum' = Cardinality(Units(collected'))
    <2> DEFINE h == Head(results[w]).task
    <2>1. h \in Tasks \ collected /\ collected' = collected \cup {h}
      <3> PICK g \in Tasks \ collected : collected' = collected \cup {g}
        BY <1>1, <1>2, CollectStep
      <3>1. collected' = collected \cup {h}
        BY <1>2 DEF CollectResult
      <3> QED
        BY <3>1
    <2>2. sum' = sum + h \div 2
      <3>1. /\ results[w] \in Seq(Result) /\ results[w] # <<>>
            /\ \A i \in DOMAIN results[w] : results[w][i].data = results[w][i].task \div 2
        BY <1>1, <1>2 DEF PipeInv, TypeOK, CollectResult, Result
      <3>2. Head(results[w]).data = h \div 2
        BY <3>1, TakeFacts
      <3> QED
        BY <1>2, <3>2 DEF CollectResult
    <2> HIDE DEF h
    <2>3. IsFiniteSet(collected') /\ Cardinality(collected') = Cardinality(collected) + 1
      BY <2>1, FS_AddElement DEF CountInv
    <2>4. collected \in SUBSET Tasks
      BY <1>1 DEF PipeInv, TypeOK
    <2>5. /\ IsFiniteSet(Units(collected'))
          /\ Cardinality(Units(collected')) = Cardinality(Units(collected)) + h \div 2
      BY <2>1, <2>4, UnitsAdd DEF CountInv
    <2> QED
      BY <1>2, <2>2, <2>3, <2>5 DEF CollectResult, CountInv
  <1>3. ASSUME NEW w \in Workers,
               \/ Distribute(w) \/ Start(w) \/ ReceiveTask(w) \/ SendResult(w)
               \/ Kill(w) \/ Disconnect(w)
        PROVE  count' = count /\ sum' = sum /\ collected' = collected
    BY <1>3 DEF Distribute, Start, ReceiveTask, SendResult, Kill, Disconnect, sinkVars
  <1>4. ASSUME UNCHANGED vars
        PROVE  count' = count /\ sum' = sum /\ collected' = collected
    BY <1>4 DEF vars
  <1>5. collected' = collected => Units(collected') = Units(collected)
    OBVIOUS
  <1> QED
    BY <1>1, <1>2, <1>3, <1>4, <1>5 DEF Next, CountInv

(***************************************************************************)
(* collectResults: the sum of the sink is that of the halves of the tasks  *)
(* it has results of, each once.                                           *)
(***************************************************************************)
THEOREM PushPullSum == Spec => []SumAddsUp
  <1>1. CountInv => SumAddsUp
    BY DEF CountInv, SumAddsUp
  <1> QED
    BY <1>1, CountInit, CountStep, PTL DEF Spec

LEMMA CountMeans == CountInv => EndIsComplete
  <1> SUFFICES ASSUME CountInv, ~Collecting PROVE EndIsComplete
    BY DEF EndIsComplete
  <1>0. TypeOK /\ Held /\ GlobalTaskNum \in Nat
    BY GlobalTaskNumAssumption DEF CountInv, PipeInv
  <1>1. count = GlobalTaskNum
    BY <1>0 DEF TypeOK, Collecting
  <1>2. IsFiniteSet(Tasks) /\ Cardinality(Tasks) = GlobalTaskNum
    <2>1. IsFiniteSet(0 .. GlobalTaskNum - 1)
          /\ Cardinality(0 .. GlobalTaskNum - 1)
               = IF 0 > GlobalTaskNum - 1 THEN 0 ELSE (GlobalTaskNum - 1) - 0 + 1
      BY <1>0, FS_Interval
    <2> QED
      BY <1>0, <2>1 DEF Tasks
  <1>3. collected = Tasks
    BY <1>0, <1>1, <1>2, FS_Subset DEF CountInv, TypeOK
  <1>4. ASSUME NEW t \in Tasks
        PROVE  t < toSend /\ QueueOf(t) = {} /\ HandOf(t) = {} /\ ResultOf(t) = {} /\ t \notin lost
    <2>1. ~Nowhere(t)
      BY <1>3 DEF Nowhere
    <2>2. t < toSend /\ OneHolder(t)
      BY <1>0, <2>1 DEF Held
    <2> QED
      BY <1>3, <2>2 DEF OneHolder
  <1>5. toSend = GlobalTaskNum
    <2>1. CASE GlobalTaskNum = 0
      BY <1>0, <2>1 DEF TypeOK
    <2>2. CASE GlobalTaskNum # 0
      <3>1. GlobalTaskNum - 1 \in Tasks
        BY <1>0, <2>2 DEF Tasks
      <3>2. GlobalTaskNum - 1 < toSend
        BY <1>4, <3>1
      <3> QED
        BY <1>0, <3>2 DEF TypeOK
    <2> QED
      BY <2>1, <2>2
  <1>6. lost = {}
    BY <1>0, <1>4 DEF TypeOK
  <1>7. ASSUME NEW w \in Workers
        PROVE  tasks[w] = <<>> /\ inHand[w] = {} /\ results[w] = <<>>
    <2>1. /\ tasks[w] \in Seq(Tasks) /\ inHand[w] \subseteq Tasks /\ results[w] \in Seq(Result)
      BY <1>0, TypesMean
    <2>2. \A t \in Tasks : t \notin Queued(tasks[w]) /\ t \notin inHand[w]
                           /\ t \notin Reported(results[w])
      BY <1>4 DEF QueueOf, HandOf, ResultOf
    <2>3. inHand[w] = {}
      BY <2>1, <2>2
    <2>4. tasks[w] = <<>>
      <3> SUFFICES ASSUME tasks[w] # <<>> PROVE FALSE
        OBVIOUS
      <3>1. 1 \in DOMAIN tasks[w] /\ tasks[w][1] \in Tasks
        BY <2>1
      <3> QED
        BY <2>2, <3>1 DEF Queued
    <2>5. results[w] = <<>>
      <3> SUFFICES ASSUME results[w] # <<>> PROVE FALSE
        OBVIOUS
      <3>1. 1 \in DOMAIN results[w] /\ results[w][1] \in Result
        BY <2>1
      <3>2. results[w][1].task \in Tasks
        BY <3>1 DEF Result
      <3> QED
        BY <2>2, <3>1, <3>2 DEF Reported
    <2> QED
      BY <2>3, <2>4, <2>5
  <1> QED
    BY <1>3, <1>5, <1>6, <1>7 DEF EndIsComplete

(***************************************************************************)
(* The sink counts results and looks at nothing else, and still it ends    *)
(* only when every task is in its sum and nothing is under way: had a      *)
(* result come twice it would have ended too early.                        *)
(***************************************************************************)
THEOREM PushPullEnd == Spec => []EndIsComplete
  BY CountInit, CountStep, CountMeans, PTL DEF Spec

================================================================================
