------------------------------- MODULE PushPull --------------------------------
(***************************************************************************)
(* The pipeline of simple_push_pull: the ventilator (TasksManager) pushes  *)
(* the numbers below GlobalTaskNum, each worker halves the numbers it      *)
(* gets, the sink (TaskCollector) adds up as many results as there were    *)
(* tasks.  The three are processes of their own, started in any order.     *)
(*                                                                         *)
(* A push socket assigns a message to one of its connected peers when it   *)
(* is sent, and blocks while it has none; what is assigned to a worker     *)
(* stays with it.  The workers loop until somebody kills them.             *)
(***************************************************************************)
EXTENDS Naturals, Sequences, FiniteSets

CONSTANTS
    Workers,          \* the worker processes
    Mortal,           \* the workers that may be killed
    GlobalTaskNum     \* tasks the ventilator sends and results the sink awaits

ASSUME MortalAssumption == Mortal \subseteq Workers
ASSUME GlobalTaskNumAssumption == GlobalTaskNum \in Nat

Tasks == 0 .. GlobalTaskNum - 1

VARIABLES
    toSend,        \* the loop counter of the ventilator: the next task
    workerState,   \* "off" not started, "idle" in recv, "busy" with a task,
                   \* "dead" killed, "gone" when the ventilator has noticed
    tasks,         \* tasks[w]: tasks assigned to w that it has not received
    inHand,        \* inHand[w]: the tasks (none or one) between recv and send of w
    results,       \* results[w]: results from w the sink has not received
    count,         \* the loop counter of the sink
    sum,           \* the sum of the sink
    collected,     \* history: the tasks whose results the sink has added
    lost           \* history: the tasks that were lost with a worker

workerVars == <<workerState, tasks, inHand>>
sinkVars == <<count, sum, collected>>
vars == <<toSend, workerState, tasks, inHand, results, count, sum, collected, lost>>

Init ==
    /\ toSend = 0
    /\ workerState = [w \in Workers |-> "off"]
    /\ tasks = [w \in Workers |-> <<>>]
    /\ inHand = [w \in Workers |-> {}]
    /\ results = [w \in Workers |-> <<>>]
    /\ count = 0
    /\ sum = 0
    /\ collected = {}
    /\ lost = {}

\* Definitions with a plausible mistake, as elsewhere, stand before those they
\* would replace: DistributeTail, WorkNothing, SendAgain and CollectAllButOne.

\* What the tasks of a queue are.
Queued(q) == {q[i] : i \in DOMAIN q}
Reported(q) == {q[i].task : i \in DOMAIN q}

\* TasksManager::distributeTasks, one round: a connected worker gets the task.
\* One that was killed counts as connected until the ventilator notices.
Connected == {w \in Workers : workerState[w] \in {"idle", "busy", "dead"}}

DistributeTail(w) ==
    /\ toSend + 1 < GlobalTaskNum
    /\ w \in Connected
    /\ toSend' = toSend + 1
    /\ tasks' = [tasks EXCEPT ![w] = Append(@, toSend + 1)]
    /\ UNCHANGED <<workerState, inHand, results, sinkVars, lost>>

Distribute(w) ==
    /\ toSend < GlobalTaskNum
    /\ w \in Connected
    /\ toSend' = toSend + 1
    /\ tasks' = [tasks EXCEPT ![w] = Append(@, toSend)]
    /\ UNCHANGED <<workerState, inHand, results, sinkVars, lost>>

\* TaskWorker::TaskWorker: both sockets are connected.
Start(w) ==
    /\ workerState[w] = "off"
    /\ workerState' = [workerState EXCEPT ![w] = "idle"]
    /\ UNCHANGED <<toSend, tasks, inHand, results, sinkVars, lost>>

\* TaskWorker::work, up to the pause.
ReceiveTask(w) ==
    /\ workerState[w] = "idle"
    /\ tasks[w] # <<>>
    /\ inHand' = [inHand EXCEPT ![w] = {Head(tasks[w])}]
    /\ tasks' = [tasks EXCEPT ![w] = Tail(@)]
    /\ workerState' = [workerState EXCEPT ![w] = "busy"]
    /\ UNCHANGED <<toSend, results, sinkVars, lost>>

\* The work on a number: what is sent is only data, the task is a history field.
WorkNothing(t) == [task |-> t, data |-> t]
Work(t) == [task |-> t, data |-> t \div 2]

\* TaskWorker::work, after the pause.  SendAgain stays with the number, as if the
\* next recv did not wait and left the buffer as it was.
SendAgain(w) ==
    /\ workerState[w] = "busy"
    /\ \E t \in inHand[w] : results' = [results EXCEPT ![w] = Append(@, Work(t))]
    /\ UNCHANGED <<toSend, workerVars, sinkVars, lost>>

SendResult(w) ==
    /\ workerState[w] = "busy"
    /\ \E t \in inHand[w] : results' = [results EXCEPT ![w] = Append(@, Work(t))]
    /\ inHand' = [inHand EXCEPT ![w] = {}]
    /\ workerState' = [workerState EXCEPT ![w] = "idle"]
    /\ UNCHANGED <<toSend, tasks, sinkVars, lost>>

\* TaskCollector::collectResults, one round, with a result of worker w.
CollectAllButOne == count < GlobalTaskNum - 1
Collecting == count < GlobalTaskNum

CollectResult(w) ==
    /\ Collecting
    /\ results[w] # <<>>
    /\ LET r == Head(results[w])
       IN  /\ sum' = sum + r.data
           /\ collected' = collected \cup {r.task}
    /\ results' = [results EXCEPT ![w] = Tail(@)]
    /\ count' = count + 1
    /\ UNCHANGED <<toSend, workerVars, lost>>

\* A worker is killed: the task in its hand is gone, and the last of its results
\* that were still in its own process.
Kill(w) ==
    /\ w \in Mortal
    /\ workerState[w] \in {"idle", "busy"}
    /\ workerState' = [workerState EXCEPT ![w] = "dead"]
    /\ inHand' = [inHand EXCEPT ![w] = {}]
    /\ \E n \in 0 .. Len(results[w]) :
        /\ results' = [results EXCEPT ![w] = SubSeq(@, 1, n)]
        /\ lost' = lost \cup inHand[w]
                        \cup Reported(SubSeq(results[w], n + 1, Len(results[w])))
    /\ UNCHANGED <<toSend, tasks, sinkVars>>

\* The ventilator notices: the tasks assigned to that worker go with the connection.
Disconnect(w) ==
    /\ workerState[w] = "dead"
    /\ workerState' = [workerState EXCEPT ![w] = "gone"]
    /\ tasks' = [tasks EXCEPT ![w] = <<>>]
    /\ lost' = lost \cup Queued(tasks[w])
    /\ UNCHANGED <<toSend, inHand, results, sinkVars>>

Next ==
    \E w \in Workers :
        \/ Distribute(w) \/ Start(w) \/ ReceiveTask(w) \/ SendResult(w)
        \/ CollectResult(w) \/ Kill(w) \/ Disconnect(w)

Spec == Init /\ [][Next]_vars

(***************************************************************************)
(* Somebody starts the workers; the loops go on; a pull socket serves its  *)
(* peers in turn; a broken connection is noticed.  Nobody has to kill.     *)
(***************************************************************************)
Fairness ==
    /\ WF_vars(\E w \in Workers : Distribute(w))
    /\ \A w \in Workers :
        /\ WF_vars(Start(w))
        /\ WF_vars(ReceiveTask(w))
        /\ WF_vars(SendResult(w))
        /\ WF_vars(CollectResult(w))
        /\ WF_vars(Disconnect(w))

FairSpec == Spec /\ Fairness

--------------------------------------------------------------------------------
\* The type of each variable; a result is the half of its task, rounded down.
TypeOK ==
    /\ toSend \in 0 .. GlobalTaskNum
    /\ workerState \in [Workers -> {"off", "idle", "busy", "dead", "gone"}]
    /\ tasks \in [Workers -> Seq(Tasks)]
    /\ inHand \in [Workers -> SUBSET Tasks]
    /\ results \in [Workers -> Seq([task : Tasks, data : 0 .. GlobalTaskNum \div 2])]
    /\ \A w \in Workers : \A i \in DOMAIN results[w] :
            results[w][i].data = results[w][i].task \div 2
    /\ count \in 0 .. GlobalTaskNum
    /\ sum \in Nat
    /\ collected \subseteq Tasks
    /\ lost \subseteq Tasks

(***************************************************************************)
(* However the tasks are shared out, and whoever is killed, a task that    *)
(* was sent is in one place: queued for one worker, in its hand, in one    *)
(* result under way, in the sum, or lost.                                  *)
(***************************************************************************)
Places(t) ==
         {<<w, "queue">>  : w \in {v \in Workers : t \in Queued(tasks[v])}}
    \cup {<<w, "hand">>   : w \in {v \in Workers : t \in inHand[v]}}
    \cup {<<w, "result">> : w \in {v \in Workers : t \in Reported(results[v])}}
    \cup {<<"sum">>  : s \in {t} \cap collected}
    \cup {<<"lost">> : s \in {t} \cap lost}

InOrderOnce(q) == \A i, j \in DOMAIN q : i < j => q[i] < q[j]

EveryTaskOnce ==
    /\ \A t \in Tasks :
        IF t < toSend THEN \E p \in Places(t) : Places(t) = {p} ELSE Places(t) = {}
    /\ \A w \in Workers :
        /\ InOrderOnce(tasks[w])
        /\ InOrderOnce([i \in DOMAIN results[w] |-> results[w][i].task])

\* The sum of the sink is that of the halves of the tasks it has results of, each
\* once, in whatever order they came.  The sum of the halves of a set of tasks: each
\* task has as many units as its half, and the units of all of them are counted.
Units(s) == {u \in s \X (1 .. GlobalTaskNum) : u[2] <= u[1] \div 2}

SumAddsUp ==
    /\ count = Cardinality(collected)
    /\ sum = Cardinality(Units(collected))

\* The sink counts results and looks at nothing else.  Still it ends only when there
\* is nothing more to come: every task is in the sum, and none is anywhere else.
EndIsComplete ==
    ~Collecting =>
        /\ toSend = GlobalTaskNum
        /\ collected = Tasks
        /\ lost = {}
        /\ \A w \in Workers : tasks[w] = <<>> /\ inHand[w] = {} /\ results[w] = <<>>

\* Under FairSpec the sink ends, unless a worker took a task with it.
SinkEnds == <>(~Collecting \/ lost # {})

================================================================================
