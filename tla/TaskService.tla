----------------------------- MODULE TaskService -------------------------------
(***************************************************************************)
(* What the data center promises its clients, with no broker in sight: a   *)
(* request is run by at most one worker, which runs nothing else at the    *)
(* time, or it is rejected before any worker had it; the client collects   *)
(* the one outcome; and only a request that no worker had can be lost.     *)
(***************************************************************************)
CONSTANTS
    Users,     \* the clients
    Crew,      \* the workers
    TaskIDs    \* what a client may ask for

VARIABLES
    status,     \* status[u]: what became of the request of u
    task,       \* task[u]: what u asked for, 0 while it asks for nothing
    servers     \* servers[u]: the workers that have the request of u

vars == <<status, task, servers>>

Init ==
    /\ status = [u \in Users |-> "idle"]
    /\ task = [u \in Users |-> 0]
    /\ servers = [u \in Users |-> {}]

Goes(u, from, to) == status[u] = from /\ status' = [status EXCEPT ![u] = to]

Request(u) ==
    /\ \E t \in TaskIDs : task' = [task EXCEPT ![u] = t]
    /\ Goes(u, "idle", "open")
    /\ UNCHANGED servers

Assign(u, v) ==
    /\ servers' = [servers EXCEPT ![u] = {v}]
    /\ \A x \in Users : v \notin servers[x]
    /\ Goes(u, "open", "running")
    /\ UNCHANGED task

Finish(u) ==
    /\ servers[u] # {}
    /\ servers' = [servers EXCEPT ![u] = {}]
    /\ Goes(u, "running", "served")
    /\ UNCHANGED task

Refuse(u) ==
    /\ Goes(u, "open", "rejected") \/ Goes(u, "open", "lost")
    /\ UNCHANGED <<task, servers>>

Collect(u) ==
    /\ task' = [task EXCEPT ![u] = 0]
    /\ Goes(u, "served", "idle") \/ Goes(u, "backoff", "idle")
    /\ UNCHANGED servers

BackOff(u) ==
    /\ Goes(u, "rejected", "backoff")
    /\ UNCHANGED <<task, servers>>

Next ==
    \E u \in Users :
        \/ Request(u) \/ Finish(u) \/ Refuse(u) \/ Collect(u) \/ BackOff(u)
        \/ \E v \in Crew : Assign(u, v)

Spec == Init /\ [][Next]_vars

================================================================================
