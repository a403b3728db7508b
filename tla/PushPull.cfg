\* Four tasks for three workers; two of them may be killed.
SPECIFICATION FairSpec
CONSTANTS
    Workers = {worker_0, worker_1, worker_2}
    Mortal = {worker_0, worker_1}
    GlobalTaskNum = 4
INVARIANTS
    TypeOK
    EveryTaskOnce
    SumAddsUp
    EndIsComplete
PROPERTIES
    SinkEnds
\* The workers wait for ever once all tasks are done.
CHECK_DEADLOCK FALSE
