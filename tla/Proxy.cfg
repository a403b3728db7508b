\* More clients than workers: a task may wait behind another.
SPECIFICATION FairSpec
CONSTANTS
    Clients = {stub_0, stub_1, stub_2}
    Workers = {worker_0, worker_1}
    TaskIDs = {1, 2}
    Requests = 2
    NoJob = NoJob
INVARIANTS
    TypeOK
    RequestsOnce
PROPERTIES
    ImplementsTaskService
    AllServed
\* The broker waits for ever once every client has made its requests.
CHECK_DEADLOCK FALSE
