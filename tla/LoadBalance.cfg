\* The three requests of the code, by more clients than there are workers.
SPECIFICATION FairSpec
CONSTANTS
    Clients = {stub_0, stub_1, stub_2}
    Workers = {worker_0, worker_1}
    TaskIDs = {1, 2}
    Requests = 3
    ALIVE = ALIVE
INVARIANTS
    TypeOK
    FrontHasWorker
    WorkersOnce
    RequestsOnce
PROPERTIES
    ImplementsTaskService
    AllServed
\* The broker polls for ever once every client has made its requests.
CHECK_DEADLOCK FALSE
