\* Two requests, which may go to one worker or to both, with two answers each.
SPECIFICATION FairSpec
CONSTANTS
    Clients = {stub_0, stub_1}
    Workers = {worker_0, worker_1}
    Requests = 2
    Copies = 2
    NoJob = NoJob
INVARIANTS
    TypeOK
    CopiesAccounted
    AnswersInOrder
PROPERTIES
    AllAnswered
\* The process may end, and the clients make no more than their requests.
CHECK_DEADLOCK FALSE
