\* Violated: the worker sends a copy of the request.
SPECIFICATION Spec
CONSTANTS
    Clients = {stub_0}
    Workers = {worker_0}
    Requests = 3
    Copies = 3
    NoJob = NoJob
INVARIANTS
    AnswersAreResults
CHECK_DEADLOCK FALSE
