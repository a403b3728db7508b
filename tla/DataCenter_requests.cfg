CONSTANTS
    client_0 = client_0
    client_1 = client_1
    worker_0 = worker_0
    worker_1 = worker_1
    NoID = NoID
    Clusters <- TwoClusters
    ClientsOf <- Mixed
    WorkersOf <- MixedPair
    TaskIDs <- TwoTasks
    PairHWM = 1
    PushHWM = 1
SYMMETRY Symmetry
SPECIFICATION Spec
INVARIANTS
    TypeOK
    WellAddressed
    OneMessagePerRequest
    OnePlacePerWorker
