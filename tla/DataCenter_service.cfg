CONSTANTS
    client_0 = client_0
    client_1 = client_1
    worker_0 = worker_0
    worker_1 = worker_1
    NoID = NoID
    Clusters <- TwoClusters
    ClientsOf <- Mixed
    WorkersOf <- MixedCrew
    TaskIDs <- OneTask
    PairHWM = 1
    PushHWM = 1
SPECIFICATION FairSpec
PROPERTIES
    ImplementsTaskService
    EveryRequestSettled
    WorkersRejoin
