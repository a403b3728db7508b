CONSTANTS
    client_0 = client_0
    client_1 = client_1
    worker_0 = worker_0
    worker_1 = worker_1
    NoID = NoID
    Clusters <- TwoClusters
    ClientsOf <- Twins
    WorkersOf <- TwinCrew
    TaskIDs <- OneTask
    PairHWM = 1
    PushHWM = 1
SPECIFICATION Spec
INVARIANT
    RoutedTasksArrive
