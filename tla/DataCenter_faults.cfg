CONSTANTS
    client_0 = client_0
    worker_0 = worker_0
    NoID = NoID
    Clusters <- TwoClusters
    ClientsOf <- Solo
    WorkersOf <- RemoteCrew
    TaskIDs <- TwoTasks
    PairHWM = 1
    PushHWM = 1
    MaxRestarts = 1
    Mortal = {1, 2}
SPECIFICATION FairFaultSpec
INVARIANTS
    FaultTypeOK
    LivingRequestsIntact
    LivingWorkersIntact
PROPERTIES
    LivingRequestsSettled
    LivingWorkersRejoin
    ViewConverges
CHECK_DEADLOCK FALSE
