----------------------------- MODULE MCDataCenter ------------------------------
(***************************************************************************)
(* Instances of DataCenter for TLC.                                        *)
(***************************************************************************)
EXTENDS DataCenter, TLC

CONSTANTS client_0, client_1, worker_0, worker_1

TwoClusters == {1, 2}

\* Both clusters have a client, one has the workers: local and remote requests
\* compete for two workers, or for one.
Mixed == <<{client_0}, {client_1}>>
MixedPair == <<{}, {worker_0, worker_1}>>
MixedCrew == <<{}, {worker_0}>>

\* Both clusters have a client and a worker.
Twins == <<{client_0}, {client_0}>>
TwinCrew == <<{worker_0}, {worker_0}>>

\* The workers are alike.
Symmetry == Permutations({worker_0, worker_1})

OneTask == {1}
TwoTasks == {1, 2}

================================================================================
