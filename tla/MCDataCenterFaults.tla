-------------------------- MODULE MCDataCenterFaults ---------------------------
(***************************************************************************)
(* An instance of DataCenterFaults for TLC.                                *)
(***************************************************************************)
EXTENDS DataCenterFaults, TLC

CONSTANTS client_0, worker_0

TwoClusters == {1, 2}
TwoTasks == {1, 2}

\* A client away from its only worker: whatever fails, it fails between them.
Solo == <<{client_0}, {}>>
RemoteCrew == <<{}, {worker_0}>>

================================================================================
