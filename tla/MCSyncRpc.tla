------------------------------ MODULE MCSyncRpc --------------------------------
(***************************************************************************)
(* An instance of SyncRpc for TLC: the two programs of the repository, a   *)
(* monitor that reads LOCATION too and publishes nothing, and a beacon     *)
(* that publishes and reads nothing.                                       *)
(***************************************************************************)
EXTENDS SyncRpc, TLC

CONSTANTS car, planning, monitor, beacon, LOCATION, TRAJECTORY, BEACON

ReadsOfPrograms ==
    car :> TRAJECTORY @@ planning :> LOCATION @@ monitor :> LOCATION @@ beacon :> NoTopic
WritesOfPrograms ==
    car :> LOCATION @@ planning :> TRAJECTORY @@ monitor :> NoTopic @@ beacon :> BEACON

================================================================================
