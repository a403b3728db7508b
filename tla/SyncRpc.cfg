\* Two rounds: a first value, and one that replaces it.
SPECIFICATION FairSpec
CONSTANTS
    car = car
    planning = planning
    monitor = monitor
    beacon = beacon
    LOCATION = LOCATION
    TRAJECTORY = TRAJECTORY
    BEACON = BEACON
    Clients = {car, planning, monitor, beacon}
    Topics = {LOCATION, TRAJECTORY, BEACON}
    NoTopic = NoTopic
    NoBody = NoBody
    Reads <- ReadsOfPrograms
    Writes <- WritesOfPrograms
    Rounds = 2
INVARIANTS
    TypeOK
    RepliesMatchCalls
    ReadsAreFresh
PROPERTIES
    ProgramsEnd
\* The server waits for ever once the programs have ended.
CHECK_DEADLOCK FALSE
