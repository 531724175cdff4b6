CONSTANTS
    Controllers = {sh}
    PIDs = {p1, p2, p3}
    Ports = {8080, 9090}
    MaxCommands = 3
    Absent = Absent
SPECIFICATION FairSpec
INVARIANTS
    TypeOK
    DaemonTracked
PROPERTIES
    StopTakesEffect
    StartNotBlocked
