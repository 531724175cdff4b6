CONSTANTS
    Posters = {w1, w2}
    StatsReaders = {r1}
    Snappers = {s1}
    Capacity = 2
    MaxGenerated = 1
    MaxSecond = 2
    Absent = Absent
SYMMETRY Symmetry
SPECIFICATION Spec
INVARIANTS
    TypeOK
    StatsBracketed
    SnapshotIsWindow
