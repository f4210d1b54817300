\* Three clients on one stream that is born up to three times.
SPECIFICATION Spec
CONSTANTS
    Clients = {c1, c2, c3}
    Streams = {s1}
    NoClient = NoClient
    NoStream = NoStream
    Absent = Absent
    MaxBirths = 3
    MaxChunks = 2
    AllowCancel = TRUE
SYMMETRY ClientSymmetry
INVARIANTS
    TypeOK
    SingleWriter
    ListenersWait
    CountCoversHolders
    NeverMixed
\* All clients may wait: a leaked topic, or monitors that were stopped.
CHECK_DEADLOCK FALSE
