SPECIFICATION Spec
CONSTANTS
    Procs = {p1, p2, p3}
    Channels = {h1, h2, h3, h4, h5}
    Topics = {t1}
    Absent = Absent
    NoAnswer = NoAnswer
    NoChannel = NoChannel
    AllowCancel = TRUE
SYMMETRY Symmetry
INVARIANTS
    TypeOK
    NeverPanics
    NoneForgotten
PROPERTY
    RefinesRegistry
\* The monitor may stop, and all processes may listen.
CHECK_DEADLOCK FALSE
