\* Two handlers of one request, one incarnation of its stream.
\* Deadlock is checked: a handler that waits always waits for somebody.
SPECIFICATION HubLiveSpec
CONSTANTS
    Callers = {k1, k2}
    Clients <- ClientsWithoutSaves
    Streams = {s1}
    NoClient = NoClient
    NoStream = NoStream
    Absent = Absent
    MaxBirths = 1
    MaxChunks = 1
    AllowCancel = FALSE
    CallsAsProxy = TRUE
INVARIANTS
    WaitingHasWriter
PROPERTIES
    RefinesStream
    CallsReturn
    ReadsReturn
    ClosedIsDisposed
