\* Two handlers of one request, as above.
SPECIFICATION HubSpec
CONSTANTS
    Callers = {k1, k2}
    Clients <- ClientsOfCallers
    Streams = {s1}
    NoClient = NoClient
    NoStream = NoStream
    Absent = Absent
    MaxBirths = 1
    MaxChunks = 1
    AllowCancel = FALSE
    CallsAsProxy = TRUE
PROPERTY DisposedAfterUse
