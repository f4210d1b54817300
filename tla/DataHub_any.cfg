\* Two callers that use the whole interface of the hub, one incarnation: what
\* can overlap here is an attach with a creation; the theorem has the rest.
SPECIFICATION HubSpec
CONSTANTS
    Callers = {k1, k2}
    Clients <- ClientsOfCallers
    Streams = {s1}
    NoClient = NoClient
    NoStream = NoStream
    Absent = Absent
    MaxBirths = 1
    MaxChunks = 0
    AllowCancel = FALSE
    CallsAsProxy = FALSE
SYMMETRY CallerSymmetry
INVARIANT
    CreationsSerial
\* A topic may be left without a writer, and its readers then wait.
CHECK_DEADLOCK FALSE
