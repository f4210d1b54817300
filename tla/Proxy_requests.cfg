SPECIFICATION LiveSpec
CONSTANTS
    Handlers = {h1, h2}
    Faults <- AllFaults
    Leaves = TRUE
    Evicts = TRUE
INVARIANTS
    TypeOK
    OpenIsAttended
    OnlyProcessedIsCached
    OneAnswer
PROPERTIES
    RequestsEnd
    StreamsEnd
