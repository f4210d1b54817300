SPECIFICATION LiveSpec
CONSTANTS
    Users = {u1, u2}
    NoUser = NoUser
    Size = 2
    BufferSize = 2
    Offsets <- Both
    Seeks = TRUE
INVARIANTS
    TypeOK
    EndedIsWhole
    ReadsInOrder
    ReleasedOnce
PROPERTIES
    CopyIsFaithful
    CallsEnd
