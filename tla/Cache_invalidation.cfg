SPECIFICATION Spec
CONSTANTS
    i1 = i1  i2 = i2  i3 = i3  s1 = s1  s2 = s2
    Handlers = {h1}
    Invalidators = {v1}
    Images = {i1, i2, i3}
    Sources = {s1, s2}
    SourceOf <- AllImages
    MaxEpoch = 1
    Cancels = FALSE
    Crashes = TRUE
    OneStream = TRUE
    Faults <- AllFaults
INVARIANTS
    DoneIsGone
    NothingStale
SYMMETRY SameSource
VIEW UsedVars
