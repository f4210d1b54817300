SPECIFICATION Spec
CONSTANTS
    i1 = i1  i2 = i2  i3 = i3  s1 = s1  s2 = s2
    Handlers = {h1}
    Invalidators = {}
    Images = {i1}
    Sources = {s1}
    SourceOf <- OneImage
    MaxEpoch = 0
    Cancels = TRUE
    Crashes = FALSE
    OneStream = TRUE
    Faults <- NoFaults
INVARIANTS
    InfosHaveObjects
