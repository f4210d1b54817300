SPECIFICATION Spec
CONSTANTS
    i1 = i1  i2 = i2  i3 = i3  s1 = s1  s2 = s2
    Handlers = {h1, h2}
    Invalidators = {v1}
    Images = {i1, i2}
    Sources = {s1}
    SourceOf <- TwoImages
    MaxEpoch = 0
    Cancels = TRUE
    Crashes = TRUE
    OneStream = TRUE
    Faults <- AllFaults
INVARIANTS
    TypeOK
    InfosUnique
PROPERTIES
    SaveIsWhole
