\* Queries of up to three parameters with two keys.
SPECIFICATION Spec
CONSTANTS
    Endpoints <- OneEndpoint
    KeyOrder <- TwoKeys
    Values <- SomeValues
    MaxParams = 3
INVARIANTS
    PlainAreDistinct
    OrderIsIgnored
