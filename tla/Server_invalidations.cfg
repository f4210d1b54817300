\* Two builds, two commits that change one URL each, images of the first, a
\* failure, timeout or kill.  With one value of the clock all dates are equal,
\* and any record may be the latest.
SPECIFICATION Spec
CONSTANTS
    u1 = u1  u2 = u2
    Clients = {c1, c2}
    URLs = {u1, u2}
    Asked = {u1}
    History <- TwoCommits
    MaxTime = 0
    MaxFaults = 1
INVARIANTS
    TypeOK
    ServingIsReady
    
PROPERTIES
    
    ServesAgain
    
