\* Two requests in one pod, one model with at most one replica.  A tick is some 6 s:
\* the timeouts are those of the code to that grain, and in the same order.
CONSTANTS
    Service = {s1}
    Request = {r1, r2}
    MaxReplicas = 1
    HeaderTimeout = 1
    ListTimeout = 1
    WriteTimeout = 4
    Grace = 3
    None = None
SPECIFICATION FairSpec
INVARIANTS
    IInv
    NeverFalseReady
    DrainsInTime
    OnlyStalledAreCut
PROPERTY ListEnds
