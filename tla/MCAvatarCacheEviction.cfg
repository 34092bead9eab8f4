\* Room for two photos: a person signs out and in again.
CONSTANTS
    User = {u1, u2, u3}
    Proc = {p1, p2}
    Max = 2
    TTL = 1
    MaxOrder = 5
    None = None
SPECIFICATION Spec
PROPERTY JustStoredStays
