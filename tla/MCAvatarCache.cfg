\* Room for two photos of four people, two sign-ins at a time.
CONSTANTS
    User = {u1, u2, u3, u4}
    Proc = {p1, p2}
    Max = 2
    TTL = 1
    MaxOrder = 5
    None = None
SPECIFICATION Spec
SYMMETRY Symmetry
INVARIANTS
    IInv
    Bounded
PROPERTY PutEvictsOne
