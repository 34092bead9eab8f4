\* A failed create, as the create handler reports it.
CONSTANTS
    Owner = {alice, bob}
    KeyID = {k1, test}
    Bootstrap = {test}
    Call = {c1, c2}
    None = None
SPECIFICATION Spec
INVARIANT NothingChanged
