\* Two people, three calls at a time, two keys.
CONSTANTS
    Owner = {alice, bob}
    KeyID = {k1, k2}
    Call = {c1, c2, c3}
    None = None
SPECIFICATION Spec
SYMMETRY Symmetry
INVARIANT OneRevokeSucceeds
PROPERTY RefinesKeyStore
