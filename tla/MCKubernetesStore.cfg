\* Two people, two calls at a time, two keys to issue, one bootstrap entry.
CONSTANTS
    Owner = {alice, bob}
    KeyID = {k1, k2, test}
    Bootstrap = {test}
    Call = {c1, c2}
    None = None
SPECIFICATION Spec
SYMMETRY Symmetry
INVARIANTS
    TypeOK
    Paired
    RevokeHitsOwnKey
    Durable
    IInv
PROPERTIES
    NeverBack
    RefinesKeyStore
