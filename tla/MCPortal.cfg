\* Two people in one browser with two tabs; one key.
CONSTANTS
    Person = {alice, bob}
    Key = {k1}
    Tab = {t1, t2}
    None = None
    SignedOut = SignedOut
SPECIFICATION Spec
SYMMETRY Symmetry
INVARIANTS
    KeyStays
    GoneStays
    AnnouncedIsGone
    OneShot
