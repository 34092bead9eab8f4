\* Two tabs, two pods, three sign-ins; a rotation as documented.
CONSTANTS
    Tab = {t1, t2}
    Pod = {p1, p2}
    Person = {alice, guest}
    Accepted = {alice}
    Flow = {f1, f2, f3}
    Path = {account, newkey}
    KeyLists <- Documented
    None = None
SPECIFICATION Spec
SYMMETRY Symmetry
INVARIANT SignInSurvives
