\* One person, two calls; the API server answers in the end. No symmetry: liveness.
CONSTANTS
    Owner = {alice}
    KeyID = {k1, test}
    Bootstrap = {test}
    Call = {c1, c2}
    None = None
SPECIFICATION FairSpec
PROPERTY CallsAnswer
