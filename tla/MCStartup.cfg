\* Settings that differ from a deployment's or a developer's in up to two ways.
CONSTANTS
    Env <- Environments
    Home = home
    Context = {c1, c2}
    None = None
SPECIFICATION FairSpec
INVARIANTS
    DevStaysLocal
    RightCluster
    OffIsOff
    SignInWorks
    NamesTheHopeless
PROPERTY StartsAtLast
