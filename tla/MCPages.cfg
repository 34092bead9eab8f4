\* Three keys or three models at most; two times, two names of each kind.
CONSTANTS
    MaxKeys = 3
    MaxModels = 3
    MaxMain = 2
    KeyLists <- TheKeyLists
    ModelLists <- TheModelLists
    Offers <- TheOffers
    slug <- TheSlugs
    Picks <- AllPicks
    Secret = secret
    None = None
SPECIFICATION PagesSpec
INVARIANTS
    SortedWhenDone
    SameItems
    OrderDecided
    OneGuideShown
    ShownIsComplete
    KeyShownOnce
    TwoPagesAgree
    NewestIsOpen
