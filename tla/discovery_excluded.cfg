\* One search that excludes renewed products.
CONSTANTS
    f = f
    v = v
    Stores = {f, v}
    Rank <- TheRank
    Searchers = {p}
    Rendering = {f, v}
    Catalogued = {v}
    Browsable = {f}
    Query <- Galaxy
    Exclude = {"renewed"}
    Titles <- TheTitles
    Disqualifying = {"renewed"}
    CategoryWords = {"phone"}
    Filler = {"best"}
    Numbered = {"s25", "a16"}
    RobotsTTL = 1
    CatalogueTTL = 0
    CollectTime = 1
    FetchTime = 1
    Patience <- ThePatience
    BrowsePages = 2
    PriceLookups = 1
    MinWords = 3
    Fickle = {f}
    MaxTime = 2
    MaxSearches = 1
    MaxChanges = 1
SPECIFICATION MCSpec
INVARIANTS ExcludedNeverShown
CHECK_DEADLOCK FALSE
