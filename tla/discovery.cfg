\* Two searches, in two processes or in one, of a shop with every route and
\* of one that has only a results page.
CONSTANTS
    f = f
    v = v
    Stores = {f, v}
    Rank <- TheRank
    Searchers = {p, q}
    Rendering = {f, v}
    Catalogued = {v}
    Browsable = {f}
    Query <- Galaxy
    Exclude = {"renewed"}
    Titles <- TheTitles
    Disqualifying = {"renewed"}
    CategoryWords = {"phone"}
    Filler = {"best"}
    Numbered = {"s25", "a16"}
    RobotsTTL = 1
    CatalogueTTL = 0
    CollectTime = 1
    FetchTime = 1
    Patience <- ThePatience
    BrowsePages = 2
    PriceLookups = 1
    MinWords = 3
    Fickle = {f}
    MaxTime = 2
    MaxSearches = 2
    MaxChanges = 1
SPECIFICATION MCSpec
SYMMETRY Alike
VIEW Relevant
INVARIANTS AnswersReachTheReader CatalogueFresh
PROPERTIES RobotsHonoured
CHECK_DEADLOCK FALSE
