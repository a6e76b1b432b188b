SPECIFICATION FairSpec
CONSTANTS
    c1 = c1
    c2 = c2
    c3 = c3
    u1 = u1
    u2 = u2
    Calls = {c1, c2, c3}
    Urls = {u1, u2}
    UrlOf <- MCUrlOf
    maxCacheEntries = 1
    MaxUpdates = 1
    None = None
INVARIANTS
    StaleNeedsOverlap
    DriftNeedsOverlap
PROPERTIES
    StaleEntriesGo
CHECK_DEADLOCK FALSE
