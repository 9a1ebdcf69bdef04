SPECIFICATION Spec
CONSTANTS
    Calls = {c1, c2}
    Keys = {k1, k2}
    NoEntry = NoEntry
    NoKey = NoKey
    NoCall = NoCall
    Extension = "none"
    CacheTTL = 1
    MaxEntries = 1
    FetchTime = 1
    MaxVersion = 1
    MaxTime = 4
SYMMETRY Symmetry
INVARIANTS
    TypeOK
    CacheNeverGoesBack
    CacheWithinCapacity
PROPERTIES
    ServedIsRecent
