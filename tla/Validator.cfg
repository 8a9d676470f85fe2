SPECIFICATION CacheFairSpec
CONSTANTS
    Apps = {a1}
    ClientIds = {c1}
    Requests = {r1}
    NoApp = NoApp
    NotCached = NotCached
    Idle = Idle
    MaxEdits = 4
    MaxFaults = 1
INVARIANTS
    CacheTypeOK
    CachedIdsWereTrue
    ForwardedOnKnownIds
PROPERTIES
    CacheCatchesUp
    DeletedAppsLeave
CHECK_DEADLOCK FALSE
