CONSTANTS
    Urls = {u1, u2}
    NoUrl = NoUrl
    MaxFaults = 1
    MaxStale = 1
    MaxEdits = 1
SPECIFICATION Spec
INVARIANTS
    TypeOK
    EstablishedMeansStored
    RecordedNotNewerThanUsed
    MaintenanceHasClient
PROPERTIES
    ResyncIsServed
    RefreshIsServed
    ConnectedIgnoresToken
    FailedConnectionIsRetried
    RenewalHappens
    ResyncHappens
CHECK_DEADLOCK FALSE
