SPECIFICATION Spec
CONSTANTS
    Requests = {r1, r2}
    Apps <- MCApps
    Contents <- MCContents
    Calls <- MCCalls
    Locations <- MCLocations
    ProxyIds = {1, 2, 3, 4}
    NoApp = NoApp
    Nil = Nil
    MaxChanges = 1
    MaxFaults = 1
INVARIANTS TypeOK PathDefinesApi RedirectsComeBack
PROPERTY RoutesSettle
