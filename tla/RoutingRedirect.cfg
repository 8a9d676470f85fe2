SPECIFICATION Spec
CONSTANTS
    Requests = {r1, r2}
    Apps <- MCApps
    Contents <- MCContents
    Calls <- MCCalls
    Locations <- MCLookAlike
    ProxyIds = {1, 2, 3, 4}
    NoApp = NoApp
    Nil = Nil
    MaxChanges = 0
    MaxFaults = 0
INVARIANT RewrittenMeansBeneath
