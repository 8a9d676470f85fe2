SPECIFICATION Spec
CONSTANTS
    NObjs = 2
    NDeps = 1
    NOpt = 1
    Workloads = {1}
    Labelled = {1, 3}
    d1 = d1
    c1 = c1
    c2 = c2
    Domains = {d1}
    Cfgs = {c1, c2}
    UserSpecs <- MCSpecs
    NoDomain = NoDomain
    NoShootInfo = NoShootInfo
    NoSpec = NoSpec
    Absent = Absent
    MaxFaults = 1
    MaxEdits = 2
INVARIANTS
    FinalizerDeletesResources
CHECK_DEADLOCK FALSE
