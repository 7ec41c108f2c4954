SPECIFICATION MCSpec
CONSTANTS
    i1 = i1
    i2 = i2
    c1 = c1
    c2 = c2
    w = w
    s1 = s1
    s2 = s2
    e1 = e1
    e2 = e2
    e3 = e3
    g1 = g1
    x1 = x1
    x2 = x2
    None = None
    Identities = {i1, i2}
    Contexts = {c1, c2}
    Scopes = {w}
    Sessions = {s1, s2, s3}
    Preexisting = {s1}
    Execs = {e1, e2, e3}
    Guards = {}
    Cancellers = {x1, x2}
    MaxCrashes = 0
    Requests <- InstanceRequests
    Instances <- TurnInstances
SYMMETRY Symmetry
INVARIANTS
    TurnExclusiveUnlessForeignRelease
    NoDuplicateCreate
    PoisonOnlyUnderScope
    CancelIsolation
