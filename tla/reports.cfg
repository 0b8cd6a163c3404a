CONSTANTS
    n1 = n1
    n2 = n2
    planning = planning
    completed = completed
    t1 = t1
    t2 = t2
    Requests = {r1, r2}
    Tenants = {t1, t2}
    Names = {n1, n2}
    Stati = {planning, completed}
    Planning = planning
    Bodies <- MCBodies
    Patches <- MCPatches
    Founded <- MCFounded
    Ops = {"create", "update", "delete"}
    Faults = {"sql", "ack"}
    None = None
    Readers = {q1}
    Reports <- MCReports
    Limit = 1
    UnitIds = {1, 2, 3}
    Numbers = {1, 2, 3}
    FirstUnits <- MCFirstUnits
    FirstTenants <- MCFirstTenants
    MaxChanges = 2
SPECIFICATION Spec
SYMMETRY RequestSymmetry
INVARIANTS
    TypeOK
    NoUpdateLost
    LogTellsTruth
    TotalCovers
    WalkComplete
    StatsJustified
