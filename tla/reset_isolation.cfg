CONSTANTS
    Requests = {r1, r2}
    Emails = {e1, e2}
    Plans = {p1}
    MaxId = 2
    MigrationCount = 4
    Ops = {"create"}
    Faults = {"reset"}
    None = None
SYMMETRY RequestSymmetry
SPECIFICATION Spec
INVARIANTS
    OwnSchema
