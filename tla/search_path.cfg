CONSTANTS
    Requests = {r1, r2}
    Conns = {c1, c2}
    Tenants = {t1, t2}
    Public = pub
    Ops = {"write", "list"}
    Migrations = 1
    Queries = 1
    Faults = {}
    None = None
SYMMETRY RequestSymmetry
SPECIFICATION Spec
INVARIANTS
    PathIsolates
