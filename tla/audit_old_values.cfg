CONSTANTS
    Requests = {r1, r2}
    Users = {ann, sid}
    Admins = {ann}
    Units = {u1, u2}
    Numbers = {n1}
    Ops = {"update", "book"}
    Faults = {}
    None = None
SYMMETRY RequestSymmetry
SPECIFICATION Spec
INVARIANT
    OldValuesExact
