\* Two requests on the users of one tenant and of public, all faults.
SPECIFICATION Spec
SYMMETRY RequestSymmetry
CONSTANTS
    Requests = {r1, r2}
    Tenants = {t1}
    MaxUid = 3
    Founders <- MCFounders
    Ops = {"refresh", "create", "update", "delete", "switch", "expire"}
    Faults = {"sql", "ack", "crash"}
    Public = pub
    Emails = {e1, e2}
    Passwords = {p1, p2}
    e1 = e1
    e2 = e2
    p1 = p1
    p2 = p2
    NewUsers <- MCNewUsers
    Patches <- MCPatches
    None = None
INVARIANTS
    TypeOK
    EmailsUnique
PROPERTIES
    WritesAuthorised
