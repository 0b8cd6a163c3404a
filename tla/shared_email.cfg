\* One login, and tenants whose admins may share an email.
SPECIFICATION Spec
CONSTANTS
    Requests = {r1}
    Tenants = {t1, t2}
    MaxUid = 1
    Founders <- MCAnyFounders
    Ops = {"login"}
    Faults = {}
    Public = pub
    Emails = {e1, e2}
    Passwords = {p1, p2}
    e1 = e1
    e2 = e2
    p1 = p1
    p2 = p2
    NewUsers <- MCNewUsers
    Patches <- MCPatches
    None = None
INVARIANTS
    CredentialsWork
