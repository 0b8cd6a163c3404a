\* Two requests that log in, refresh or change a user, on two tenants and public.
SPECIFICATION FairSpec
CONSTANTS
    Requests = {r1, r2}
    Tenants = {t1, t2}
    MaxUid = 1
    Founders <- MCFounders
    Ops = {"login", "superLogin", "refresh", "update", "switch"}
    Faults = {"sql"}
    Public = pub
    Emails = {e1, e2}
    Passwords = {p1, p2}
    e1 = e1
    e2 = e2
    p1 = p1
    p2 = p2
    NewUsers <- MCNewUsers
    Patches <- MCStalePatches
    None = None
INVARIANTS
    TokensJustified
PROPERTIES
    AccountCallsEnd
