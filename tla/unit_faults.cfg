CONSTANTS
    Requests = {r1, r2}
    Users = {ann, sid}
    Admins = {ann}
    Units = {u1, u2}
    Numbers = {n1}
    Ops = {"create", "update", "book", "delete", "sell"}
    Faults = {"sql", "ack", "crash"}
    None = None
SPECIFICATION FairSpec
INVARIANT
    AuditTrailComplete
PROPERTIES
    BookingsAreAtomic
    EveryRequestEnds
    AuditFollows
