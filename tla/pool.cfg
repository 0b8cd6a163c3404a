CONSTANTS
    Requests = {r1, r2, r3}
    Conns = {c1, c2}
    Tenants = {t1}
    Public = pub
    Ops = {"createTenant", "list"}
    Migrations = 1
    Queries = 1
    Faults = {"sql"}
    None = None
SPECIFICATION FairSpec
INVARIANTS
    TypeOK
    Accounted
    CreationsBlock
PROPERTIES
    PoolEnds
