CONSTANTS
    Requests = {r1, r2}
    Emails = {e1, e2}
    Plans = {p1}
    MaxId = 2
    MigrationCount = 4
    Ops = {"create", "activate", "deactivate", "update"}
    Faults = {"sql", "ack", "crash", "reset"}
    None = None
SPECIFICATION FairSpec
INVARIANTS
    TypeOK
    TenantReady
    CreatedStays
    OwnSchemaUncleared
PROPERTIES
    DirectoryIsAtomic
    ProvisioningEnds
