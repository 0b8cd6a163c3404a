----------------------- MODULE TenantProvisioningProofs -----------------------
(***************************************************************************)
(* Theorems about TenantProvisioning, for any requests, ids, migrations    *)
(* and faults.  None of its invariants is inductive: they need to know     *)
(* what each request owns.  The heart of the argument is Progress: from    *)
(* the INSERT to the COMMIT a creation owns an id, no other creation owns  *)
(* it, nobody can see it, and the schema has come as far as the handler.   *)
(***************************************************************************)
EXTENDS TenantProvisioning, TLAPS

\* The steps of createTenant that own a tenant id.
Owning == {"rename", "schema", "migrate", "index", "log", "admin", "commit"}

Changes == {"activate", "deactivate", "update"}

\* What an open request asks for.
CallOK(r) ==
    /\ pc[r] \in {"begin", "insert"} \cup Owning => Op(r) = "create"
    /\ pc[r] \in {"find", "set"} => Op(r) \in Changes
    /\ pc[r] \in {"find", "set"} \cup Owning => Id(r) \in Ids
    /\ Op(r) = "none" <=> pc[r] = "idle"
    /\ Op(r) = "create" => call[r].email \in Emails /\ call[r].plan \in Plans

\* How far the creation of r has come.
Progress(r) ==
    /\ pc[r] \in Owning =>
          /\ Id(r) < nextId
          /\ ~tenants[Id(r)].present
          /\ tx[r].row.present
          /\ tx[r].row.is_active
    /\ pc[r] \in Owning \ {"rename"} => tx[r].row.schema = Id(r)
    /\ pc[r] \in {"migrate", "index", "log"} =>
          TheSchema(r).exists /\ TheSchema(r).applied < MigrationCount
    /\ pc[r] \in {"admin", "commit"} =>
          TheSchema(r).exists /\ TheSchema(r).applied = MigrationCount
    /\ pc[r] = "commit" => tx[r].admin

\* No id has two owners.
Distinct ==
    \A r, s \in Requests :
        pc[r] \in Owning /\ pc[s] \in Owning /\ Id(r) = Id(s) => r = s

\* A row has an id the sequence has handed out, and a schema with all of its
\* migrations is not in the middle of one.
Settled ==
    \A i \in Ids :
        /\ tenants[i].present => i < nextId
        /\ schemas[i].applied = MigrationCount => schemas[i].stage = "clean"

IInv ==
    /\ TypeOK
    /\ \A r \in Requests : CallOK(r) /\ Progress(r)
    /\ Distinct
    /\ Settled
    /\ TenantReady

--------------------------------------------------------------------------------
LEMMA InitIInv == Init => IInv
  <1> SUFFICES ASSUME Init PROVE IInv
    OBVIOUS
  <1> USE TenantProvisioningAssumption
  <1>0. cleared \in BOOLEAN
    BY DEF Init
  <1>1. TypeOK
    BY <1>0 DEF Init, TypeOK, Tenant, NoTenant, Schema, NoSchema, NoTx, NoCall, Ids, AllOps
  <1>2. \A r \in Requests : CallOK(r) /\ Progress(r)
    BY DEF Init, CallOK, Progress, Owning, Op, NoCall
  <1>3. Distinct
    BY DEF Init, Distinct, Owning
  <1>4. Settled /\ TenantReady
    BY DEF Init, Settled, TenantReady, NoTenant, NoSchema
  <1> QED
    BY <1>1, <1>2, <1>3, <1>4 DEF IInv

--------------------------------------------------------------------------------
\* Types.  The lemmas on single updates keep the records out of the cases.

LEMMA TypeOfNoTx == NoTx \in [row : Tenant, admin : BOOLEAN] /\ NoTenant \in Tenant
  BY DEF NoTx, Tenant, NoTenant

LEMMA TypeOfNewTenant ==
    ASSUME NEW p \in Plans
    PROVE  [present |-> TRUE, schema |-> Temporary, is_active |-> TRUE,
            plan |-> p] \in Tenant
  BY DEF Tenant, Temporary

LEMMA TypeOfRenamed ==
    ASSUME NEW row \in Tenant, NEW n \in Nat
    PROVE  [row EXCEPT !.schema = n] \in Tenant
  BY DEF Tenant

LEMMA TypeOfSchema ==
    ASSUME NEW s \in Schema
    PROVE  /\ [s EXCEPT !.exists = TRUE] \in Schema
           /\ [s EXCEPT !.stage = "table"] \in Schema
           /\ [s EXCEPT !.stage = "indexes"] \in Schema
  BY DEF Schema

LEMMA TypeOfLogged ==
    ASSUME NEW s \in Schema, s.applied < MigrationCount
    PROVE  [s EXCEPT !.applied = s.applied + 1, !.stage = "clean"] \in Schema
  <1>1. s.applied + 1 \in 0..MigrationCount
    BY TenantProvisioningAssumption DEF Schema
  <1> QED
    BY <1>1 DEF Schema

LEMMA TypeOfPopulated ==
    ASSUME NEW s \in Schema, NEW e \in Emails
    PROVE  [s EXCEPT !.admins = s.admins \cup {e}] \in Schema
  <1>1. s.admins \cup {e} \in SUBSET Emails
    BY DEF Schema
  <1> QED
    BY <1>1 DEF Schema

LEMMA TypeStep == IInv /\ [Next]_vars => TypeOK'
  <1> SUFFICES ASSUME IInv, [Next]_vars PROVE TypeOK'
    OBVIOUS
  <1> USE TenantProvisioningAssumption DEF InFlight, InTx, Goto, Decide
  <1>0. TypeOK
    BY DEF IInv
  <1>1. ASSUME NEW r \in Requests, Receive(r) PROVE TypeOK'
    BY <1>0, <1>1 DEF Receive, TypeOK, Calls, AllOps
  <1>2. ASSUME NEW r \in Requests, Handle(r) PROVE TypeOK'
    <2>c. cleared' \in BOOLEAN
      BY <1>0, <1>2 DEF Handle, TypeOK
    <2> USE <1>0, <2>c
    <2>0. CallOK(r) /\ Progress(r)
      BY DEF IInv
    <2>00. Id(r) \in Ids => TheSchema(r) \in Schema
      BY DEF TypeOK, TheSchema
    <2>1. CASE Begin(r)
      BY <2>1 DEF Begin, TypeOK
    <2>2. CASE BeginFails(r)
      BY <2>2 DEF BeginFails, TypeOK
    <2>3. CASE InsertTenant(r)
      <3>1. [present |-> TRUE, schema |-> Temporary, is_active |-> TRUE,
             plan |-> call[r].plan] \in Tenant
        BY <2>0, <2>3, TypeOfNewTenant DEF CallOK, InsertTenant
      <3>2. tx' \in [Requests -> [row : Tenant, admin : BOOLEAN]]
        BY <2>3, <3>1 DEF InsertTenant, TypeOK
      <3>3. nextId' \in 1..(MaxId + 1)
        BY <2>3 DEF InsertTenant, Ids
      <3>4. call' \in [Requests -> [op : AllOps \cup {"none"}, email : Emails \cup {None},
                                    plan : Plans \cup {None}, id : {0} \cup Ids]]
        <4>1. nextId \in Ids /\ call' = [call EXCEPT ![r].id = nextId]
          BY <2>3 DEF InsertTenant
        <4>2. call \in [Requests -> [op : AllOps \cup {"none"}, email : Emails \cup {None},
                                     plan : Plans \cup {None}, id : {0} \cup Ids]]
          BY DEF TypeOK
        <4> QED
          BY <4>1, <4>2
      <3> QED
        BY <2>3, <3>2, <3>3, <3>4 DEF InsertTenant, TypeOK
    <2>4. CASE IdsExhausted(r)
      BY <2>4 DEF IdsExhausted, TypeOK
    <2>5. CASE RenameSchema(r)
      <3>1. [tx[r].row EXCEPT !.schema = Id(r)] \in Tenant
        <4>1. Id(r) \in Nat /\ tx[r].row \in Tenant
          BY <2>0, <2>5 DEF CallOK, RenameSchema, TypeOK, Owning, Ids
        <4> QED
          BY <4>1, TypeOfRenamed
      <3>2. tx' \in [Requests -> [row : Tenant, admin : BOOLEAN]]
        BY <2>5, <3>1 DEF RenameSchema, TypeOK
      <3> QED
        BY <2>5, <3>2 DEF RenameSchema, TypeOK
    <2>6. CASE CreateSchema(r)
      <3>1. schemas' \in [Ids -> Schema]
        BY <2>6, <2>00, TypeOfSchema DEF CreateSchema, TypeOK
      <3> QED
        BY <2>6, <3>1 DEF CreateSchema, TypeOK, AfterMigration
    <2>7. CASE CreateTable(r)
      <3>1. schemas' \in [Ids -> Schema]
        <4>1. \A i \in Ids : schemas[i] \in Schema
          BY DEF TypeOK
        <4>2. \A i \in Ids : [schemas[i] EXCEPT !.stage = IF schemas[i].stage = "clean"
                                     THEN "table" ELSE schemas[i].stage] \in Schema
          <5> SUFFICES ASSUME NEW i \in Ids
                       PROVE [schemas[i] EXCEPT !.stage = IF schemas[i].stage = "clean"
                                     THEN "table" ELSE schemas[i].stage] \in Schema
            OBVIOUS
          <5> QED
            BY <4>1 DEF Schema
        <4> QED
          BY <2>7, <4>2 DEF CreateTable, TypeOK
      <3> QED
        BY <2>7, <3>1 DEF CreateTable, TypeOK
    <2>8. CASE CreateIndexes(r)
      <3>1. schemas' \in [Ids -> Schema]
        BY <2>8, <2>00, TypeOfSchema DEF CreateIndexes, TypeOK
      <3> QED
        BY <2>8, <3>1 DEF CreateIndexes, TypeOK
    <2>9. CASE IndexExists(r)
      BY <2>9 DEF IndexExists, TypeOK
    <2>10. CASE LogMigration(r)
      <3>1. schemas' \in [Ids -> Schema]
        <4>1. Id(r) \in Ids /\ schemas[Id(r)].applied < MigrationCount
          BY <2>0, <2>10 DEF LogMigration, CallOK, Progress, TheSchema, Owning
        <4>2. [schemas[Id(r)] EXCEPT !.applied = schemas[Id(r)].applied + 1,
                                     !.stage = "clean"] \in Schema
          BY <4>1, TypeOfLogged DEF TypeOK
        <4> QED
          BY <2>10, <4>1, <4>2 DEF LogMigration, TypeOK
      <3> QED
        BY <2>10, <3>1 DEF LogMigration, TypeOK, AfterMigration
    <2>11. CASE CreateAdmin(r)
      BY <2>11 DEF CreateAdmin, TypeOK
    <2>12. CASE AdminExists(r)
      BY <2>12 DEF AdminExists, TypeOK
    <2>13. CASE Commit(r)
      <3>1. /\ tenants' \in [Ids -> Tenant]
            /\ tx' \in [Requests -> [row : Tenant, admin : BOOLEAN]]
            /\ effect' \in [Requests -> BOOLEAN]
        BY <2>13 DEF Commit, Publish, TypeOK, NoTx, NoTenant, Tenant
      <3>2. call[r].email \in Emails
        BY <2>0, <2>13 DEF CallOK, Commit, Owning
      <3>3. schemas' \in [Ids -> Schema]
        <4>1. \A i \in Ids :
                 [schemas[i] EXCEPT !.admins = schemas[i].admins \cup {call[r].email}] \in Schema
          BY <3>2, TypeOfPopulated DEF TypeOK
        <4>2. \A i \in Ids : [schemas[i] EXCEPT !.admins = schemas[i].admins] \in Schema
          BY DEF TypeOK, Schema
        <4> QED
          BY <2>13, <4>1, <4>2 DEF Commit, Publish, TypeOK
      <3> QED
        BY <2>13, <3>1, <3>3 DEF Commit, TypeOK
    <2>14. CASE CommitFails(r)
      BY <2>14, TypeOfNoTx DEF CommitFails, TypeOK
    <2>15. CASE StepFails(r)
      <3>1. schemas' \in [Ids -> Schema]
        <4>1. CASE UNCHANGED schemas
          BY <4>1 DEF TypeOK
        <4>2. CASE schemas' = [schemas EXCEPT ![Id(r)].stage = "indexes"]
          BY <4>2, TypeOfSchema DEF TypeOK
        <4> QED
          BY <2>15, <4>1, <4>2 DEF StepFails
      <3> QED
        BY <2>15, <3>1 DEF StepFails, TypeOK, Ids
    <2>16. CASE Rollback(r)
      BY <2>16, TypeOfNoTx DEF Rollback, TypeOK
    <2>17. CASE Find(r) \/ FindNeedless(r) \/ FindNothing(r)
      BY <2>17 DEF Find, FindNeedless, FindNothing, TypeOK
    <2>18. CASE SetColumns(r)
      <3>1. Changed(r, tenants[Id(r)]) \in Tenant
        <4>1. Op(r) \in Changes /\ Id(r) \in Ids
          BY <2>0, <2>18 DEF CallOK, SetColumns
        <4>2. tenants[Id(r)] \in Tenant
          BY <4>1 DEF TypeOK
        <4>3. call[r].plan \in Plans \cup {None}
          BY DEF TypeOK
        <4> QED
          BY <4>1, <4>2, <4>3 DEF Changed, Tenant, Changes
      <3>2. tenants' \in [Ids -> Tenant]
        BY <2>18, <3>1 DEF SetColumns, TypeOK
      <3> QED
        BY <2>18, <3>2 DEF SetColumns, TypeOK
    <2>19. CASE LookupFails(r) \/ Refetch(r)
      BY <2>19 DEF LookupFails, Refetch, TypeOK
    <2>20. CASE Respond(r)
      BY <2>20 DEF Respond, TypeOK
    <2> QED
      BY <1>2, <2>1, <2>2, <2>3, <2>4, <2>5, <2>6, <2>7, <2>8, <2>9, <2>10, <2>11,
         <2>12, <2>13, <2>14, <2>15, <2>16, <2>17, <2>18, <2>19, <2>20
         DEF Handle, CreateStep, ChangeStep
  <1>3. CASE Crash
    BY <1>0, <1>3, TypeOfNoTx DEF Crash, TypeOK
  <1>4. CASE Reset
    BY <1>0, <1>4 DEF Reset, TypeOK, NoTenant, Tenant
  <1>5. CASE UNCHANGED vars
    BY <1>0, <1>5 DEF vars, TypeOK
  <1> QED
    BY <1>1, <1>2, <1>3, <1>4, <1>5 DEF Next, Quiet

--------------------------------------------------------------------------------
\* The invariant.

\* A step of r disturbs nobody: what it changes belongs to the id it owns, and
\* it owns an id only because it owned it before or has just taken the next one.
LEMMA Frame ==
    ASSUME IInv, TypeOK', NEW r \in Requests,
           \A s \in Requests \ {r} :
               pc'[s] = pc[s] /\ call'[s] = call[s] /\ tx'[s] = tx[s],
           nextId <= nextId',
           \A i \in Ids :
               \/ /\ schemas'[i] = schemas[i]
                  /\ tenants'[i].present = tenants[i].present
                  /\ tenants'[i].schema = tenants[i].schema
               \/ /\ pc[r] \in Owning /\ i = Id(r)
                  /\ schemas'[i].applied = MigrationCount => schemas'[i].stage = "clean"
                  /\ tenants'[i].present => Ready(i)',
           CallOK(r)', Progress(r)',
           pc'[r] \in Owning =>
               \/ pc[r] \in Owning /\ Id(r)' = Id(r)
               \/ Id(r)' = nextId
    PROVE  IInv'
  <1>1. nextId \in Nat /\ nextId' \in Nat /\ \A s \in Requests : Id(s) \in Nat
    BY TenantProvisioningAssumption DEF IInv, TypeOK, Ids, Id
  <1>2. ASSUME NEW s \in Requests \ {r} PROVE CallOK(s)' /\ Progress(s)'
    <2>1. CallOK(s) /\ Progress(s)
      BY DEF IInv
    <2>2. CallOK(s)'
      BY <2>1 DEF CallOK, Op, Id
    <2>3. CASE pc[s] \in Owning
      <3>1. Id(s) \in Ids /\ Id(s)' = Id(s)
        BY <2>1, <2>3 DEF CallOK, Id
      <3>2. ~(pc[r] \in Owning /\ Id(s) = Id(r))
        BY <2>3 DEF IInv, Distinct
      <3>3. schemas'[Id(s)] = schemas[Id(s)] /\ tenants'[Id(s)].present = tenants[Id(s)].present
        BY <3>1, <3>2
      <3> QED
        BY <1>1, <2>1, <2>2, <3>1, <3>3 DEF Progress, TheSchema
    <2>4. CASE pc[s] \notin Owning
      BY <2>1, <2>2, <2>4 DEF Progress, Owning
    <2> QED
      BY <2>3, <2>4
  <1>3. Distinct'
    <2>1. ASSUME NEW s \in Requests \ {r}, pc'[r] \in Owning, pc[s] \in Owning
          PROVE Id(r)' # Id(s)
      <3>1. Id(s) < nextId
        BY <2>1 DEF IInv, Progress
      <3> QED
        BY <1>1, <2>1, <3>1 DEF IInv, Distinct
    <2> QED
      BY <2>1 DEF IInv, Distinct, Id
  <1>4. ASSUME NEW i \in Ids
        PROVE /\ tenants'[i].present => i < nextId' /\ Ready(i)'
              /\ schemas'[i].applied = MigrationCount => schemas'[i].stage = "clean"
    <2>1. CASE /\ schemas'[i] = schemas[i]
               /\ tenants'[i].present = tenants[i].present
               /\ tenants'[i].schema = tenants[i].schema
      <3>1. i \in Nat
        BY TenantProvisioningAssumption DEF Ids
      <3> QED
        BY <1>1, <2>1, <3>1 DEF IInv, Settled, TenantReady, Ready
    <2>2. CASE /\ pc[r] \in Owning /\ i = Id(r)
               /\ schemas'[i].applied = MigrationCount => schemas'[i].stage = "clean"
               /\ tenants'[i].present => Ready(i)'
      <3>1. i < nextId
        BY <2>2 DEF IInv, Progress
      <3> QED
        BY <1>1, <2>2, <3>1
    <2> QED
      BY <2>1, <2>2
  <1>5. Settled' /\ TenantReady'
    BY <1>4 DEF Settled, TenantReady
  <1> QED
    BY <1>2, <1>3, <1>5 DEF IInv

LEMMA HandleInv ==
    ASSUME IInv, TypeOK', NEW r \in Requests, Handle(r)
    PROVE  IInv'
  <1> USE TenantProvisioningAssumption DEF Goto, Decide
  <1>0. /\ CallOK(r) /\ Progress(r) /\ TypeOK
        /\ nextId \in Nat
        /\ pc \in [Requests -> {"idle", "done", "lost"} \cup InFlight]
    BY DEF IInv, TypeOK
  <1>1. CASE \/ Begin(r) \/ BeginFails(r) \/ IdsExhausted(r) \/ IndexExists(r)
             \/ AdminExists(r) \/ CommitFails(r) \/ Rollback(r)
             \/ Find(r) \/ FindNeedless(r) \/ FindNothing(r) \/ LookupFails(r)
             \/ Refetch(r) \/ Respond(r)
    <2>1. /\ UNCHANGED <<tenants, schemas, nextId, call>>
          /\ \A s \in Requests \ {r} : pc'[s] = pc[s] /\ tx'[s] = tx[s]
          /\ pc'[r] \notin Owning
      BY <1>0, <1>1 DEF Begin, BeginFails, IdsExhausted, IndexExists, AdminExists,
         CommitFails, Rollback, Find, FindNeedless, FindNothing, LookupFails, Refetch,
         Respond, TypeOK, Owning
    <2>2. CallOK(r)'
      BY <1>0, <1>1, <2>1 DEF Begin, BeginFails, IdsExhausted, IndexExists, AdminExists,
         CommitFails, Rollback, Find, FindNeedless, FindNothing, LookupFails, Refetch,
         Respond, CallOK, Op, Id, Owning, Changes, AllOps
    <2> QED
      BY <1>0, <2>1, <2>2, Frame DEF Progress, Owning
  <1>2. CASE InsertTenant(r)
    <2>1. /\ nextId \in Ids /\ nextId' = nextId + 1 /\ UNCHANGED <<tenants, schemas>>
          /\ \A s \in Requests \ {r} :
                pc'[s] = pc[s] /\ call'[s] = call[s] /\ tx'[s] = tx[s]
          /\ pc[r] = "insert" /\ pc'[r] = "rename" /\ Id(r)' = nextId
          /\ Op(r)' = Op(r) /\ call'[r].email = call[r].email
          /\ call'[r].plan = call[r].plan
          /\ tx'[r].row = [present |-> TRUE, schema |-> Temporary, is_active |-> TRUE,
                           plan |-> call[r].plan]
      BY <1>0, <1>2 DEF InsertTenant, TypeOK, Id, Op
    <2>2. ~tenants[nextId].present
      BY <1>0, <2>1 DEF IInv, Settled
    <2>3. CallOK(r)'
      BY <1>0, <2>1 DEF CallOK, Owning
    <2>4. Progress(r)'
      BY <1>0, <2>1, <2>2 DEF Progress, Owning
    <2> QED
      BY <1>0, <2>1, <2>3, <2>4, Frame
  <1>3. CASE RenameSchema(r)
    <2>1. /\ UNCHANGED <<tenants, schemas, nextId, call>>
          /\ \A s \in Requests \ {r} : pc'[s] = pc[s] /\ tx'[s] = tx[s]
          /\ pc[r] = "rename" /\ pc'[r] = "schema"
          /\ tx'[r].row = [tx[r].row EXCEPT !.schema = Id(r)]
      BY <1>0, <1>3 DEF RenameSchema, TypeOK
    <2>2. tx[r].row \in Tenant
      BY <1>0 DEF TypeOK
    <2>3. CallOK(r)'
      BY <1>0, <2>1 DEF CallOK, Owning, Op, Id
    <2>4. /\ tx'[r].row.schema = Id(r)
          /\ tx'[r].row.present = tx[r].row.present
          /\ tx'[r].row.is_active = tx[r].row.is_active
      BY <2>1, <2>2 DEF Tenant
    <2>5. Progress(r)'
      BY <1>0, <2>1, <2>4 DEF Progress, Owning, Id
    <2> QED
      BY <1>0, <2>1, <2>3, <2>5, Frame DEF Owning, Id
  <1>4. CASE CreateAdmin(r)
    <2>1. /\ UNCHANGED <<tenants, schemas, nextId, call>>
          /\ \A s \in Requests \ {r} : pc'[s] = pc[s] /\ tx'[s] = tx[s]
          /\ pc[r] = "admin" /\ pc'[r] = "commit"
          /\ tx'[r].row = tx[r].row /\ tx'[r].admin
      BY <1>0, <1>4 DEF CreateAdmin, TypeOK
    <2>2. CallOK(r)'
      BY <1>0, <2>1 DEF CallOK, Owning, Op, Id
    <2>3. Progress(r)'
      BY <1>0, <2>1 DEF Progress, Owning, Id, TheSchema
    <2> QED
      BY <1>0, <2>1, <2>2, <2>3, Frame DEF Owning, Id
  <1>5. CASE CreateSchema(r) \/ CreateTable(r) \/ CreateIndexes(r) \/ LogMigration(r)
    <2>1. /\ UNCHANGED <<tenants, nextId, call, tx>>
          /\ \A s \in Requests \ {r} : pc'[s] = pc[s]
          /\ pc[r] \in Owning /\ pc'[r] \in Owning \ {"rename", "commit"}
      BY <1>0, <1>5 DEF CreateSchema, CreateTable, CreateIndexes, LogMigration,
         AfterMigration, Owning, TypeOK
    <2>2. Id(r) \in Ids /\ schemas[Id(r)] \in Schema /\ schemas[Id(r)].applied \in Nat
      BY <1>0, <2>1 DEF CallOK, TypeOK, Schema
    <2>3. /\ \A i \in Ids \ {Id(r)} : schemas'[i] = schemas[i]
          /\ TheSchema(r)'.exists
          /\ pc'[r] \in {"migrate", "index", "log"} =>
                TheSchema(r)'.applied < MigrationCount
          /\ pc'[r] = "admin" => TheSchema(r)'.applied = MigrationCount
          /\ TheSchema(r)'.applied = MigrationCount => TheSchema(r)'.stage = "clean"
      <3>1. CASE CreateSchema(r)
        <4>1. /\ \A i \in Ids \ {Id(r)} : schemas'[i] = schemas[i]
              /\ schemas'[Id(r)] = [schemas[Id(r)] EXCEPT !.exists = TRUE]
              /\ pc'[r] = AfterMigration(schemas[Id(r)].applied)
              /\ Id(r)' = Id(r)
          BY <1>0, <2>2, <3>1 DEF CreateSchema, TheSchema, TypeOK, Id
        <4>2. /\ schemas'[Id(r)].exists
              /\ schemas'[Id(r)].applied = schemas[Id(r)].applied
              /\ schemas'[Id(r)].stage = schemas[Id(r)].stage
          BY <2>2, <4>1 DEF Schema
        <4>3. schemas[Id(r)].applied \in 0..MigrationCount
          BY <2>2 DEF Schema
        <4>4. schemas[Id(r)].applied = MigrationCount => schemas[Id(r)].stage = "clean"
          BY <2>2 DEF IInv, Settled
        <4> QED
          <5>1. CASE schemas[Id(r)].applied = MigrationCount
            BY <4>1, <4>2, <4>4, <5>1 DEF AfterMigration, TheSchema
          <5>2. CASE schemas[Id(r)].applied < MigrationCount
            <6>1. schemas[Id(r)].applied # MigrationCount
              BY <4>3, <5>2
            <6>2. pc'[r] = "migrate"
              BY <4>1, <6>1 DEF AfterMigration
            <6> QED
              BY <4>1, <4>2, <5>2, <6>1, <6>2 DEF TheSchema
          <5> QED
            BY <4>3, <5>1, <5>2
      <3>2. CASE CreateTable(r)
        BY <1>0, <2>2, <3>2 DEF CreateTable, TheSchema, TypeOK, Schema, Progress, Id
      <3>3. CASE CreateIndexes(r)
        BY <1>0, <2>2, <3>3 DEF CreateIndexes, TheSchema, TypeOK, Schema, Progress, Id
      <3>4. CASE LogMigration(r)
        <4>1. /\ \A i \in Ids \ {Id(r)} : schemas'[i] = schemas[i]
              /\ schemas'[Id(r)] = [schemas[Id(r)] EXCEPT
                                       !.applied = schemas[Id(r)].applied + 1,
                                       !.stage = "clean"]
              /\ pc'[r] = AfterMigration(schemas[Id(r)].applied + 1)
              /\ Id(r)' = Id(r)
              /\ pc[r] = "log"
          BY <1>0, <2>2, <3>4 DEF LogMigration, TheSchema, TypeOK, Id
        <4>2. schemas[Id(r)].exists /\ schemas[Id(r)].applied < MigrationCount
          BY <1>0, <4>1 DEF Progress, TheSchema
        <4>3. /\ schemas'[Id(r)].exists
              /\ schemas'[Id(r)].applied = schemas[Id(r)].applied + 1
              /\ schemas'[Id(r)].stage = "clean"
          BY <2>2, <4>1, <4>2 DEF Schema
        <4> QED
          <5>1. CASE schemas[Id(r)].applied + 1 = MigrationCount
            BY <4>1, <4>3, <5>1 DEF AfterMigration, TheSchema
          <5>2. CASE schemas[Id(r)].applied + 1 < MigrationCount
            BY <2>2, <4>1, <4>3, <5>2 DEF AfterMigration, TheSchema
          <5> QED
            BY <2>2, <4>2, <5>1, <5>2
      <3> QED
        BY <1>5, <3>1, <3>2, <3>3, <3>4
    <2>4. CallOK(r)'
      BY <1>0, <2>1 DEF CallOK, Owning, Op, Id
    <2>5. pc'[r] \in Owning \ {"rename"} /\ tx'[r].row.schema = Id(r)
      <3>1. pc[r] # "rename"
        BY <1>5 DEF CreateSchema, CreateTable, CreateIndexes, LogMigration
      <3> QED
        BY <1>0, <2>1, <3>1 DEF Progress
    <2>6. Progress(r)'
      BY <1>0, <2>1, <2>3, <2>5 DEF Progress, Owning, Id
    <2>7. ~tenants'[Id(r)].present
      BY <1>0, <2>1 DEF Progress
    <2> QED
      BY <1>0, <2>1, <2>2, <2>3, <2>4, <2>6, <2>7, Frame DEF Id, TheSchema
  <1>6. CASE Commit(r)
    <2>1. /\ UNCHANGED <<nextId, call>>
          /\ \A s \in Requests \ {r} : pc'[s] = pc[s] /\ tx'[s] = tx[s]
          /\ pc[r] = "commit" /\ pc'[r] \in {"refetch", "answer"}
          /\ Publish(r)
      BY <1>0, <1>6 DEF Commit, Publish, TypeOK
    <2>2. Id(r) \in Ids /\ schemas[Id(r)] \in Schema
      BY <1>0, <2>1 DEF CallOK, TypeOK, Owning
    <2>3. /\ \A i \in Ids \ {Id(r)} : schemas'[i] = schemas[i] /\ tenants'[i] = tenants[i]
          /\ tenants'[Id(r)] = tx[r].row
          /\ schemas'[Id(r)].exists = schemas[Id(r)].exists
          /\ schemas'[Id(r)].applied = schemas[Id(r)].applied
          /\ schemas'[Id(r)].stage = schemas[Id(r)].stage
          /\ schemas'[Id(r)].admins = schemas[Id(r)].admins \cup {call[r].email}
      BY <1>0, <2>1, <2>2 DEF Publish, TypeOK, Schema, Progress
    <2>4. Ready(Id(r))'
      BY <1>0, <2>1, <2>2, <2>3 DEF Ready, Progress, TheSchema, IInv, Settled, Owning, Id
    <2>5. CallOK(r)' /\ Progress(r)'
      BY <1>0, <2>1 DEF CallOK, Progress, Owning, Op, Id
    <2>6. schemas'[Id(r)].applied = MigrationCount => schemas'[Id(r)].stage = "clean"
      BY <2>2, <2>3 DEF IInv, Settled
    <2>7. pc[r] \in Owning /\ pc'[r] \notin Owning /\ nextId <= nextId'
      BY <1>0, <2>1 DEF Owning
    <2>8. Ready(Id(r))' => \A i \in Ids : i = Id(r) => Ready(i)'
      BY <2>1 DEF Id
    <2> QED
      BY <2>1, <2>3, <2>4, <2>5, <2>6, <2>7, <2>8, Frame
  <1>7. CASE StepFails(r)
    <2>1. /\ UNCHANGED <<tenants, call, tx>> /\ nextId <= nextId'
          /\ \A s \in Requests \ {r} : pc'[s] = pc[s]
          /\ pc'[r] = "rollback" /\ pc[r] \in InTx
      BY <1>0, <1>7 DEF StepFails, TypeOK
    <2>2. CallOK(r)' /\ Progress(r)'
      BY <1>0, <2>1 DEF CallOK, Progress, Owning, Op, Id, InTx
    <2>3. CASE UNCHANGED schemas
      BY <1>0, <2>1, <2>2, <2>3, Frame DEF Owning
    <2>4. CASE pc[r] = "index" /\ schemas' = [schemas EXCEPT ![Id(r)].stage = "indexes"]
      <3>1. Id(r) \in Ids /\ schemas[Id(r)] \in Schema
        BY <1>0, <2>4 DEF CallOK, TypeOK, Owning
      <3>2. /\ \A i \in Ids \ {Id(r)} : schemas'[i] = schemas[i]
            /\ schemas'[Id(r)].applied = schemas[Id(r)].applied
        BY <1>0, <2>4, <3>1 DEF TypeOK, Schema
      <3>3. schemas[Id(r)].applied < MigrationCount /\ schemas[Id(r)].applied \in Nat
        BY <1>0, <2>4, <3>1 DEF Progress, TheSchema, Schema
      <3>4. ~tenants'[Id(r)].present
        BY <1>0, <2>1, <2>4 DEF Progress, Owning
      <3> QED
        BY <1>0, <2>1, <2>2, <2>4, <3>1, <3>2, <3>3, <3>4, Frame DEF Owning
    <2> QED
      BY <1>7, <2>3, <2>4 DEF StepFails
  <1>8. CASE SetColumns(r)
    <2>1. /\ UNCHANGED <<nextId, schemas, call, tx>>
          /\ \A s \in Requests \ {r} : pc'[s] = pc[s]
          /\ pc[r] = "set" /\ pc'[r] \in {"refetch", "answer"}
          /\ tenants' = [tenants EXCEPT ![Id(r)] = Changed(r, tenants[Id(r)])]
      BY <1>0, <1>8 DEF SetColumns, TypeOK
    <2>2. Id(r) \in Ids /\ tenants[Id(r)] \in Tenant
      BY <1>0, <2>1 DEF CallOK, TypeOK
    <2>3. /\ Changed(r, tenants[Id(r)]).present = tenants[Id(r)].present
          /\ Changed(r, tenants[Id(r)]).schema = tenants[Id(r)].schema
      BY <1>0, <2>1, <2>2 DEF Changed, Tenant, CallOK, Changes
    <2>4. \A i \in Ids : /\ tenants'[i].present = tenants[i].present
                         /\ tenants'[i].schema = tenants[i].schema
      BY <1>0, <2>1, <2>2, <2>3 DEF TypeOK
    <2>5. CallOK(r)' /\ Progress(r)'
      BY <1>0, <2>1 DEF CallOK, Progress, Owning, Op, Id, Changes
    <2> QED
      BY <1>0, <2>1, <2>4, <2>5, Frame DEF Owning
  <1> QED
    BY <1>1, <1>2, <1>3, <1>4, <1>5, <1>6, <1>7, <1>8 DEF Handle, CreateStep, ChangeStep

\* A crash ends every creation; a reset waits until there is none.
LEMMA NextInv == IInv /\ [Next]_vars => IInv'
  <1> SUFFICES ASSUME IInv, [Next]_vars PROVE IInv'
    OBVIOUS
  <1>0. TypeOK' /\ TypeOK
    BY TypeStep DEF IInv
  <1>1. ASSUME NEW r \in Requests, Receive(r) PROVE IInv'
    <2>1. /\ UNCHANGED <<tenants, nextId, schemas, tx>>
          /\ \A s \in Requests \ {r} : pc'[s] = pc[s] /\ call'[s] = call[s]
          /\ call'[r] \in Calls
          /\ pc'[r] = IF call'[r].op = "create" THEN "begin" ELSE "find"
      BY <1>0, <1>1 DEF Receive, TypeOK
    <2>2. CallOK(r)' /\ Progress(r)'
      BY <2>1 DEF Calls, CallOK, Progress, Op, Id, Owning, Changes
    <2>3. nextId <= nextId' /\ pc'[r] \notin Owning
      BY <1>0, <2>1, TenantProvisioningAssumption DEF TypeOK, Owning
    <2> QED
      BY <1>0, <2>1, <2>2, <2>3, Frame
  <1>2. ASSUME NEW r \in Requests, Handle(r) PROVE IInv'
    BY <1>0, <1>2, HandleInv
  <1>3. CASE Crash
    <2>1. /\ \A r \in Requests : pc'[r] = IF pc[r] \in InFlight THEN "lost" ELSE pc[r]
          /\ UNCHANGED <<tenants, nextId, schemas, call>>
      BY <1>3 DEF Crash
    <2>2. \A r \in Requests : pc'[r] \notin Owning \cup {"begin", "insert", "find", "set"}
      BY <1>0, <2>1 DEF InFlight, InTx, Owning
    <2>3. \A r \in Requests : pc'[r] = "idle" <=> pc[r] = "idle"
      BY <1>0, <2>1 DEF InFlight, InTx
    <2>4. \A r \in Requests : CallOK(r)' /\ Progress(r)'
      BY <2>1, <2>2, <2>3 DEF IInv, CallOK, Progress, Owning, Op, Id
    <2> QED
      BY <1>0, <2>1, <2>2, <2>4 DEF IInv, Distinct, Settled, TenantReady, Ready
  <1>4. CASE Reset
    <2>1. \A r \in Requests : pc[r] \notin Owning
      BY <1>4 DEF Reset, InFlight, InTx, Owning
    <2>2. /\ UNCHANGED <<schemas, pc, call, tx>>
          /\ \A i \in Ids : ~tenants'[i].present
      BY <1>4 DEF Reset, NoTenant
    <2>3. \A r \in Requests : CallOK(r)' /\ Progress(r)'
      BY <2>1, <2>2 DEF IInv, CallOK, Progress, Owning, Op, Id
    <2> QED
      BY <1>0, <2>1, <2>2, <2>3 DEF IInv, Distinct, Settled, TenantReady
  <1>5. CASE UNCHANGED vars
    BY <1>0, <1>5 DEF vars, IInv, CallOK, Progress, Distinct, Settled, TenantReady, Ready,
       Op, Id, TheSchema
  <1> QED
    BY <1>1, <1>2, <1>3, <1>4, <1>5 DEF Next, Quiet

\* The strengthening holds in every reachable state.
THEOREM Inductive == Spec => []IInv
  BY InitIInv, NextInv, PTL DEF Spec

\* The variables of the tenant component keep their types, whatever fails and
\* however often the database is reset.
THEOREM TypeCorrect == Spec => []TypeOK
  BY Inductive, PTL DEF IInv

\* A tenant that can be seen is complete: createTenant commits its row only after
\* the schema and all of its migrations are there and with its admin.
THEOREM TenantReadyHolds == Spec => []TenantReady
  BY Inductive, PTL DEF IInv

--------------------------------------------------------------------------------
\* Answers.

\* Before its answer is known a request has no effect, unless it only has to read
\* its row again; and success is only answered for what took effect.
Verdict(r) ==
    /\ pc[r] \in {"idle", "begin", "insert", "rollback", "find", "set"} \cup Owning =>
          result[r] = "none" /\ ~effect[r]
    /\ pc[r] = "refetch" => result[r] = "none" /\ effect[r]
    /\ result[r] = "ok" => effect[r]

Verdicts == \A r \in Requests : Verdict(r)

\* How one step of the handler of r changes its result and effect.
LEMMA HandleVerdict ==
    ASSUME IInv, Verdicts, NEW r \in Requests, Handle(r)
    PROVE  /\ \A s \in Requests \ {r} : /\ pc'[s] = pc[s] /\ result'[s] = result[s]
                                         /\ effect'[s] = effect[s]
           /\ Verdict(r)'
  <1> USE DEF Goto, Decide
  <1>0. TypeOK /\ Verdict(r)
    BY DEF IInv, Verdicts
  <1>1. CASE \/ BeginFails(r) \/ CommitFails(r) \/ Rollback(r) \/ FindNothing(r)
             \/ LookupFails(r)
    BY <1>0, <1>1 DEF BeginFails, CommitFails, Rollback, FindNothing, LookupFails,
       TypeOK, Verdict, Owning
  <1>2. CASE Refetch(r) \/ FindNeedless(r)
    BY <1>0, <1>2 DEF Refetch, FindNeedless, TypeOK, Verdict, Owning
  <1>3. CASE Commit(r) \/ SetColumns(r)
    BY <1>0, <1>3 DEF Commit, Publish, SetColumns, TypeOK, Verdict, Owning
  <1>4. CASE \/ Begin(r) \/ InsertTenant(r) \/ IdsExhausted(r) \/ RenameSchema(r)
             \/ IndexExists(r) \/ CreateAdmin(r) \/ AdminExists(r) \/ Find(r)
             \/ StepFails(r)
    BY <1>0, <1>4 DEF Begin, InsertTenant, IdsExhausted, RenameSchema, IndexExists,
       CreateAdmin, AdminExists, Find, StepFails, InTx, TypeOK, Verdict, Owning
  <1>5. CASE CreateSchema(r) \/ CreateTable(r) \/ CreateIndexes(r) \/ LogMigration(r)
    BY <1>0, <1>5 DEF CreateSchema, CreateTable, CreateIndexes, LogMigration,
       AfterMigration, TypeOK, Verdict, Owning
  <1>6. CASE Respond(r)
    BY <1>0, <1>6 DEF Respond, TypeOK, Verdict, Owning
  <1> QED
    BY <1>1, <1>2, <1>3, <1>4, <1>5, <1>6 DEF Handle, CreateStep, ChangeStep

LEMMA VerdictsStep == IInv /\ Verdicts /\ [Next]_vars => Verdicts'
  <1> SUFFICES ASSUME IInv, Verdicts, [Next]_vars PROVE Verdicts'
    OBVIOUS
  <1>0. TypeOK
    BY DEF IInv
  <1>1. ASSUME NEW r \in Requests, Receive(r) PROVE Verdicts'
    BY <1>0, <1>1 DEF Receive, TypeOK, Verdicts, Verdict, Owning
  <1>2. ASSUME NEW r \in Requests, Handle(r) PROVE Verdicts'
    BY <1>2, HandleVerdict DEF Verdicts, Verdict
  <1>3. CASE Crash
    BY <1>0, <1>3 DEF Crash, TypeOK, Verdicts, Verdict, Owning, InFlight, InTx
  <1>4. CASE Reset \/ UNCHANGED vars
    BY <1>4 DEF Reset, vars, Verdicts, Verdict
  <1> QED
    BY <1>1, <1>2, <1>3, <1>4 DEF Next, Quiet

LEMMA VerdictsInvariant == Spec => [](IInv /\ Verdicts)
  <1>1. Init => Verdicts
    BY DEF Init, Verdicts, Verdict, Owning
  <1> QED
    BY <1>1, InitIInv, NextInv, VerdictsStep, PTL DEF Spec

--------------------------------------------------------------------------------
\* Who is in a schema, as long as nobody resets the database.

\* The creation of r is committed.
Landed(r) == Op(r) = "create" /\ effect[r]

\* Tenants and committed creations are the same, one to one; the schema of a
\* tenant has the admin of its creation and any other schema has none.
Provenance ==
    /\ \A r \in Requests : Landed(r) =>
          /\ Id(r) \in Ids
          /\ tenants[Id(r)].present
          /\ schemas[Id(r)].admins = {call[r].email}
    /\ \A r, s \in Requests : Landed(r) /\ Landed(s) /\ Id(r) = Id(s) => r = s
    /\ \A i \in Ids : tenants[i].present => \E r \in Requests : Landed(r) /\ Id(r) = i
    /\ \A i \in Ids : ~tenants[i].present => schemas[i].admins = {}

\* A step that commits no creation keeps Provenance.
LEMMA ProvenanceKept ==
    ASSUME Provenance,
           \A r \in Requests : Landed(r)' <=> Landed(r),
           \A r \in Requests : Landed(r) => call'[r] = call[r],
           \A i \in Ids : /\ tenants'[i].present = tenants[i].present
                          /\ schemas'[i].admins = schemas[i].admins
    PROVE  Provenance'
  <1>1. \A r \in Requests : Landed(r)' => /\ Landed(r) /\ Id(r)' = Id(r)
                                           /\ call'[r].email = call[r].email
    BY DEF Id
  <1>2. \A r \in Requests : Landed(r)' =>
           /\ Id(r)' \in Ids /\ tenants'[Id(r)'].present
           /\ schemas'[Id(r)'].admins = {call'[r].email}
    BY <1>1 DEF Provenance
  <1>3. \A r, s \in Requests : Landed(r)' /\ Landed(s)' /\ Id(r)' = Id(s)' => r = s
    BY <1>1 DEF Provenance
  <1>4. \A i \in Ids : tenants'[i].present =>
           \E r \in Requests : Landed(r)' /\ Id(r)' = i
    BY <1>1 DEF Provenance
  <1>5. \A i \in Ids : ~tenants'[i].present => schemas'[i].admins = {}
    BY DEF Provenance
  <1> QED
    BY <1>2, <1>3, <1>4, <1>5 DEF Provenance

LEMMA ProvenanceCommit ==
    ASSUME IInv, Verdicts, Provenance, NEW r \in Requests, Commit(r)
    PROVE  Provenance'
  <1>1. /\ pc[r] = "commit" /\ UNCHANGED call /\ Publish(r)
        /\ TypeOK /\ CallOK(r) /\ Progress(r) /\ Verdict(r)
    BY DEF Commit, IInv, Verdicts
  <1>2. PICK i \in Ids : i = Id(r)
    BY <1>1 DEF CallOK, Owning
  <1>3. /\ Op(r) = "create" /\ ~effect[r] /\ ~tenants[i].present
        /\ tx[r].row.present /\ tx[r].admin
    BY <1>1, <1>2 DEF CallOK, Progress, Verdict, Owning
  <1>4. /\ effect' = [effect EXCEPT ![r] = TRUE]
        /\ tenants' = [tenants EXCEPT ![i] = tx[r].row]
        /\ schemas' = [schemas EXCEPT ![i].admins = schemas[i].admins \cup {call[r].email}]
    BY <1>1, <1>2, <1>3 DEF Publish
  <1>5. /\ tenants'[i].present
        /\ \A j \in Ids \ {i} : tenants'[j] = tenants[j] /\ schemas'[j] = schemas[j]
    BY <1>1, <1>3, <1>4 DEF TypeOK
  <1>6. schemas'[i].admins = {call[r].email}
    <2>1. schemas'[i].admins = schemas[i].admins \cup {call[r].email}
      BY <1>1, <1>4 DEF TypeOK, Schema
    <2> QED
      BY <1>3, <2>1 DEF Provenance
  <1>7. /\ Landed(r)' /\ Id(r)' = i
        /\ \A s \in Requests \ {r} : (Landed(s)' <=> Landed(s)) /\ Id(s)' = Id(s)
    BY <1>1, <1>2, <1>3, <1>4 DEF Landed, TypeOK, Op, Id
  <1>8. ~Landed(r) /\ \A s \in Requests : Landed(s) => Id(s) # i
    BY <1>3 DEF Landed, Provenance
  <1>9. \A s \in Requests : Landed(s)' =>
           /\ Id(s)' \in Ids /\ tenants'[Id(s)'].present
           /\ schemas'[Id(s)'].admins = {call'[s].email}
    BY <1>1, <1>5, <1>6, <1>7, <1>8 DEF Provenance
  <1>10. \A s, t \in Requests : Landed(s)' /\ Landed(t)' /\ Id(s)' = Id(t)' => s = t
    BY <1>7, <1>8 DEF Provenance
  <1>11. \A j \in Ids : tenants'[j].present =>
            \E s \in Requests : Landed(s)' /\ Id(s)' = j
    <2> SUFFICES ASSUME NEW j \in Ids \ {i}, tenants'[j].present
                 PROVE  \E s \in Requests : Landed(s)' /\ Id(s)' = j
      BY <1>7
    <2>1. PICK s \in Requests : Landed(s) /\ Id(s) = j
      BY <1>5 DEF Provenance
    <2> QED
      BY <1>7, <1>8, <2>1
  <1>12. \A j \in Ids : ~tenants'[j].present => schemas'[j].admins = {}
    BY <1>5 DEF Provenance
  <1> QED
    BY <1>9, <1>10, <1>11, <1>12 DEF Provenance

LEMMA ProvenanceStep ==
    ASSUME ~cleared', IInv, Verdicts, Provenance, [Next]_vars
    PROVE  Provenance'
  <1> USE DEF Goto, Decide
  <1>0. TypeOK
    BY DEF IInv
  <1>1. ASSUME NEW r \in Requests, Receive(r) PROVE Provenance'
    <2>1. /\ UNCHANGED <<tenants, schemas, effect>> /\ pc[r] = "idle"
          /\ \A s \in Requests \ {r} : call'[s] = call[s]
      BY <1>0, <1>1 DEF Receive, TypeOK
    <2>2. ~effect[r]
      BY <2>1 DEF Verdicts, Verdict
    <2> QED
      BY <2>1, <2>2, ProvenanceKept DEF Landed, Op
  <1>2. ASSUME NEW r \in Requests, Handle(r) PROVE Provenance'
    <2>0. CallOK(r) /\ Verdict(r)
      BY DEF IInv, Verdicts
    <2>1. CASE InsertTenant(r)
      <3>1. /\ UNCHANGED <<tenants, schemas, effect>> /\ pc[r] = "insert"
            /\ \A s \in Requests \ {r} : call'[s] = call[s]
        BY <1>0, <2>1 DEF InsertTenant, TypeOK
      <3>2. ~effect[r]
        BY <2>0, <3>1 DEF Verdict
      <3> QED
        BY <3>1, <3>2, ProvenanceKept DEF Landed, Op
    <2>2. CASE Commit(r)
      BY <2>2, ProvenanceCommit
    <2>3. CASE FindNeedless(r) \/ SetColumns(r)
      <3>1. /\ UNCHANGED <<schemas, call>> /\ Op(r) # "create" /\ Id(r) \in Ids
            /\ \A s \in Requests \ {r} : effect'[s] = effect[s]
            /\ \/ UNCHANGED tenants
               \/ tenants' = [tenants EXCEPT ![Id(r)] = Changed(r, tenants[Id(r)])]
        BY <1>0, <2>0, <2>3 DEF FindNeedless, SetColumns, TypeOK, CallOK, Changes
      <3>2. \A row \in Tenant : Changed(r, row).present = row.present
        BY DEF Changed, Tenant
      <3>3. \A i \in Ids : tenants'[i].present = tenants[i].present
        BY <1>0, <3>1, <3>2 DEF TypeOK
      <3> QED
        BY <3>1, <3>3, ProvenanceKept DEF Landed, Op
    <2>4. CASE CreateSchema(r) \/ CreateTable(r) \/ CreateIndexes(r) \/ LogMigration(r)
               \/ StepFails(r)
      <3>1. UNCHANGED <<tenants, call, effect>>
        BY <2>4 DEF CreateSchema, CreateTable, CreateIndexes, LogMigration, StepFails
      <3>2. ASSUME NEW i \in Ids PROVE schemas'[i].admins = schemas[i].admins
        <4>1. Id(r) \in Ids \/ UNCHANGED schemas
          BY <2>0, <2>4 DEF CallOK, Owning, CreateSchema, CreateTable, CreateIndexes,
             LogMigration, StepFails
        <4>2. schemas \in [Ids -> Schema]
          BY <1>0 DEF TypeOK
        <4>3. CASE CreateSchema(r)
          BY <4>1, <4>2, <4>3 DEF CreateSchema, Schema
        <4>4. CASE CreateTable(r)
          BY <4>1, <4>2, <4>4 DEF CreateTable, Schema
        <4>5. CASE CreateIndexes(r)
          BY <4>1, <4>2, <4>5 DEF CreateIndexes, Schema
        <4>6. CASE LogMigration(r)
          BY <4>1, <4>2, <4>6 DEF LogMigration, Schema
        <4>7. CASE StepFails(r)
          BY <4>1, <4>2, <4>7 DEF StepFails, Schema
        <4> QED
          BY <2>4, <4>3, <4>4, <4>5, <4>6, <4>7
      <3> QED
        BY <3>1, <3>2, ProvenanceKept DEF Landed, Op
    <2>5. CASE \/ Begin(r) \/ BeginFails(r) \/ IdsExhausted(r) \/ RenameSchema(r)
               \/ IndexExists(r) \/ CreateAdmin(r) \/ AdminExists(r) \/ CommitFails(r)
               \/ Rollback(r) \/ Find(r) \/ FindNothing(r) \/ LookupFails(r)
               \/ Refetch(r) \/ Respond(r)
      <3>1. UNCHANGED <<tenants, schemas, call, effect>>
        BY <2>5 DEF Begin, BeginFails, IdsExhausted, RenameSchema, IndexExists, CreateAdmin,
           AdminExists, CommitFails, Rollback, Find, FindNothing, LookupFails, Refetch,
           Respond
      <3> QED
        BY <3>1, ProvenanceKept DEF Landed, Op
    <2> QED
      BY <1>2, <2>1, <2>2, <2>3, <2>4, <2>5 DEF Handle, CreateStep, ChangeStep
  <1>3. CASE Crash \/ UNCHANGED vars
    BY <1>3, ProvenanceKept DEF Crash, vars, Landed, Op
  <1> QED
    BY <1>1, <1>2, <1>3 DEF Next, Quiet, Reset

\* A reset is not taken back.
Uncleared == cleared \in BOOLEAN /\ (~cleared => Provenance)

LEMMA UnclearedStep == IInv /\ Verdicts /\ Uncleared /\ [Next]_vars => Uncleared'
  <1> SUFFICES ASSUME IInv, Verdicts, Uncleared, [Next]_vars PROVE Uncleared'
    OBVIOUS
  <1>1. cleared' = cleared \/ cleared' = TRUE
    BY DEF Next, Receive, Handle, Crash, Reset, Quiet, vars
  <1> QED
    BY <1>1, ProvenanceStep DEF Uncleared

LEMMA ProvenanceHolds == Spec => [](IInv /\ Verdicts /\ Uncleared)
  <1>1. Init => Uncleared
    <2>1. Init => cleared \in BOOLEAN
      BY DEF Init
    <2>2. Init => Provenance
      BY DEF Init, Provenance, Landed, NoTenant, NoSchema
    <2> QED
      BY <2>1, <2>2 DEF Uncleared
  <1>2. IInv /\ Verdicts /\ Uncleared /\ [Next]_vars => Uncleared'
    BY UnclearedStep
  <1> QED
    BY <1>1, <1>2, VerdictsInvariant, PTL DEF Spec

\* As long as nobody resets the database, a creation answered 201 has its tenant,
\* with its admin in it, and shares it with no other creation.
THEOREM CreatedStaysHolds == Spec => []CreatedStays
  <1>1. IInv /\ Verdicts /\ Uncleared => CreatedStays
    BY DEF Uncleared, Verdicts, Verdict, Provenance, Landed, CreatedStays, Created
  <1> QED
    BY <1>1, ProvenanceHolds, PTL

\* As long as nobody resets the database, the schema of a tenant has the admin of
\* the tenant's own creation and nobody else's.
THEOREM OwnSchemaHolds == Spec => []OwnSchemaUncleared
  <1>1. IInv /\ Verdicts /\ Uncleared => OwnSchemaUncleared
    BY DEF Uncleared, Provenance, Landed, OwnSchema, OwnSchemaUncleared
  <1> QED
    BY <1>1, ProvenanceHolds, PTL
--------------------------------------------------------------------------------
\* The refinement.  The directory sees what Visible shows of each tenant, and what
\* each request asks.

LDir == [i \in Ids |-> Visible(i)]
LGoal == [r \in Requests |-> IF Op(r) = "none" THEN None ELSE Op(r)]

LEMMA DirectoryInit == Init => Directory!Init
  BY DEF Init, Directory!Init, Visible, NoTenant, NoCall, Op

LEMMA DirectoryStutter ==
    ASSUME LDir' = LDir, LGoal' = LGoal, UNCHANGED <<effect, result>>
    PROVE  UNCHANGED Directory!dirVars
  BY DEF Directory!dirVars, LDir, LGoal

\* Because a tenant that shows is ready, its row alone decides what is visible.
Shows(row) == IF ~row.present THEN "absent"
              ELSE IF row.is_active THEN "active" ELSE "inactive"

LEMMA DirectoryShows ==
    ASSUME IInv, IInv'
    PROVE  /\ LDir = [i \in Ids |-> Shows(tenants[i])]
           /\ LDir' = [i \in Ids |-> Shows(tenants'[i])]
  <1>1. \A i \in Ids : Visible(i) = Shows(tenants[i])
    BY DEF IInv, TenantReady, Visible, Shows
  <1>2. \A i \in Ids : Visible(i)' = Shows(tenants'[i])
    BY DEF IInv, TenantReady, Visible, Shows
  <1> QED
    BY <1>1, <1>2 DEF LDir

\* What a step leaves of the rows it leaves of the directory.
LEMMA DirectoryKept ==
    ASSUME IInv, IInv', UNCHANGED tenants
    PROVE  LDir' = LDir
  BY DirectoryShows

\* An open request is one the directory has been asked.
LEMMA DirectoryAsked ==
    ASSUME IInv, NEW r \in Requests, pc[r] # "idle"
    PROVE  LGoal[r] = Op(r) /\ Op(r) \in AllOps /\ LGoal[r] # None
  <1>1. Op(r) \in AllOps
    BY DEF IInv, CallOK, TypeOK, Op
  <1> QED
    BY <1>1, TenantProvisioningAssumption DEF LGoal, AllOps

\* An answer that changes no row is an answer of the directory.
LEMMA DirectoryAnswers ==
    ASSUME IInv, IInv', NEW r \in Requests, NEW res \in {"ok", "notFound", "serverError"},
           Decide(r, res), pc[r] # "idle", result[r] = "none",
           UNCHANGED <<tenants, call, effect>>,
           res = "ok" => effect[r], res = "notFound" => ~effect[r]
    PROVE  Directory!Answer(r)
  <1>1. LDir' = LDir /\ LGoal' = LGoal /\ LGoal[r] # None
    BY DirectoryKept, DirectoryAsked DEF LGoal, Op
  <1> QED
    BY <1>1 DEF Directory!Answer, Decide, LDir, LGoal

\* The COMMIT of a creation is the step in which the directory gains the tenant.
LEMMA DirectoryCreates ==
    ASSUME IInv, IInv', Verdicts, NEW r \in Requests, Commit(r)
    PROVE  Directory!TakeEffect(r)
  <1>1. /\ pc[r] = "commit" /\ UNCHANGED call /\ Publish(r)
        /\ TypeOK /\ CallOK(r) /\ Progress(r) /\ Verdict(r)
    BY DEF Commit, IInv, Verdicts
  <1>2. PICK i \in Ids : i = Id(r)
    BY <1>1 DEF CallOK, Owning
  <1>3. /\ Op(r) = "create" /\ ~effect[r] /\ result[r] = "none" /\ ~tenants[i].present
        /\ tx[r].row.present /\ tx[r].row.is_active
    BY <1>1, <1>2 DEF CallOK, Progress, Verdict, Owning
  <1>4. /\ effect' = [effect EXCEPT ![r] = TRUE]
        /\ tenants' = [tenants EXCEPT ![i] = tx[r].row]
    BY <1>1, <1>2 DEF Publish
  <1>5. /\ LDir[i] = "absent"
        /\ LDir' = [LDir EXCEPT ![i] = "active"]
    <2>1. Shows(tenants[i]) = "absent" /\ Shows(tx[r].row) = "active"
      BY <1>3 DEF Shows
    <2>2. \A j \in Ids : tenants'[j] = IF j = i THEN tx[r].row ELSE tenants[j]
      BY <1>1, <1>4 DEF TypeOK
    <2> QED
      BY <2>1, <2>2, DirectoryShows
  <1>6. LGoal' = LGoal /\ LGoal[r] = "create" /\ LGoal[r] # None
    BY <1>1, <1>3, DirectoryAsked DEF LGoal, Op
  <1>7. result' \in {result, [result EXCEPT ![r] = "serverError"]}
    BY DEF Commit, Decide
  <1>8. Directory!Create(r)
    BY <1>3, <1>4, <1>5, <1>6
       DEF Directory!Create, Directory!Pending, LDir, LGoal
  <1> QED
    BY <1>7, <1>8 DEF Directory!TakeEffect

\* Finding the row as it should be, or setting its columns, is the step in which
\* the directory switches the tenant.
LEMMA DirectorySwitches ==
    ASSUME IInv, IInv', Verdicts, NEW r \in Requests, SetColumns(r) \/ FindNeedless(r)
    PROVE  Directory!TakeEffect(r)
  <1>1. /\ pc[r] \in {"find", "set"} /\ UNCHANGED call
        /\ TypeOK /\ CallOK(r) /\ Verdict(r)
    BY DEF SetColumns, FindNeedless, IInv, Verdicts
  <1>2. PICK i \in Ids : i = Id(r)
    BY <1>1 DEF CallOK
  <1>3. /\ Op(r) \in Changes /\ ~effect[r] /\ result[r] = "none"
        /\ tenants[i].present /\ effect' = [effect EXCEPT ![r] = TRUE]
    BY <1>1, <1>2 DEF CallOK, Verdict, SetColumns, FindNeedless
  <1>4. LDir[i] = IF tenants[i].is_active THEN "active" ELSE "inactive"
    BY <1>3, DirectoryShows DEF Shows
  <1>5. LDir' = [LDir EXCEPT ![i] = CASE Op(r) = "activate"   -> "active"
                                      [] Op(r) = "deactivate" -> "inactive"
                                      [] OTHER                -> LDir[i]]
    <2>1. CASE SetColumns(r)
      <3>1. tenants' = [tenants EXCEPT ![i] = Changed(r, tenants[i])]
        BY <1>2, <2>1 DEF SetColumns
      <3>2. Shows(Changed(r, tenants[i])) =
              CASE Op(r) = "activate"   -> "active"
                [] Op(r) = "deactivate" -> "inactive"
                [] OTHER                -> Shows(tenants[i])
        BY <1>1, <1>3 DEF Changed, Shows, TypeOK, Tenant, Changes
      <3> QED
        BY <1>1, <3>1, <3>2, DirectoryShows DEF TypeOK
    <2>2. CASE FindNeedless(r)
      <3>1. LDir' = LDir
        BY <2>2, DirectoryKept DEF FindNeedless
      <3> QED
        BY <1>2, <1>4, <2>2, <3>1 DEF FindNeedless, Needless, LDir
    <2> QED
      BY <2>1, <2>2
  <1>6. LGoal' = LGoal /\ LGoal[r] = Op(r) /\ LGoal[r] # None
    BY <1>1, DirectoryAsked DEF LGoal, Op
  <1>7. result' \in {result, [result EXCEPT ![r] = "ok"],
                     [result EXCEPT ![r] = "serverError"]}
    BY DEF SetColumns, FindNeedless, Decide
  <1>8. LDir[i] # "absent"
    BY <1>4
  <1>9. Directory!Switch(r)
    BY <1>3, <1>5, <1>6, <1>8
       DEF Directory!Switch, Directory!Pending, LDir, LGoal, Changes
  <1> QED
    BY <1>7, <1>9 DEF Directory!TakeEffect

LEMMA DirectoryStep ==
    ASSUME IInv, IInv', Verdicts, [Next]_vars
    PROVE  [Directory!Next]_(Directory!dirVars)
  <1>1. ASSUME NEW r \in Requests, Receive(r)
        PROVE  [Directory!Next]_(Directory!dirVars)
    <2>1. PICK c \in Calls : c.op \in Ops /\ call' = [call EXCEPT ![r] = c]
      BY <1>1 DEF Receive
    <2>2. c.op \in AllOps /\ c.op # "none"
      BY <2>1, TenantProvisioningAssumption DEF AllOps
    <2>3. Op(r) = "none" /\ UNCHANGED <<tenants, effect, result>> /\ LDir' = LDir
      BY <1>1, DirectoryKept DEF Receive, IInv, CallOK
    <2>4. LGoal' = [LGoal EXCEPT ![r] = c.op] /\ LGoal[r] = None
      BY <2>1, <2>2, <2>3 DEF LGoal, Op, IInv, TypeOK
    <2>5. Directory!Ask(r)
      BY <2>2, <2>3, <2>4 DEF Directory!Ask, Directory!Goals, LDir, LGoal, AllOps
    <2> QED
      BY <2>5 DEF Directory!Next
  <1>2. ASSUME UNCHANGED <<tenants, effect, result>>, \A s \in Requests : Op(s)' = Op(s)
        PROVE  [Directory!Next]_(Directory!dirVars)
    BY <1>2, DirectoryKept, DirectoryStutter DEF LGoal
  <1>3. ASSUME NEW r \in Requests, Handle(r)
        PROVE  [Directory!Next]_(Directory!dirVars)
    <2>0. TypeOK /\ CallOK(r) /\ Verdict(r)
      BY DEF IInv, Verdicts
    <2>1. CASE Commit(r)
      BY <2>1, DirectoryCreates DEF Directory!Next
    <2>2. CASE SetColumns(r) \/ FindNeedless(r)
      BY <2>2, DirectorySwitches DEF Directory!Next
    <2>3. CASE BeginFails(r) \/ CommitFails(r) \/ Rollback(r) \/ LookupFails(r)
      <3>1. /\ Decide(r, "serverError") /\ pc[r] # "idle" /\ result[r] = "none"
            /\ UNCHANGED <<tenants, call, effect>>
        BY <2>0, <2>3 DEF BeginFails, CommitFails, Rollback, LookupFails, Verdict, Owning
      <3> QED
        BY <3>1, DirectoryAnswers DEF Directory!Next
    <2>4. CASE FindNothing(r)
      <3>1. /\ Decide(r, "notFound") /\ pc[r] # "idle" /\ result[r] = "none" /\ ~effect[r]
            /\ UNCHANGED <<tenants, call, effect>>
        BY <2>0, <2>4 DEF FindNothing, Verdict
      <3> QED
        BY <3>1, DirectoryAnswers DEF Directory!Next
    <2>5. CASE Refetch(r)
      <3>1. /\ Decide(r, "ok") /\ pc[r] # "idle" /\ result[r] = "none" /\ effect[r]
            /\ UNCHANGED <<tenants, call, effect>>
        BY <2>0, <2>5 DEF Refetch, Verdict
      <3> QED
        BY <3>1, DirectoryAnswers DEF Directory!Next
    <2>6. CASE \/ Begin(r) \/ InsertTenant(r) \/ IdsExhausted(r) \/ RenameSchema(r)
               \/ CreateSchema(r) \/ CreateTable(r) \/ CreateIndexes(r) \/ IndexExists(r)
               \/ LogMigration(r) \/ CreateAdmin(r) \/ AdminExists(r) \/ StepFails(r)
               \/ Find(r) \/ Respond(r)
      <3>1. /\ UNCHANGED <<tenants, effect, result>>
            /\ \/ UNCHANGED call
               \/ call' = [call EXCEPT ![r].id = nextId]
        BY <2>6 DEF Begin, InsertTenant, IdsExhausted, RenameSchema, CreateSchema,
           CreateTable, CreateIndexes, IndexExists, LogMigration, CreateAdmin,
           AdminExists, StepFails, Find, Respond
      <3>2. \A s \in Requests : Op(s)' = Op(s)
        BY <2>0, <3>1 DEF TypeOK, Op
      <3> QED
        BY <1>2, <3>1, <3>2
    <2> QED
      BY <1>3, <2>1, <2>2, <2>3, <2>4, <2>5, <2>6 DEF Handle, CreateStep, ChangeStep
  <1>4. CASE Crash \/ UNCHANGED vars
    BY <1>2, <1>4 DEF Crash, vars, Op
  <1>5. CASE Reset
    <2>1. LDir' = [i \in Ids |-> "absent"]
      BY <1>5, DirectoryShows DEF Reset, NoTenant, Shows
    <2>2. LGoal' = LGoal /\ UNCHANGED <<effect, result>>
      BY <1>5 DEF Reset, LGoal, Op
    <2>3. Directory!Clear
      BY <2>1, <2>2 DEF Directory!Clear, LDir, LGoal
    <2> QED
      BY <2>3 DEF Directory!Next
  <1> QED
    BY <1>1, <1>3, <1>4, <1>5 DEF Next, Quiet

\* The provisioning implements the directory: whatever the handlers interleave,
\* whatever fails or crashes, a tenant appears usable and in one step, and is
\* switched in one step.
THEOREM DirectoryIsAtomicHolds == Spec => DirectoryIsAtomic
  <1>1. IInv /\ IInv' /\ Verdicts /\ [Next]_vars => [Directory!Next]_(Directory!dirVars)
    BY DirectoryStep
  <1> QED
    BY <1>1, DirectoryInit, VerdictsInvariant, PTL
       DEF DirectoryIsAtomic, Spec, Directory!Spec
================================================================================
