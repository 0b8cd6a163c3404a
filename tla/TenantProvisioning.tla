--------------------------- MODULE TenantProvisioning --------------------------
(***************************************************************************)
(* Tenants: createTenant, which spreads one creation over a transaction on *)
(* public.tenants and over statements that commit by themselves (CREATE    *)
(* SCHEMA, the tenant migrations, their log), and the three handlers that  *)
(* change a tenant afterwards (updateTenant, activateTenant,               *)
(* deactivateTenant).                                                      *)
(*                                                                         *)
(* Each action is one database statement with the code that runs when its  *)
(* promise settles.  A migration is three steps, none in a transaction:    *)
(* create the table, create its indexes, log the migration.  An admin is   *)
(* known by email.  Each tenant id is also the name of its schema          *)
(* (tenant_<id>).  A definition commented as a "Variant" is not the code:  *)
(* it is a plausible mistake that the properties are tried against.        *)
(***************************************************************************)
EXTENDS Naturals

CONSTANTS
    Requests,       \* requests the server receives, each once
    Emails,         \* emails of admins to be
    Plans,          \* what PATCH can set: name, contact, subscription_type
    MaxId,          \* bound: the last id the sequence of public.tenants hands out
    MigrationCount, \* files under migrations/tenant
    Ops,            \* operations that are called
    Faults,         \* what may go wrong: "sql", "ack", "crash", "reset"
    None

AllOps == {"create", "activate", "deactivate", "update"}

ASSUME TenantProvisioningAssumption ==
    /\ MaxId \in Nat
    /\ MigrationCount \in Nat \ {0}
    /\ Ops \subseteq AllOps
    /\ Faults \subseteq {"sql", "ack", "crash", "reset"}
    /\ None \notin Emails \cup Plans
    /\ None \notin AllOps

Ids == 1..MaxId

\* A row of public.tenants.  schema is the id in tenant_<id>; the name a row
\* gets before its id is known is written 0.  present tells a row from none.
Tenant == [present : BOOLEAN, schema : Nat, is_active : BOOLEAN,
           plan : Plans \cup {None}]
NoTenant == [present |-> FALSE, schema |-> 0, is_active |-> FALSE, plan |-> None]
Temporary == 0

\* A schema tenant_<id>: the migrations logged in it, how far the next one got,
\* and the admins in its users table.
Schema == [exists : BOOLEAN, applied : 0..MigrationCount,
           stage : {"clean", "table", "indexes"}, admins : SUBSET Emails]
NoSchema == [exists |-> FALSE, applied |-> 0, stage |-> "clean", admins |-> {}]

NoTx == [row |-> NoTenant, admin |-> FALSE]

Calls ==
    [op : {"create"}, email : Emails, plan : Plans, id : {0}]
    \cup [op : {"update"}, email : {None}, plan : Plans, id : Ids]
    \cup [op : {"activate", "deactivate"}, email : {None}, plan : {None}, id : Ids]
NoCall == [op |-> "none", email |-> None, plan |-> None, id |-> 0]

VARIABLES
    tenants,    \* public.tenants, as committed
    nextId,     \* its sequence, which no rollback takes back
    schemas,    \* the tenant schemas
    pc,         \* where each request's handler is suspended
    call,       \* what each request asks, with the tenantId once it is known
    tx,         \* what the open transaction of each request has written
    result,     \* how the request is to be answered
    effect,     \* history: the request's change is committed, or needless
    cleared     \* history: the operator has reset the database

vars == <<tenants, nextId, schemas, pc, call, tx, result, effect, cleared>>

\* The steps of createTenant inside its try block, up to the commit.
InTx == {"insert", "rename", "schema", "migrate", "index", "log", "admin"}
InFlight == InTx \cup {"begin", "commit", "rollback", "find", "set", "refetch", "answer"}

Op(r) == call[r].op
Id(r) == call[r].id
TheSchema(r) == schemas[Id(r)]

Init ==
    /\ tenants = [i \in Ids |-> NoTenant]
    /\ nextId = 1
    /\ schemas = [i \in Ids |-> NoSchema]
    /\ pc = [r \in Requests |-> "idle"]
    /\ call = [r \in Requests |-> NoCall]
    /\ tx = [r \in Requests |-> NoTx]
    /\ result = [r \in Requests |-> "none"]
    /\ effect = [r \in Requests |-> FALSE]
    /\ cleared = FALSE

Receive(r) ==
    /\ pc[r] = "idle"
    /\ \E c \in Calls :
          /\ c.op \in Ops
          /\ call' = [call EXCEPT ![r] = c]
          /\ pc' = [pc EXCEPT ![r] = IF c.op = "create" THEN "begin" ELSE "find"]
    /\ UNCHANGED <<tenants, nextId, schemas, tx, result, effect, cleared>>

Goto(r, from, to) ==
    /\ pc[r] = from
    /\ pc' = [pc EXCEPT ![r] = to]

\* The answer of r is known.
Decide(r, res) ==
    /\ pc' = [pc EXCEPT ![r] = "answer"]
    /\ result' = [result EXCEPT ![r] = res]

--------------------------------------------------------------------------------
\* createTenant.

\* BEGIN, then the look-up of a name that contains the current time and that no
\* row can have yet.
Begin(r) ==
    /\ Goto(r, "begin", "insert")
    /\ UNCHANGED <<tenants, nextId, schemas, call, tx, result, effect>>

\* BEGIN is outside the try block: nothing to roll back.
BeginFails(r) ==
    /\ "sql" \in Faults
    /\ pc[r] = "begin"
    /\ Decide(r, "serverError")
    /\ UNCHANGED <<tenants, nextId, schemas, call, tx, effect>>

\* Variant: the id is the lowest one that no committed row has.
InsertLowestId(r) ==
    /\ Goto(r, "insert", "rename")
    /\ \E i \in Ids :
          /\ ~tenants[i].present /\ \A j \in 1..(i - 1) : tenants[j].present
          /\ call' = [call EXCEPT ![r].id = i]
    /\ tx' = [tx EXCEPT ![r].row =
                [present |-> TRUE, schema |-> Temporary, is_active |-> TRUE,
                 plan |-> call[r].plan]]
    /\ UNCHANGED <<tenants, nextId, schemas, result, effect>>

InsertTenant(r) ==
    /\ Goto(r, "insert", "rename")
    /\ nextId \in Ids
    /\ nextId' = nextId + 1
    /\ call' = [call EXCEPT ![r].id = nextId]
    /\ tx' = [tx EXCEPT ![r].row =
                [present |-> TRUE, schema |-> Temporary, is_active |-> TRUE,
                 plan |-> call[r].plan]]
    /\ UNCHANGED <<tenants, schemas, result, effect>>

\* nextval fails at the end of the sequence.
IdsExhausted(r) ==
    /\ Goto(r, "insert", "rollback")
    /\ nextId \notin Ids
    /\ UNCHANGED <<tenants, nextId, schemas, call, tx, result, effect>>

\* Variant: the row is written without the transaction.
RenameOutsideTx(r) ==
    /\ Goto(r, "rename", "schema")
    /\ tx' = [tx EXCEPT ![r].row.schema = Id(r)]
    /\ tenants' = [tenants EXCEPT ![Id(r)] = tx'[r].row]
    /\ UNCHANGED <<nextId, schemas, call, result, effect>>

RenameSchema(r) ==
    /\ Goto(r, "rename", "schema")
    /\ tx' = [tx EXCEPT ![r].row.schema = Id(r)]
    /\ UNCHANGED <<tenants, nextId, schemas, call, result, effect>>

\* Variant: one migration too many.
AfterMigrationOffByOne(n) == IF n > MigrationCount THEN "admin" ELSE "migrate"

\* umzug runs the migrations that are not in the schema's log.
AfterMigration(n) == IF n = MigrationCount THEN "admin" ELSE "migrate"

\* CREATE SCHEMA IF NOT EXISTS, on a connection of its own.
CreateSchema(r) ==
    /\ Goto(r, "schema", AfterMigration(TheSchema(r).applied))
    /\ schemas' = [schemas EXCEPT ![Id(r)].exists = TRUE]
    /\ UNCHANGED <<tenants, nextId, call, tx, result, effect>>

\* CREATE TABLE IF NOT EXISTS: a table an earlier run left is taken as it is.
CreateTable(r) ==
    /\ Goto(r, "migrate", "index")
    /\ schemas' = [schemas EXCEPT ![Id(r)].stage = IF @ = "clean" THEN "table" ELSE @]
    /\ UNCHANGED <<tenants, nextId, call, tx, result, effect>>

CreateIndexes(r) ==
    /\ Goto(r, "index", "log")
    /\ TheSchema(r).stage = "table"
    /\ schemas' = [schemas EXCEPT ![Id(r)].stage = "indexes"]
    /\ UNCHANGED <<tenants, nextId, call, tx, result, effect>>

\* CREATE INDEX has no IF NOT EXISTS: an index an earlier run left is an error.
IndexExists(r) ==
    /\ Goto(r, "index", "rollback")
    /\ TheSchema(r).stage = "indexes"
    /\ UNCHANGED <<tenants, nextId, schemas, call, tx, result, effect>>

LogMigration(r) ==
    /\ Goto(r, "log", AfterMigration(TheSchema(r).applied + 1))
    /\ schemas' = [schemas EXCEPT ![Id(r)].applied = @ + 1,
                                  ![Id(r)].stage = "clean"]
    /\ UNCHANGED <<tenants, nextId, call, tx, result, effect>>

\* INSERT INTO tenant_<id>.users, in the transaction; email is unique there.
CreateAdmin(r) ==
    /\ Goto(r, "admin", "commit")
    /\ call[r].email \notin TheSchema(r).admins
    /\ tx' = [tx EXCEPT ![r].admin = TRUE]
    /\ UNCHANGED <<tenants, nextId, schemas, call, result, effect>>

AdminExists(r) ==
    /\ Goto(r, "admin", "rollback")
    /\ call[r].email \in TheSchema(r).admins
    /\ UNCHANGED <<tenants, nextId, schemas, call, tx, result, effect>>

\* The transaction's two rows become visible together.
Publish(r) ==
    /\ tenants' = [tenants EXCEPT ![Id(r)] = tx[r].row]
    /\ schemas' = [schemas EXCEPT ![Id(r)].admins =
                     IF tx[r].admin THEN @ \cup {call[r].email} ELSE @]
    /\ tx' = [tx EXCEPT ![r] = NoTx]
    /\ effect' = [effect EXCEPT ![r] = TRUE]

\* COMMIT.  If its acknowledgement is lost the catch block is entered with a
\* finished transaction, whose rollback() throws: a 500 for a created tenant.
Commit(r) ==
    /\ pc[r] = "commit"
    /\ Publish(r)
    /\ \/ Goto(r, "commit", "refetch") /\ UNCHANGED result
       \/ "ack" \in Faults /\ Decide(r, "serverError")
    /\ UNCHANGED <<nextId, call>>

\* Variant: commit() is not awaited, its failure is not seen.
CommitNotAwaited(r) ==
    /\ "sql" \in Faults
    /\ pc[r] = "commit"
    /\ tx' = [tx EXCEPT ![r] = NoTx]
    /\ Decide(r, "ok")
    /\ UNCHANGED <<tenants, nextId, schemas, call, effect>>

\* COMMIT fails: PostgreSQL drops the transaction, rollback() throws as above.
CommitFails(r) ==
    /\ "sql" \in Faults
    /\ pc[r] = "commit"
    /\ tx' = [tx EXCEPT ![r] = NoTx]
    /\ Decide(r, "serverError")
    /\ UNCHANGED <<tenants, nextId, schemas, call, effect>>

\* A statement of the try block fails.  An INSERT that fails may have taken its
\* id, a set of indexes may be left half made.
StepFails(r) ==
    /\ "sql" \in Faults
    /\ pc[r] \in InTx
    /\ pc' = [pc EXCEPT ![r] = "rollback"]
    /\ nextId' \in IF pc[r] = "insert" /\ nextId \in Ids
                   THEN {nextId, nextId + 1} ELSE {nextId}
    /\ \/ UNCHANGED schemas
       \/ /\ pc[r] = "index"
          /\ schemas' = [schemas EXCEPT ![Id(r)].stage = "indexes"]
    /\ UNCHANGED <<tenants, call, tx, result, effect>>

\* The catch block.  No error carries a schemaName, so its clean-up never runs
\* and what committed outside the transaction stays.
Rollback(r) ==
    /\ pc[r] = "rollback"
    /\ tx' = [tx EXCEPT ![r] = NoTx]
    /\ Decide(r, "serverError")
    /\ UNCHANGED <<tenants, nextId, schemas, call, effect>>

--------------------------------------------------------------------------------
\* updateTenant, activateTenant, deactivateTenant.

\* Is the row already as the request wants it?
Needless(r, row) ==
    \/ Op(r) = "activate" /\ row.is_active
    \/ Op(r) = "deactivate" /\ ~row.is_active

Find(r) ==
    /\ Goto(r, "find", "set")
    /\ tenants[Id(r)].present
    /\ ~Needless(r, tenants[Id(r)])
    /\ UNCHANGED <<tenants, nextId, schemas, call, tx, result, effect>>

FindNeedless(r) ==
    /\ pc[r] = "find"
    /\ tenants[Id(r)].present
    /\ Needless(r, tenants[Id(r)])
    /\ effect' = [effect EXCEPT ![r] = TRUE]
    /\ Decide(r, "ok")
    /\ UNCHANGED <<tenants, nextId, schemas, call, tx>>

FindNothing(r) ==
    /\ pc[r] = "find"
    /\ ~tenants[Id(r)].present
    /\ Decide(r, "notFound")
    /\ UNCHANGED <<tenants, nextId, schemas, call, tx, effect>>

\* The columns each operation sets; the others keep what they have by then.
Changed(r, row) ==
    CASE Op(r) = "activate"   -> [row EXCEPT !.is_active = TRUE]
      [] Op(r) = "deactivate" -> [row EXCEPT !.is_active = FALSE]
      [] OTHER                -> [row EXCEPT !.plan = call[r].plan]

SetColumns(r) ==
    /\ pc[r] = "set"
    /\ tenants[Id(r)].present
    /\ tenants' = [tenants EXCEPT ![Id(r)] = Changed(r, @)]
    /\ effect' = [effect EXCEPT ![r] = TRUE]
    /\ \/ Goto(r, "set", "refetch") /\ UNCHANGED result
       \/ "ack" \in Faults /\ Decide(r, "serverError")
    /\ UNCHANGED <<nextId, schemas, call, tx>>

LookupFails(r) ==
    /\ "sql" \in Faults
    /\ pc[r] \in {"find", "set", "refetch"}
    /\ Decide(r, "serverError")
    /\ UNCHANGED <<tenants, nextId, schemas, call, tx, effect>>

--------------------------------------------------------------------------------
\* Both: read the row again for the answer.  In createTenant a failure here
\* enters the catch block after the commit (LookupFails: rollback() throws).
Refetch(r) ==
    /\ pc[r] = "refetch"
    /\ Decide(r, "ok")
    /\ UNCHANGED <<tenants, nextId, schemas, call, tx, effect>>

\* Variant: the controller has no branch for a NotFoundError.
RespondUnlessNotFound(r) ==
    /\ result[r] # "notFound"
    /\ Goto(r, "answer", "done")
    /\ UNCHANGED <<tenants, nextId, schemas, call, tx, result, effect>>

Respond(r) ==
    /\ Goto(r, "answer", "done")
    /\ UNCHANGED <<tenants, nextId, schemas, call, tx, result, effect>>

\* The process dies: PostgreSQL rolls back the transactions of its connections.
Crash ==
    /\ "crash" \in Faults
    /\ \E r \in Requests : pc[r] \in InFlight
    /\ pc' = [r \in Requests |-> IF pc[r] \in InFlight THEN "lost" ELSE pc[r]]
    /\ tx' = [r \in Requests |-> NoTx]
    /\ UNCHANGED <<tenants, nextId, schemas, call, result, effect, cleared>>

\* With the server stopped, the operator runs scripts/fix-database.js and then
\* migrate:public: public.tenants is dropped and made anew with its sequence.
Reset ==
    /\ "reset" \in Faults
    /\ \A r \in Requests : pc[r] \notin InFlight
    /\ tenants' = [i \in Ids |-> NoTenant]
    /\ nextId' = 1
    /\ cleared' = TRUE
    /\ UNCHANGED <<schemas, pc, call, tx, result, effect>>

CreateStep(r) ==
    \/ Begin(r) \/ BeginFails(r) \/ InsertTenant(r) \/ IdsExhausted(r)
    \/ RenameSchema(r)
    \/ CreateSchema(r) \/ CreateTable(r) \/ CreateIndexes(r) \/ IndexExists(r)
    \/ LogMigration(r) \/ CreateAdmin(r) \/ AdminExists(r)
    \/ Commit(r) \/ CommitFails(r) \/ StepFails(r) \/ Rollback(r)

ChangeStep(r) ==
    Find(r) \/ FindNeedless(r) \/ FindNothing(r) \/ SetColumns(r) \/ LookupFails(r)

Handle(r) ==
    /\ CreateStep(r) \/ ChangeStep(r) \/ Refetch(r) \/ Respond(r)
    /\ UNCHANGED cleared

Quiet ==
    /\ \A r \in Requests : pc[r] \in {"done", "lost"}
    /\ UNCHANGED vars

Next ==
    \/ \E r \in Requests : Receive(r) \/ Handle(r)
    \/ Crash
    \/ Reset
    \/ Quiet

Spec == Init /\ [][Next]_vars

\* Every statement completes or fails, and the event loop then runs the handler.
FairSpec == Spec /\ \A r \in Requests : WF_vars(Handle(r))
--------------------------------------------------------------------------------
\* Properties.

\* Every variable keeps its type, the bound on the ids included.
TypeOK ==
    /\ tenants \in [Ids -> Tenant]
    /\ nextId \in 1..(MaxId + 1)
    /\ schemas \in [Ids -> Schema]
    /\ pc \in [Requests -> {"idle", "done", "lost"} \cup InFlight]
    /\ call \in [Requests -> [op : AllOps \cup {"none"}, email : Emails \cup {None},
                               plan : Plans \cup {None}, id : {0} \cup Ids]]
    /\ tx \in [Requests -> [row : Tenant, admin : BOOLEAN]]
    /\ result \in [Requests -> {"none", "ok", "notFound", "serverError"}]
    /\ effect \in [Requests -> BOOLEAN]
    /\ cleared \in BOOLEAN

Ready(i) ==
    /\ tenants[i].schema = i
    /\ schemas[i].exists
    /\ schemas[i].applied = MigrationCount
    /\ schemas[i].stage = "clean"
    /\ schemas[i].admins # {}

\* A tenant that anyone else can see (tenantResolver, the login, the lists) is
\* complete: it has its final schema name, the schema exists with all of the
\* tenant migrations, and there is an admin in it to log in.  The schema and its
\* tables commit on other connections than the tenant row
\* (tenant.service.js:45-62), in an order and with failures that must not show.
TenantReady == \A i \in Ids : tenants[i].present => Ready(i)

Created(r) == Op(r) = "create" /\ result[r] = "ok"

\* As long as nobody resets the database, a creation answered 201 has its tenant,
\* its admin can log in there, and it shares the tenant with no other creation.
CreatedStays ==
    ~cleared => \A r \in Requests : Created(r) =>
        /\ tenants[Id(r)].present
        /\ call[r].email \in schemas[Id(r)].admins
        /\ \A s \in Requests : Created(s) /\ Id(s) = Id(r) => s = r

\* A tenant's schema has the admin of its own creation and nobody else's: "Each
\* tenant gets their own database schema for complete data isolation"
\* (README.md:3).
OwnSchema ==
    \A i \in Ids : tenants[i].present =>
        \E r \in Requests :
            Op(r) = "create" /\ Id(r) = i /\ schemas[i].admins = {call[r].email}

\* The same as long as nobody resets the database: creations that run at once,
\* fail or die (tenant.service.js:45) never meet in one schema.
OwnSchemaUncleared == ~cleared => OwnSchema

\* When no request is open every schema belongs to a tenant: "Attempt to clean
\* up schema if it was created" (tenant.service.js:75).
NoOrphanSchema ==
    (\A r \in Requests : pc[r] \notin InFlight) =>
        \A i \in Ids : schemas[i].exists => tenants[i].present

\* Every request that reached a handler is answered, unless the process died:
\* no failure leaves createTenant or the others without an answer.
ProvisioningEnds ==
    \A r \in Requests : pc[r] \in InFlight ~> pc[r] \in {"done", "lost"}

\* What a visitor sees of tenant i.
Visible(i) ==
    IF ~tenants[i].present THEN "absent"
    ELSE IF ~Ready(i) THEN "broken"
    ELSE IF tenants[i].is_active THEN "active" ELSE "inactive"

Directory == INSTANCE TenantDirectory WITH
    dir <- [i \in Ids |-> Visible(i)],
    goal <- [r \in Requests |-> IF Op(r) = "none" THEN None ELSE Op(r)],
    verdict <- result

\* Seen from outside, a creation is one atomic step that adds a usable tenant,
\* and a change of a tenant is one atomic step: no interleaving of the handlers,
\* no failure and no crash shows a tenant in between.
DirectoryIsAtomic == Directory!Spec
================================================================================
