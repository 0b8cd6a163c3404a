# Real-Estate-Multi-Tenant-Api: verification project

TLA+ models of the API server in `src/`, checked with TLC on small instances,
and theorems about them checked with TLAPS for every value of the constants.
Paths below are relative to the repository; lines are given as `file:line`.

## The system

One Node process serves an Express API over one PostgreSQL database. The schema
`public` holds the tenants and the super admins; each tenant has a schema
`tenant_<id>` with its users, projects, units and audit log. A request passes
`authenticateToken`, then `tenantResolver` (or `usePublicSchema`), role checks
and Joi validation, and reaches a controller. The controller calls a service,
the service a repository, the repository awaits SQL statements on connections of
a pool of five. A mutating controller then sends the answer and calls `next()`,
which runs `auditLog`, which leaves an INSERT into `audit_logs` to `setImmediate`.

Node runs one callback at a time, so the code between two awaits is atomic.
Every await is a point where other requests and the database move. Except in
`createTenant` every statement commits by itself.

### Inventory

| Component | State | Operations | What is hard | What makes it correct |
|---|---|---|---|---|
| Units and bookings (`modules/units`) | `<schema>.units`: status, booked_by, is_active and columns a PATCH sets | create, PATCH, book, delete; `markAsSold` (no route) | the row is read twice before it is written; concurrent bookings; lost acknowledgements; swallowed errors | a unit has one buyer, bookings are never undone, a refusal has a cause |
| Audit trail, writing (`middleware/auditLogger.js`) | `audit_logs`, the setImmediate queue | build an entry, insert it | runs after the answer, nobody waits for it, its failures are printed | each mutation has its entry, and the entry tells what happened |
| Tenant provisioning (`modules/tenants`, `utils/schemaManager.js`) | `public.tenants` and its sequence, the tenant schemas | createTenant, updateTenant, activate, deactivate | one creation spans a transaction and statements on other connections; failures after CREATE SCHEMA; commit acknowledged or not | a visible tenant is complete, tenants do not share a schema, nothing is left over |
| Tenant migrations (`migrations/umzug-tenant.js`, `migrations/tenant`) | the `migrations` table of each schema | up and down, one schema or all | three autocommitted steps per migration; an interrupted one cannot be repeated | log and tables agree; `up all` reaches all |
| Authentication and RBAC (`middleware/auth.js`, `rbac.js`, `tenantResolver.js`, `config/roles.js`) | none on the server; the token carries role and tenant for 24 h | the middleware chain | the token and the tenant's state are stale by the time of the write | only what the matrix grants, only in one's own schema |
| Users and login (`modules/users`) | `<schema>.users`, `public.users` | login (tenant and super admin), create, update, delete, refresh | check-then-insert of emails, equal emails in two tenants, loss of the last admin | emails unique in a schema, a valid user can log in |
| Projects (`modules/projects`) | `<schema>.projects` | create, PATCH, delete | as units, without a race for a resource; a delete leaves the units | as the audit trail |
| Connection pool, search path (`config/db.js`) | five connections and the search path each was left with | acquire, release, `SET search_path` | createTenant holds one and needs a second | no request waits for ever, no statement runs in another tenant's schema |
| Statistics, lists (`controllers/superAdminStats.controller.js`, `getAll*`) | none | sums, pages and totals | several statements that see different states | a walk through the pages misses nothing, totals cover the pages, sums are sums of what there was |
| Public migrations, seeding (`migrations/umzug-public.js`, `scripts`) | `public.*` | run by hand | `fix-database.js` keeps the tenant schemas | restart from a clean database |
| Validation, logging, response helpers, swagger, bootstrap | none | | | out of scope, see below |

Components talk by awaited calls inside one request and through the database
between requests. There are no callbacks other than the setImmediate of the
audit logger and no messages between processes.

`PROJECT.json` lists every component with its status, and under `hazards` the
places where the code is exposed to something a test would hardly reach.

## Modules

| Module | Models | Role |
|---|---|---|
| `UnitBooking` | handlers of `unit.controller.js` with service, repository and audit middleware | the core |
| `BookingLedger` | what callers may rely on about bookings | abstract specification, implemented by `UnitBooking` |
| `UnitBookingProofs` | | theorems about `UnitBooking` and the refinement |
| `UnitRows` | what a statement may make of a row of `units`, as lists and statistics see it: status, is_active, and unit_number, by which lists are sorted | shared: `TenantReports` changes units by these steps, `UnitBooking` is shown to take no other |
| `TenantProvisioning` | `createTenant`, `updateTenant`, `activateTenant`, `deactivateTenant`, one schema's migrations, `fix-database.js` | second component |
| `TenantDirectory` | what callers may rely on about tenants | abstract specification, implemented by `TenantProvisioning` |
| `TenantProvisioningProofs` | | theorems about `TenantProvisioning` |
| `UserAccounts` | logins, refresh and the handlers of `user.controller.js`, behind `authenticateToken`, `tenantResolver`, `requireAdmin`, `checkPermission` | third component |
| `UserAccountsProofs` | | theorems about `UserAccounts` |
| `ConnectionPool` | the pool of `config/db.js`, the statements of each request that go through it, the search path | below all other components |
| `ConnectionPoolProofs` | | theorems about `ConnectionPool` |
| `ProjectCatalog` | handlers of `project.controller.js` with service, repository and audit middleware | fourth component, and what `TenantReports` implements |
| `ProjectCatalogProofs` | | theorems about `ProjectCatalog` |
| `TenantReports` | the `getAll*` lists and `superAdminStats.controller.js`, while projects, audit entries, units and tenants change | composition: EXTENDS `ProjectCatalog` and adds the readers |
| `SumTheorems` | | lemmas about the community modules' sum over a finite set, and induction stated over sets |
| `TenantReportsLists` | | lemmas about sorted lists, pages and the lists of `TenantReports`, and how writers make them grow |
| `TenantReportsProofs` | | theorems about `TenantReports`; that it implements `ProjectCatalog`, and what follows |
| `MCUnitBooking`, `MCTenantProvisioning`, `MCUserAccounts`, `MCConnectionPool`, `MCTenantReports` | | instances for TLC: the symmetry of requests, the sets of bodies and first rows |

### UnitBooking

`units` and `auditLogs` are the tables; `pc`, `call`, `old`, `new` and `result`
are the suspended handler of each request (the await it is at, its parameters,
`oldUnit`, the returned row, the answer it is going to send); `scheduled` is the
setImmediate queue; `before` is history, the row a write replaced; `struck` is history, the requests that a
fault (a failing statement, a lost acknowledgement, a crash) hit.

| Action | Code |
|---|---|
| `Receive` | the request is past the middleware and the controller makes its first call |
| `ReadOld` | `getUnitById` of the controller (`unit.controller.js:65`, 87, 110) |
| `ReadUnit`, `RefuseTaken`, `AlreadySold` | `findById` of the service and the checks on its row |
| `NotFound` | either read returns null: no row, or `findById` swallowed an error |
| `InsertUnit`, `UpdateUnit`, `BookUnit`, `MarkAsSold`, `SoftDelete` | the one statement that writes, committed by itself; `Commit` adds the lost acknowledgement |
| `BookMisses`, `SellMisses` | the guarded UPDATE matches no row |
| `InsertRejected`, `WriteFails` | the foreign key, a failing statement; `softDelete` turns it into success |
| `Respond` | the answer, `next()`, and the entry handed to setImmediate |
| `InsertAudit`, `AuditFails` | `createAuditLog` |
| `Crash` | the process dies; what PostgreSQL committed stays |

The refinement to `BookingLedger` maps the table to status and owner and the
result of a booking to its verdict: a booking takes effect at its UPDATE, and a
refusal takes effect where the handler finds the unit taken.

### TenantProvisioning

`tenants` and `nextId` are `public.tenants` as committed and its sequence, which
no rollback takes back; `schemas` the tenant schemas with their migration log
and admins; `tx` what the open transaction of each `createTenant` has written
and nobody else can see; `pc`, `call`, `result` the suspended handlers; `effect`
is history for the refinement, `cleared` remembers a reset.

| Action | Code |
|---|---|
| `Begin`, `BeginFails` | `sequelize.transaction()` (outside the try block) and the look-up of the temporary name |
| `InsertTenant`, `RenameSchema` | the row and its final schema name, inside the transaction |
| `CreateSchema` | `CREATE SCHEMA IF NOT EXISTS`, on another connection, committed at once |
| `CreateTable`, `CreateIndexes`, `IndexExists`, `LogMigration` | each migration of `umzug.up`: three steps, each committed at once; an index that exists is an error |
| `CreateAdmin`, `AdminExists` | `createAdminUser`, inside the transaction |
| `Commit`, `CommitFails` | COMMIT, acknowledged or not; after it `rollback()` throws |
| `StepFails`, `Rollback` | an error in the try block; the catch block, whose clean-up never runs |
| `Find`, `FindNeedless`, `FindNothing`, `SetColumns`, `LookupFails` | updateTenant, activateTenant, deactivateTenant |
| `Refetch`, `Respond` | the read for the answer, the answer |
| `Crash` | the process dies; open transactions roll back |
| `Reset` | with the server stopped: `scripts/fix-database.js`, then the public migrations |

### UserAccounts

`users` are the users tables of the tenants and of public, `active` the column
`is_active` of the tenants, `tokens` the signed tokens that have not expired
(clients keep them, the server does not). `pc`, `call`, `todo`, `found` and
`result` are the suspended handlers: `todo` the schemas a login has still to
search, `found` the row it has read. `trail` is the audit entry on its way,
`issued` the token in the answer. `deserved` and `opened` are history: the tokens
the tables called for, and the tenants that were active, at any moment of the
request so far.

| Action | Code |
|---|---|
| `Receive` | `authenticateToken`, or a login route |
| `ListTenants`, `FindUser`, `MissUser` | `findByEmailAcrossTenants`; `superAdminLogin` searches public in the same way |
| `SignIn`, `RejectLogin` | `bcrypt.compare` of the row that was read, then the token |
| `Refresh`, `RefuseRefresh` | `refreshToken` |
| `Resolve`, `Forbid`, `ResolveFails` | `tenantResolver`, `requireAdmin`, `checkPermission` |
| `ReadOld`, `FindExisting`, `NotFound` | the two `findById` of PATCH and DELETE |
| `EmailFree`, `EmailExists` | `emailExists`, which answers false when it fails |
| `InsertUser`, `UpdateUser`, `SoftDelete` | the statement that writes, committed by itself |
| `IndexRefuses`, `WriteFails` | the unique index (a 500, not the 409 of `emailExists`), a failing statement |
| `Audit` | `auditLog` |
| `SwitchTenant`, `Expire`, `Crash` | a tenant is switched (one step, as `TenantDirectory` promises), a token turns 24 hours old, the process dies |

### ConnectionPool

A request is the list of its statements (`Script`), each with the schema it is
about and what it needs: a connection for itself, the one of its transaction, or
one to keep. `owner` and `queue` are the pool; `path` the search path that each
connection was left with; `pc`, `call`, `step`, `tx` and `on` a request's place in
its list, the connection of its transaction and the one its statement runs on.

| Action | Code |
|---|---|
| `Receive` | the first statement of a route (`usePublicSchema`, `tenantResolver`) asks for a connection |
| `Grant` | the pool serves the first in line |
| `Complete`, `StatementFails` | a statement ends; `HandBack` says what becomes of its connection; a repository that catches its errors goes on |
| `AcquireTimeout` | the first in line has waited 30 s (`db.js:16`): an error like any other |
| `Rollback` | the catch block of `createTenant` |
| `CloseIdle` | an idle connection is closed; the next one starts in public |

### ProjectCatalog

`projects` and `logs` are the two tables of each tenant, rows in order of
creation; `pc`, `call`, `found`, `result` the suspended handlers; `audit` what
became of each entry; `wrote` is history, the requests whose write is committed.

| Action | Code |
|---|---|
| `Receive` | the request is past the middleware |
| `ReadOld`, `FindProject`, `NotFound` | `getProjectById` of the controller, `findById` of the service; null also when it fails |
| `InsertProject`, `UpdateProject` | the statement that writes, with or without its acknowledgement; a DELETE is the UPDATE of `is_active` |
| `WriteFails` | a failing statement, which `softDelete` swallows |
| `Respond` | the answer, and `next()` after a success |
| `WriteEntry`, `LoseEntry` | `auditLog` and `createAuditLog` |

### TenantReports

To the variables of `ProjectCatalog` come `tenants` and `active` (the rows of
`public.tenants` in their order and those with `is_active`), `units`, and of each
reader `rpc`, `ask`, `page`, `rows`, `total` (lists) and `todo`, `sums`
(statistics). `shown`, `atStart`, `moved`,
`low`, `high` and `hit` are history. A list of units is any sequence in the order of
`unit_number` (`UnitLists`): units of one number may come in another order each
time they are asked for.

| Action | Code |
|---|---|
| `Admit`, `Change` | a step of `ProjectCatalog`; `tenantResolver` admits requests to active tenants only |
| `ChangeUnit` | one statement of `unit.repository.js`, a step of `UnitRows`, the PATCH of a unit_number included: `UnitBooking` has the handlers around it, and `UnitsStepwise` says that they take no other steps; `moved` remembers the walks through units during which it changed the order, or left it open |
| `CreateTenant`, `SwitchTenant` | one step each, as `TenantDirectory` promises |
| `Ask`, `NextPage` | a list's first page, and the next while there is more |
| `ReadPage`, `CountRows`, `ListError` | `findAll` and `count`, and what they make of an error |
| `CountTotal`, `CountActive`, `ListActive` | `getTenantStats`, the list of active tenants |
| `AddProjects`, `AddUnits`, `SendStats`, `ReportError` | the loop of `getStats`, the answer, its catch block |

### Abstractions

- A unit is status, booked_by, is_active and unit_number, which stands for all
  that only a PATCH sets. booked_at and sold_at change with booked_by and status.
- A request is one that authentication, tenant resolution, validation and
  `checkPermission` have let through. A body without keys is refused
  (`unit.schema.js:48`), so the early return for it is never taken. A request with
  no body at all does pass, because the schema of the body is not required; the
  DTO then reads from `undefined` and the answer is 500 before anything is
  written (`unit.controller.js:66`). The models leave it out.
- The units model is one tenant. Handlers of two tenants share no table, and
  every statement names its schema, so `SET search_path` has no effect on them.
- A statement that was sent when the process died commits before the crash or
  never. This loses no outcome: handlers and clients of the dead process see
  neither.
- The column `req` of an audit entry stands for its identity (its primary key).
- Each schema has a migration log of its own, which is what the option `schema`
  of `SequelizeStorage` asks for. Whether the library honours it for the second
  schema of one process is outside the repository; it is listed as a hazard.
- `SET search_path` and `bcrypt.hash` are awaits that read nothing another
  request writes; `UserAccounts` joins them to the step before. `bcrypt.compare`
  is a step of its own, because the row it is about can change meanwhile.
- The tenants of `UserAccounts` exist from the start, so that "Tenant not found"
  of `tenantResolver` (a token from before a reset) is not reached.
- A statement is one step. What PostgreSQL does inside it, and that an INSERT
  takes its `NOW()` a moment before it commits, is left to the database. The
  exception is a tenant's `created_at`, which is set minutes before the COMMIT:
  `CreateTenant` puts the row anywhere in the order.
- `TenantReports` keeps lists with and without the filter `activeOnly`. The other
  filters (status, price, dates) select by values that no property is about.
  `Numbers` are the places of (project_id, unit_number) in their order; as no
  PATCH moves a unit to another project, a change to any other number is more
  than the code can do. Two rows of one `created_at`, which is set to the
  microsecond, do not occur. The list of users is read in the same two statements
  and is not repeated.
- `GET` of one row is the read that each PATCH begins with.
- Revenue is one more sum over the rows that `AddUnits` counts.
- Names of tenants are not unique in the code and are not modelled; the
  temporary schema name contains the current time and never collides.

## Runs

All bounds are in the `.cfg` files. Deadlock is checked in every run: `Quiet`
stutters only when no request is open.

| Run | Instance | Checks | Shows |
|---|---|---|---|
| `booking_race` | 3 requests, 1 unit, 2 users, 2 numbers, all operations; lost acknowledgements | `TypeOK`, `OneWinner`, `RefusalJustified`, `BookingTrail`, `NeverTakenBack`, `UnitsStepwise` | however two bookings and a third write interleave, one booking wins, nobody is refused without a taker, the trail agrees, and what lists and statistics see of the unit changes by the steps of `UnitRows` only |
| `unit_faults` | 2 requests, 2 units, all operations, all faults | `AuditTrailComplete`, `BookingsAreAtomic`, `EveryRequestEnds`, `AuditFollows` | the refinement of `BookingLedger`, termination, and that a fault costs no other request its audit entry |
| `audit_old_values` | 2 requests, 2 units; PATCH, book; no fault | `OldValuesExact` **violated** | see findings |
| `provisioning` | 2 requests, 2 ids, 4 migrations, all operations, all faults | `TypeOK`, `TenantReady`, `CreatedStays`, `OwnSchemaUncleared`, `DirectoryIsAtomic`, `ProvisioningEnds` | no interleaving or failure shows a half-made tenant or mixes two; the refinement of `TenantDirectory`, and termination |
| `orphan_schema` | 2 creations, 4 migrations, failing statements | `NoOrphanSchema` **violated** | see findings |
| `reset_isolation` | 2 creations, 4 migrations, resets | `OwnSchema` **violated** | see findings |
| `user_management` | 2 requests on the users of 1 tenant and public, 3 ids, 2 emails; all faults, switching, expiry | `TypeOK`, `EmailsUnique`, `WritesAuthorised` | however checks and writes interleave or fail, emails stay unique, and only admins of the tenant change its users |
| `sign_in` | 2 requests on 2 tenants and public; logins, refresh, PATCH, switching, failing statements | `TokensJustified`, `AccountCallsEnd` | no token mixes two states of its user, and the search ends |
| `shared_email` | 1 login, 2 tenants, any first users | `CredentialsWork` **violated** | see findings |
| `pool` | 3 requests, 2 connections, 1 tenant; creations and lists; failing statements | `TypeOK`, `Accounted`, `CreationsBlock`, `PoolEnds` | no connection is lost, only creations block the pool, and the acquire timeout ends it |
| `search_path` | 2 requests of 2 tenants, 2 connections; writes and lists; no fault | `PathIsolates` **violated** | see findings |
| `reports` | 2 requests, 1 reader, 2 tenants (one created meanwhile), 2 projects and 2 units at first, 3 numbers, pages of 1 row, 2 changes in all; failing statements, lost acknowledgements | `TypeOK`, `NoUpdateLost`, `LogTellsTruth`, `TotalCovers`, `WalkComplete`, `StatsJustified` | no update of a project is lost, entries are true, walks through pages are complete (of units: where no number changed and none was used twice), statistics are justified |

Why these bounds are enough. A request that has been answered no longer acts,
so what matters is how many handlers overlap. Two overlapping handlers give each
pair of operations in each order at each await; the third request of
`booking_race` adds a winner, a loser and a write that interferes with both. One
unit makes every request collide; the second one lets creation pick an id and
shows that requests on other units do not interfere. Four
migrations is the number the repository has. A
race for an email takes two requests and two emails; three user ids hold the
first admin and one creation of each request. `sign_in` needs no second user: a
login meets its user's row before and after a PATCH of another request, and the
second tenant gives the search an order. Two connections and three requests are
the least in which two creations hold all connections while a third request
waits; one statement for the migrations and one for the handler stand for any
number, because each of them takes and returns its connection in the same way.
In `reports` the bound `MaxChanges` counts requests about projects, statements
about units and changes of tenants together, so it cuts the number of changes and
not where they fall; two of them make every pair (a row added and a tenant
switched, a unit booked and another added) at every await of a reader. Pages of
one row give a walk over the two projects and what is added to them, and over the
two units. These start with the second and the third of the numbers, so that one
may be added or renamed before both, between, after, or to a number in use;
`booking_race` takes two numbers, the least with which a handler can write back an
old one; they are interchangeable there, because no handler compares them. What
the bounds cannot show is what the proofs are for.

Fairness. `FairSpec` asks weak fairness of each request's handler (`Handle(r)`)
and, for units, of its audit callback. A handler waits only for its own
statement, which completes, fails, or fails to get a connection within the 30 s
of the pool (`config/db.js:16`), and Node then runs the continuation. Nothing
obliges a request to arrive, a fault to happen or the operator to act. Weak
fairness is enough: no other request can disable a handler's next step, only
change which one it is. `ConnectionPool` asks it of each request's handler and
of the pool as a whole (`Serve`: it dispenses a free connection, and its timer
fires); a request in line then moves up with every step of the pool, and the
line is as long as there are requests. `TenantReports` has safety properties
only and states no fairness.

## Findings

- `audit_old_values`: `old_values` may be a row that the update did not replace:
  the controller reads it two awaits before the UPDATE (`unit.controller.js:65`).
  `BookingTrail` shows that this cannot happen for bookings, whose WHERE clause
  repeats the check.
- `orphan_schema`: the clean-up of `createTenant` tests `error.schemaName`,
  which no error has (`tenant.service.js:76`).
- `reset_isolation`: `fix-database.js` restarts the ids and keeps the schemas,
  so a new tenant gets the users of an old one.
- `shared_email`: emails are unique within a schema only, and the tenant login
  compares the password in the first schema that has the email
  (`user.repository.js:110`); the admin of the other tenant is refused.
- `search_path`: `tenantResolver` sets the search path of one connection
  (`tenantResolver.js:63`), and the statements of the request run on others. What
  keeps the tenants apart is that every statement names its schema; a statement
  that did not would read whatever tenant used the connection last.

Met on the way, in the models, and without a run of their own. The documentation
promises a "Complete audit trail of all data mutations"
(`API_DOCUMENTATION.html:276`): a mutation is without its entry when the process
dies between the answer and the `setImmediate` callback (`auditLogger.js:92`), when
the insert fails (`auditLogger.js:40`) or when the acknowledgement of the UPDATE is
lost. Such requests are in `struck`, and `AuditTrailComplete` says that no other
loses its entry. A soft delete whose statement failed is answered 200 "Unit deleted
successfully" (`unit.routes.js:508`) and logged (`unit.repository.js:268`,
`unit.service.js:124`), and for projects likewise (`project.repository.js:177`).

Of the following no document promises otherwise, or the models have no question
about it: the last admin of a tenant can be deleted; two equal emails that both
pass `emailExists` end in a 500 for one of them; a list whose statement failed
is answered 200 with no rows; a client that pages through the units can miss one
that a PATCH renames meanwhile (with pages of one row over A1, A2, A3: page 1
shows A1, A3 becomes A0, pages 2 and 3 show A1 and A2), or one of two units with
the same number; `inactive` of the tenant statistics is the difference of two
counts and can be negative; the comments on the audit routes say "Admin only"
(`auditLog.routes.js:78`) and `roles.js` lets every role read them.

## Proofs

`UnitBookingProofs` proves for every set of requests, users, units, numbers and
faults, from `UnitBookingAssumption` alone:

| Theorem | Statement |
|---|---|
| `TypeCorrect` | `Spec => []TypeOK` |
| `OneWinnerHolds` | `Spec => []OneWinner` |
| `RefusalJustifiedHolds` | `Spec => []RefusalJustified` |
| `BookingTrailHolds` | `Spec => []BookingTrail` |
| `AuditTrailCompleteHolds` | `Spec => []AuditTrailComplete` |
| `NeverTakenBackHolds` | `Spec => NeverTakenBack` |
| `BookingsAreAtomicHolds` | `Spec => BookingsAreAtomic` |
| `UnitsStepwiseHolds` | `Spec => UnitsStepwise` |

The argument. None of these is inductive. `TypeInv` adds to `TypeOK` what the
call of an open request looks like. `BookInv` adds the facts that carry the
booking protocol: a row that is not Available has an owner unless it was sold
unbooked (`OwnerOK`); a request that won wrote the row from Available to its own
user and the row is still its (`WonOK`); the row a handler read first is one the
stored row has only moved on from (`OldOK`, with the order `Advance`: statuses
grow, owners stay); and an entry agrees with the request it came from
(`EntryOK`). That every write moves a row along `Advance` is one lemma, and each
property follows from it and `BookInv`. `AuditTrailComplete` needs a third
invariant, `TrailInv`: a request that no fault hit is answered with success
exactly if it wrote, and has an entry scheduled or written from its answer on
(`Tells`). That there is only one, and that it is true, is `EntryOK` of `BookInv`.
The refinement is proved action by
action: the UPDATE maps to `Take`, a refusal to `Refuse`, whose guard is
`BookInv`'s, creations and sales to `Add` and `Sell`, all else to stuttering.
`UnitsStepwise` joins this component to the lists and statistics: each write moves
a row's status, in the direction its WHERE clause allows, or its `is_active` and
`unit_number` (`ViewSteps`), and leaves the rest of the row as it is at that
moment. It needs one more invariant, `Numbered`: stored rows have a number. So the
theorems about `TenantReports`, whose units move by all such steps, cover what the
handlers of `UnitBooking` can do.

`TenantProvisioningProofs` proves for every set of requests, emails and plans,
every number of ids and migrations and every set of faults, from
`TenantProvisioningAssumption` alone:

| Theorem | Statement |
|---|---|
| `TypeCorrect` | `Spec => []TypeOK` |
| `TenantReadyHolds` | `Spec => []TenantReady` |
| `CreatedStaysHolds` | `Spec => []CreatedStays` (which speaks of the time until a reset) |
| `OwnSchemaHolds` | `Spec => []OwnSchemaUncleared` (likewise) |
| `DirectoryIsAtomicHolds` | `Spec => DirectoryIsAtomic` |

The argument. `TenantReady` says nothing of a creation in flight, so `IInv` adds
what each one owns. `Progress`: between its INSERT and its COMMIT a creation has
an id the sequence has handed out and no row shows, and the schema has come as
far as the handler. `Distinct`: no id has two owners, because the sequence never
hands one out twice while it is owned (`Reset` waits until no handler is in
flight, which is what makes it harmless here). `Settled`: rows only have ids
below the sequence, and a schema with all migrations is between two of them. The
COMMIT then publishes a row whose schema `Progress` says is complete. `Verdicts`
ties answers to effects. `Provenance`, tenants and committed creations are one to
one and a schema without a tenant has no admin, is inductive only until a reset
(`~cleared`): `reset_isolation` is the counterexample after one. The refinement maps COMMIT to
`Create`, the UPDATE and the finding that none is needed to `Switch`, each other
way to an answer to `Answer`, the reset to `Clear`, and all else to stuttering.

`UserAccountsProofs` proves for every set of requests, tenants, emails, bodies,
operations and faults and every number of users, from `UserAccountsAssumption`
alone:

| Theorem | Statement |
|---|---|
| `TypeCorrect` | `Spec => []TypeOK` |
| `EmailsUniqueHolds` | `Spec => []EmailsUnique` |
| `TokensJustifiedHolds` | `Spec => []TokensJustified` |
| `WritesAuthorisedHolds` | `Spec => WritesAuthorised` |

The argument. `EmailsUnique` is inductive once it is known where a write lands,
because the guard of the unique index is evaluated in the step that writes. The
rest needs `Honest`: super admins are the users of public and nobody else, in
every table and every token, so that a token with the role Admin names a tenant.
`Watched` says that history has seen the present: what an open request deserves
now is in `deserved`, and active tenants are in `opened`. `Passed` keeps what the
middleware found, that the request is an admin's and met its tenant active, up to
the write, and that the row to be written is there (rows are never deleted).
`SearchOK` carries what a login has read to its signature: if its password is
right, the token it will get is in `deserved`. Every write is shown to put one
row into the tenant of the writer's token (`OneRowWritten`, `AfterWrite`), and a
request to stay as it is while others move (`Kept`, `KeptStays`).

`ConnectionPoolProofs` proves for every number of connections, migrations and
statements of a handler and every set of requests, tenants and faults, from
`ConnectionPoolAssumption` alone:

| Theorem | Statement |
|---|---|
| `TypeCorrect` | `Spec => []TypeOK` |
| `AccountedHolds` | `Spec => []Accounted` |
| `CreationsBlockHolds` | `Spec => []CreationsBlock` |

The argument. `AtStatement` says that a request has a transaction exactly between
the BEGIN and the COMMIT of its script, `Has` what it holds in each state of its
handler, `Waiting` that a request stands in line once. Where BEGIN and COMMIT are
is a lemma about the script of `createTenant`, whatever the number of
migrations. `CreationsBlock` then counts: when all connections are out and their
owners wait, each owner is in a transaction, and the function from connections to
owners is one to one, so there are as many owners as connections.

`ProjectCatalogProofs` proves for every set of requests, tenants, columns' values,
bodies and faults and any first projects, from `ProjectCatalogAssumption` alone:

| Theorem | Statement |
|---|---|
| `CatalogTypeCorrect` | `CatalogSpec => []CatalogTypeOK` |
| `NoUpdateLostHolds` | `CatalogSpec => []NoUpdateLost` |
| `LogTellsTruthHolds` | `CatalogSpec => []LogTellsTruth` |

The argument. `NoUpdateLost` is inductive with `Facts`: a request that has written
names a row that exists, so an INSERT lands on a row nobody has written, and an
UPDATE changes only the columns its own body gives. `LogTellsTruth` follows from
`Facts` and `Entries` (an entry belongs to a request whose `audit` is `written`,
which is so only after an ok answer) and `Unique`.

`TenantReportsProofs` proves for every set of readers and reports, every finite set
of tenants, of ids of units and any numbers of them, any first tenants and units and every page
size, from `TenantReportsAssumption` and `ProjectCatalogAssumption` alone:

| Theorem | Statement |
|---|---|
| `ImplementsCatalog` | `Spec => CatalogSpec` |
| `NoUpdateLostInReports` | `Spec => []NoUpdateLost` |
| `LogTellsTruthInReports` | `Spec => []LogTellsTruth` |
| `ReportsTypeCorrect` | `Spec => []TypeOK` |
| `TotalCoversHolds` | `Spec => []TotalCovers` |
| `WalkCompleteHolds` | `Spec => []WalkComplete` |
| `StatsJustifiedHolds` | `Spec => []StatsJustified` |

The argument. The first three: each step of the composition is a step of
`ProjectCatalog` or leaves its variables alone, so what is proved of the catalogue
holds here. The others need an invariant of the readers, `RInv`
(`ReportsInductive`), which `Init` implies and every step keeps:

- `TenantsDiffer`: no tenant is listed twice. Without it a tenant would be shown in
  two places and counted twice.
- `Paged` is about a walk that met no error. Every row there was at its start has
  been shown or stands in the list behind the pages read so far (`Behind`), and
  the page last read ends where the list reached then at the latest (`Fits`). A
  page that is read takes the rows behind the offset into `shown`; what others do
  meanwhile is `Grows`: the list keeps all its rows and none comes nearer to its
  front. When the pages have reached the total, and the total is the length of the
  list at the count, nothing can still be behind: that is `WalkComplete`, and
  `TotalCovers` is `Fits` at the count.
- The list of units has no one order, so "behind" is said of its keys and not of a
  sequence: more than so many units have its number or a lesser one (`Further`, with
  `Upto`), which fixes the place in every sequence PostgreSQL may answer only
  while no two units have one number. `Paged` therefore speaks of a walk that is
  `Steady` (its reader is not in `moved`), and adds that nothing is `Tied` then.
  An INSERT puts more rows before a unit and no statement of `UnitRows` fewer,
  except one that sets another number; that one puts the reader in `moved`
  (`OrderKept`). `TotalCovers` needs none of this: the number of rows grows
  whatever their order.
- `Counted` is about the statistics. `Bounded`: what there is to count now, of each
  tenant, is between `low` and `high`. `Tallied`: the tenants counted so far and
  those still in `todo` include all that were active all the time and are only such
  as were active at some time, no tenant comes twice, and each sum is between the
  sums of `low` and of `high` over the tenants counted so far (`Within`). When
  `todo` is empty, that is `StatsJustified`, because a sum over a smaller set of
  tenants is not greater.

That writers only let lists grow is proved in `TenantReportsLists`, table by table:
a row is inserted in front (projects, audit entries), at any place (tenants, units),
or changes where it stands (all but the units that are given another number). It
rests on what `Sorted`, `Reverse`, `InsertAt` and
`SubSeq` do to positions. The sums are those of the community modules, defined by a
fold. `SumTheorems` proves what is needed of them (the empty sum, one element more
or less, monotony, the number of ones) for every finite set: the induction
theorems of the library take operators as parameters and are not usable here, so
induction over the naturals and over finite sets is stated with a set in the place
of the predicate.

Only model-checked, because they are out of the prover's reach: the liveness
properties (`EveryRequestEnds`, `AuditFollows`, `ProvisioningEnds`,
`AccountCallsEnd`, `PoolEnds`: fairness needs ENABLED). Every safety property and
every action property of a passing run is a theorem.

## What is left

The components that decide what is sold, who owns what data, who may work with
it, what is recorded of it and what is read back are modelled. What could follow:

1. `TenantMigrations`: the command line of `umzug` over several schemas, with
   interrupted migrations and their repetition. It is run by hand; `up all`
   reaches nothing at present (`schemaManager.js:107`).
2. `AccessControl`: the permission matrix and the middleware chain of all routes,
   with `UserAccounts`' tokens.
3. A link like `UnitsStepwise` between the tenants of `TenantProvisioning` and those
   that `UserAccounts` and `TenantReports` let change by themselves. At present both
   are written after `TenantDirectory`, and only its implementation by
   `TenantProvisioning` is checked.

## Not modelled, and why

The command line of the migrations is run by one operator while nothing else
runs, and most of what it does is in a library. Validation rules on lengths and formats, logging, response and error helpers,
swagger, Docker and the bootstrap have no state and no order that a property
could be about. `models/index.js`, `BookUnitDto`, `captureOldValues`,
`dropSchema`, `schemaExists`, `setSchemaSearchPath`, `requireOwnerOrAdmin` and `optionalAuth` are never
reached. Password hashing, JWT signatures and SQL itself belong to libraries.
