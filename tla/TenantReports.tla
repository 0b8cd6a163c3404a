------------------------------ MODULE TenantReports ------------------------------
(***************************************************************************)
(* What can be read across rows: the paged lists of projects, units, audit *)
(* entries and tenants, and the statistics of the super admin.             *)
(*                                                                         *)
(* A list is two statements, the page and the total, and a client that     *)
(* wants all of it asks page after page; the statistics are two counts,    *)
(* the list of active tenants and two statements per tenant.  None of them *)
(* runs in a transaction, so the tables change in between: the projects    *)
(* and the audit entries by ProjectCatalog, units and tenants by the steps *)
(* that UnitBooking and TenantProvisioning have in detail.                 *)
(***************************************************************************)
EXTENDS ProjectCatalog, FiniteSets, SequencesExt

CONSTANTS
    Readers,    \* those who ask for lists and statistics
    Reports,    \* what they may ask
    Limit,      \* rows of a page
    UnitIds,    \* ids of units, used and not yet used
    Numbers,    \* values of unit_number, in the order (project_id, unit_number)
    FirstUnits, \* the unit_number of each unit there is at the start
    FirstTenants,   \* the tenants there are at the start, in order of created_at
    MaxChanges  \* bound on the changes: requests, steps of units, of tenants

INSTANCE UnitRows   \* Statuses, Unit, NewUnit, UnitSteps

\* A request for a list: of what, of whose, and with the filter or without.
Lists == {"projects", "units", "logs", "tenants"}
Queries == [of : Lists, tenant : Tenants, activeOnly : BOOLEAN]
Stats == [of |-> "stats"]

ASSUME TenantReportsAssumption ==
    /\ Reports \subseteq Queries \cup {Stats}
    /\ IsFiniteSet(Tenants)
    /\ Limit \in Nat \ {0}
    /\ IsFiniteSet(UnitIds) /\ UnitIds \subseteq Nat
    /\ Numbers \subseteq Nat
    /\ FirstUnits \in [Tenants -> [UnitIds -> Numbers \cup {None}]]
    /\ FirstTenants \in Seq(Tenants)
    /\ \A i, j \in 1..Len(FirstTenants) : FirstTenants[i] = FirstTenants[j] => i = j
    /\ MaxChanges \in Nat
    /\ None \notin Reports \cup Unit \cup Numbers

\* What the statistics count.
TenantCounts == {"total", "active"}
RowCounts == {"projects", "units"} \cup Statuses
Counts == TenantCounts \cup RowCounts

VARIABLES
    tenants,    \* public.tenants, in the order of created_at
    active,     \* the tenants with is_active
    units,      \* the units table of each tenant
    left,       \* changes still to come
    rpc,        \* where each reader's handler is suspended
    ask,        \* what the reader asks
    page,       \* the page it asks for
    rows,       \* the rows of this page
    total,      \* the total answered with it
    todo,       \* statistics: tenants not counted yet
    sums,       \* statistics: the sums so far
    shown,      \* history: the rows shown since the first page
    atStart,    \* history: the rows there were before the first page
    moved,      \* history: readers of units in whose walk two orders were possible
    low, high,  \* history: the least and the most there was to count
    hit         \* history: the readers that met an error

tables == <<tenants, active, units, left>>
answers == <<page, rows, total, todo, sums>>
history == <<shown, atStart, moved, low, high, hit>>
vars == <<catalogVars, tables, rpc, ask, answers, history>>

UnitsOf(t) ==
    [p \in UnitIds |-> IF FirstUnits[t][p] = None THEN None ELSE NewUnit(FirstUnits[t][p])]
NoCounts == [c \in Counts |-> [t \in Tenants |-> 0]]
NoSums == [c \in Counts |-> 0]

Init ==
    /\ CatalogInit
    /\ tenants = FirstTenants
    /\ active = {FirstTenants[i] : i \in 1..Len(FirstTenants)}
    /\ units = [t \in Tenants |-> UnitsOf(t)]
    /\ left = MaxChanges
    /\ rpc = [r \in Readers |-> "idle"]
    /\ ask = [r \in Readers |-> None]
    /\ page = [r \in Readers |-> 1]
    /\ rows = [r \in Readers |-> <<>>]
    /\ total = [r \in Readers |-> 0]
    /\ todo = [r \in Readers |-> <<>>]
    /\ sums = [r \in Readers |-> NoSums]
    /\ shown = [r \in Readers |-> {}]
    /\ atStart = [r \in Readers |-> {}]
    /\ moved = {}
    /\ low = [r \in Readers |-> NoCounts]
    /\ high = [r \in Readers |-> NoCounts]
    /\ hit = {}

--------------------------------------------------------------------------------
\* What the statements count and list.

Stored(t, p) == units[t][p] # None
UnitsWith(t, statuses) ==
    {p \in UnitIds : Stored(t, p) /\ units[t][p].is_active /\ units[t][p].status \in statuses}

\* COUNT and SUM over the rows that are not soft deleted.
Count(c, t) ==
    CASE c = "total"    -> IF \E i \in 1..Len(tenants) : tenants[i] = t THEN 1 ELSE 0
      [] c = "active"   -> IF t \in active THEN 1 ELSE 0
      [] c = "projects" -> Cardinality({i \in 1..Len(projects[t]) : projects[t][i]["is_active"]})
      [] c = "units"    -> Cardinality(UnitsWith(t, Statuses))
      [] OTHER          -> Cardinality(UnitsWith(t, {c}))

\* The numbers of S in ascending order.
Sorted(S) == [i \in 1..Cardinality(S) |-> CHOOSE n \in S : Cardinality({m \in S : m <= n}) = i]

\* SELECT ... ORDER BY created_at DESC.
Listed(q) ==
    LET t == q.tenant
        Shows(is_active) == q.activeOnly => is_active
    IN  CASE q.of = "projects" ->
                Reverse(Sorted({i \in 1..Len(projects[t]) : Shows(projects[t][i]["is_active"])}))
          [] q.of = "logs" -> Reverse(logs[t])
          [] q.of = "tenants" ->
                LET places == Sorted({i \in 1..Len(tenants) : Shows(tenants[i] \in active)})
                IN  Reverse([i \in DOMAIN places |-> tenants[places[i]]])

\* ORDER BY project_id, unit_number: units of one number come in any order.
UnitsShown(q) ==
    {p \in UnitIds : Stored(q.tenant, p) /\ (q.activeOnly => units[q.tenant][p].is_active)}
UnitLists(q) ==
    {list \in SetToSeqs(UnitsShown(q)) :
        \A i, j \in DOMAIN list :
            i < j => units[q.tenant][list[i]].unit_number <= units[q.tenant][list[j]].unit_number}

\* What PostgreSQL may answer, each time it is asked.
Listings(q) == IF q.of = "units" THEN UnitLists(q) ELSE {Listed(q)}

\* Two units of t have one number, so that their order is open.
Tied(t) ==
    \E p, o \in UnitIds :
        /\ p # o /\ Stored(t, p) /\ Stored(t, o)
        /\ units[t][p].unit_number = units[t][o].unit_number

Now == [c \in Counts |-> [t \in Tenants |-> Count(c, t)]]

\* The readers of the statistics remember what they could have counted.
Least(m, n) == IF m < n THEN m ELSE n
Most(m, n) == IF m < n THEN n ELSE m
Counting(r) == rpc[r] \notin {"idle", "answered", "failed"} /\ ask[r] = Stats
Observe ==
    /\ low' = [r \in Readers |-> IF ~Counting(r) THEN low[r] ELSE
                  [c \in Counts |-> [t \in Tenants |-> Least(low[r][c][t], Now'[c][t])]]]
    /\ high' = [r \in Readers |-> IF ~Counting(r) THEN high[r] ELSE
                  [c \in Counts |-> [t \in Tenants |-> Most(high[r][c][t], Now'[c][t])]]]

--------------------------------------------------------------------------------
\* Changes of the tables.

\* tenantResolver admits a request only to a tenant that is active.
Admit(r) ==
    /\ left > 0
    /\ left' = left - 1
    /\ Receive(r)
    /\ Tenant(r)' \in active
    /\ UNCHANGED <<tenants, active, units, rpc, ask, answers, history>>

Change(r) ==
    /\ Handle(r)
    /\ UNCHANGED <<tables, rpc, ask, answers, shown, atStart, moved, hit>>
    /\ Observe

AsksUnits(r, t) == ask[r] \in Queries /\ ask[r].of = "units" /\ ask[r].tenant = t

\* A step of the units of t puts two of them in another order, or leaves it open.
Reorders(t) ==
    \/ Tied(t)'
    \/ \E p \in UnitIds : Stored(t, p) /\ units'[t][p].unit_number # units[t][p].unit_number

\* One statement of unit.repository.js; a PATCH may set unit_number, by which the
\* list is sorted.
ChangeUnit ==
    /\ left > 0
    /\ left' = left - 1
    /\ \E t \in active, p \in UnitIds : \E u \in UnitSteps(units[t][p]) :
          /\ units' = [units EXCEPT ![t][p] = u]
          /\ moved' = moved \cup {r \in Readers : AsksUnits(r, t) /\ Reorders(t)}
    /\ UNCHANGED <<catalogVars, tenants, active, rpc, ask, answers, shown, atStart, hit>>
    /\ Observe

\* A creation is committed.  created_at is that of its INSERT, long before, so a
\* tenant created meanwhile may come after it in the order.
CreateTenant ==
    /\ left > 0
    /\ left' = left - 1
    /\ \E t \in Tenants, i \in 1..Len(tenants) + 1 :
          /\ Count("total", t) = 0
          /\ tenants' = InsertAt(tenants, i, t)
          /\ active' = active \cup {t}
    /\ UNCHANGED <<catalogVars, units, rpc, ask, answers, shown, atStart, moved, hit>>
    /\ Observe

\* activateTenant and deactivateTenant.
SwitchTenant ==
    /\ left > 0
    /\ left' = left - 1
    /\ \E t \in Tenants :
          /\ Count("total", t) = 1
          /\ active' = IF t \in active THEN active \ {t} ELSE active \cup {t}
    /\ UNCHANGED <<catalogVars, tenants, units, rpc, ask, answers, shown, atStart, moved, hit>>
    /\ Observe

--------------------------------------------------------------------------------
\* Lists.

Ask(r) ==
    /\ rpc[r] = "idle"
    /\ \E q \in Reports :
          /\ q # Stats /\ q.of # "tenants" => q.tenant \in active
          /\ ask' = [ask EXCEPT ![r] = q]
          /\ IF q = Stats
             THEN /\ rpc' = [rpc EXCEPT ![r] = "countTotal"]
                  /\ low' = [low EXCEPT ![r] = Now]
                  /\ high' = [high EXCEPT ![r] = Now]
                  /\ UNCHANGED <<atStart, moved>>
             ELSE /\ rpc' = [rpc EXCEPT ![r] = "page"]
                  /\ \E list \in Listings(q) : atStart' = [atStart EXCEPT ![r] = ToSet(list)]
                  /\ moved' = IF q.of = "units" /\ Tied(q.tenant) THEN moved \cup {r} ELSE moved
                  /\ UNCHANGED <<low, high>>
    /\ UNCHANGED <<catalogVars, tables, answers, shown, hit>>

Step(r, from, to) ==
    /\ rpc[r] = from
    /\ rpc' = [rpc EXCEPT ![r] = to]

Offset(r) == (page[r] - 1) * Limit
Page(seq, offset) == SubSeq(seq, offset + 1, Least(offset + Limit, Len(seq)))

\* Variant: pages are numbered from 0.
ReadPageFromZero(r) ==
    /\ Step(r, "page", "count")
    /\ \E list \in Listings(ask[r]) : rows' = [rows EXCEPT ![r] = Page(list, page[r] * Limit)]
    /\ shown' = [shown EXCEPT ![r] = @ \cup ToSet(rows'[r])]
    /\ UNCHANGED <<catalogVars, tables, ask, page, total, todo, sums, atStart, moved, low, high, hit>>

\* findAll: LIMIT and OFFSET.
ReadPage(r) ==
    /\ Step(r, "page", "count")
    /\ \E list \in Listings(ask[r]) : rows' = [rows EXCEPT ![r] = Page(list, Offset(r))]
    /\ shown' = [shown EXCEPT ![r] = @ \cup ToSet(rows'[r])]
    /\ UNCHANGED <<catalogVars, tables, ask, page, total, todo, sums, atStart, moved, low, high, hit>>

\* Variant: only rows that are not soft deleted are counted.
CountActiveRows(r) ==
    /\ Step(r, "count", "answered")
    /\ \E list \in Listings([ask[r] EXCEPT !.activeOnly = TRUE]) :
          total' = [total EXCEPT ![r] = Len(list)]
    /\ UNCHANGED <<catalogVars, tables, ask, page, rows, todo, sums, history>>

\* count, and the answer.
CountRows(r) ==
    /\ Step(r, "count", "answered")
    /\ \E list \in Listings(ask[r]) : total' = [total EXCEPT ![r] = Len(list)]
    /\ UNCHANGED <<catalogVars, tables, ask, page, rows, todo, sums, history>>

\* An error of findAll or count is swallowed: no rows, or none in total.
ListError(r) ==
    /\ "sql" \in Faults
    /\ rpc[r] \in {"page", "count"} /\ ask[r].of # "tenants"
    /\ \/ Step(r, "page", "count") /\ rows' = [rows EXCEPT ![r] = <<>>] /\ UNCHANGED total
       \/ Step(r, "count", "answered") /\ total' = [total EXCEPT ![r] = 0] /\ UNCHANGED rows
    /\ hit' = hit \cup {r}
    /\ UNCHANGED <<catalogVars, tables, ask, page, todo, sums, shown, atStart, moved, low, high>>

\* The client has the page it wanted, or goes on until it has all there is.
NextPage(r) ==
    /\ Offset(r) + Limit < total[r]
    /\ Step(r, "answered", "page")
    /\ page' = [page EXCEPT ![r] = @ + 1]
    /\ rows' = [rows EXCEPT ![r] = <<>>]
    /\ total' = [total EXCEPT ![r] = 0]
    /\ UNCHANGED <<catalogVars, tables, ask, todo, sums, history>>

--------------------------------------------------------------------------------
\* Statistics.

CountTenants(r, from, to, c, n) ==
    /\ Step(r, from, to)
    /\ sums' = [sums EXCEPT ![r][c] = n]
    /\ UNCHANGED <<catalogVars, tables, ask, page, rows, total, todo, history>>

CountTotal(r) == CountTenants(r, "countTotal", "countActive", "total", Len(tenants))
CountActive(r) == CountTenants(r, "countActive", "list", "active", Cardinality(active))

\* PostgreSQL lists the active tenants in any order.
ListActive(r) ==
    /\ Step(r, "list", "projects")
    /\ \E seq \in SetToSeqs(active) : todo' = [todo EXCEPT ![r] = seq]
    /\ UNCHANGED <<catalogVars, tables, ask, page, rows, total, sums, history>>

AddProjects(r) ==
    /\ todo[r] # <<>>
    /\ Step(r, "projects", "units")
    /\ sums' = [sums EXCEPT ![r]["projects"] = @ + Count("projects", Head(todo[r]))]
    /\ UNCHANGED <<catalogVars, tables, ask, page, rows, total, todo, history>>

\* Variant: the units are counted without WHERE is_active = true.
AddAllUnits(r) ==
    /\ Step(r, "units", "projects")
    /\ LET t == Head(todo[r])
           n == Cardinality({p \in UnitIds : Stored(t, p)})
       IN  /\ sums' = [sums EXCEPT ![r] = [c \in Counts |->
                          IF c = "units" THEN @[c] + n
                          ELSE IF c \in Statuses THEN @[c] + Count(c, t) ELSE @[c]]]
           /\ todo' = [todo EXCEPT ![r] = Tail(@)]
    /\ UNCHANGED <<catalogVars, tables, ask, page, rows, total, history>>

\* One SELECT has the units of all kinds.
AddUnits(r) ==
    /\ Step(r, "units", "projects")
    /\ LET t == Head(todo[r])
       IN  /\ sums' = [sums EXCEPT ![r] = [c \in Counts |->
                          IF c \in Statuses \cup {"units"} THEN @[c] + Count(c, t) ELSE @[c]]]
           /\ todo' = [todo EXCEPT ![r] = Tail(@)]
    /\ UNCHANGED <<catalogVars, tables, ask, page, rows, total, history>>

SendStats(r) ==
    /\ todo[r] = <<>>
    /\ Step(r, "projects", "answered")
    /\ UNCHANGED <<catalogVars, tables, ask, answers, history>>

\* Errors of the statistics and of the list of tenants are answered 500.
ReportError(r) ==
    /\ "sql" \in Faults
    /\ rpc[r] \notin {"idle", "answered", "failed"}
    /\ ask[r] = Stats \/ ask[r].of = "tenants"
    /\ rpc' = [rpc EXCEPT ![r] = "failed"]
    /\ UNCHANGED <<catalogVars, tables, ask, answers, history>>

Report(r) ==
    \/ ReadPage(r) \/ CountRows(r) \/ ListError(r)
    \/ CountTotal(r) \/ CountActive(r) \/ ListActive(r)
    \/ AddProjects(r) \/ AddUnits(r) \/ SendStats(r) \/ ReportError(r)

\* No request is in flight: the server waits for the next.
Quiet ==
    /\ \A r \in Requests : pc[r] \in {"idle", "done"} /\ audit[r] # "due"
    /\ \A r \in Readers : rpc[r] \in {"idle", "answered", "failed"}
    /\ UNCHANGED vars

Next ==
    \/ \E r \in Requests : Admit(r) \/ Change(r)
    \/ ChangeUnit \/ CreateTenant \/ SwitchTenant
    \/ \E r \in Readers : Ask(r) \/ NextPage(r) \/ Report(r)
    \/ Quiet

Spec == Init /\ [][Next]_vars
--------------------------------------------------------------------------------
\* Properties.

\* What identifies a row of a list: the place of a project, the id of a unit, the
\* request of an audit entry, a tenant.
RowIds == Nat \cup Requests \cup Tenants

\* Every variable keeps its type.
TypeOK ==
    /\ CatalogTypeOK
    /\ tenants \in Seq(Tenants) /\ active \subseteq ToSet(tenants)
    /\ units \in [Tenants -> [UnitIds -> Unit \cup {None}]]
    /\ left \in 0..MaxChanges
    /\ rpc \in [Readers -> {"idle", "page", "count", "countTotal", "countActive", "list",
                            "projects", "units", "answered", "failed"}]
    /\ ask \in [Readers -> Reports \cup {None}]
    /\ page \in [Readers -> Nat \ {0}]
    /\ rows \in [Readers -> Seq(RowIds)] /\ \A r \in Readers : Len(rows[r]) <= Limit
    /\ total \in [Readers -> Nat]
    /\ todo \in [Readers -> Seq(Tenants)]
    /\ sums \in [Readers -> [Counts -> Nat]]
    /\ shown \in [Readers -> SUBSET RowIds] /\ atStart \in [Readers -> SUBSET RowIds]
    /\ moved \subseteq Readers
    /\ low \in [Readers -> [Counts -> [Tenants -> Nat]]]
    /\ high \in [Readers -> [Counts -> [Tenants -> Nat]]]
    /\ hit \subseteq Readers

\* An answer of a list without the filter that met no error.
Answered(r) == rpc[r] = "answered" /\ ask[r] # Stats /\ ~ask[r].activeOnly /\ r \notin hit

\* The total covers the page it is sent with, although another statement counted
\* it later (project.service.js:24 and :31): rows are only ever added.
TotalCovers ==
    \A r \in Readers : Answered(r) /\ rows[r] # <<>> => Offset(r) + Len(rows[r]) <= total[r]

\* What r was shown page by page was in one order.
InOrder(r) == ask[r].of = "units" => r \notin moved

\* A client that asks page after page until it has reached the total has been shown
\* every row there was when it began.  Projects, audit entries and tenants are sorted
\* by created_at, which is never set again: whatever is written meanwhile, rows that
\* are added push others to later pages and take none to an earlier one.  Units are
\* sorted by what PATCH may set and no index keeps apart (unit.repository.js:100):
\* of them it holds for the walks in which no unit changed its number and no two had
\* one, whatever else was written; in any other a row may change sides unseen.
WalkComplete ==
    \A r \in Readers :
        Answered(r) /\ InOrder(r) /\ Offset(r) + Limit >= total[r] => atStart[r] \subseteq shown[r]

\* The statistics, read by many statements while everything changes
\* (superAdminStats.controller.js:35), are no fiction: each number lies between
\* what was there at least and at most, a tenant active all the time is counted
\* and one never active is not, and the units add up to their total.
StatsJustified ==
    \A r \in Readers : rpc[r] = "answered" /\ ask[r] = Stats =>
        /\ \A c \in TenantCounts :
              sums[r][c] \in SumFunctionOnSet(low[r][c], Tenants)..SumFunctionOnSet(high[r][c], Tenants)
        /\ \A c \in RowCounts :
              sums[r][c] \in
                  SumFunctionOnSet(low[r][c], {t \in Tenants : low[r]["active"][t] = 1})
                  ..SumFunctionOnSet(high[r][c], {t \in Tenants : high[r]["active"][t] = 1})
        /\ sums[r]["units"] = sums[r]["Available"] + sums[r]["Booked"] + sums[r]["Sold"]
================================================================================
