--------------------------- MODULE TenantReportsProofs ---------------------------
(***************************************************************************)
(* TenantReports adds readers, units and tenants to ProjectCatalog, and    *)
(* takes no step of its projects and audit entries that ProjectCatalog     *)
(* does not take: what is proved of the one is true in the other.          *)
(*                                                                         *)
(* What a reader is told follows from RInv.  Of a list it says where the   *)
(* rows are that were there at the start and are not shown yet: behind the *)
(* page that was read last (Paged), a unit if no number was given anew and *)
(* no two units had one (Steady).  Of the statistics it says that every    *)
(* number lies between the sums of the least and of the most that each     *)
(* tenant counted so far had (Tallied), which lie themselves on either     *)
(* side of what the table has now (Bounded).                               *)
(***************************************************************************)
EXTENDS TenantReportsLists, ProjectCatalogProofs, SumTheorems

\* Lists, statistics, units and tenants stutter on the projects and the entries; a
\* request and its handler make the steps of ProjectCatalog.
LEMMA StepsAreCatalogSteps == [Next]_vars => [CatalogNext]_catalogVars
  <1> SUFFICES ASSUME [Next]_vars PROVE [CatalogNext]_catalogVars
    OBVIOUS
  <1>1. CASE UNCHANGED vars
    BY <1>1 DEF vars
  <1>2. ASSUME NEW r \in Requests, Admit(r) PROVE CatalogNext
    BY <1>2 DEF Admit, CatalogNext
  <1>3. ASSUME NEW r \in Requests, Change(r) PROVE CatalogNext
    BY <1>3 DEF Change, CatalogNext
  <1>4. CASE ChangeUnit \/ CreateTenant \/ SwitchTenant
    BY <1>4 DEF ChangeUnit, CreateTenant, SwitchTenant
  <1>5. ASSUME NEW r \in Readers, Ask(r) \/ NextPage(r) PROVE UNCHANGED catalogVars
    BY <1>5 DEF Ask, NextPage
  <1>6. ASSUME NEW r \in Readers, Report(r) PROVE UNCHANGED catalogVars
    BY <1>6 DEF Report, ReadPage, CountRows, ListError, CountTotal, CountActive, CountTenants,
                ListActive, AddProjects, AddUnits, SendStats, ReportError
  <1>7. CASE Quiet
    BY <1>7 DEF Quiet, vars
  <1> QED
    BY <1>1, <1>2, <1>3, <1>4, <1>5, <1>6, <1>7 DEF Next

\* The readers and the other tables leave the projects component alone.
THEOREM ImplementsCatalog == Spec => CatalogSpec
  <1>1. Init => CatalogInit
    BY DEF Init
  <1> QED
    BY <1>1, StepsAreCatalogSteps, PTL DEF Spec, CatalogSpec

\* No update is lost while lists and statistics are read and tenants come and go.
THEOREM NoUpdateLostInReports == Spec => []NoUpdateLost
  BY ImplementsCatalog, NoUpdateLostHolds

\* Neither is the audit log any less true.
THEOREM LogTellsTruthInReports == Spec => []LogTellsTruth
  BY ImplementsCatalog, LogTellsTruthHolds

--------------------------------------------------------------------------------
\* Rows are only ever added.

\* ProjectCatalog deletes no row: a DELETE is an UPDATE of is_active.
LEMMA CatalogGrows ==
    ASSUME IInv, [CatalogNext]_catalogVars
    PROVE  /\ \A t \in Tenants : Len(projects[t]) <= Len(projects'[t])
           /\ \A t \in Tenants :
                 logs'[t] = logs[t] \/ \E x \in Requests : logs'[t] = Append(logs[t], x)
  <1>0. CatalogTypeOK
    BY DEF IInv
  <1>1. \A t \in Tenants : projects[t] \in Seq(Row) /\ Len(projects[t]) \in Nat
    BY <1>0 DEF CatalogTypeOK
  <1>2. ASSUME projects' = projects PROVE \A t \in Tenants : Len(projects[t]) <= Len(projects'[t])
    BY <1>1, <1>2
  <1>3. CASE UNCHANGED catalogVars
    BY <1>2, <1>3 DEF catalogVars
  <1>4. ASSUME NEW r \in Requests,
               \/ Receive(r) \/ ReadOld(r) \/ FindProject(r) \/ NotFound(r)
               \/ WriteFails(r) \/ Respond(r) \/ LoseEntry(r)
        PROVE  projects' = projects /\ logs' = logs
    BY <1>4 DEF Receive, ReadOld, FindProject, NotFound, WriteFails, Respond, LoseEntry
  <1>5. ASSUME NEW r \in Requests, InsertProject(r)
        PROVE  logs' = logs /\ \A t \in Tenants : Len(projects[t]) <= Len(projects'[t])
    <2>1. Facts(r) /\ pc[r] = "write"
      BY <1>5 DEF IInv, InsertProject
    <2>2. Tenant(r) \in Tenants /\ projects \in [Tenants -> Seq(Row)]
      BY <1>0, <2>1 DEF Facts, CatalogTypeOK
    <2>3. \A t \in Tenants :
             projects'[t] = IF t = Tenant(r) THEN Append(projects[t], NewRow(call[r].sets))
                            ELSE projects[t]
      BY <1>5, <2>2 DEF InsertProject
    <2>4. ASSUME NEW t \in Tenants PROVE Len(projects[t]) <= Len(projects'[t])
      <3>1. Len(Append(projects[t], NewRow(call[r].sets))) = Len(projects[t]) + 1
        BY <1>1
      <3>2. Len(projects'[t]) \in {Len(projects[t]), Len(projects[t]) + 1}
        BY <2>3, <3>1, Zenon
      <3> QED
        BY <1>1, <3>2
    <2> QED
      BY <1>5, <2>4 DEF InsertProject, Commit
  <1>6. ASSUME NEW r \in Requests, UpdateProject(r)
        PROVE  logs' = logs /\ \A t \in Tenants : Len(projects[t]) <= Len(projects'[t])
    <2>1. \A t \in Tenants : Len(projects'[t]) = Len(projects[t])
      BY <1>0, <1>6 DEF UpdateProject, CatalogTypeOK
    <2> QED
      BY <1>1, <1>6, <2>1 DEF UpdateProject, Commit
  <1>7. ASSUME NEW r \in Requests, WriteEntry(r)
        PROVE  /\ projects' = projects
               /\ \A t \in Tenants :
                     logs'[t] = logs[t] \/ \E x \in Requests : logs'[t] = Append(logs[t], x)
    BY <1>0, <1>7 DEF WriteEntry, CatalogTypeOK
  <1> QED
    BY <1>2, <1>3, <1>4, <1>5, <1>6, <1>7 DEF CatalogNext, Handle

\* A statement leaves a row behind.
LEMMA UnitStepsAreUnits ==
    ASSUME NEW u \in Unit \cup {None}, NEW w \in UnitSteps(u)
    PROVE  w \in Unit
  <1>1. CASE u = None
    <2>1. PICK n \in Numbers : w = NewUnit(n)
      BY <1>1 DEF UnitSteps
    <2> QED
      BY <2>1 DEF NewUnit, Unit, Statuses
  <1>2. CASE u \in Unit
    <2>1. u # None
      BY <1>2, TenantReportsAssumption
    <2> DEFINE With(status) == [u EXCEPT !.status = status]
    <2>2. w \in Patched(u) \/ w = With("Booked") \/ w = With("Sold")
      BY <2>1 DEF UnitSteps
    <2>3. Patched(u) \subseteq Unit
      BY DEF Patched
    <2>4. ASSUME NEW status \in {"Booked", "Sold"}, w = With(status)
          PROVE  w \in Unit
      BY <1>2, <2>4 DEF Unit, Statuses
    <2> QED
      BY <2>2, <2>3, <2>4
  <1> QED
    BY <1>1, <1>2

\* No step takes a row out of a table.
LEMMA NextGrows ==
    ASSUME IInv, TypeOK, [Next]_vars
    PROVE  TablesGrow
  <1>1. [CatalogNext]_catalogVars
    BY StepsAreCatalogSteps
  <1>2. /\ \A t \in Tenants : Len(projects[t]) <= Len(projects'[t])
        /\ \A t \in Tenants :
              logs'[t] = logs[t] \/ \E x \in Requests : logs'[t] = Append(logs[t], x)
    BY <1>1, CatalogGrows
  <1>3. ASSUME UNCHANGED <<tenants, units>> PROVE TablesGrow
    BY <1>2, <1>3 DEF TablesGrow, Stored
  <1>4. CASE ChangeUnit
    <2>0. PICK t \in active, p \in UnitIds :
             \E u \in UnitSteps(units[t][p]) : units' = [units EXCEPT ![t][p] = u]
      BY <1>4 DEF ChangeUnit
    <2>1. PICK u \in UnitSteps(units[t][p]) : units' = [units EXCEPT ![t][p] = u]
      BY <2>0
    <2>2. units[t][p] # None => u # None
      <3>0. t \in Tenants
        BY DEF TypeOK, ToSet
      <3>1. units[t][p] \in Unit \cup {None}
        BY <3>0 DEF TypeOK
      <3>2. u \in Unit
        BY <2>1, <3>1, UnitStepsAreUnits
      <3> QED
        BY <3>2, TenantReportsAssumption
    <2>3. \A s \in Tenants, q \in UnitIds : Stored(s, q) => Stored(s, q)'
      BY <2>1, <2>2 DEF Stored, TypeOK
    <2> QED
      BY <1>2, <1>4, <2>3 DEF TablesGrow, ChangeUnit
  <1>5. CASE CreateTenant
    <2>1. units' = units
      BY <1>5 DEF CreateTenant
    <2>2. \E t \in Tenants, k \in 1..Len(tenants) + 1 : tenants' = InsertAt(tenants, k, t)
      BY <1>5 DEF CreateTenant
    <2> QED
      BY <1>2, <2>1, <2>2 DEF TablesGrow, Stored
  <1>6. CASE SwitchTenant
    BY <1>3, <1>6 DEF SwitchTenant
  <1>7. ASSUME NEW r \in Requests, Admit(r) \/ Change(r) PROVE TablesGrow
    BY <1>3, <1>7 DEF Admit, Change, tables
  <1>8. ASSUME NEW r \in Readers, Ask(r) \/ NextPage(r) \/ Report(r) PROVE TablesGrow
    BY <1>3, <1>8 DEF Ask, NextPage, Report, ReadPage, CountRows, ListError, CountTotal, CountActive,
                      CountTenants, ListActive, AddProjects, AddUnits, SendStats, ReportError, tables
  <1>9. CASE UNCHANGED vars
    BY <1>3, <1>9 DEF vars, tables
  <1> QED
    BY <1>4, <1>5, <1>6, <1>7, <1>8, <1>9 DEF Next, Quiet

--------------------------------------------------------------------------------
\* The inductive invariant.

\* Positions of the statistics: the two counts of tenants, then those of rows.
CountingTenants == {"countTotal", "countActive", "list"}
CountingRows == {"projects", "units"}

\* What the position of a reader says of its question.
Asked(r) ==
    /\ rpc[r] = "idle" => ask[r] = None /\ page[r] = 1 /\ total[r] = 0 /\ sums[r] = NoSums
    /\ rpc[r] # "idle" => ask[r] \in Reports
    /\ rpc[r] \in {"page", "count"} => ask[r] \in Queries
    /\ rpc[r] \in CountingTenants \cup CountingRows => ask[r] = Stats
    /\ ask[r] = Stats => total[r] = 0

\* The list q was in one order since r began.
Steady(r, q) == q.of = "units" => r \notin moved

\* The rows of the start that were not shown are behind the first k of the list q.
Behind(r, q, k) == Steady(r, q) => \A x \in atStart[r] \ shown[r] : Further(q, x, k)

\* The page fits in n rows.
Fits(r, n) == rows[r] # <<>> => Offset(r) + Len(rows[r]) <= n

\* Where a reader of the list q stands.
Paged(r, q) ==
    /\ rpc[r] \in {"page", "count", "answered"} /\ q.of = "units" /\ Steady(r, q) => ~Tied(q.tenant)
    /\ rpc[r] = "page" => Behind(r, q, Offset(r))
    /\ rpc[r] = "count" => Behind(r, q, Offset(r) + Limit) /\ Fits(r, Size(q))
    /\ rpc[r] = "answered" =>
          /\ Behind(r, q, Offset(r) + Limit) /\ Fits(r, total[r])
          /\ Steady(r, q) /\ Offset(r) + Limit >= total[r] => atStart[r] \subseteq shown[r]

\* What there is lies between the least and the most that r may have counted.
Bounded(r) ==
    /\ \A c \in Counts, t \in Tenants :
          low[r][c][t] <= Count(c, t) /\ Count(c, t) <= high[r][c][t]
    /\ \A t \in Tenants : high[r]["active"][t] <= 1

\* The sum of c is one that could be counted over the tenants of T.
Within(r, c, T) ==
    SumFunctionOnSet(low[r][c], T) <= sums[r][c] /\ sums[r][c] <= SumFunctionOnSet(high[r][c], T)

\* The tenants that were active in all the states since r began, and in one of them.
AlwaysActive(r) == {t \in Tenants : low[r]["active"][t] = 1}
OnceActive(r) == {t \in Tenants : high[r]["active"][t] = 1}

\* The tenants of D are counted, those of todo not yet; between its two statements
\* the projects of the first of todo are.
Tallied(r, D) ==
    /\ D \cap ToSet(todo[r]) = {}
    /\ AlwaysActive(r) \subseteq D \cup ToSet(todo[r])
    /\ D \cup ToSet(todo[r]) \subseteq OnceActive(r)
    /\ \A i, j \in 1..Len(todo[r]) : todo[r][i] = todo[r][j] => i = j
    /\ rpc[r] = "units" => todo[r] # <<>>
    /\ rpc[r] = "answered" => todo[r] = <<>>
    /\ \A c \in RowCounts \ {"projects"} : Within(r, c, D)
    /\ Within(r, "projects", IF rpc[r] = "units" THEN D \cup {Head(todo[r])} ELSE D)

\* Where a reader of the statistics stands.
Counted(r) ==
    /\ rpc[r] \in CountingTenants \cup CountingRows => Bounded(r)
    /\ rpc[r] \in CountingTenants => \A c \in RowCounts : sums[r][c] = 0
    /\ rpc[r] \in {"countActive", "list", "answered"} \cup CountingRows => Within(r, "total", Tenants)
    /\ rpc[r] \in {"list", "answered"} \cup CountingRows => Within(r, "active", Tenants)
    /\ rpc[r] \in CountingRows \cup {"answered"} => \E D \in SUBSET Tenants : Tallied(r, D)
    /\ sums[r]["units"] = sums[r]["Available"] + sums[r]["Booked"] + sums[r]["Sold"]

\* A tenant is in the table once.
TenantsDiffer == \A i, j \in 1..Len(tenants) : tenants[i] = tenants[j] => i = j

\* Of a list that hides nothing and met no error, and of the statistics.
ReaderInv(r) ==
    /\ Asked(r)
    /\ \A q \in Queries : ask[r] = q /\ ~q.activeOnly /\ r \notin hit => Paged(r, q)
    /\ ask[r] = Stats => Counted(r)

\* The inductive invariant, together with that of ProjectCatalog.
RInv ==
    /\ TypeOK
    /\ TenantsDiffer
    /\ \A r \in Readers : ReaderInv(r)

--------------------------------------------------------------------------------
\* The parts of TypeOK: of the tables, of the questions, of the answers, of what
\* was shown and of what there was to count.
TablesOK ==
    /\ tenants \in Seq(Tenants) /\ active \subseteq ToSet(tenants)
    /\ units \in [Tenants -> [UnitIds -> Unit \cup {None}]]
    /\ left \in 0..MaxChanges
QuestionsOK ==
    /\ rpc \in [Readers -> {"idle", "page", "count", "countTotal", "countActive", "list",
                            "projects", "units", "answered", "failed"}]
    /\ ask \in [Readers -> Reports \cup {None}]
AnswersOK ==
    /\ page \in [Readers -> Nat \ {0}]
    /\ rows \in [Readers -> Seq(RowIds)] /\ \A r \in Readers : Len(rows[r]) <= Limit
    /\ total \in [Readers -> Nat]
    /\ todo \in [Readers -> Seq(Tenants)]
    /\ sums \in [Readers -> [Counts -> Nat]]
ShownOK ==
    /\ shown \in [Readers -> SUBSET RowIds] /\ atStart \in [Readers -> SUBSET RowIds]
    /\ moved \subseteq Readers /\ hit \subseteq Readers
BoundsOK ==
    /\ low \in [Readers -> [Counts -> [Tenants -> Nat]]]
    /\ high \in [Readers -> [Counts -> [Tenants -> Nat]]]

\* Together they are TypeOK.
LEMMA TypeParts ==
    TypeOK <=> CatalogTypeOK /\ TablesOK /\ QuestionsOK /\ AnswersOK /\ ShownOK /\ BoundsOK
  BY DEF TypeOK, TablesOK, QuestionsOK, AnswersOK, ShownOK, BoundsOK

--------------------------------------------------------------------------------
\* What the statements count.

\* A count of rows is a number, of a tenant nought or one, and a unit is of one kind.
CountsOK ==
    \A t \in Tenants :
        /\ \A c \in Counts : Count(c, t) \in Nat
        /\ Count("total", t) = IF t \in ToSet(tenants) THEN 1 ELSE 0
        /\ Count("active", t) = IF t \in active THEN 1 ELSE 0
        /\ Count("units", t) = Count("Available", t) + Count("Booked", t) + Count("Sold", t)

\* What the counts are, whatever the readers do.
LEMMA CountFacts == CatalogTypeOK /\ TablesOK => CountsOK
  <1> SUFFICES ASSUME CatalogTypeOK, TablesOK, NEW t \in Tenants
               PROVE  /\ \A c \in Counts : Count(c, t) \in Nat
                      /\ Count("total", t) = IF t \in ToSet(tenants) THEN 1 ELSE 0
                      /\ Count("active", t) = IF t \in active THEN 1 ELSE 0
                      /\ Count("units", t) =
                            Count("Available", t) + Count("Booked", t) + Count("Sold", t)
    BY DEF CountsOK
  <1>1. Count("total", t) = IF t \in ToSet(tenants) THEN 1 ELSE 0
    <2>1. DOMAIN tenants = 1..Len(tenants)
      BY DEF TablesOK
    <2>2. t \in ToSet(tenants) <=> \E i \in 1..Len(tenants) : tenants[i] = t
      BY <2>1 DEF ToSet
    <2> QED
      BY <2>2 DEF Count
  <1>2. Count("active", t) = IF t \in active THEN 1 ELSE 0
    BY DEF Count
  <1>3. Count("projects", t) \in Nat
    <2> DEFINE S == {i \in 1..Len(projects[t]) : projects[t][i]["is_active"]}
    <2>1. Len(projects[t]) \in Nat
      BY DEF CatalogTypeOK
    <2>2. S \in SUBSET (1..Len(projects[t]))
      OBVIOUS
    <2>3. Count("projects", t) = Cardinality(S)
      BY DEF Count
    <2> HIDE DEF S
    <2>4. IsFiniteSet(S)
      BY <2>1, <2>2, IntervalSubset
    <2> QED
      BY <2>3, <2>4, FS_CardinalityType
  <1> DEFINE U(s) == UnitsWith(t, s)
  <1>4. ASSUME NEW s PROVE IsFiniteSet(U(s)) /\ Cardinality(U(s)) \in Nat
    <2>1. U(s) \in SUBSET UnitIds
      BY DEF UnitsWith
    <2> HIDE DEF U
    <2>2. IsFiniteSet(U(s))
      BY <2>1, TenantReportsAssumption, FS_Subset
    <2> QED
      BY <2>2, FS_CardinalityType
  <1>5. Count("units", t) = Cardinality(U(Statuses))
    BY DEF Count
  <1>6. ASSUME NEW c \in Statuses PROVE Count(c, t) = Cardinality(U({c}))
    BY DEF Count, Statuses
  <1>7. Cardinality(U(Statuses)) =
           Cardinality(U({"Available"})) + Cardinality(U({"Booked"})) + Cardinality(U({"Sold"}))
    <2> DEFINE a == U({"Available"})
               b == U({"Booked"})
               c == U({"Sold"})
    <2>1. U(Statuses) = (a \cup b) \cup c /\ a \cap b = {} /\ (a \cup b) \cap c = {}
      BY DEF UnitsWith, Statuses
    <2>2. /\ IsFiniteSet(a) /\ IsFiniteSet(b) /\ IsFiniteSet(c)
          /\ Cardinality(a) \in Nat /\ Cardinality(b) \in Nat /\ Cardinality(c) \in Nat
      BY <1>4
    <2>3. Cardinality({}) = 0
      BY FS_EmptySet
    <2> HIDE DEF U, a, b, c
    <2>4. IsFiniteSet(a \cup b) /\ Cardinality(a \cup b) = Cardinality(a) + Cardinality(b)
      <3>1. /\ IsFiniteSet(a \cup b)
            /\ Cardinality(a \cup b) = Cardinality(a) + Cardinality(b) - Cardinality(a \cap b)
        BY <2>2, FS_Union
      <3>2. Cardinality(a \cap b) = 0
        BY <2>1, <2>3, Zenon
      <3> QED
        BY <2>2, <3>1, <3>2
    <2>5. Cardinality((a \cup b) \cup c) = Cardinality(a \cup b) + Cardinality(c)
      <3>1. Cardinality((a \cup b) \cup c) =
               Cardinality(a \cup b) + Cardinality(c) - Cardinality((a \cup b) \cap c)
        BY <2>2, <2>4, FS_Union
      <3>2. Cardinality((a \cup b) \cap c) = 0
        BY <2>1, <2>3, Zenon
      <3>3. Cardinality(a \cup b) \in Nat
        BY <2>4, FS_CardinalityType
      <3> QED
        BY <2>2, <3>1, <3>2, <3>3
    <2>6. Cardinality(U(Statuses)) = Cardinality(a) + Cardinality(b) + Cardinality(c)
      BY <2>1, <2>4, <2>5
    <2> QED
      BY <2>6 DEF a, b, c
  <1>8. ASSUME NEW c \in Counts PROVE Count(c, t) \in Nat
    <2> HIDE DEF U
    <2>1. CASE c \in TenantCounts
      BY <1>1, <1>2, <2>1 DEF TenantCounts
    <2>2. CASE c = "projects" \/ c = "units"
      BY <1>3, <1>4, <1>5, <2>2
    <2>3. CASE c \in Statuses
      BY <1>4, <1>6, <2>3
    <2> QED
      BY <2>1, <2>2, <2>3 DEF Counts, RowCounts
  <1>9. Count("units", t) = Count("Available", t) + Count("Booked", t) + Count("Sold", t)
    <2>1. "Available" \in Statuses /\ "Booked" \in Statuses /\ "Sold" \in Statuses
      BY DEF Statuses
    <2> HIDE DEF U
    <2> QED
      BY <1>5, <1>6, <1>7, <2>1
  <1> QED
    BY <1>1, <1>2, <1>8, <1>9

\* The rows of public.tenants, and the active ones, are the sums over the tenants.
LEMMA TenantSums ==
    ASSUME TypeOK, TenantsDiffer
    PROVE  /\ Len(tenants) \in Nat
           /\ Len(tenants) = SumFunctionOnSet([t \in Tenants |-> Count("total", t)], Tenants)
           /\ IsFiniteSet(active) /\ Cardinality(active) \in Nat
           /\ Cardinality(active) = SumFunctionOnSet([t \in Tenants |-> Count("active", t)], Tenants)
  <1> DEFINE f == [t \in Tenants |-> Count("total", t)]
             g == [t \in Tenants |-> Count("active", t)]
  <1>0. IsFiniteSet(Tenants)
    BY TenantReportsAssumption
  <1>1. /\ tenants \in [1..Len(tenants) -> Tenants] /\ Len(tenants) \in Nat
        /\ ToSet(tenants) \in SUBSET Tenants /\ active \in SUBSET Tenants
    BY DEF TypeOK, ToSet
  <1>2. /\ \A t \in Tenants : f[t] = IF t \in ToSet(tenants) THEN 1 ELSE 0
        /\ \A t \in Tenants : g[t] = IF t \in active THEN 1 ELSE 0
    BY CountFacts, TypeParts DEF CountsOK
  <1>3. {t \in Tenants : f[t] = 1} = ToSet(tenants) /\ {t \in Tenants : g[t] = 1} = active
    BY <1>1, <1>2
  <1>4. /\ SumFunctionOnSet(f, Tenants) = Cardinality({t \in Tenants : f[t] = 1})
        /\ SumFunctionOnSet(g, Tenants) = Cardinality({t \in Tenants : g[t] = 1})
    <2> HIDE DEF f, g
    <2>1. \A t \in Tenants : f[t] \in {0, 1} /\ g[t] \in {0, 1}
      BY <1>2
    <2> QED
      BY <1>0, <2>1, SumCounts
  <1>5. Cardinality(ToSet(tenants)) = Len(tenants)
    <2>1. tenants \in Bijection(1..Len(tenants), ToSet(tenants))
      BY <1>1 DEF TenantsDiffer, ToSet, Bijection, Injection, Surjection, IsInjective
    <2>2. ExistsBijection(1..Len(tenants), ToSet(tenants))
      BY <2>1 DEF ExistsBijection
    <2> QED
      BY <1>1, <2>2, FS_CountingElements
  <1>6. IsFiniteSet(active) /\ Cardinality(active) \in Nat
    BY <1>0, <1>1, FS_Subset, FS_CardinalityType
  <1> QED
    BY <1>1, <1>3, <1>4, <1>5, <1>6

\* A wider interval has what the narrower one has.
LEMMA Widen ==
    ASSUME NEW S, IsFiniteSet(S), NEW f, NEW g, NEW f2, NEW g2, NEW n \in Nat,
           \A t \in S : f[t] \in Nat /\ g[t] \in Nat /\ f2[t] \in Nat /\ g2[t] \in Nat,
           \A t \in S : f2[t] <= f[t] /\ g[t] <= g2[t],
           SumFunctionOnSet(f, S) <= n, n <= SumFunctionOnSet(g, S)
    PROVE  SumFunctionOnSet(f2, S) <= n /\ n <= SumFunctionOnSet(g2, S)
  <1>1. SumFunctionOnSet(f2, S) <= SumFunctionOnSet(f, S)
    BY SumLessEqual
  <1>2. SumFunctionOnSet(g, S) <= SumFunctionOnSet(g2, S)
    BY SumLessEqual
  <1>3. /\ SumFunctionOnSet(f, S) \in Nat /\ SumFunctionOnSet(f2, S) \in Nat
        /\ SumFunctionOnSet(g, S) \in Nat /\ SumFunctionOnSet(g2, S) \in Nat
    BY SumIsNat
  <1> QED
    BY <1>1, <1>2, <1>3

--------------------------------------------------------------------------------
\* While the tables stay as they are, so do the lists and the counts.
SameTables == UNCHANGED <<projects, logs, tenants, active, units>>

\* A reader that only reads leaves to the others what they would have read.
LEMMA SameLists ==
    ASSUME SameTables
    PROVE  /\ \A q \in Queries : Listings(q)' = Listings(q) /\ Size(q)' = Size(q)
           /\ \A q \in Queries : Tied(q.tenant)' <=> Tied(q.tenant)
           /\ \A q \in Queries : \A x, k : Further(q, x, k)' <=> Further(q, x, k)
           /\ \A c \in Counts, t \in Tenants : Count(c, t)' = Count(c, t)
           /\ Now' = Now
  <1>1. /\ projects' = projects /\ logs' = logs /\ tenants' = tenants
        /\ active' = active /\ units' = units
    BY DEF SameTables
  <1>2. ASSUME NEW q \in Queries
        PROVE  /\ Listings(q)' = Listings(q) /\ Size(q)' = Size(q)
               /\ Tied(q.tenant)' <=> Tied(q.tenant)
               /\ \A x, k : Further(q, x, k)' <=> Further(q, x, k)
    <2>1. Listed(q)' = Listed(q)
      BY <1>1 DEF Listed, Stored
    <2>2. StoredUnits(q.tenant)' = StoredUnits(q.tenant) /\ UnitsShown(q)' = UnitsShown(q)
      BY <1>1 DEF StoredUnits, UnitsShown, Stored
    <2>3. \A x : Upto(q.tenant, x)' = Upto(q.tenant, x)
      BY <1>1, <2>2 DEF Upto
    <2>4. UnitLists(q)' = UnitLists(q)
      BY <1>1, <2>2 DEF UnitLists
    <2>5. Tied(q.tenant)' <=> Tied(q.tenant)
      BY <1>1 DEF Tied, Stored
    <2> QED
      BY <2>1, <2>2, <2>3, <2>4, <2>5 DEF Listings, Size, Further
  <1>3. \A c \in Counts, t \in Tenants : Count(c, t)' = Count(c, t)
    BY <1>1 DEF Count, UnitsWith, Stored
  <1>4. Now' = Now
    BY <1>1 DEF Now, Count, UnitsWith, Stored
  <1> QED
    BY <1>2, <1>3, <1>4

\* What there is to count is numbers.
NowIsTyped == Now \in [Counts -> [Tenants -> Nat]]

\* Now is what low and high are made of.
LEMMA CountsTyped == CatalogTypeOK /\ TablesOK => NowIsTyped
  BY CountFacts DEF NowIsTyped, Now, CountsOK

\* Pages are numbered from 1: no OFFSET is negative.
LEMMA OffsetIsNat ==
    ASSUME AnswersOK, NEW r \in Readers
    PROVE  Offset(r) \in Nat
  <1>1. page[r] \in Nat \ {0} /\ Limit \in Nat
    BY TenantReportsAssumption DEF AnswersOK
  <1>2. \A n \in Nat \ {0}, m \in Nat : (n - 1) * m \in Nat
    OBVIOUS
  <1> QED
    BY <1>1, <1>2 DEF Offset

--------------------------------------------------------------------------------
\* Types.

\* A reader leaves the tables alone and keeps the types.
LEMMA ReaderTypes ==
    ASSUME TypeOK, NEW r \in Readers, ReaderInv(r), Ask(r) \/ NextPage(r) \/ Report(r)
    PROVE  TablesOK' /\ QuestionsOK' /\ AnswersOK' /\ ShownOK' /\ BoundsOK' /\ SameTables
  <1>0. CatalogTypeOK /\ TablesOK /\ QuestionsOK /\ AnswersOK /\ ShownOK /\ BoundsOK
    BY TypeParts
  <1>1. ASSUME UNCHANGED <<catalogVars, tables>> PROVE TablesOK' /\ SameTables
    BY <1>0, <1>1 DEF TablesOK, SameTables, catalogVars, tables
  <1>2. ASSUME UNCHANGED answers PROVE AnswersOK'
    BY <1>0, <1>2 DEF AnswersOK, answers
  <1>3. ASSUME UNCHANGED <<shown, atStart, moved, hit>> PROVE ShownOK'
    BY <1>0, <1>3 DEF ShownOK
  <1>4. ASSUME UNCHANGED <<low, high>> PROVE BoundsOK'
    BY <1>0, <1>4 DEF BoundsOK
  <1>5. ASSUME UNCHANGED ask, NEW from, NEW to,
               to \in {"page", "count", "countActive", "list", "projects", "units", "answered",
                       "failed"},
               rpc' = [rpc EXCEPT ![r] = to]
        PROVE  QuestionsOK'
    BY <1>0, <1>5 DEF QuestionsOK
  <1>6. CASE Ask(r)
    <2>1. PICK q \in Reports :
             /\ q # Stats /\ q.of # "tenants" => q.tenant \in active
             /\ ask' = [ask EXCEPT ![r] = q]
             /\ IF q = Stats
                THEN /\ rpc' = [rpc EXCEPT ![r] = "countTotal"]
                     /\ low' = [low EXCEPT ![r] = Now]
                     /\ high' = [high EXCEPT ![r] = Now]
                     /\ UNCHANGED <<atStart, moved>>
                ELSE /\ rpc' = [rpc EXCEPT ![r] = "page"]
                     /\ \E list \in Listings(q) : atStart' = [atStart EXCEPT ![r] = ToSet(list)]
                     /\ moved' = IF q.of = "units" /\ Tied(q.tenant) THEN moved \cup {r} ELSE moved
                     /\ UNCHANGED <<low, high>>
      BY <1>6 DEF Ask
    <2>2. UNCHANGED <<catalogVars, tables, answers, shown, hit>>
      BY <1>6 DEF Ask
    <2>3. QuestionsOK'
      BY <1>0, <2>1 DEF QuestionsOK
    <2>4. CASE q = Stats
      <3>1. Now \in [Counts -> [Tenants -> Nat]]
        BY <1>0, CountsTyped DEF NowIsTyped
      <3>2. BoundsOK'
        BY <1>0, <2>1, <2>4, <3>1 DEF BoundsOK
      <3>3. ShownOK'
        BY <1>3, <2>1, <2>2, <2>4
      <3> QED
        BY <1>1, <1>2, <2>2, <2>3, <3>2, <3>3
    <2>5. CASE q # Stats
      <3>0. PICK list \in Listings(q) : atStart' = [atStart EXCEPT ![r] = ToSet(list)]
        BY <2>1, <2>5
      <3>1. list \in Seq(RowIds)
        BY <2>5, ListingIsSeq, TenantReportsAssumption DEF ListingsAreSeqs
      <3>2. ToSet(list) \in SUBSET RowIds
        BY <3>1 DEF ToSet
      <3>3. ShownOK'
        BY <1>0, <2>1, <2>2, <2>5, <3>0, <3>2 DEF ShownOK
      <3>4. BoundsOK'
        BY <1>4, <2>1, <2>5
      <3> QED
        BY <1>1, <1>2, <2>2, <2>3, <3>3, <3>4
    <2> QED
      BY <2>4, <2>5
  <1>7. CASE NextPage(r)
    <2>1. page'= [page EXCEPT ![r] = @ + 1] /\ rows' = [rows EXCEPT ![r] = <<>>]
          /\ total' = [total EXCEPT ![r] = 0] /\ UNCHANGED <<todo, sums>>
      BY <1>7 DEF NextPage
    <2>2. Limit \in Nat /\ <<>> \in Seq(RowIds) /\ Len(<<>>) = 0
      BY TenantReportsAssumption
    <2>3. AnswersOK'
      BY <1>0, <2>1, <2>2 DEF AnswersOK
    <2> QED
      BY <1>1, <1>3, <1>4, <1>5, <1>7, <2>3 DEF NextPage, Step, history
  <1>8. CASE ReadPage(r)
    <2>0. PICK list \in Listings(ask[r]) : rows' = [rows EXCEPT ![r] = Page(list, Offset(r))]
      BY <1>8 DEF ReadPage
    <2>1. /\ rpc[r] = "page" /\ rpc' = [rpc EXCEPT ![r] = "count"]
          /\ UNCHANGED <<ask, page, total, todo, sums, atStart, moved, low, high, hit>>
          /\ shown' = [shown EXCEPT ![r] = @ \cup ToSet(rows'[r])]
          /\ UNCHANGED <<catalogVars, tables>>
      BY <1>8 DEF ReadPage, Step
    <2> DEFINE p == Page(list, Offset(r))
    <2>2. Offset(r) \in Nat
      BY <1>0, OffsetIsNat
    <2>3. p \in Seq(RowIds) /\ Len(p) <= Limit
      <3>1. ask[r] \in Queries
        BY <2>1 DEF ReaderInv, Asked
      <3>2. list \in Seq(RowIds)
        BY <3>1, ListingIsSeq DEF ListingsAreSeqs
      <3> QED
        BY <2>2, <3>2, PageRows
    <2>4. rows' = [rows EXCEPT ![r] = p]
      BY <2>0
    <2> HIDE DEF p
    <2>5. ToSet(p) \in SUBSET RowIds
      BY <2>3 DEF ToSet
    <2>6. rows'[r] = p
      BY <1>0, <2>4 DEF AnswersOK
    <2>7. AnswersOK'
      BY <1>0, <2>1, <2>3, <2>4 DEF AnswersOK
    <2>8. ShownOK'
      BY <1>0, <2>1, <2>5, <2>6 DEF ShownOK
    <2> QED
      BY <1>1, <1>4, <1>5, <2>1, <2>7, <2>8
  <1>9. CASE CountRows(r)
    <2>0. PICK list \in Listings(ask[r]) : total' = [total EXCEPT ![r] = Len(list)]
      BY <1>9 DEF CountRows
    <2>1. /\ rpc[r] = "count" /\ UNCHANGED <<ask, page, rows, todo, sums>>
          /\ rpc' = [rpc EXCEPT ![r] = "answered"]
          /\ UNCHANGED <<catalogVars, tables, history>>
      BY <1>9 DEF CountRows, Step
    <2>2. Len(list) \in Nat
      BY <2>1, ListingIsSeq, LenProperties DEF ListingsAreSeqs, ReaderInv, Asked
    <2>3. AnswersOK'
      BY <1>0, <2>0, <2>1, <2>2 DEF AnswersOK
    <2> QED
      BY <1>1, <1>3, <1>4, <1>5, <2>1, <2>3 DEF history
  <1>10. CASE ListError(r)
    <2>1. /\ UNCHANGED <<catalogVars, tables, ask, page, todo, sums, shown, atStart, moved, low, high>>
          /\ \/ rpc' = [rpc EXCEPT ![r] = "count"]
             \/ rpc' = [rpc EXCEPT ![r] = "answered"]
          /\ \/ rows' = [rows EXCEPT ![r] = <<>>] /\ UNCHANGED total
             \/ total' = [total EXCEPT ![r] = 0] /\ UNCHANGED rows
          /\ hit' = hit \cup {r}
      BY <1>10 DEF ListError, Step
    <2>2. Limit \in Nat /\ <<>> \in Seq(RowIds) /\ Len(<<>>) = 0
      BY TenantReportsAssumption
    <2>3. AnswersOK'
      <3>1. CASE rows' = [rows EXCEPT ![r] = <<>>] /\ UNCHANGED total
        BY <1>0, <2>1, <2>2, <3>1 DEF AnswersOK
      <3>2. CASE total' = [total EXCEPT ![r] = 0] /\ UNCHANGED rows
        BY <1>0, <2>1, <3>2 DEF AnswersOK
      <3> QED
        BY <2>1, <3>1, <3>2
    <2>4. ShownOK'
      BY <1>0, <2>1 DEF ShownOK
    <2> QED
      BY <1>1, <1>4, <1>5, <2>1, <2>3, <2>4
  <1>11. CASE CountTotal(r) \/ CountActive(r)
    <2>1. /\ UNCHANGED <<catalogVars, tables, ask, page, rows, total, todo, history>>
          /\ \/ rpc' = [rpc EXCEPT ![r] = "countActive"]
             \/ rpc' = [rpc EXCEPT ![r] = "list"]
          /\ \/ sums' = [sums EXCEPT ![r]["total"] = Len(tenants)]
             \/ sums' = [sums EXCEPT ![r]["active"] = Cardinality(active)]
      BY <1>11 DEF CountTotal, CountActive, CountTenants, Step
    <2>2. Len(tenants) \in Nat /\ Cardinality(active) \in Nat
      <3>1. Len(tenants) \in Nat /\ active \in SUBSET Tenants
        BY <1>0 DEF TablesOK, ToSet
      <3>2. IsFiniteSet(active)
        BY <3>1, TenantReportsAssumption, FS_Subset
      <3> QED
        BY <3>1, <3>2, FS_CardinalityType
    <2>3. ASSUME NEW c \in Counts, NEW n \in Nat, sums' = [sums EXCEPT ![r][c] = n]
          PROVE  sums' \in [Readers -> [Counts -> Nat]]
      BY <1>0, <2>3 DEF AnswersOK
    <2>4. sums' \in [Readers -> [Counts -> Nat]]
      BY <2>1, <2>2, <2>3 DEF Counts, TenantCounts
    <2>5. AnswersOK'
      BY <1>0, <2>1, <2>4 DEF AnswersOK
    <2> QED
      BY <1>1, <1>3, <1>4, <1>5, <2>1, <2>5 DEF history
  <1>12. CASE ListActive(r)
    <2>1. PICK seq \in SetToSeqs(active) : todo' = [todo EXCEPT ![r] = seq]
      BY <1>12 DEF ListActive
    <2>2. /\ UNCHANGED <<catalogVars, tables, ask, page, rows, total, sums, history>>
          /\ rpc' = [rpc EXCEPT ![r] = "projects"]
      BY <1>12 DEF ListActive, Step
    <2>3. active \in SUBSET Tenants /\ IsFiniteSet(active)
      BY <1>0, TenantReportsAssumption, FS_Subset DEF TablesOK, ToSet
    <2>4. Cardinality(active) \in Nat
      BY <2>3, FS_CardinalityType
    <2>5. seq \in [1..Cardinality(active) -> active]
      BY DEF SetToSeqs
    <2>6. seq \in Seq(Tenants)
      BY <2>3, <2>4, <2>5
    <2>7. AnswersOK'
      BY <1>0, <2>1, <2>2, <2>6 DEF AnswersOK
    <2> QED
      BY <1>1, <1>3, <1>4, <1>5, <2>2, <2>7 DEF history
  <1>13. ASSUME todo[r] # <<>>, NEW c \in Counts PROVE Count(c, Head(todo[r])) \in Nat
    <2>1. todo[r] \in Seq(Tenants)
      BY <1>0 DEF AnswersOK
    <2>2. Head(todo[r]) \in Tenants
      BY <1>13, <2>1, HeadTailProperties
    <2> QED
      BY <1>0, <2>2, CountFacts DEF CountsOK
  <1>14. CASE AddProjects(r)
    <2>1. /\ UNCHANGED <<catalogVars, tables, ask, page, rows, total, todo, history>>
          /\ rpc' = [rpc EXCEPT ![r] = "units"]
          /\ todo[r] # <<>>
          /\ sums' = [sums EXCEPT ![r]["projects"] = @ + Count("projects", Head(todo[r]))]
      BY <1>14 DEF AddProjects, Step
    <2>2. Count("projects", Head(todo[r])) \in Nat /\ "projects" \in Counts
      BY <1>13, <2>1 DEF Counts, RowCounts
    <2>3. sums' \in [Readers -> [Counts -> Nat]]
      BY <1>0, <2>1, <2>2 DEF AnswersOK
    <2>4. AnswersOK'
      BY <1>0, <2>1, <2>3 DEF AnswersOK
    <2> QED
      BY <1>1, <1>3, <1>4, <1>5, <2>1, <2>4 DEF history
  <1>15. CASE AddUnits(r)
    <2>1. /\ UNCHANGED <<catalogVars, tables, ask, page, rows, total, history>>
          /\ rpc' = [rpc EXCEPT ![r] = "projects"]
          /\ rpc[r] = "units"
          /\ sums' = [sums EXCEPT ![r] = [c \in Counts |->
                         IF c \in Statuses \cup {"units"} THEN sums[r][c] + Count(c, Head(todo[r]))
                         ELSE sums[r][c]]]
          /\ todo' = [todo EXCEPT ![r] = Tail(todo[r])]
      BY <1>15 DEF AddUnits, Step
    <2>2. todo[r] # <<>> /\ todo[r] \in Seq(Tenants)
      BY <1>0, <2>1 DEF AnswersOK, ReaderInv, Asked, Counted, Tallied, CountingRows
    <2>3. \A c \in Counts : Count(c, Head(todo[r])) \in Nat
      BY <1>13, <2>2
    <2>4. sums' \in [Readers -> [Counts -> Nat]]
      BY <1>0, <2>1, <2>3 DEF AnswersOK
    <2>5. Tail(todo[r]) \in Seq(Tenants)
      BY <2>2, HeadTailProperties
    <2>6. AnswersOK'
      BY <1>0, <2>1, <2>4, <2>5 DEF AnswersOK
    <2> QED
      BY <1>1, <1>3, <1>4, <1>5, <2>1, <2>6 DEF history
  <1>16. CASE SendStats(r) \/ ReportError(r)
    <2>1. /\ UNCHANGED <<catalogVars, tables, ask, answers, history>>
          /\ \/ rpc' = [rpc EXCEPT ![r] = "answered"]
             \/ rpc' = [rpc EXCEPT ![r] = "failed"]
      BY <1>16 DEF SendStats, ReportError, Step
    <2> QED
      BY <1>1, <1>2, <1>3, <1>4, <1>5, <2>1 DEF history
  <1> QED
    BY <1>6, <1>7, <1>8, <1>9, <1>10, <1>11, <1>12, <1>14, <1>15, <1>16 DEF Report

\* The steps of the tables, by which no reader moves.
Unmoved == UNCHANGED <<rpc, ask, answers, shown, atStart, hit>>

\* Those who were in a list of units whose order a step puts in question are in moved.
OrderKept ==
    /\ moved \subseteq moved' /\ moved' \subseteq Readers
    /\ \A r \in Readers, q \in Queries : ask[r] = q /\ q.of = "units" /\ r \notin moved' =>
          /\ KeepsNumbers(q.tenant)
          /\ ~Tied(q.tenant) => ~Tied(q.tenant)'
TableStep ==
    \/ \E r \in Requests : Admit(r) \/ Change(r)
    \/ ChangeUnit \/ CreateTenant \/ SwitchTenant
    \/ UNCHANGED vars

\* Of the tables, and of the order of the tenants.
LEMMA TableTypes ==
    ASSUME TypeOK, TenantsDiffer, TableStep
    PROVE  TablesOK' /\ TenantsDiffer' /\ Unmoved /\ OrderKept
           /\ (Observe \/ (SameTables /\ UNCHANGED <<low, high>>))
  <1>0. CatalogTypeOK /\ TablesOK
    BY TypeParts
  <1>00. ASSUME UNCHANGED <<units, moved>> PROVE OrderKept
    BY <1>00 DEF OrderKept, KeepsNumbers, Tied, Stored, TypeOK
  <1>1. ASSUME UNCHANGED tenants PROVE TenantsDiffer'
    BY <1>1 DEF TenantsDiffer
  <1>2. ASSUME NEW r \in Requests, Admit(r)
        PROVE  TablesOK' /\ TenantsDiffer' /\ Unmoved /\ OrderKept /\ SameTables
               /\ UNCHANGED <<low, high>>
    <2>1. /\ left > 0 /\ left' = left - 1 /\ Receive(r)
          /\ UNCHANGED <<tenants, active, units, rpc, ask, answers, history>>
      BY <1>2 DEF Admit
    <2>2. left' \in 0..MaxChanges
      BY <1>0, <2>1, TenantReportsAssumption DEF TablesOK
    <2>3. TablesOK'
      BY <1>0, <2>1, <2>2 DEF TablesOK
    <2> QED
      BY <1>00, <1>1, <2>1, <2>3 DEF Receive, SameTables, Unmoved, history
  <1>3. ASSUME NEW r \in Requests, Change(r)
        PROVE  TablesOK' /\ TenantsDiffer' /\ Unmoved /\ OrderKept /\ Observe
    BY <1>0, <1>00, <1>1, <1>3 DEF Change, TablesOK, Unmoved, tables
  <1>4. CASE ChangeUnit
    <2>0. PICK t \in active, p \in UnitIds : \E u \in UnitSteps(units[t][p]) :
             /\ units' = [units EXCEPT ![t][p] = u]
             /\ moved' = moved \cup {r \in Readers : AsksUnits(r, t) /\ Reorders(t)}
      BY <1>4 DEF ChangeUnit
    <2>1. PICK u \in UnitSteps(units[t][p]) :
             /\ units' = [units EXCEPT ![t][p] = u]
             /\ moved' = moved \cup {r \in Readers : AsksUnits(r, t) /\ Reorders(t)}
      BY <2>0
    <2>2. t \in Tenants /\ units[t][p] \in Unit \cup {None}
      BY <1>0 DEF TablesOK, ToSet
    <2>3. u \in Unit \cup {None}
      BY <2>1, <2>2, UnitStepsAreUnits
    <2>4. units' \in [Tenants -> [UnitIds -> Unit \cup {None}]]
      BY <1>0, <2>1, <2>3 DEF TablesOK
    <2>5. left' \in 0..MaxChanges
      BY <1>0, <1>4, TenantReportsAssumption DEF TablesOK, ChangeUnit
    <2>6. TablesOK'
      BY <1>0, <1>4, <2>4, <2>5 DEF TablesOK, ChangeUnit
    <2>7. OrderKept
      <3> SUFFICES ASSUME NEW r \in Readers, NEW q \in Queries,
                          ask[r] = q, q.of = "units", r \notin moved'
                   PROVE  KeepsNumbers(q.tenant) /\ (~Tied(q.tenant) => ~Tied(q.tenant)')
        BY <2>1 DEF OrderKept, TypeOK
      <3>1. CASE q.tenant = t
        <4>1. ~Reorders(t)
          BY <2>1, <3>1 DEF AsksUnits
        <4> QED
          BY <3>1, <4>1 DEF Reorders, KeepsNumbers, StoredUnits
      <3>2. CASE q.tenant # t
        <4>1. q.tenant \in Tenants
          BY DEF Queries
        <4>2. units'[q.tenant] = units[q.tenant]
          BY <1>0, <2>1, <3>2, <4>1 DEF TablesOK
        <4> QED
          BY <4>2 DEF KeepsNumbers, Tied, Stored
      <3> QED
        BY <3>1, <3>2
    <2> QED
      BY <1>1, <1>4, <2>6, <2>7 DEF ChangeUnit, Unmoved
  <1>5. CASE CreateTenant
    <2>1. PICK t \in Tenants, i \in 1..Len(tenants) + 1 :
             /\ Count("total", t) = 0
             /\ tenants' = InsertAt(tenants, i, t)
             /\ active' = active \cup {t}
      BY <1>5 DEF CreateTenant
    <2>2. tenants \in Seq(Tenants) /\ Len(tenants) \in Nat
      BY <1>0 DEF TablesOK
    <2>3. \A j \in 1..Len(tenants) : tenants[j] # t
      BY <2>1 DEF Count
    <2> DEFINE s == InsertAt(tenants, i, t)
    <2>4. /\ s \in Seq(Tenants) /\ Len(s) = Len(tenants) + 1
          /\ \A k \in 1..Len(tenants) + 1 :
                s[k] = IF k < i THEN tenants[k] ELSE IF k = i THEN t ELSE tenants[k - 1]
      BY <2>2, InsertGrows
    <2>5. tenants' = s
      BY <2>1
    <2> HIDE DEF s
    <2>6. \A x \in ToSet(tenants) : x \in ToSet(s)
      <3> SUFFICES ASSUME NEW k \in 1..Len(tenants) PROVE \E j \in 1..Len(s) : s[j] = tenants[k]
        <4>1. DOMAIN tenants = 1..Len(tenants) /\ DOMAIN s = 1..Len(s)
          BY <2>2, <2>4
        <4> QED
          BY <4>1 DEF ToSet
      <3>1. CASE k < i
        BY <2>2, <2>4, <3>1
      <3>2. CASE k >= i
        <4>1. k + 1 \in 1..Len(s) /\ s[k + 1] = tenants[k + 1 - 1] /\ k + 1 - 1 = k
          BY <2>2, <2>4, <3>2
        <4> QED
          BY <4>1
      <3> QED
        BY <2>2, <3>1, <3>2
    <2>7. t \in ToSet(s)
      <3>1. i \in 1..Len(s) /\ s[i] = t
        BY <2>2, <2>4
      <3> QED
        BY <2>4, <3>1 DEF ToSet
    <2>8. left' \in 0..MaxChanges
      BY <1>0, <1>5, TenantReportsAssumption DEF TablesOK, CreateTenant
    <2>9. TablesOK'
      BY <1>0, <1>5, <2>1, <2>4, <2>5, <2>6, <2>7, <2>8 DEF TablesOK, CreateTenant
    <2>10. TenantsDiffer'
      <3> SUFFICES ASSUME NEW j \in 1..Len(tenants) + 1, NEW k \in 1..Len(tenants) + 1, s[j] = s[k]
                   PROVE  j = k
        BY <2>4, <2>5 DEF TenantsDiffer
      <3> DEFINE Was(m) == IF m < i THEN m ELSE m - 1
      <3>1. \A m \in 1..Len(tenants) + 1 :
               m # i => Was(m) \in 1..Len(tenants) /\ s[m] = tenants[Was(m)]
        BY <2>2, <2>4
      <3>2. CASE j = i \/ k = i
        BY <2>3, <2>4, <3>1, <3>2
      <3>3. CASE j # i /\ k # i
        <4>1. Was(j) = Was(k)
          BY <3>1, <3>3 DEF TenantsDiffer
        <4> QED
          BY <2>2, <3>3, <4>1
      <3> QED
        BY <3>2, <3>3
    <2> QED
      BY <1>00, <1>5, <2>9, <2>10 DEF CreateTenant, Unmoved
  <1>6. CASE SwitchTenant
    <2>1. PICK t \in Tenants :
             /\ Count("total", t) = 1
             /\ active' = IF t \in active THEN active \ {t} ELSE active \cup {t}
      BY <1>6 DEF SwitchTenant
    <2>2. t \in ToSet(tenants)
      BY <1>0, <2>1, CountFacts DEF CountsOK
    <2>3. left' \in 0..MaxChanges
      BY <1>0, <1>6, TenantReportsAssumption DEF TablesOK, SwitchTenant
    <2>4. active' \subseteq ToSet(tenants)
      BY <1>0, <2>1, <2>2 DEF TablesOK
    <2>5. TablesOK'
      BY <1>0, <1>6, <2>3, <2>4 DEF TablesOK, SwitchTenant
    <2> QED
      BY <1>00, <1>1, <1>6, <2>5 DEF SwitchTenant, Unmoved
  <1>7. CASE UNCHANGED vars
    BY <1>0, <1>00, <1>1, <1>7 DEF vars, TablesOK, SameTables, Unmoved, tables, history, catalogVars
  <1> QED
    BY <1>2, <1>3, <1>4, <1>5, <1>6, <1>7 DEF TableStep

\* What a reader remembers of the counts is numbers.
LEMMA ObserveTypes ==
    ASSUME BoundsOK, NowIsTyped', Observe
    PROVE  BoundsOK'
  <1>1. \A m, n \in Nat : Least(m, n) \in Nat /\ Most(m, n) \in Nat
    BY DEF Least, Most
  <1> DEFINE lows(r) == [c \in Counts |-> [t \in Tenants |-> Least(low[r][c][t], Now'[c][t])]]
             highs(r) == [c \in Counts |-> [t \in Tenants |-> Most(high[r][c][t], Now'[c][t])]]
  <1>2. ASSUME NEW r \in Readers
        PROVE  /\ lows(r) \in [Counts -> [Tenants -> Nat]]
               /\ highs(r) \in [Counts -> [Tenants -> Nat]]
    <2>1. ASSUME NEW c \in Counts, NEW t \in Tenants
          PROVE  Least(low[r][c][t], Now'[c][t]) \in Nat /\ Most(high[r][c][t], Now'[c][t]) \in Nat
      <3>1. low[r][c][t] \in Nat /\ high[r][c][t] \in Nat
        BY DEF BoundsOK
      <3>2. Now'[c][t] \in Nat
        BY DEF NowIsTyped
      <3> QED
        BY <1>1, <3>1, <3>2
    <2> QED
      BY <2>1
  <1>3. /\ low' = [r \in Readers |-> IF ~Counting(r) THEN low[r] ELSE lows(r)]
        /\ high' = [r \in Readers |-> IF ~Counting(r) THEN high[r] ELSE highs(r)]
    BY DEF Observe
  <1> HIDE DEF lows, highs
  <1> QED
    BY <1>2, <1>3 DEF BoundsOK

\* No reader moves, and those that count remember what there is.
Watched ==
    \A r \in Readers :
        /\ ~Counting(r) => low'[r] = low[r] /\ high'[r] = high[r]
        /\ Counting(r) =>
              /\ \A c \in Counts, t \in Tenants :
                    /\ low'[r][c][t] <= low[r][c][t] /\ high[r][c][t] <= high'[r][c][t]
                    /\ low'[r][c][t] <= Count(c, t)' /\ Count(c, t)' <= high'[r][c][t]
              /\ \A t \in Tenants :
                    /\ low'[r]["active"][t] = 1 => low[r]["active"][t] = 1
                    /\ high[r]["active"][t] = 1 => high'[r]["active"][t] = 1
                    /\ high'[r]["active"][t] <= 1

\* CountFacts for a state that is typed.
LEMMA TypesCount == TypeOK => CountsOK
  BY CountFacts, TypeParts

\* A reader between two counts has the bounds.
LEMMA CountingBounded ==
    ASSUME NEW r \in Readers, TypeOK, ReaderInv(r), Counting(r)
    PROVE  Bounded(r)
  <1>1. ask[r] = Stats /\ rpc[r] \notin {"idle", "answered", "failed"}
    BY DEF Counting
  <1>2. ask[r] \notin Queries
    BY <1>1 DEF Queries, Lists, Stats
  <1>3. rpc[r] \in CountingTenants \cup CountingRows
    BY <1>1, <1>2 DEF TypeOK, ReaderInv, Asked, CountingTenants, CountingRows
  <1> QED
    BY <1>1, <1>3 DEF ReaderInv, Counted

\* Observe keeps the bounds around what there is.
LEMMA Observed ==
    ASSUME TypeOK, TypeOK', \A r \in Readers : ReaderInv(r),
           Observe \/ (SameTables /\ UNCHANGED <<low, high>>)
    PROVE  Watched
  <1> SUFFICES
        ASSUME NEW r \in Readers
        PROVE  /\ ~Counting(r) => low'[r] = low[r] /\ high'[r] = high[r]
               /\ Counting(r) =>
                     /\ \A c \in Counts, t \in Tenants :
                           /\ low'[r][c][t] <= low[r][c][t] /\ high[r][c][t] <= high'[r][c][t]
                           /\ low'[r][c][t] <= Count(c, t)' /\ Count(c, t)' <= high'[r][c][t]
                     /\ \A t \in Tenants :
                           /\ low'[r]["active"][t] = 1 => low[r]["active"][t] = 1
                           /\ high[r]["active"][t] = 1 => high'[r]["active"][t] = 1
                           /\ high'[r]["active"][t] <= 1
    BY DEF Watched
  <1>0. CountsOK /\ CountsOK'
    BY TypesCount, PTL
  <1>1. CASE ~Counting(r)
    BY <1>1 DEF Observe
  <1>2. CASE Counting(r)
    <2>1. Bounded(r)
      BY <1>2, CountingBounded
    <2>2. "active" \in Counts
      BY DEF Counts, TenantCounts
    <2>3. ASSUME NEW c \in Counts, NEW t \in Tenants
          PROVE  /\ low[r][c][t] \in Nat /\ high[r][c][t] \in Nat /\ Count(c, t)' \in Nat
                 /\ Count(c, t) \in Nat
      BY <1>0 DEF TypeOK, CountsOK
    <2>4. ASSUME NEW t \in Tenants PROVE Count("active", t) \in {0, 1} /\ Count("active", t)' \in {0, 1}
      BY <1>0 DEF CountsOK
    <2>5. CASE Observe
      <3>1. ASSUME NEW c \in Counts, NEW t \in Tenants
            PROVE  /\ low'[r][c][t] = Least(low[r][c][t], Count(c, t)')
                   /\ high'[r][c][t] = Most(high[r][c][t], Count(c, t)')
        <4>1. Now'[c][t] = Count(c, t)'
          BY DEF Now
        <4> QED
          BY <1>2, <2>5, <4>1 DEF Observe
      <3>2. \A m, n \in Nat : /\ Least(m, n) <= m /\ Least(m, n) <= n /\ Least(m, n) \in {m, n}
                              /\ m <= Most(m, n) /\ n <= Most(m, n) /\ Most(m, n) \in {m, n}
        BY DEF Least, Most
      <3>3. ASSUME NEW t \in Tenants
            PROVE  /\ low'[r]["active"][t] = 1 => low[r]["active"][t] = 1
                   /\ high[r]["active"][t] = 1 => high'[r]["active"][t] = 1
                   /\ high'[r]["active"][t] <= 1
        <4> DEFINE n == Count("active", t)
                   m == n'
                   l == low[r]["active"][t]
                   h == high[r]["active"][t]
        <4>1. /\ l \in Nat /\ h \in Nat /\ m \in {0, 1} /\ n \in {0, 1}
              /\ l <= n /\ h <= 1
          BY <2>1, <2>2, <2>3, <2>4 DEF Bounded
        <4>2. low'[r]["active"][t] = Least(l, m) /\ high'[r]["active"][t] = Most(h, m)
          BY <2>2, <3>1
        <4> HIDE DEF n, m, l, h
        <4>3. /\ Least(l, m) = 1 => l = 1
              /\ h = 1 => Most(h, m) = 1
              /\ Most(h, m) <= 1
          BY <4>1 DEF Least, Most
        <4> QED
          BY <4>2, <4>3 DEF l, h
      <3>4. ASSUME NEW c \in Counts, NEW t \in Tenants
            PROVE  /\ low'[r][c][t] <= low[r][c][t] /\ high[r][c][t] <= high'[r][c][t]
                   /\ low'[r][c][t] <= Count(c, t)' /\ Count(c, t)' <= high'[r][c][t]
        <4>1. low[r][c][t] \in Nat /\ high[r][c][t] \in Nat /\ Count(c, t)' \in Nat
          BY <2>3
        <4> QED
          BY <3>1, <3>2, <4>1
      <3> QED
        BY <1>2, <3>3, <3>4
    <2>6. CASE SameTables /\ UNCHANGED <<low, high>>
      <3>1. \A c \in Counts, t \in Tenants : Count(c, t)' = Count(c, t)
        BY <2>6, SameLists
      <3>2. \A c \in Counts, t \in Tenants :
               low[r][c][t] <= low[r][c][t] /\ high[r][c][t] <= high[r][c][t]
        BY <2>3
      <3> QED
        BY <1>2, <2>1, <2>6, <3>1, <3>2 DEF Bounded
    <2> QED
      BY <2>5, <2>6
  <1> QED
    BY <1>1, <1>2

--------------------------------------------------------------------------------
\* Every step keeps the types.
LEMMA TypeStep ==
    ASSUME IInv, IInv', RInv, [Next]_vars
    PROVE  TypeOK'
  <1>0. /\ TypeOK /\ TenantsDiffer /\ CatalogTypeOK' /\ \A r \in Readers : ReaderInv(r)
        /\ QuestionsOK /\ AnswersOK /\ ShownOK /\ BoundsOK
    BY TypeParts DEF RInv, IInv
  <1>1. ASSUME NEW r \in Readers, Ask(r) \/ NextPage(r) \/ Report(r) PROVE TypeOK'
    <2>1. TablesOK' /\ QuestionsOK' /\ AnswersOK' /\ ShownOK' /\ BoundsOK'
      BY <1>0, <1>1, ReaderTypes
    <2>2. TablesOK' /\ QuestionsOK' /\ AnswersOK' /\ ShownOK' /\ BoundsOK' /\ CatalogTypeOK' => TypeOK'
      BY TypeParts, PTL
    <2> QED
      BY <1>0, <2>1, <2>2
  <1>2. CASE TableStep
    <2>1. TablesOK' /\ Unmoved /\ OrderKept /\ (Observe \/ (SameTables /\ UNCHANGED <<low, high>>))
      BY <1>0, <1>2, TableTypes
    <2>2. QuestionsOK' /\ AnswersOK' /\ ShownOK'
      BY <1>0, <2>1 DEF QuestionsOK, AnswersOK, ShownOK, Unmoved, OrderKept, answers
    <2>3. NowIsTyped'
      <3>1. CatalogTypeOK' /\ TablesOK' => NowIsTyped'
        BY CountsTyped, PTL
      <3> QED
        BY <1>0, <2>1, <3>1
    <2>4. BoundsOK'
      <3>1. CASE Observe
        BY <1>0, <2>3, <3>1, ObserveTypes
      <3>2. CASE UNCHANGED <<low, high>>
        BY <1>0, <3>2 DEF BoundsOK
      <3> QED
        BY <2>1, <3>1, <3>2
    <2>5. TablesOK' /\ QuestionsOK' /\ AnswersOK' /\ ShownOK' /\ BoundsOK' /\ CatalogTypeOK' => TypeOK'
      BY TypeParts, PTL
    <2> QED
      BY <1>0, <2>1, <2>2, <2>4, <2>5
  <1> QED
    BY <1>1, <1>2 DEF Next, TableStep, Quiet

--------------------------------------------------------------------------------
\* What changes in the tables takes nothing from a reader.

\* A walk through a list does not mind the rows that are added.
LEMMA PagedStays ==
    ASSUME TypeOK, TypeOK', TablesGrow, Unmoved, OrderKept, NEW r \in Readers, NEW q \in Queries,
           ask[r] = q, ~q.activeOnly, Paged(r, q)
    PROVE  Paged(r, q)'
  <1>0. /\ rpc' = rpc /\ page' = page /\ rows' = rows /\ total' = total /\ shown' = shown
        /\ atStart' = atStart
    BY DEF Unmoved, answers
  <1>1. Offset(r)' = Offset(r) /\ Offset(r) \in Nat /\ Limit \in Nat
        /\ Offset(r) + Limit \in Nat
    <2>1. Offset(r) \in Nat
      BY TypeParts, OffsetIsNat
    <2>2. Offset(r)' = Offset(r)
      BY <1>0 DEF Offset
    <2>3. Limit \in Nat
      BY TenantReportsAssumption
    <2> QED
      BY <2>1, <2>2, <2>3
  <1>2. Steady(r, q)' => /\ Steady(r, q)
                         /\ q.of = "units" => KeepsNumbers(q.tenant)
                         /\ q.of = "units" /\ ~Tied(q.tenant) => ~Tied(q.tenant)'
    BY DEF Steady, OrderKept
  <1>3. ASSUME Steady(r, q)', NEW k \in Nat, NEW x, Further(q, x, k) PROVE Further(q, x, k)'
    BY <1>2, <1>3, FurtherStays
  <1>4. Behind(r, q, Offset(r)) => Behind(r, q, Offset(r))'
    BY <1>0, <1>1, <1>2, <1>3 DEF Behind
  <1>5. Behind(r, q, Offset(r) + Limit) => Behind(r, q, Offset(r) + Limit)'
    BY <1>0, <1>1, <1>2, <1>3 DEF Behind
  <1>6. Fits(r, Size(q)) => Fits(r, Size(q))'
    <2>1. Size(q) \in Nat /\ Size(q)' \in Nat /\ Size(q) <= Size(q)'
      BY SizeGrows
    <2>2. Len(rows[r]) \in Nat
      BY DEF TypeOK
    <2> QED
      BY <1>0, <1>1, <2>1, <2>2 DEF Fits
  <1>7. Fits(r, total[r]) => Fits(r, total[r])'
    BY <1>0, <1>1 DEF Fits
  <1> QED
    BY <1>0, <1>1, <1>2, <1>4, <1>5, <1>6, <1>7 DEF Paged

\* A sum that was within the bounds is within wider ones.
LEMMA WithinStays ==
    ASSUME TypeOK, TypeOK', Watched, Unmoved, NEW r \in Readers, NEW c \in Counts,
           NEW T \in SUBSET Tenants, Within(r, c, T)
    PROVE  Within(r, c, T)'
  <1>0. sums' = sums /\ IsFiniteSet(T)
    BY TenantReportsAssumption, FS_Subset DEF Unmoved, answers
  <1>1. CASE ~Counting(r)
    <2>1. low'[r] = low[r] /\ high'[r] = high[r]
      BY <1>1 DEF Watched
    <2> QED
      BY <1>0, <2>1 DEF Within
  <1>2. CASE Counting(r)
    <2>1. \A t \in T : /\ low[r][c][t] \in Nat /\ high[r][c][t] \in Nat
                       /\ low'[r][c][t] \in Nat /\ high'[r][c][t] \in Nat
      BY DEF TypeOK
    <2>2. \A t \in T : low'[r][c][t] <= low[r][c][t] /\ high[r][c][t] <= high'[r][c][t]
      BY <1>2 DEF Watched
    <2>3. sums[r][c] \in Nat
      BY DEF TypeOK
    <2>4. /\ SumFunctionOnSet(low[r][c], T) <= sums[r][c]
          /\ sums[r][c] <= SumFunctionOnSet(high[r][c], T)
      BY DEF Within
    <2>5. /\ SumFunctionOnSet(low'[r][c], T) <= sums[r][c]
          /\ sums[r][c] <= SumFunctionOnSet(high'[r][c], T)
      BY <1>0, <2>1, <2>2, <2>3, <2>4, Widen
    <2> QED
      BY <1>0, <2>5 DEF Within
  <1> QED
    BY <1>1, <1>2

\* Fewer tenants were active all the time, more at some time.
LEMMA ActiveStays ==
    ASSUME Watched, NEW r \in Readers
    PROVE  AlwaysActive(r)' \subseteq AlwaysActive(r) /\ OnceActive(r) \subseteq OnceActive(r)'
  <1>1. CASE ~Counting(r)
    BY <1>1 DEF Watched, AlwaysActive, OnceActive
  <1>2. CASE Counting(r)
    BY <1>2 DEF Watched, AlwaysActive, OnceActive
  <1> QED
    BY <1>1, <1>2

\* What is tallied stays tallied when the tables change.
LEMMA TalliedStays ==
    ASSUME TypeOK, TypeOK', Watched, Unmoved, NEW r \in Readers, NEW D \in SUBSET Tenants,
           rpc[r] \in CountingRows \cup {"answered"}, Tallied(r, D)
    PROVE  Tallied(r, D)'
  <1>0. rpc' = rpc /\ todo' = todo /\ sums' = sums /\ todo[r] \in Seq(Tenants)
    BY DEF Unmoved, answers, TypeOK
  <1>1. AlwaysActive(r)' \subseteq D \cup ToSet(todo'[r]) /\ D \cup ToSet(todo'[r]) \subseteq OnceActive(r)'
    BY <1>0, ActiveStays DEF Tallied
  <1>2. \A c \in RowCounts \ {"projects"} : Within(r, c, D)'
    BY WithinStays DEF Tallied, Counts
  <1> DEFINE T == IF rpc[r] = "units" THEN D \cup {Head(todo[r])} ELSE D
  <1>3. T \in SUBSET Tenants
    <2>1. rpc[r] = "units" => Head(todo[r]) \in Tenants
      BY <1>0, HeadTailProperties DEF Tallied
    <2> QED
      BY <2>1
  <1>4. T' = T
    BY <1>0
  <1>5. Within(r, "projects", T)
    BY DEF Tallied
  <1>6. Within(r, "projects", T)'
    <2> HIDE DEF T
    <2>1. "projects" \in Counts
      BY DEF Counts, RowCounts
    <2>2. \A S \in SUBSET Tenants : Within(r, "projects", S) => Within(r, "projects", S)'
      BY <2>1, WithinStays
    <2> QED
      BY <1>3, <1>4, <1>5, <2>2 DEF Within
  <1> QED
    BY <1>0, <1>1, <1>2, <1>6 DEF Tallied

\* The statistics under way do not mind a change of the tables.
LEMMA CountedStays ==
    ASSUME TypeOK, TypeOK', Watched, Unmoved, NEW r \in Readers, ask[r] = Stats, Counted(r)
    PROVE  Counted(r)'
  <1>0. rpc' = rpc /\ sums' = sums
    BY DEF Unmoved, answers
  <1>1. ASSUME rpc[r] \in CountingTenants \cup CountingRows PROVE Bounded(r)'
    <2>1. Counting(r)
      BY <1>1 DEF Counting, CountingTenants, CountingRows
    <2> QED
      BY <2>1 DEF Watched, Bounded
  <1>2. ASSUME Within(r, "total", Tenants) PROVE Within(r, "total", Tenants)'
    BY <1>2, WithinStays DEF Counts, TenantCounts
  <1>3. ASSUME Within(r, "active", Tenants) PROVE Within(r, "active", Tenants)'
    BY <1>3, WithinStays DEF Counts, TenantCounts
  <1>4. ASSUME rpc[r] \in CountingRows \cup {"answered"} PROVE \E D \in SUBSET Tenants : Tallied(r, D)'
    <2>1. PICK D \in SUBSET Tenants : Tallied(r, D)
      BY <1>4 DEF Counted
    <2> QED
      BY <1>4, <2>1, TalliedStays
  <1> QED
    BY <1>0, <1>1, <1>2, <1>3, <1>4 DEF Counted

\* A change of the tables keeps the invariant of each reader.
LEMMA TableStepKeeps ==
    ASSUME TypeOK, TypeOK', TablesGrow, Watched, Unmoved, OrderKept, NEW r \in Readers, ReaderInv(r)
    PROVE  ReaderInv(r)'
  <1>0. rpc' = rpc /\ ask' = ask /\ hit' = hit /\ page' = page /\ sums' = sums /\ total' = total
    BY DEF Unmoved, answers
  <1>1. Asked(r)'
    BY <1>0 DEF ReaderInv, Asked
  <1>2. ASSUME NEW q \in Queries, ask[r] = q, ~q.activeOnly, r \notin hit PROVE Paged(r, q)'
    BY <1>2, PagedStays DEF ReaderInv
  <1>3. ASSUME ask[r] = Stats PROVE Counted(r)'
    BY <1>3, CountedStays DEF ReaderInv
  <1> QED
    BY <1>0, <1>1, <1>2, <1>3 DEF ReaderInv

--------------------------------------------------------------------------------
\* The steps of a reader.

\* Nothing that is about r changes.
SameReader(r) ==
    /\ rpc'[r] = rpc[r] /\ ask'[r] = ask[r] /\ page'[r] = page[r] /\ rows'[r] = rows[r]
    /\ total'[r] = total[r] /\ todo'[r] = todo[r] /\ sums'[r] = sums[r]
    /\ shown'[r] = shown[r] /\ atStart'[r] = atStart[r]
    /\ low'[r] = low[r] /\ high'[r] = high[r]
    /\ r \in moved' <=> r \in moved
    /\ r \in hit' <=> r \in hit

\* A reader that nothing is about keeps its invariant.
LEMMA Frame ==
    ASSUME SameTables, NEW r \in Readers, ReaderInv(r), SameReader(r)
    PROVE  ReaderInv(r)'
  <1>0. /\ \A q \in Queries : Size(q)' = Size(q) /\ (Tied(q.tenant)' <=> Tied(q.tenant))
        /\ \A q \in Queries : \A x, k : Further(q, x, k)' <=> Further(q, x, k)
        /\ \A c \in Counts, t \in Tenants : Count(c, t)' = Count(c, t)
    BY SameLists
  <1>1. Asked(r)'
    BY DEF ReaderInv, Asked, SameReader
  <1>2. ASSUME NEW q \in Queries, Paged(r, q) PROVE Paged(r, q)'
    <2>1. Size(q)' = Size(q) /\ (Tied(q.tenant)' <=> Tied(q.tenant))
      BY <1>0
    <2>2. Offset(r)' = Offset(r)
      BY DEF SameReader, Offset
    <2>3. Steady(r, q)' <=> Steady(r, q)
      BY DEF SameReader, Steady
    <2>4. /\ Behind(r, q, Offset(r)) => Behind(r, q, Offset(r))'
          /\ Behind(r, q, Offset(r) + Limit) => Behind(r, q, Offset(r) + Limit)'
      BY <1>0, <2>2, <2>3 DEF Behind, SameReader
    <2>5. /\ Fits(r, Size(q)) => Fits(r, Size(q))'
          /\ Fits(r, total[r]) => Fits(r, total[r])'
      BY <2>1, <2>2 DEF Fits, SameReader
    <2> QED
      BY <1>2, <2>1, <2>2, <2>3, <2>4, <2>5 DEF Paged, SameReader
  <1>3. ASSUME Counted(r) PROVE Counted(r)'
    <2>1. Bounded(r) => Bounded(r)'
      BY <1>0 DEF Bounded, SameReader
    <2>2. \A c, T : Within(r, c, T) => Within(r, c, T)'
      BY DEF Within, SameReader
    <2>3. \A D : Tallied(r, D) => Tallied(r, D)'
      BY DEF Tallied, AlwaysActive, OnceActive, Within, SameReader
    <2> QED
      BY <1>3, <2>1, <2>2, <2>3 DEF Counted, SameReader
  <1>4. (ask[r] = Stats)' <=> ask[r] = Stats
    BY DEF SameReader
  <1> QED
    BY <1>1, <1>2, <1>3, <1>4 DEF ReaderInv, SameReader

\* A reader changes nothing of another.
LEMMA OthersStay ==
    ASSUME TypeOK, NEW r \in Readers, NEW s \in Readers, s # r, Ask(r) \/ NextPage(r) \/ Report(r)
    PROVE  SameReader(s)
  <1> USE DEF TypeOK, SameReader
  <1>1. CASE Ask(r)
    <2>1. PICK q \in Reports :
             /\ ask' = [ask EXCEPT ![r] = q]
             /\ IF q = Stats
                THEN /\ rpc' = [rpc EXCEPT ![r] = "countTotal"]
                     /\ low' = [low EXCEPT ![r] = Now]
                     /\ high' = [high EXCEPT ![r] = Now]
                     /\ UNCHANGED <<atStart, moved>>
                ELSE /\ rpc' = [rpc EXCEPT ![r] = "page"]
                     /\ \E list \in Listings(q) : atStart' = [atStart EXCEPT ![r] = ToSet(list)]
                     /\ moved' = IF q.of = "units" /\ Tied(q.tenant) THEN moved \cup {r} ELSE moved
                     /\ UNCHANGED <<low, high>>
      BY <1>1 DEF Ask
    <2> QED
      BY <1>1, <2>1 DEF Ask, answers
  <1>2. CASE NextPage(r) \/ SendStats(r) \/ ReportError(r)
    BY <1>2 DEF NextPage, SendStats, ReportError, Step, answers, history
  <1>3. CASE ReadPage(r) \/ CountRows(r)
    BY <1>3 DEF ReadPage, CountRows, Step, history
  <1>4. CASE ListError(r)
    BY <1>4 DEF ListError, Step
  <1>5. CASE CountTotal(r) \/ CountActive(r)
    BY <1>5 DEF CountTotal, CountActive, CountTenants, Step, history
  <1>6. CASE ListActive(r)
    BY <1>6 DEF ListActive, Step, history
  <1>7. CASE AddProjects(r)
    BY <1>7 DEF AddProjects, Step, history
  <1>8. CASE AddUnits(r)
    BY <1>8 DEF AddUnits, Step, history
  <1> QED
    BY <1>1, <1>2, <1>3, <1>4, <1>5, <1>6, <1>7, <1>8 DEF Report

\* A list is not the statistics.
LEMMA QueriesAreNotStats == \A q \in Queries : q # Stats
  BY DEF Queries, Lists, Stats

\* At the start nothing is shown and the bounds are what there is.
LEMMA AskStep ==
    ASSUME TypeOK, NEW r \in Readers, ReaderInv(r), Ask(r), SameTables
    PROVE  ReaderInv(r)'
  <1>1. PICK q \in Reports :
           /\ q # Stats /\ q.of # "tenants" => q.tenant \in active
           /\ ask' = [ask EXCEPT ![r] = q]
           /\ IF q = Stats
              THEN /\ rpc' = [rpc EXCEPT ![r] = "countTotal"]
                   /\ low' = [low EXCEPT ![r] = Now]
                   /\ high' = [high EXCEPT ![r] = Now]
                   /\ UNCHANGED <<atStart, moved>>
              ELSE /\ rpc' = [rpc EXCEPT ![r] = "page"]
                   /\ \E list \in Listings(q) : atStart' = [atStart EXCEPT ![r] = ToSet(list)]
                   /\ moved' = IF q.of = "units" /\ Tied(q.tenant) THEN moved \cup {r} ELSE moved
                   /\ UNCHANGED <<low, high>>
    BY DEF Ask
  <1>2. UNCHANGED <<page, rows, total, todo, sums, shown, hit>>
    BY DEF Ask, answers
  <1>3. page[r] = 1 /\ total[r] = 0 /\ sums[r] = NoSums
    BY DEF Ask, ReaderInv, Asked
  <1>4. ask'[r] = q
    BY <1>1 DEF TypeOK
  <1>5. q \in Queries \/ q = Stats
    BY TenantReportsAssumption
  <1>6. CASE q = Stats
    <2>1. rpc'[r] = "countTotal" /\ low'[r] = Now /\ high'[r] = Now
      BY <1>1, <1>6 DEF TypeOK
    <2>2. Asked(r)'
      BY <1>2, <1>3, <1>4, <1>6, <2>1 DEF Asked, CountingTenants, CountingRows
    <2>3. Bounded(r)'
      <3>1. CountsOK
        BY TypesCount
      <3>2. \A c \in Counts, t \in Tenants : Count(c, t)' = Count(c, t)
        BY SameLists
      <3>3. \A c \in Counts, t \in Tenants : Now[c][t] = Count(c, t) /\ Count(c, t) \in Nat
        BY <3>1 DEF Now, CountsOK
      <3>4. \A t \in Tenants : Now["active"][t] <= 1
        BY <3>1 DEF Now, CountsOK, Counts, TenantCounts
      <3> QED
        BY <2>1, <3>2, <3>3, <3>4 DEF Bounded
    <2>4. \A c \in Counts : sums'[r][c] = 0
      BY <1>2, <1>3 DEF NoSums
    <2>5. Counted(r)'
      BY <2>1, <2>3, <2>4 DEF Counted, CountingTenants, CountingRows, Counts, RowCounts, Statuses
    <2> QED
      BY <1>4, <1>6, <2>2, <2>5, QueriesAreNotStats DEF ReaderInv
  <1>7. CASE q \in Queries
    <2>0. q # Stats
      BY <1>7, QueriesAreNotStats
    <2>1. /\ rpc'[r] = "page"
          /\ q.of = "units" /\ Tied(q.tenant) => r \in moved'
      BY <1>1, <2>0 DEF TypeOK
    <2>2. Asked(r)'
      BY <1>4, <1>7, <2>0, <2>1 DEF Asked, CountingTenants, CountingRows
    <2>3. ~q.activeOnly => Behind(r, q, Offset(r))'
      <3>0. PICK list \in Listings(q) : atStart' = [atStart EXCEPT ![r] = ToSet(list)]
        BY <1>1, <2>0
      <3>1. Offset(r)' = 0
        BY <1>2, <1>3, TenantReportsAssumption DEF Offset
      <3>2. ~q.activeOnly => \A x \in ToSet(list) : Further(q, x, 0)
        BY <1>7, ListingFacts
      <3>3. ~q.activeOnly => \A x \in ToSet(list) : Further(q, x, 0)'
        BY <1>7, <3>2, SameLists
      <3>4. atStart'[r] = ToSet(list)
        BY <3>0 DEF TypeOK
      <3> QED
        BY <3>1, <3>3, <3>4 DEF Behind
    <2>4. ~q.activeOnly => Paged(r, q)'
      BY <1>7, <2>1, <2>3, SameLists DEF Paged, Steady
    <2> QED
      BY <1>4, <2>0, <2>2, <2>4 DEF ReaderInv
  <1> QED
    BY <1>5, <1>6, <1>7

\* The page has the rows between its OFFSET and the next.
LEMMA ReadPageStep ==
    ASSUME TypeOK, NEW r \in Readers, ReaderInv(r), ReadPage(r), SameTables
    PROVE  ReaderInv(r)'
  <1>0. PICK list \in Listings(ask[r]) : rows' = [rows EXCEPT ![r] = Page(list, Offset(r))]
    BY DEF ReadPage
  <1>1. /\ rpc[r] = "page" /\ rpc'[r] = "count" /\ ask'[r] = ask[r]
        /\ shown' = [shown EXCEPT ![r] = @ \cup ToSet(rows'[r])]
        /\ UNCHANGED <<ask, page, total, todo, sums, atStart, moved, low, high, hit>>
    BY DEF ReadPage, Step, TypeOK
  <1>2. ask[r] \in Queries /\ ask[r] # Stats
    BY <1>1, QueriesAreNotStats DEF ReaderInv, Asked
  <1>3. Asked(r)'
    BY <1>1, <1>2 DEF ReaderInv, Asked, CountingTenants, CountingRows
  <1> SUFFICES ASSUME NEW q \in Queries, ask[r] = q, ~q.activeOnly, r \notin hit
               PROVE  Paged(r, q)'
    BY <1>1, <1>2, <1>3 DEF ReaderInv
  <1> DEFINE p == Page(list, Offset(r))
             n == Offset(r) + Limit
  <1>4. list \in Seq(RowIds) /\ Len(list) \in Nat /\ Len(list) = Size(q)
    BY <1>0, ListingIsSeq, ListingFacts DEF ListingsAreSeqs
  <1>5. Offset(r) \in Nat /\ Offset(r)' = Offset(r) /\ Limit \in Nat
    BY <1>1, OffsetIsNat, TypeParts, TenantReportsAssumption DEF Offset
  <1>6. /\ p \in Seq(RowIds)
        /\ p # <<>> => Offset(r) + Len(p) <= Len(list)
        /\ \A i \in 1..Len(list) : Offset(r) < i /\ i <= n => list[i] \in ToSet(p)
    BY <1>4, <1>5, PageRows
  <1>7. rows'[r] = p /\ shown'[r] = shown[r] \cup ToSet(p)
    BY <1>0, <1>1 DEF TypeOK
  <1> HIDE DEF p
  <1>8. Paged(r, q)
    BY <1>1 DEF ReaderInv
  <1>9. ASSUME Steady(r, q), NEW x \in atStart[r] \ shown[r], x \notin ToSet(p)
        PROVE  Further(q, x, n)
    <2>1. /\ Further(q, x, Offset(r))
          /\ q.of = "units" => ~Tied(q.tenant)
      BY <1>1, <1>8, <1>9 DEF Paged, Behind
    <2>2. \A k \in Nat : Further(q, x, k) => \E i \in 1..Len(list) : k < i /\ list[i] = x
      BY <1>0, <2>1, FurtherListed
    <2>3. PICK i \in 1..Len(list) : Offset(r) < i /\ list[i] = x
      BY <1>5, <2>1, <2>2
    <2>4. n < i
      BY <1>4, <1>5, <1>6, <1>9, <2>3
    <2>5. CASE q.of = "units"
      <3>1. Cardinality(Upto(q.tenant, x)) = i
        BY <1>0, <2>1, <2>3, <2>5, UnitPlace
      <3> QED
        BY <2>1, <2>4, <2>5, <3>1 DEF Further
    <2>6. CASE q.of # "units"
      <3>1. list = Listed(q)
        BY <1>0, <2>6 DEF Listings
      <3> QED
        BY <2>3, <2>4, <2>6, <3>1 DEF Further
    <2> QED
      BY <2>5, <2>6
  <1>10. Behind(r, q, Offset(r) + Limit)'
    <2>1. Steady(r, q)' => Steady(r, q)
      BY <1>1 DEF Steady
    <2>2. \A x : Further(q, x, n) => Further(q, x, n)'
      BY <1>5, SameLists
    <2> QED
      BY <1>1, <1>5, <1>7, <1>9, <2>1, <2>2 DEF Behind
  <1>11. Fits(r, Size(q))'
    BY <1>4, <1>5, <1>6, <1>7, SameLists DEF Fits
  <1> QED
    BY <1>1, <1>8, <1>10, <1>11, SameLists DEF Paged, Steady

\* The total, counted later, is of a list that has only grown.
LEMMA CountRowsStep ==
    ASSUME TypeOK, NEW r \in Readers, ReaderInv(r), CountRows(r), SameTables
    PROVE  ReaderInv(r)'
  <1>0. PICK list \in Listings(ask[r]) : total' = [total EXCEPT ![r] = Len(list)]
    BY DEF CountRows
  <1>1. /\ rpc[r] = "count" /\ rpc'[r] = "answered" /\ ask'[r] = ask[r]
        /\ UNCHANGED <<ask, page, rows, todo, sums, shown, atStart, moved, low, high, hit>>
    BY DEF CountRows, Step, TypeOK, history
  <1>2. ask[r] \in Queries /\ ask[r] # Stats
    BY <1>1, QueriesAreNotStats DEF ReaderInv, Asked
  <1>3. Asked(r)'
    <2>1. ask[r] \in Reports
      BY <1>1 DEF ReaderInv, Asked
    <2> QED
      BY <1>1, <1>2, <2>1 DEF ReaderInv, Asked, CountingTenants, CountingRows
  <1> SUFFICES ASSUME NEW q \in Queries, ask[r] = q, ~q.activeOnly, r \notin hit
               PROVE  Paged(r, q)'
    BY <1>1, <1>2, <1>3 DEF ReaderInv
  <1>4. Len(list) \in Nat /\ Len(list) = Size(q)
    BY <1>0, ListingFacts
  <1>5. Offset(r) \in Nat /\ Offset(r)' = Offset(r) /\ Limit \in Nat
    BY <1>1, OffsetIsNat, TypeParts, TenantReportsAssumption DEF Offset
  <1>6. total'[r] = Size(q)
    BY <1>0, <1>4 DEF TypeOK
  <1>7. Paged(r, q) /\ Behind(r, q, Offset(r) + Limit) /\ Fits(r, Size(q))
    BY <1>1 DEF ReaderInv, Paged
  <1>8. Behind(r, q, Offset(r) + Limit)'
    <2>1. Steady(r, q)' => Steady(r, q)
      BY <1>1 DEF Steady
    <2>2. \A x, k : Further(q, x, k) => Further(q, x, k)'
      BY SameLists
    <2> QED
      BY <1>1, <1>5, <1>7, <2>1, <2>2 DEF Behind
  <1>9. Fits(r, total[r])'
    BY <1>1, <1>5, <1>6, <1>7 DEF Fits
  <1>10. ASSUME Steady(r, q), Offset(r) + Limit >= Size(q) PROVE atStart[r] \subseteq shown[r]
    <2> SUFFICES ASSUME NEW x \in atStart[r] \ shown[r] PROVE FALSE
      OBVIOUS
    <2>1. /\ Further(q, x, Offset(r) + Limit)
          /\ q.of = "units" => ~Tied(q.tenant)
      BY <1>1, <1>7, <1>10 DEF Behind, Paged
    <2>2. \A k \in Nat : Further(q, x, k) => \E i \in 1..Len(list) : k < i
      BY <1>0, <2>1, FurtherListed
    <2>3. PICK i \in 1..Len(list) : Offset(r) + Limit < i
      BY <1>5, <2>1, <2>2
    <2> QED
      BY <1>4, <1>5, <1>10, <2>3
  <1> QED
    BY <1>1, <1>5, <1>6, <1>7, <1>8, <1>9, <1>10, SameLists DEF Paged, Steady

\* A list that met an error is vouched for no longer.
LEMMA ListErrorStep ==
    ASSUME TypeOK, NEW r \in Readers, ReaderInv(r), ListError(r)
    PROVE  ReaderInv(r)'
  <1>1. /\ rpc[r] \in {"page", "count"} /\ rpc'[r] \in {"count", "answered"} /\ ask'[r] = ask[r]
        /\ r \in hit'
    BY DEF ListError, Step, TypeOK
  <1>2. ask[r] \in Queries /\ ask[r] # Stats /\ ask[r] \in Reports
    BY <1>1, QueriesAreNotStats DEF ReaderInv, Asked
  <1> QED
    BY <1>1, <1>2 DEF ReaderInv, Asked, CountingTenants, CountingRows

\* The next page begins where the last one ended.
LEMMA NextPageStep ==
    ASSUME TypeOK, NEW r \in Readers, ReaderInv(r), NextPage(r), SameTables
    PROVE  ReaderInv(r)'
  <1>1. /\ rpc[r] = "answered" /\ rpc'[r] = "page" /\ ask'[r] = ask[r]
        /\ page'[r] = page[r] + 1 /\ Offset(r) + Limit < total[r]
        /\ UNCHANGED <<ask, todo, sums, shown, atStart, moved, low, high, hit>>
    BY DEF NextPage, Step, TypeOK, history
  <1>2. Offset(r) \in Nat /\ Limit \in Nat /\ page[r] \in Nat
    BY OffsetIsNat, TypeParts, TenantReportsAssumption DEF TypeOK
  <1>3. ask[r] \in Reports \cap Queries /\ ask[r] # Stats
    <2>1. total[r] # 0
      BY <1>1, <1>2 DEF TypeOK
    <2> QED
      BY <1>1, <2>1, QueriesAreNotStats, TenantReportsAssumption DEF ReaderInv, Asked
  <1>4. Asked(r)'
    BY <1>1, <1>3 DEF Asked, CountingTenants, CountingRows
  <1>5. Offset(r)' = Offset(r) + Limit
    <2>1. \A m, n \in Nat : (m + 1 - 1) * n = (m - 1) * n + n
      OBVIOUS
    <2> QED
      BY <1>1, <1>2, <2>1 DEF Offset
  <1> SUFFICES ASSUME NEW q \in Queries, ask[r] = q, ~q.activeOnly, r \notin hit
               PROVE  Paged(r, q)'
    BY <1>1, <1>3, <1>4 DEF ReaderInv
  <1>6. Paged(r, q) /\ Behind(r, q, Offset(r) + Limit)
    BY <1>1 DEF ReaderInv, Paged
  <1>7. Behind(r, q, Offset(r))'
    <2>1. Steady(r, q)' => Steady(r, q)
      BY <1>1 DEF Steady
    <2>2. \A x, k : Further(q, x, k) => Further(q, x, k)'
      BY SameLists
    <2> QED
      BY <1>1, <1>5, <1>6, <2>1, <2>2 DEF Behind
  <1> QED
    BY <1>1, <1>6, <1>7, SameLists DEF Paged, Steady

\* The statistics: what a step of them does not say of r.
LEMMA CountingStep ==
    ASSUME TypeOK, NEW r \in Readers, ReaderInv(r), ask[r] = Stats, UNCHANGED <<ask, total>>,
           rpc[r] \in CountingTenants \cup CountingRows,
           rpc'[r] \in {"countActive", "list", "projects", "units", "answered", "failed"},
           Counted(r)'
    PROVE  ReaderInv(r)'
  <1>1. Stats \in Reports
    BY DEF ReaderInv, Asked, CountingTenants, CountingRows
  <1>2. Asked(r)'
    BY <1>1 DEF ReaderInv, Asked, CountingTenants, CountingRows
  <1> QED
    BY <1>2, QueriesAreNotStats DEF ReaderInv

\* Between two counts the question is the statistics.
LEMMA StatsAsked ==
    ASSUME NEW r \in Readers, ReaderInv(r), rpc[r] \in CountingTenants \cup CountingRows
    PROVE  ask[r] = Stats /\ Counted(r) /\ Bounded(r)
  BY DEF ReaderInv, Asked, Counted

\* The bounds of r are what the counts are between now, as they were before.
LEMMA BoundedStays ==
    ASSUME NEW r \in Readers, Bounded(r), SameTables, UNCHANGED <<low, high>>
    PROVE  Bounded(r)'
  <1>1. \A c \in Counts, t \in Tenants : Count(c, t)' = Count(c, t)
    BY SameLists
  <1> QED
    BY <1>1 DEF Bounded

\* A count over all tenants lies between the sums of the bounds.
LEMMA CountOverTenants ==
    ASSUME TypeOK, NEW r \in Readers, Bounded(r), NEW c \in Counts, NEW n,
           n = SumFunctionOnSet([t \in Tenants |-> Count(c, t)], Tenants)
    PROVE  SumFunctionOnSet(low[r][c], Tenants) <= n /\ n <= SumFunctionOnSet(high[r][c], Tenants)
  <1> DEFINE f == [t \in Tenants |-> Count(c, t)]
  <1>1. \A t \in Tenants :
           /\ f[t] \in Nat /\ low[r][c][t] \in Nat /\ high[r][c][t] \in Nat
           /\ low[r][c][t] <= f[t] /\ f[t] <= high[r][c][t]
    BY TypesCount DEF TypeOK, CountsOK, Bounded
  <1>2. IsFiniteSet(Tenants)
    BY TenantReportsAssumption
  <1> HIDE DEF f
  <1>3. SumFunctionOnSet(low[r][c], Tenants) <= SumFunctionOnSet(f, Tenants)
    BY <1>1, <1>2, SumLessEqual
  <1>4. SumFunctionOnSet(f, Tenants) <= SumFunctionOnSet(high[r][c], Tenants)
    BY <1>1, <1>2, SumLessEqual
  <1> QED
    BY <1>3, <1>4 DEF f

\* SELECT COUNT(*) FROM tenants.
LEMMA CountTotalStep ==
    ASSUME TypeOK, TenantsDiffer, NEW r \in Readers, ReaderInv(r), CountTotal(r), SameTables
    PROVE  ReaderInv(r)'
  <1>1. /\ rpc[r] = "countTotal" /\ rpc'[r] = "countActive"
        /\ sums' = [sums EXCEPT ![r]["total"] = Len(tenants)]
        /\ UNCHANGED <<ask, total, todo, low, high>>
    BY DEF CountTotal, CountTenants, Step, history, TypeOK
  <1>2. ask[r] = Stats /\ Counted(r) /\ Bounded(r)
    BY <1>1, StatsAsked DEF CountingTenants
  <1>3. Bounded(r)'
    BY <1>1, <1>2, BoundedStays
  <1>4. "total" \in Counts /\ "total" \notin RowCounts
    BY DEF Counts, TenantCounts, RowCounts, Statuses
  <1>5. sums'[r]["total"] = Len(tenants) /\ \A c \in RowCounts : sums'[r][c] = sums[r][c]
    BY <1>1, <1>4 DEF TypeOK, Counts
  <1>6. Within(r, "total", Tenants)'
    <2>1. Len(tenants) = SumFunctionOnSet([t \in Tenants |-> Count("total", t)], Tenants)
      BY TenantSums
    <2>2. /\ SumFunctionOnSet(low[r]["total"], Tenants) <= Len(tenants)
          /\ Len(tenants) <= SumFunctionOnSet(high[r]["total"], Tenants)
      BY <1>2, <1>4, <2>1, CountOverTenants
    <2> QED
      BY <1>1, <1>5, <2>2 DEF Within
  <1>7. Counted(r)'
    BY <1>1, <1>2, <1>3, <1>5, <1>6 DEF Counted, CountingTenants, CountingRows, RowCounts, Statuses
  <1> QED
    BY <1>1, <1>2, <1>7, CountingStep DEF CountingTenants, CountingRows

\* SELECT COUNT(*) FROM tenants WHERE is_active.
LEMMA CountActiveStep ==
    ASSUME TypeOK, TenantsDiffer, NEW r \in Readers, ReaderInv(r), CountActive(r), SameTables
    PROVE  ReaderInv(r)'
  <1>1. /\ rpc[r] = "countActive" /\ rpc'[r] = "list"
        /\ sums' = [sums EXCEPT ![r]["active"] = Cardinality(active)]
        /\ UNCHANGED <<ask, total, todo, low, high>>
    BY DEF CountActive, CountTenants, Step, history, TypeOK
  <1>2. ask[r] = Stats /\ Counted(r) /\ Bounded(r)
    BY <1>1, StatsAsked DEF CountingTenants
  <1>3. Bounded(r)'
    BY <1>1, <1>2, BoundedStays
  <1>4. "active" \in Counts /\ "active" \notin RowCounts
    BY DEF Counts, TenantCounts, RowCounts, Statuses
  <1>5. /\ sums'[r]["active"] = Cardinality(active) /\ sums'[r]["total"] = sums[r]["total"]
        /\ \A c \in RowCounts : sums'[r][c] = sums[r][c]
    BY <1>1, <1>4 DEF TypeOK, Counts, TenantCounts
  <1>6. Within(r, "active", Tenants)'
    <2>1. Cardinality(active) = SumFunctionOnSet([t \in Tenants |-> Count("active", t)], Tenants)
      BY TenantSums
    <2>2. /\ SumFunctionOnSet(low[r]["active"], Tenants) <= Cardinality(active)
          /\ Cardinality(active) <= SumFunctionOnSet(high[r]["active"], Tenants)
      BY <1>2, <1>4, <2>1, CountOverTenants
    <2> QED
      BY <1>1, <1>5, <2>2 DEF Within
  <1>7. Within(r, "total", Tenants)'
    BY <1>1, <1>2, <1>5 DEF Counted, Within
  <1>8. Counted(r)'
    BY <1>1, <1>2, <1>3, <1>5, <1>6, <1>7
       DEF Counted, CountingTenants, CountingRows, RowCounts, Statuses
  <1> QED
    BY <1>1, <1>2, <1>8, CountingStep DEF CountingTenants, CountingRows

\* The tenants that are to be counted are those active now.
LEMMA ListActiveStep ==
    ASSUME TypeOK, NEW r \in Readers, ReaderInv(r), ListActive(r), SameTables
    PROVE  ReaderInv(r)'
  <1>1. PICK seq \in SetToSeqs(active) : todo' = [todo EXCEPT ![r] = seq]
    BY DEF ListActive
  <1>2. /\ rpc[r] = "list" /\ rpc'[r] = "projects"
        /\ UNCHANGED <<ask, total, sums, low, high>>
    BY DEF ListActive, Step, history, TypeOK
  <1>3. ask[r] = Stats /\ Counted(r) /\ Bounded(r)
    BY <1>2, StatsAsked DEF CountingTenants
  <1>4. Bounded(r)'
    BY <1>2, <1>3, BoundedStays
  <1>5. active \in SUBSET Tenants /\ IsFiniteSet(active)
    BY TenantReportsAssumption, FS_Subset DEF TypeOK, ToSet
  <1>6. todo'[r] = seq /\ ToSet(seq) = active /\ \A i, j \in 1..Len(seq) : seq[i] = seq[j] => i = j
    BY <1>1, <1>5, ListedOnce DEF TypeOK
  <1>7. "active" \in Counts
    BY DEF Counts, TenantCounts
  <1>8. \A t \in Tenants : /\ Count("active", t) = IF t \in active THEN 1 ELSE 0
                           /\ low[r]["active"][t] <= Count("active", t)
                           /\ Count("active", t) <= high[r]["active"][t]
                           /\ high[r]["active"][t] <= 1
                           /\ high[r]["active"][t] \in Nat
    BY <1>3, <1>7, TypesCount DEF CountsOK, Bounded, TypeOK
  <1>9. AlwaysActive(r)' \subseteq active /\ active \subseteq OnceActive(r)'
    <2>1. \A t \in Tenants : low[r]["active"][t] = 1 => t \in active
      BY <1>8
    <2>2. \A t \in active : high[r]["active"][t] = 1
      BY <1>5, <1>8
    <2> QED
      BY <1>2, <1>5, <2>1, <2>2 DEF AlwaysActive, OnceActive
  <1>10. \A c \in RowCounts : Within(r, c, {})'
    <2>1. \A c \in RowCounts : sums'[r][c] = 0
      BY <1>2, <1>3 DEF Counted, CountingTenants
    <2>2. \A f : SumFunctionOnSet(f, {}) = 0
      BY SumEmpty
    <2> QED
      BY <2>1, <2>2 DEF Within
  <1>11. Tallied(r, {})'
    BY <1>2, <1>6, <1>9, <1>10 DEF Tallied, RowCounts
  <1>12. Within(r, "total", Tenants)' /\ Within(r, "active", Tenants)'
    BY <1>2, <1>3 DEF Counted, Within
  <1>13. Counted(r)'
    BY <1>2, <1>3, <1>4, <1>11, <1>12 DEF Counted, CountingTenants, CountingRows
  <1> QED
    BY <1>2, <1>3, <1>13, CountingStep DEF CountingTenants, CountingRows

\* The sums with the count of another tenant.
LEMMA AddTenant ==
    ASSUME TypeOK, NEW r \in Readers, Bounded(r), NEW c \in Counts, NEW D \in SUBSET Tenants,
           NEW t \in Tenants \ D, Within(r, c, D), NEW n, n = sums[r][c] + Count(c, t)
    PROVE  /\ SumFunctionOnSet(low[r][c], D \cup {t}) <= n
           /\ n <= SumFunctionOnSet(high[r][c], D \cup {t})
  <1> DEFINE l == low[r][c]
             h == high[r][c]
  <1>1. IsFiniteSet(D) /\ t \notin D
    BY TenantReportsAssumption, FS_Subset
  <1>2. \A s \in Tenants : l[s] \in Nat /\ h[s] \in Nat
    BY DEF TypeOK
  <1>3. l[t] <= Count(c, t) /\ Count(c, t) <= h[t] /\ Count(c, t) \in Nat /\ sums[r][c] \in Nat
    BY TypesCount DEF CountsOK, Bounded, TypeOK
  <1>4. SumFunctionOnSet(l, D) <= sums[r][c] /\ sums[r][c] <= SumFunctionOnSet(h, D)
    BY DEF Within
  <1> HIDE DEF l, h
  <1>5. SumFunctionOnSet(l, D \cup {t}) = SumFunctionOnSet(l, D) + l[t]
    BY <1>1, <1>2, SumAdd
  <1>6. SumFunctionOnSet(h, D \cup {t}) = SumFunctionOnSet(h, D) + h[t]
    BY <1>1, <1>2, SumAdd
  <1>7. SumFunctionOnSet(l, D) \in Nat /\ SumFunctionOnSet(h, D) \in Nat
    BY <1>1, <1>2, SumIsNat
  <1>8. l[t] \in Nat /\ h[t] \in Nat
    BY <1>2
  <1>9. SumFunctionOnSet(l, D \cup {t}) <= n /\ n <= SumFunctionOnSet(h, D \cup {t})
    BY <1>3, <1>4, <1>5, <1>6, <1>7, <1>8
  <1> QED
    BY <1>9 DEF l, h

\* The projects of the first tenant in the list.
LEMMA AddProjectsStep ==
    ASSUME TypeOK, NEW r \in Readers, ReaderInv(r), AddProjects(r), SameTables
    PROVE  ReaderInv(r)'
  <1> DEFINE t == Head(todo[r])
  <1>1. /\ rpc[r] = "projects" /\ rpc'[r] = "units" /\ todo[r] # <<>>
        /\ sums' = [sums EXCEPT ![r]["projects"] = @ + Count("projects", t)]
        /\ UNCHANGED <<ask, total, todo, low, high>>
    BY DEF AddProjects, Step, history, TypeOK
  <1>2. ask[r] = Stats /\ Counted(r) /\ Bounded(r)
    BY <1>1, StatsAsked DEF CountingRows
  <1>3. Bounded(r)'
    BY <1>1, <1>2, BoundedStays
  <1>4. "projects" \in Counts /\ "projects" \in RowCounts
    BY DEF Counts, RowCounts
  <1>5. /\ sums'[r]["projects"] = sums[r]["projects"] + Count("projects", t)
        /\ \A c \in Counts \ {"projects"} : sums'[r][c] = sums[r][c]
    BY <1>1, <1>4 DEF TypeOK
  <1>6. PICK D \in SUBSET Tenants : Tallied(r, D)
    BY <1>1, <1>2 DEF Counted, CountingRows
  <1>7. t \in Tenants \ D
    <2>1. todo[r] \in Seq(Tenants) /\ Len(todo[r]) \in Nat /\ DOMAIN todo[r] = 1..Len(todo[r])
      BY DEF TypeOK
    <2>2. 1 \in DOMAIN todo[r] /\ t = todo[r][1] /\ t \in Tenants
      BY <1>1, <2>1
    <2>3. t \in ToSet(todo[r])
      BY <2>2 DEF ToSet
    <2> QED
      BY <1>6, <2>2, <2>3 DEF Tallied
  <1>8. Within(r, "projects", D)
    BY <1>1, <1>6 DEF Tallied
  <1>9. /\ SumFunctionOnSet(low[r]["projects"], D \cup {t}) <= sums'[r]["projects"]
        /\ sums'[r]["projects"] <= SumFunctionOnSet(high[r]["projects"], D \cup {t})
    <2> HIDE DEF t
    <2> QED
      BY <1>2, <1>4, <1>5, <1>7, <1>8, AddTenant
  <1>10. Within(r, "projects", D \cup {t})'
    BY <1>1, <1>9 DEF Within
  <1>11. \A c \in RowCounts \ {"projects"} : Within(r, c, D)'
    BY <1>1, <1>5, <1>6 DEF Tallied, Within, Counts
  <1>12. AlwaysActive(r)' = AlwaysActive(r) /\ OnceActive(r)' = OnceActive(r)
    BY <1>1 DEF AlwaysActive, OnceActive
  <1>13. Tallied(r, D)'
    BY <1>1, <1>6, <1>10, <1>11, <1>12 DEF Tallied
  <1>14. Within(r, "total", Tenants)' /\ Within(r, "active", Tenants)'
    BY <1>1, <1>2, <1>5 DEF Counted, CountingRows, Within, Counts, TenantCounts
  <1>15. sums'[r]["units"] = sums'[r]["Available"] + sums'[r]["Booked"] + sums'[r]["Sold"]
    BY <1>2, <1>5 DEF Counted, Counts, RowCounts, Statuses
  <1>16. Counted(r)'
    BY <1>1, <1>3, <1>13, <1>14, <1>15 DEF Counted, CountingTenants, CountingRows
  <1> QED
    BY <1>1, <1>2, <1>16, CountingStep DEF CountingTenants, CountingRows

\* Its units, of every status by the same SELECT.
LEMMA AddUnitsStep ==
    ASSUME TypeOK, NEW r \in Readers, ReaderInv(r), AddUnits(r), SameTables
    PROVE  ReaderInv(r)'
  <1>a. PICK t : t = Head(todo[r])
    OBVIOUS
  <1>b. PICK rest : rest = Tail(todo[r])
    OBVIOUS
  <1>1. /\ rpc[r] = "units" /\ rpc'[r] = "projects"
        /\ sums' = [sums EXCEPT ![r] = [c \in Counts |->
                       IF c \in Statuses \cup {"units"} THEN sums[r][c] + Count(c, t)
                       ELSE sums[r][c]]]
        /\ todo' = [todo EXCEPT ![r] = rest]
        /\ UNCHANGED <<ask, total, low, high>>
    BY <1>a, <1>b DEF AddUnits, Step, history, TypeOK
  <1>2. ask[r] = Stats /\ Counted(r) /\ Bounded(r)
    BY <1>1, StatsAsked DEF CountingRows
  <1>3. Bounded(r)'
    BY <1>1, <1>2, BoundedStays
  <1>4. PICK D \in SUBSET Tenants : Tallied(r, D)
    BY <1>1, <1>2 DEF Counted, CountingRows
  <1>5. /\ \A c \in Statuses \cup {"units"} : sums'[r][c] = sums[r][c] + Count(c, t)
        /\ \A c \in Counts \ (Statuses \cup {"units"}) : sums'[r][c] = sums[r][c]
    BY <1>1 DEF TypeOK, Counts, RowCounts
  <1>6. /\ todo[r] \in Seq(Tenants) /\ todo[r] # <<>> /\ todo'[r] = rest
    BY <1>1, <1>4 DEF TypeOK, Tallied
  <1>7. /\ t \in Tenants /\ t = todo[r][1] /\ rest \in Seq(Tenants) /\ Len(rest) \in Nat
        /\ Len(rest) = Len(todo[r]) - 1 /\ Len(todo[r]) \in Nat /\ Len(todo[r]) >= 1
        /\ \A i \in 1..Len(rest) : rest[i] = todo[r][i + 1]
    BY <1>a, <1>b, <1>6, HeadTailProperties
  <1>8. ToSet(todo[r]) = {t} \cup ToSet(rest)
    <2>1. DOMAIN todo[r] = 1..Len(todo[r]) /\ DOMAIN rest = 1..Len(rest)
      BY <1>6, <1>7
    <2>2. \A i \in 1..Len(todo[r]) : i = 1 \/ (i - 1 \in 1..Len(rest) /\ rest[i - 1] = todo[r][i])
      BY <1>7
    <2>3. \A i \in 1..Len(rest) : i + 1 \in 1..Len(todo[r]) /\ rest[i] = todo[r][i + 1]
      BY <1>7
    <2>4. 1 \in 1..Len(todo[r])
      BY <1>7
    <2>5. ToSet(todo[r]) \subseteq {t} \cup ToSet(rest)
      <3> SUFFICES ASSUME NEW i \in 1..Len(todo[r]) PROVE todo[r][i] \in {t} \cup ToSet(rest)
        BY <2>1 DEF ToSet
      <3>1. CASE i = 1
        BY <1>7, <3>1
      <3>2. CASE i # 1
        BY <2>1, <2>2, <3>2 DEF ToSet
      <3> QED
        BY <3>1, <3>2
    <2>6. {t} \cup ToSet(rest) \subseteq ToSet(todo[r])
      BY <1>7, <2>1, <2>3, <2>4 DEF ToSet
    <2> QED
      BY <2>5, <2>6
  <1>9. t \notin D /\ t \notin ToSet(rest)
    <2>1. t \notin D
      BY <1>4, <1>8 DEF Tallied
    <2>2. \A i, j \in 1..Len(todo[r]) : todo[r][i] = todo[r][j] => i = j
      BY <1>4 DEF Tallied
    <2>3. \A i \in 1..Len(rest) : rest[i] # t
      <3> SUFFICES ASSUME NEW i \in 1..Len(rest), rest[i] = t PROVE FALSE
        OBVIOUS
      <3>1. i + 1 \in 1..Len(todo[r]) /\ 1 \in 1..Len(todo[r]) /\ i + 1 # 1
        BY <1>7
      <3> QED
        BY <1>7, <2>2, <3>1
    <2>4. DOMAIN rest = 1..Len(rest)
      BY <1>7
    <2> QED
      BY <2>1, <2>3, <2>4 DEF ToSet
  <1> DEFINE E == D \cup {t}
  <1>10. ASSUME NEW c \in Statuses \cup {"units"} PROVE Within(r, c, E)'
    <2>1. c \in Counts /\ c \in RowCounts /\ c # "projects"
      BY DEF Counts, RowCounts, Statuses
    <2>2. Within(r, c, D) /\ t \in Tenants \ D
      BY <1>4, <1>7, <1>9, <2>1 DEF Tallied
    <2>3. sums'[r][c] = sums[r][c] + Count(c, t)
      BY <1>5
    <2>4. /\ SumFunctionOnSet(low[r][c], E) <= sums'[r][c]
          /\ sums'[r][c] <= SumFunctionOnSet(high[r][c], E)
      BY <1>2, <2>1, <2>2, <2>3, AddTenant
    <2> QED
      BY <1>1, <2>4 DEF Within
  <1>11. Within(r, "projects", E)'
    <2>1. sums'[r]["projects"] = sums[r]["projects"]
      BY <1>5 DEF Counts, RowCounts, Statuses
    <2>2. Within(r, "projects", E)
      BY <1>a, <1>1, <1>4 DEF Tallied
    <2> QED
      BY <1>1, <2>1, <2>2 DEF Within
  <1>12. AlwaysActive(r)' = AlwaysActive(r) /\ OnceActive(r)' = OnceActive(r)
    BY <1>1 DEF AlwaysActive, OnceActive
  <1>13. \A i, j \in 1..Len(rest) : rest[i] = rest[j] => i = j
    <2> SUFFICES ASSUME NEW i \in 1..Len(rest), NEW j \in 1..Len(rest), rest[i] = rest[j]
                 PROVE  i = j
      OBVIOUS
    <2>1. i + 1 \in 1..Len(todo[r]) /\ j + 1 \in 1..Len(todo[r])
      BY <1>7
    <2>2. i + 1 = j + 1
      BY <1>4, <1>7, <2>1 DEF Tallied
    <2> QED
      BY <2>2
  <1>14. Tallied(r, E)'
    <2>1. E \cap ToSet(rest) = {}
      BY <1>4, <1>8, <1>9 DEF Tallied
    <2>2. E \cup ToSet(rest) = D \cup ToSet(todo[r])
      BY <1>8
    <2>3. \A c \in RowCounts \ {"projects"} : Within(r, c, E)'
      BY <1>10 DEF RowCounts
    <2> HIDE DEF E
    <2> QED
      BY <1>1, <1>4, <1>6, <1>11, <1>12, <1>13, <2>1, <2>2, <2>3 DEF Tallied
  <1>15. E \in SUBSET Tenants
    BY <1>7
  <1>16. Within(r, "total", Tenants)' /\ Within(r, "active", Tenants)'
    <2>1. sums'[r]["total"] = sums[r]["total"] /\ sums'[r]["active"] = sums[r]["active"]
      BY <1>5 DEF Counts, TenantCounts, Statuses
    <2> QED
      BY <1>1, <1>2, <2>1 DEF Counted, CountingRows, Within
  <1>17. sums'[r]["units"] = sums'[r]["Available"] + sums'[r]["Booked"] + sums'[r]["Sold"]
    <2>1. /\ sums'[r]["units"] = sums[r]["units"] + Count("units", t)
          /\ sums'[r]["Available"] = sums[r]["Available"] + Count("Available", t)
          /\ sums'[r]["Booked"] = sums[r]["Booked"] + Count("Booked", t)
          /\ sums'[r]["Sold"] = sums[r]["Sold"] + Count("Sold", t)
      BY <1>5 DEF Statuses
    <2>2. Count("units", t) = Count("Available", t) + Count("Booked", t) + Count("Sold", t)
      BY <1>7, TypesCount DEF CountsOK
    <2>3. sums[r]["units"] = sums[r]["Available"] + sums[r]["Booked"] + sums[r]["Sold"]
      BY <1>2 DEF Counted
    <2>4. \A c \in Counts : sums[r][c] \in Nat /\ Count(c, t) \in Nat
      <3>1. \A c \in Counts : sums[r][c] \in Nat
        BY DEF TypeOK
      <3> QED
        BY <1>7, <3>1, TypesCount DEF CountsOK
    <2>5. "units" \in Counts /\ "Available" \in Counts /\ "Booked" \in Counts /\ "Sold" \in Counts
      BY DEF Counts, RowCounts, Statuses
    <2> QED
      BY <2>1, <2>2, <2>3, <2>4, <2>5
  <1>18. Counted(r)'
    <2> HIDE DEF E
    <2> QED
      BY <1>1, <1>3, <1>14, <1>15, <1>16, <1>17 DEF Counted, CountingTenants, CountingRows
  <1> QED
    BY <1>1, <1>2, <1>18, CountingStep DEF CountingTenants, CountingRows

\* The answer has what was counted.
LEMMA SendStatsStep ==
    ASSUME TypeOK, NEW r \in Readers, ReaderInv(r), SendStats(r)
    PROVE  ReaderInv(r)'
  <1>1. /\ rpc[r] = "projects" /\ rpc'[r] = "answered" /\ todo[r] = <<>>
        /\ UNCHANGED <<ask, total, sums, todo, low, high>>
    BY DEF SendStats, Step, history, answers, TypeOK
  <1>2. ask[r] = Stats /\ Counted(r)
    BY <1>1, StatsAsked DEF CountingRows
  <1>3. PICK D \in SUBSET Tenants : Tallied(r, D)
    BY <1>1, <1>2 DEF Counted, CountingRows
  <1>4. Tallied(r, D)'
    BY <1>1, <1>3 DEF Tallied, AlwaysActive, OnceActive, Within
  <1>5. Counted(r)'
    BY <1>1, <1>2, <1>4 DEF Counted, CountingTenants, CountingRows, Within
  <1> QED
    BY <1>1, <1>2, <1>5, CountingStep DEF CountingTenants, CountingRows

\* A statistic that failed says nothing.
LEMMA ReportErrorStep ==
    ASSUME TypeOK, NEW r \in Readers, ReaderInv(r), ReportError(r)
    PROVE  ReaderInv(r)'
  <1>1. rpc[r] # "idle" /\ rpc'[r] = "failed" /\ UNCHANGED <<ask, total, sums>>
    BY DEF ReportError, history, answers, TypeOK
  <1>2. Asked(r)'
    BY <1>1 DEF ReaderInv, Asked, CountingTenants, CountingRows
  <1>3. Paged(r, ask[r])'
    BY <1>1 DEF Paged
  <1>4. ask[r] = Stats => Counted(r)'
    BY <1>1 DEF ReaderInv, Counted, CountingTenants, CountingRows
  <1> QED
    BY <1>1, <1>2, <1>3, <1>4 DEF ReaderInv

--------------------------------------------------------------------------------
\* The invariant holds at the start and every step keeps it.

\* Nobody has asked.
LEMMA InitRInv == Init => RInv
  <1> SUFFICES ASSUME Init PROVE RInv
    OBVIOUS
  <1>1. CatalogTypeOK
    BY InitIInv DEF Init, IInv
  <1>2. TablesOK
    <2>1. tenants \in Seq(Tenants) /\ DOMAIN tenants = 1..Len(tenants)
      BY TenantReportsAssumption DEF Init
    <2>2. active \subseteq ToSet(tenants)
      BY <2>1 DEF Init, ToSet
    <2>3. \A t \in Tenants : UnitsOf(t) \in [UnitIds -> Unit \cup {None}]
      <3>1. \A t \in Tenants, p \in UnitIds : FirstUnits[t][p] \in Numbers \cup {None}
        BY TenantReportsAssumption
      <3>2. \A n \in Numbers : NewUnit(n) \in Unit
        BY DEF NewUnit, Unit, Statuses
      <3> QED
        BY <3>1, <3>2 DEF UnitsOf
    <2>4. units \in [Tenants -> [UnitIds -> Unit \cup {None}]]
      BY <2>3 DEF Init
    <2>5. left \in 0..MaxChanges
      BY TenantReportsAssumption DEF Init
    <2> QED
      BY <2>1, <2>2, <2>4, <2>5 DEF TablesOK
  <1>3. TypeOK
    <2>1. QuestionsOK
      BY DEF Init, QuestionsOK
    <2>2. AnswersOK
      <3>1. Limit \in Nat /\ <<>> \in Seq(RowIds) /\ <<>> \in Seq(Tenants) /\ Len(<<>>) = 0
        BY TenantReportsAssumption
      <3>2. NoSums \in [Counts -> Nat]
        BY DEF NoSums
      <3> QED
        BY <3>1, <3>2 DEF Init, AnswersOK
    <2>3. ShownOK
      BY DEF Init, ShownOK
    <2>4. BoundsOK
      <3>1. NoCounts \in [Counts -> [Tenants -> Nat]]
        BY DEF NoCounts
      <3> QED
        BY <3>1 DEF Init, BoundsOK
    <2> QED
      BY <1>1, <1>2, <2>1, <2>2, <2>3, <2>4, TypeParts
  <1>4. TenantsDiffer
    BY TenantReportsAssumption DEF Init, TenantsDiffer
  <1>5. ASSUME NEW r \in Readers PROVE ReaderInv(r)
    <2>1. /\ rpc[r] = "idle" /\ ask[r] = None /\ page[r] = 1 /\ total[r] = 0 /\ sums[r] = NoSums
      BY <1>5 DEF Init
    <2>2. Asked(r)
      BY <2>1 DEF Asked, CountingTenants, CountingRows
    <2>3. \A q \in Queries : Paged(r, q)
      BY <2>1 DEF Paged
    <2>4. Counted(r)
      <3>1. \A c \in {"units", "Available", "Booked", "Sold"} : sums[r][c] = 0
        BY <2>1 DEF NoSums, Counts, RowCounts, Statuses
      <3> QED
        BY <2>1, <3>1 DEF Counted, CountingTenants, CountingRows
    <2> QED
      BY <2>2, <2>3, <2>4 DEF ReaderInv
  <1> QED
    BY <1>3, <1>4, <1>5 DEF RInv

\* A step of a reader keeps the invariant of all.
LEMMA ReaderStep ==
    ASSUME RInv, NEW r \in Readers, Ask(r) \/ NextPage(r) \/ Report(r), NEW s \in Readers
    PROVE  ReaderInv(s)'
  <1>0. TypeOK /\ TenantsDiffer /\ ReaderInv(r) /\ ReaderInv(s)
    BY DEF RInv
  <1>1. SameTables
    BY <1>0, ReaderTypes
  <1>2. ASSUME s # r PROVE ReaderInv(s)'
    <2>1. SameReader(s)
      BY <1>0, <1>2, OthersStay
    <2> QED
      BY <1>0, <1>1, <2>1, Frame
  <1>3. ReaderInv(r)'
    <2>1. Ask(r) => ReaderInv(r)'
      BY <1>0, <1>1, AskStep
    <2>2. NextPage(r) => ReaderInv(r)'
      BY <1>0, <1>1, NextPageStep
    <2>3. ReadPage(r) => ReaderInv(r)'
      BY <1>0, <1>1, ReadPageStep
    <2>4. CountRows(r) => ReaderInv(r)'
      BY <1>0, <1>1, CountRowsStep
    <2>5. ListError(r) => ReaderInv(r)'
      BY <1>0, ListErrorStep
    <2>6. CountTotal(r) => ReaderInv(r)'
      BY <1>0, <1>1, CountTotalStep
    <2>7. CountActive(r) => ReaderInv(r)'
      BY <1>0, <1>1, CountActiveStep
    <2>8. ListActive(r) => ReaderInv(r)'
      BY <1>0, <1>1, ListActiveStep
    <2>9. AddProjects(r) => ReaderInv(r)'
      BY <1>0, <1>1, AddProjectsStep
    <2>10. AddUnits(r) => ReaderInv(r)'
      BY <1>0, <1>1, AddUnitsStep
    <2>11. SendStats(r) => ReaderInv(r)'
      BY <1>0, SendStatsStep
    <2>12. ReportError(r) => ReaderInv(r)'
      BY <1>0, ReportErrorStep
    <2> QED
      BY <2>1, <2>2, <2>3, <2>4, <2>5, <2>6, <2>7, <2>8, <2>9, <2>10, <2>11, <2>12 DEF Report
  <1> QED
    BY <1>2, <1>3

\* Each step keeps the invariant.
LEMMA NextRInv == IInv /\ IInv' /\ RInv /\ [Next]_vars => RInv'
  <1> SUFFICES ASSUME IInv, IInv', RInv, [Next]_vars PROVE RInv'
    OBVIOUS
  <1>0. TypeOK /\ TenantsDiffer /\ \A r \in Readers : ReaderInv(r)
    BY DEF RInv
  <1>1. TypeOK'
    BY TypeStep
  <1>2. ASSUME NEW r \in Readers, Ask(r) \/ NextPage(r) \/ Report(r) PROVE RInv'
    <2>1. \A s \in Readers : ReaderInv(s)'
      BY <1>2, ReaderStep
    <2>2. SameTables
      BY <1>0, <1>2, ReaderTypes
    <2>3. TenantsDiffer'
      BY <1>0, <2>2 DEF TenantsDiffer, SameTables
    <2> QED
      BY <1>1, <2>1, <2>3 DEF RInv
  <1>3. CASE TableStep
    <2>1. TenantsDiffer' /\ Unmoved /\ OrderKept /\ (Observe \/ (SameTables /\ UNCHANGED <<low, high>>))
      BY <1>0, <1>3, TableTypes
    <2>2. Watched
      BY <1>0, <1>1, <2>1, Observed
    <2>3. TablesGrow
      BY <1>0, NextGrows
    <2>4. \A r \in Readers : ReaderInv(r)'
      BY <1>0, <1>1, <2>1, <2>2, <2>3, TableStepKeeps
    <2> QED
      BY <1>1, <2>1, <2>4 DEF RInv
  <1> QED
    BY <1>2, <1>3 DEF Next, TableStep, Quiet

\* No step breaks the invariant, whichever reader, request or tenant takes it.
THEOREM ReportsInductive == Spec => [](IInv /\ RInv)
  <1>1. Init => IInv
    BY InitIInv DEF Init
  <1>2. IInv /\ RInv /\ [Next]_vars => IInv'
    BY StepsAreCatalogSteps, NextIInv
  <1> QED
    BY <1>1, <1>2, InitRInv, NextRInv, PTL DEF Spec

--------------------------------------------------------------------------------
\* What follows for those who read.

\* Every variable of the lists and statistics keeps its type, whatever is written
\* between two statements of a reader and whichever of them fails.
THEOREM ReportsTypeCorrect == Spec => []TypeOK
  BY ReportsInductive, PTL DEF RInv

\* The total is no less than the last row of its page, for every limit, page and list.
THEOREM TotalCoversHolds == Spec => []TotalCovers
  <1>1. RInv => TotalCovers
    <2> SUFFICES ASSUME RInv, NEW r \in Readers, Answered(r), rows[r] # <<>>
                 PROVE  Offset(r) + Len(rows[r]) <= total[r]
      BY DEF TotalCovers
    <2>1. ReaderInv(r) /\ ask[r] \in Queries
      BY TenantReportsAssumption DEF RInv, ReaderInv, Asked, Answered
    <2>2. Paged(r, ask[r])
      BY <2>1 DEF ReaderInv, Answered
    <2> QED
      BY <2>2 DEF Paged, Fits, Answered
  <1> QED
    BY <1>1, ReportsInductive, PTL

\* A client that asks page after page up to the total misses no row there was when
\* it began, however many rows are added while it asks and whatever else is written;
\* of units, unless one is given another number or two have one.
THEOREM WalkCompleteHolds == Spec => []WalkComplete
  <1>1. RInv => WalkComplete
    <2> SUFFICES ASSUME RInv, NEW r \in Readers, Answered(r), InOrder(r),
                        Offset(r) + Limit >= total[r]
                 PROVE  atStart[r] \subseteq shown[r]
      BY DEF WalkComplete
    <2>1. ReaderInv(r) /\ ask[r] \in Queries
      BY TenantReportsAssumption DEF RInv, ReaderInv, Asked, Answered
    <2>2. Paged(r, ask[r])
      BY <2>1 DEF ReaderInv, Answered
    <2> QED
      BY <2>2 DEF Paged, Answered, Steady, InOrder
  <1> QED
    BY <1>1, ReportsInductive, PTL

\* The statistics lie between what there was at least and at most, for any tenants,
\* changes and number of readers.
THEOREM StatsJustifiedHolds == Spec => []StatsJustified
  <1>1. RInv => StatsJustified
    <2> SUFFICES
          ASSUME RInv, NEW r \in Readers, rpc[r] = "answered", ask[r] = Stats
          PROVE  /\ \A c \in TenantCounts :
                       sums[r][c] \in SumFunctionOnSet(low[r][c], Tenants)
                                      ..SumFunctionOnSet(high[r][c], Tenants)
                 /\ \A c \in RowCounts :
                       sums[r][c] \in SumFunctionOnSet(low[r][c], AlwaysActive(r))
                                      ..SumFunctionOnSet(high[r][c], OnceActive(r))
                 /\ sums[r]["units"] = sums[r]["Available"] + sums[r]["Booked"] + sums[r]["Sold"]
      BY DEF StatsJustified, AlwaysActive, OnceActive
    <2>1. TypeOK /\ Counted(r)
      BY DEF RInv, ReaderInv
    <2>2. ASSUME NEW c \in Counts, NEW T \in SUBSET Tenants
          PROVE  /\ sums[r][c] \in Nat
                 /\ SumFunctionOnSet(low[r][c], T) \in Nat /\ SumFunctionOnSet(high[r][c], T) \in Nat
      <3>1. sums[r][c] \in Nat /\ \A t \in T : low[r][c][t] \in Nat /\ high[r][c][t] \in Nat
        BY <2>1 DEF TypeOK
      <3>2. IsFiniteSet(T)
        BY TenantReportsAssumption, FS_Subset
      <3> QED
        BY <3>1, <3>2, SumIsNat
    <2>3. ASSUME NEW c \in TenantCounts
          PROVE  sums[r][c] \in SumFunctionOnSet(low[r][c], Tenants)
                                ..SumFunctionOnSet(high[r][c], Tenants)
      <3>1. Within(r, c, Tenants)
        BY <2>1 DEF Counted, TenantCounts
      <3> QED
        BY <2>2, <3>1 DEF Within, Counts
    <2>4. PICK D \in SUBSET Tenants : Tallied(r, D)
      BY <2>1 DEF Counted
    <2>5. AlwaysActive(r) \in SUBSET D /\ D \in SUBSET OnceActive(r) /\ OnceActive(r) \in SUBSET Tenants
      BY <2>4 DEF Tallied, OnceActive, ToSet
    <2>6. ASSUME NEW c \in RowCounts
          PROVE  sums[r][c] \in SumFunctionOnSet(low[r][c], AlwaysActive(r))
                                ..SumFunctionOnSet(high[r][c], OnceActive(r))
      <3>1. Within(r, c, D)
        BY <2>4 DEF Tallied
      <3>2. \A t \in Tenants : low[r][c][t] \in Nat /\ high[r][c][t] \in Nat
        BY <2>1 DEF TypeOK, Counts
      <3>3. IsFiniteSet(D) /\ IsFiniteSet(OnceActive(r))
        BY <2>5, TenantReportsAssumption, FS_Subset
      <3>4. SumFunctionOnSet(low[r][c], AlwaysActive(r)) <= SumFunctionOnSet(low[r][c], D)
        BY <2>5, <3>2, <3>3, SumSubset
      <3>5. SumFunctionOnSet(high[r][c], D) <= SumFunctionOnSet(high[r][c], OnceActive(r))
        BY <2>5, <3>2, <3>3, SumSubset
      <3>6. /\ sums[r][c] \in Nat
            /\ SumFunctionOnSet(low[r][c], AlwaysActive(r)) \in Nat
            /\ SumFunctionOnSet(low[r][c], D) \in Nat
            /\ SumFunctionOnSet(high[r][c], D) \in Nat
            /\ SumFunctionOnSet(high[r][c], OnceActive(r)) \in Nat
        BY <2>2, <2>5 DEF Counts
      <3> QED
        BY <3>1, <3>4, <3>5, <3>6 DEF Within
    <2> QED
      BY <2>1, <2>3, <2>6 DEF Counted
  <1> QED
    BY <1>1, ReportsInductive, PTL
================================================================================
