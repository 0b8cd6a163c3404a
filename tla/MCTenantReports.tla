---------------------------- MODULE MCTenantReports ----------------------------
\* Instances of TenantReports for TLC.
EXTENDS TenantReports, TLC

CONSTANTS n1, n2, planning, completed, t1, t2

RequestSymmetry == Permutations(Requests)

\* One tenant at the start, with two projects and two units, neither of them with the
\* least unit_number; the other comes later.
MCFirst == [c \in Columns |-> CASE c = "name"   -> n1
                                [] c = "status" -> planning
                                [] OTHER        -> TRUE]
MCFounded == [t \in Tenants |-> IF t = t1 THEN <<MCFirst, MCFirst>> ELSE <<>>]
MCFirstUnits ==
    [t \in Tenants |-> [p \in UnitIds |-> IF t = t1 /\ p + 1 \in Numbers THEN p + 1 ELSE None]]
MCFirstTenants == <<t1>>

\* A name alone, and a patch of the other column.
MCBodies == {[Nothing EXCEPT !["name"] = n2]}
MCPatches == {[Nothing EXCEPT !["status"] = completed]}

\* Each list of the first tenant, and the statistics.
MCReports ==
    [of : Lists, tenant : {t1}, activeOnly : {FALSE}]
    \cup [of : {"projects"}, tenant : {t1}, activeOnly : {TRUE}] \cup {Stats}
================================================================================
